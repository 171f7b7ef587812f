------------------------------- MODULE Malloc -------------------------------
(***************************************************************************)
(* The block allocator (threads/malloc.c): malloc, calloc, realloc and     *)
(* free by threads that interleave wherever they hold no descriptor's      *)
(* lock, and between getting a page and using it.                          *)
(*                                                                         *)
(* A page is taken and given back in one step (ImplementsPagePool in       *)
(* PageAlloc).  Of what a block holds the model keeps who wrote it.  Sizes *)
(* are far below 2^32: the calloc that refuses a product too large returns *)
(* before it changes anything.                                             *)
(***************************************************************************)
EXTENDS Kernel, Sequences, FiniteSets

CONSTANTS
  HeapPages,   \* pages 1 to HeapPages of the kernel pool are free at boot
  MinBlock,    \* the smallest block (16)
  ArenaSize,   \* sizeof (struct arena) (12)
  Size,        \* the sizes asked for
  MaxBlocks   \* blocks a thread holds at most

ASSUME MallocAssumption ==
  /\ HeapPages \in Nat
  /\ MinBlock \in Nat \ {0}
  /\ ArenaSize \in Nat
  /\ Size \subseteq Nat
  /\ MaxBlocks \in Nat

HeapPage == 1..HeapPages
Byte == PGSIZE .. (HeapPages + 1) * PGSIZE - 1

(* malloc_init: descriptors for MinBlock, twice that ... below half a page. *)
Desc == {d \in 1..10 : MinBlock * 2 ^ (d - 1) < PGSIZE \div 2}
desc_size(d) == MinBlock * 2 ^ (d - 1)
blocks_per_arena(d) == (PGSIZE - ArenaSize) \div desc_size(d)

VARIABLES
  free_pages,  \* pages of the pool that are free
  arena,       \* the struct arena at the head of a page; NULL for none
  free_list,   \* a descriptor's free blocks, by address
  desc_lock,   \* who holds a descriptor's lock
  blocks,      \* the blocks a thread holds: address and size asked for
  data,        \* who wrote the first bytes of a block last
  mpc,         \* where a thread is
  mreq         \* its request: size, block found, block to be replaced

m_vars == <<free_pages, arena, free_list, desc_lock, blocks, data, mpc, mreq>>

NoBlock == [addr |-> 0, size |-> 0]
NoMreq == [size |-> 0, d |-> 0, addr |-> 0, old |-> NoBlock]
MGoto(t, l) == mpc' = [mpc EXCEPT ![t] = l]

block_to_arena(b) == pg_no(b)
arena_to_block(a, d, idx) == a * PGSIZE + ArenaSize + idx * desc_size(d)
ArenaBlocks(a, d) == [i \in 1..blocks_per_arena(d) |-> arena_to_block(a, d, i - 1)]

(* The descriptor for a size, 0 if it is too big for any. *)
DescFor(size) ==
  LET fit == {d \in Desc : desc_size(d) >= size}
  IN  IF fit = {} THEN 0 ELSE CHOOSE d \in fit : \A e \in fit : d <= e

(* palloc_get_multiple's first fit. *)
Fitting(cnt) == {p \in HeapPage : Group(p, cnt) \subseteq free_pages}
FirstPage(cnt) == CHOOSE p \in Fitting(cnt) : \A q \in Fitting(cnt) : p <= q
Fill(pages, value) == [b \in Byte |-> IF pg_no(b) \in pages THEN value ELSE data[b]]
-----------------------------------------------------------------------------
(* block_size: the bytes there are for a block. *)
block_size(b) ==
  LET a == arena[block_to_arena(b)]
  IN  IF a.desc # 0 THEN desc_size(a.desc) ELSE PGSIZE * a.free_cnt - pg_ofs(b)

(* malloc, or realloc of old if it is a block: a size for which there is a *)
(* descriptor takes its lock ...                                           *)
MallocCall(t, size, old) ==
  /\ mpc[t] = "idle"
  /\ size > 0
  /\ old = NoBlock => Cardinality(blocks[t]) < MaxBlocks
  /\ mreq' = [mreq EXCEPT ![t] = [NoMreq EXCEPT !.size = size, !.d = DescFor(size), !.old = old]]
  /\ MGoto(t, IF DescFor(size) = 0 THEN "big" ELSE "lock")
  /\ UNCHANGED <<free_pages, arena, free_list, desc_lock, blocks, data>>

MallocLock(t) ==
  /\ mpc[t] = "lock"
  /\ desc_lock[mreq[t].d] = NULL
  /\ desc_lock' = [desc_lock EXCEPT ![mreq[t].d] = t]
  /\ MGoto(t, IF free_list[mreq[t].d] = <<>> THEN "page" ELSE "take")
  /\ UNCHANGED <<free_pages, arena, free_list, blocks, data, mreq>>

(* ... an empty free list gets a new arena, or the call fails ... *)
NewArena(t, free_cnt) ==
  LET d == mreq[t].d
      p == FirstPage(1)
  IN  /\ mpc[t] = "page"
      /\ IF Fitting(1) = {}
         THEN /\ desc_lock' = [desc_lock EXCEPT ![d] = NULL]
              /\ mreq' = [mreq EXCEPT ![t] = NoMreq]
              /\ MGoto(t, "idle")
              /\ UNCHANGED <<free_pages, arena, free_list>>
         ELSE /\ free_pages' = free_pages \ {p}
              /\ arena' = [arena EXCEPT ![p] = [desc |-> d, free_cnt |-> free_cnt]]
              /\ free_list' = [free_list EXCEPT ![d] = @ \o ArenaBlocks(p, d)]
              /\ MGoto(t, "take")
              /\ UNCHANGED <<desc_lock, mreq>>
      /\ UNCHANGED <<blocks, data>>

(* Mutant: a new arena's free_cnt starts one too low. *)
MallocPageMiscounted(t) == NewArena(t, blocks_per_arena(mreq[t].d) - 1)

MallocPage(t) == NewArena(t, blocks_per_arena(mreq[t].d))

(* ... and its first block is the caller's. *)
MallocTake(t) ==
  LET d == mreq[t].d
      b == Head(free_list[d])
  IN  /\ mpc[t] = "take"
      /\ free_list' = [free_list EXCEPT ![d] = Tail(@)]
      /\ arena' = [arena EXCEPT ![block_to_arena(b)].free_cnt = @ - 1]
      /\ desc_lock' = [desc_lock EXCEPT ![d] = NULL]
      /\ mreq' = [mreq EXCEPT ![t].addr = b]
      /\ MGoto(t, "got")
      /\ UNCHANGED <<free_pages, blocks, data>>

(* A bigger block has pages of its own. *)
MallocBig(t) ==
  LET cnt == DIV_ROUND_UP(mreq[t].size + ArenaSize, PGSIZE)
      p == FirstPage(cnt)
  IN  /\ mpc[t] = "big"
      /\ IF Fitting(cnt) = {}
         THEN /\ mreq' = [mreq EXCEPT ![t] = NoMreq]
              /\ MGoto(t, "idle")
              /\ UNCHANGED <<free_pages, arena>>
         ELSE /\ free_pages' = free_pages \ Group(p, cnt)
              /\ arena' = [arena EXCEPT ![p] = [desc |-> 0, free_cnt |-> cnt]]
              /\ mreq' = [mreq EXCEPT ![t].addr = p * PGSIZE + ArenaSize]
              /\ MGoto(t, "got")
      /\ UNCHANGED <<free_list, desc_lock, blocks, data>>

(* The caller writes the block it got (calloc its zeros); realloc copies   *)
(* as much of the old block as there is room for and frees it.             *)
Obtain(t, min_size) ==
  LET r == mreq[t]
  IN  /\ mpc[t] = "got"
      /\ data' = [data EXCEPT ![r.addr] = IF r.old = NoBlock THEN t
                                          ELSE IF min_size > 0 THEN data[r.old.addr] ELSE @]
      /\ blocks' = [blocks EXCEPT ![t] = @ \cup {[addr |-> r.addr, size |-> r.size]}]
      /\ IF r.old = NoBlock
         THEN mreq' = [mreq EXCEPT ![t] = NoMreq] /\ MGoto(t, "idle")
         ELSE mreq' = [mreq EXCEPT ![t].addr = r.old.addr] /\ MGoto(t, "free")
      /\ UNCHANGED <<free_pages, arena, free_list, desc_lock>>

(* Mutant: realloc does not copy. *)
GotUncopied(t) == Obtain(t, 0)

MallocGot(t) ==
  Obtain(t, LET r == mreq[t]
            IN  IF r.size < block_size(r.old.addr) THEN r.size ELSE block_size(r.old.addr))
-----------------------------------------------------------------------------
(* free of a block the thread holds (realloc of it to size 0 too) ... *)
FreeCall(t, b) ==
  /\ mpc[t] = "idle"
  /\ b \in blocks[t]
  /\ mreq' = [mreq EXCEPT ![t] = [NoMreq EXCEPT !.addr = b.addr]]
  /\ MGoto(t, "free")
  /\ UNCHANGED <<free_pages, arena, free_list, desc_lock, blocks, data>>

(* ... is filled before the lock is taken; pages of a big block go back at *)
(* once ...                                                                *)
FreeFill(t) ==
  LET b == mreq[t].addr
      a == block_to_arena(b)
      d == arena[a].desc
      pages == Group(a, arena[a].free_cnt)
  IN  /\ mpc[t] = "free"
      /\ blocks' = [blocks EXCEPT ![t] = {c \in @ : c.addr # b}]
      /\ IF d # 0
         THEN /\ data' = [data EXCEPT ![b] = "junk"]
              /\ mreq' = [mreq EXCEPT ![t].d = d]
              /\ MGoto(t, "free_lock")
              /\ UNCHANGED <<free_pages, arena>>
         ELSE /\ data' = Fill(pages, "junk")
              /\ free_pages' = free_pages \cup pages
              /\ arena' = [arena EXCEPT ![a] = NULL]
              /\ mreq' = [mreq EXCEPT ![t] = NoMreq]
              /\ MGoto(t, "idle")
      /\ UNCHANGED <<free_list, desc_lock>>

FreeLock(t) ==
  /\ mpc[t] = "free_lock"
  /\ desc_lock[mreq[t].d] = NULL
  /\ desc_lock' = [desc_lock EXCEPT ![mreq[t].d] = t]
  /\ MGoto(t, "push")
  /\ UNCHANGED <<free_pages, arena, free_list, blocks, data, mreq>>

(* ... then it heads the free list; an arena with no block in use gives up *)
(* its blocks and its page.                                                *)
Push(t, in_use) ==
  LET b == mreq[t].addr
      d == mreq[t].d
      a == block_to_arena(b)
      empty == arena[a].free_cnt + in_use >= blocks_per_arena(d)
      list == <<b>> \o free_list[d]
  IN  /\ mpc[t] = "push"
      /\ free_list' = [free_list EXCEPT ![d] =
           IF empty THEN SelectSeq(list, LAMBDA c : block_to_arena(c) # a) ELSE list]
      /\ arena' = [arena EXCEPT ![a] = IF empty THEN NULL
                                      ELSE [@ EXCEPT !.free_cnt = @ + 1]]
      /\ data' = IF empty THEN Fill({a}, "junk") ELSE [data EXCEPT ![b] = "junk"]
      /\ free_pages' = IF empty THEN free_pages \cup {a} ELSE free_pages
      /\ desc_lock' = [desc_lock EXCEPT ![d] = NULL]
      /\ mreq' = [mreq EXCEPT ![t] = NoMreq]
      /\ MGoto(t, "idle")
      /\ UNCHANGED blocks

(* Mutant: the arena goes back with one block of it in use. *)
FreePushEarly(t) == Push(t, 2)

FreePush(t) == Push(t, 1)
-----------------------------------------------------------------------------
MallocInit ==
  /\ free_pages = HeapPage
  /\ arena = [p \in HeapPage |-> NULL]
  /\ free_list = [d \in Desc |-> <<>>]
  /\ desc_lock = [d \in Desc |-> NULL]
  /\ blocks = [t \in Thread |-> {}]
  /\ data = [b \in Byte |-> "junk"]
  /\ mpc = [t \in Thread |-> "idle"]
  /\ mreq = [t \in Thread |-> NoMreq]

MallocNext ==
  \E t \in Thread :
    \/ \E size \in Size, old \in blocks[t] \cup {NoBlock} : MallocCall(t, size, old)
    \/ MallocLock(t) \/ MallocPage(t) \/ MallocTake(t) \/ MallocBig(t) \/ MallocGot(t)
    \/ \E b \in blocks[t] : FreeCall(t, b)
    \/ FreeFill(t) \/ FreeLock(t) \/ FreePush(t)

MallocSpec == MallocInit /\ [][MallocNext]_m_vars
-----------------------------------------------------------------------------
(* The blocks threads hold, or have been found. *)
Held ==
  (UNION {blocks[t] : t \in Thread})
    \cup {[addr |-> mreq[t].addr, size |-> mreq[t].size] : t \in {u \in Thread : mpc[u] = "got"}}

(* No two blocks share a byte, and none lies over an arena's header or     *)
(* outside the pages that are in use: malloc returns at least as many      *)
(* bytes as it was asked for.                                              *)
BlocksDisjoint ==
  \A b \in Held :
    LET bytes == Group(b.addr, b.size)
    IN  /\ \A c \in Held \ {b} : bytes \cap Group(c.addr, c.size) = {}
        /\ \A x \in bytes : /\ pg_no(x) \in HeapPage \ free_pages
                            /\ arena[pg_no(x)] # NULL => pg_ofs(x) >= ArenaSize

(* What a thread wrote into a block stays there until it frees the block,  *)
(* realloc's moves included.                                               *)
DataKept == \A t \in Thread : \A b \in blocks[t] :
  mpc[t] # "free" \/ mreq[t].addr # b.addr => data[b.addr] = t

(* While nobody is inside the allocator, an arena's free_cnt is the number *)
(* of its blocks on the free list, some block of it is in use, and every   *)
(* page in use is an arena's or a big block's: nothing leaks.              *)
ArenasExact ==
  (\A t \in Thread : mpc[t] = "idle") =>
    /\ \A p \in HeapPage : arena[p] # NULL /\ arena[p].desc # 0 =>
         LET d == arena[p].desc
             free == {i \in DOMAIN free_list[d] : block_to_arena(free_list[d][i]) = p}
         IN  /\ arena[p].free_cnt = Cardinality(free)
             /\ Cardinality(free) + Cardinality({b \in Held : block_to_arena(b.addr) = p})
                  = blocks_per_arena(d)
             /\ Cardinality(free) < blocks_per_arena(d)
    /\ HeapPage \ free_pages =
         UNION {IF arena[p].desc # 0 THEN {p} ELSE Group(p, arena[p].free_cnt) :
                p \in {q \in HeapPage : arena[q] # NULL}}

(* malloc, realloc and free keep blocks apart, keep their contents, and    *)
(* lose no memory: the three above.                                        *)
HeapSound == BlocksDisjoint /\ DataKept /\ ArenasExact
=============================================================================
