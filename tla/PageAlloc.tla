----------------------------- MODULE PageAlloc -----------------------------
(***************************************************************************)
(* The page allocator (threads/palloc.c) on its bitmaps                    *)
(* (lib/kernel/bitmap.c), one access of a bit at a time.                   *)
(*                                                                         *)
(* palloc_get_multiple scans and marks under the pool's lock;              *)
(* palloc_free_multiple takes no lock, so bits are cleared under a scan.   *)
(* A page is its number; a lock is its holder (LockExclusion in Threads).  *)
(* Filling a group of pages is one step: only the group's holder sees it.  *)
(***************************************************************************)
EXTENDS Kernel, FiniteSets

CONSTANTS
  FreePages,      \* pages between 1 MB and the end of memory
  UserPageLimit,  \* the -ul option
  MaxCnt,         \* the most pages asked for at once
  Flags          \* the sets of flags callers give

ASSUME PageAllocAssumption ==
  /\ FreePages \in Nat
  /\ UserPageLimit \in Nat
  /\ MaxCnt \in Nat
  /\ Flags \subseteq SUBSET {"PAL_ASSERT", "PAL_ZERO", "PAL_USER"}

Min2(a, b) == IF a < b THEN a ELSE b

(* struct bitmap and its bits, 32 to an element. *)
bitmap_buf_size(bit_cnt) == 8 + 4 * DIV_ROUND_UP(bit_cnt, 32)

(* init_pool: the pool's own bitmap takes its first pages. *)
init_pool(base, page_cnt) ==
  LET bm_pages == DIV_ROUND_UP(bitmap_buf_size(page_cnt), PGSIZE)
  IN  [base |-> base + bm_pages, cnt |-> page_cnt - bm_pages]

(* palloc_init: half of memory each, less for users if they are limited. *)
UserPages == Min2(FreePages \div 2, UserPageLimit)
KernelPages == FreePages - UserPages
kernel_pool == init_pool(0, KernelPages)
user_pool == init_pool(KernelPages, UserPages)

Pools == {kernel_pool, user_pool}
Pages(pool) == Group(pool.base, pool.cnt)
Page == UNION {Pages(pool) : pool \in Pools}

(* There is room for the bitmaps, or init_pool stops the kernel. *)
ASSUME PoolsFit == \A pool \in Pools : pool.cnt >= 0

page_from_pool(pool, page) == page >= pool.base /\ page < pool.base + pool.cnt

VARIABLES
  used_map,  \* the pages whose bit is set
  pool_lock,      \* who holds a pool's lock
  pa_pc,        \* where a thread is
  pa_req,       \* what it is asking for or giving back
  held,      \* the groups it holds
  filled,    \* what a page was last filled with
  panicked

pa_vars == <<used_map, pool_lock, pa_pc, pa_req, held, filled, panicked>>

NoReq == [pool |-> kernel_pool, flags |-> {}, cnt |-> 0, i |-> 0, j |-> 0, had |-> FALSE]
PaGoto(t, l) == pa_pc' = [pa_pc EXCEPT ![t] = l]
PaAt(t, l) == ~panicked /\ pa_pc[t] = l

(* Is there a group of cnt clear bits? *)
Available(pool, cnt) ==
  \E s \in Pages(pool) : Group(s, cnt) \subseteq Pages(pool) \ used_map
----------------------------------------------------------------------------
(* palloc_get_multiple: no pages, no work ... *)
Get(t, flags, cnt) ==
  LET pool == IF "PAL_USER" \in flags THEN user_pool ELSE kernel_pool
  IN  /\ PaAt(t, "idle")
      /\ cnt > 0
      /\ pa_req' = [pa_req EXCEPT ![t] = [NoReq EXCEPT !.pool = pool, !.flags = flags, !.cnt = cnt]]
      /\ PaGoto(t, "lock")
      /\ UNCHANGED <<used_map, pool_lock, held, filled, panicked>>

(* Mutant: the scan starts without the lock. *)
LockForgotten(t) ==
  /\ PaAt(t, "lock")
  /\ pa_req' = [pa_req EXCEPT ![t].i = pa_req[t].pool.base]
  /\ PaGoto(t, "scan")
  /\ UNCHANGED <<used_map, pool_lock, held, filled, panicked>>

(* ... lock_acquire; had is history: pages enough were free then ... *)
Lock(t) ==
  LET r == pa_req[t]
  IN  /\ PaAt(t, "lock")
      /\ pool_lock[r.pool] = NULL
      /\ pool_lock' = [pool_lock EXCEPT ![r.pool] = t]
      /\ pa_req' = [pa_req EXCEPT ![t].had = Available(r.pool, r.cnt), ![t].i = r.pool.base]
      /\ PaGoto(t, "scan")
      /\ UNCHANGED <<used_map, held, filled, panicked>>

(* ... bitmap_scan and bitmap_contains test bit j of the group at i ... *)
ScanBelow(t, end) ==
  LET r == pa_req[t]
      idx == r.i + r.j
  IN  /\ PaAt(t, "scan")
      /\ IF r.i + r.cnt > end
         THEN PaGoto(t, "fail") /\ UNCHANGED pa_req
         ELSE IF idx \in used_map
         THEN pa_req' = [pa_req EXCEPT ![t].i = @ + 1, ![t].j = 0] /\ UNCHANGED pa_pc
         ELSE IF r.j + 1 < r.cnt
         THEN pa_req' = [pa_req EXCEPT ![t].j = @ + 1] /\ UNCHANGED pa_pc
         ELSE pa_req' = [pa_req EXCEPT ![t].j = 0] /\ PaGoto(t, "mark")
      /\ UNCHANGED <<used_map, pool_lock, held, filled, panicked>>

(* Mutant: the last place a group fits is not looked at. *)
ScanShort(t) == ScanBelow(t, pa_req[t].pool.base + pa_req[t].pool.cnt - 1)

Scan(t) == ScanBelow(t, pa_req[t].pool.base + pa_req[t].pool.cnt)

(* ... bitmap_set_multiple marks them one by one ... *)
MarkTo(t, cnt) ==
  LET r == pa_req[t]
  IN  /\ PaAt(t, "mark")
      /\ used_map' = used_map \cup {r.i + r.j}
      /\ IF r.j + 1 < cnt
         THEN pa_req' = [pa_req EXCEPT ![t].j = @ + 1] /\ UNCHANGED pa_pc
         ELSE UNCHANGED pa_req /\ PaGoto(t, "got")
      /\ UNCHANGED <<pool_lock, held, filled, panicked>>

(* Mutant: the last page of a group is not marked. *)
MarkShort(t) == MarkTo(t, pa_req[t].cnt - 1)

Mark(t) == MarkTo(t, pa_req[t].cnt)

(* ... lock_release, then PAL_ZERO ... *)
Got(t) ==
  LET r == pa_req[t]
  IN  /\ PaAt(t, "got")
      /\ pool_lock' = [pool_lock EXCEPT ![r.pool] = NULL]
      /\ PaGoto(t, "zero")
      /\ UNCHANGED <<used_map, pa_req, held, filled, panicked>>

Zero(t) ==
  LET r == pa_req[t]
      zero == "PAL_ZERO" \in r.flags
  IN  /\ PaAt(t, "zero")
      /\ filled' = [p \in Page |-> IF zero /\ p \in Group(r.i, r.cnt) THEN "zero" ELSE filled[p]]
      /\ held' = [held EXCEPT ![t] = @ \cup {[start |-> r.i, cnt |-> r.cnt, zero |-> zero]}]
      /\ pa_req' = [pa_req EXCEPT ![t] = NoReq]
      /\ PaGoto(t, "idle")
      /\ UNCHANGED <<used_map, pool_lock, panicked>>

(* ... or the lock is released with nothing found; PAL_ASSERT panics. *)
Fail(t) ==
  LET r == pa_req[t]
  IN  /\ PaAt(t, "fail")
      /\ pool_lock' = [pool_lock EXCEPT ![r.pool] = NULL]
      /\ panicked' = ("PAL_ASSERT" \in r.flags)
      /\ pa_req' = [pa_req EXCEPT ![t] = NoReq]
      /\ PaGoto(t, "idle")
      /\ UNCHANGED <<used_map, held, filled>>
----------------------------------------------------------------------------
(* palloc_free_multiple of a group the thread holds: the pool the pages    *)
(* are from, the fill that makes later use show ...                        *)
Free(t, g) ==
  LET pool == IF page_from_pool(kernel_pool, g.start) THEN kernel_pool ELSE user_pool
  IN  /\ PaAt(t, "idle")
      /\ g \in held[t]
      /\ page_from_pool(pool, g.start)
      /\ filled' = [p \in Page |-> IF p \in Group(g.start, g.cnt) THEN "0xcc" ELSE filled[p]]
      /\ held' = [held EXCEPT ![t] = @ \ {g}]
      /\ pa_req' = [pa_req EXCEPT ![t] = [NoReq EXCEPT !.pool = pool, !.cnt = g.cnt, !.i = g.start]]
      /\ PaGoto(t, "check")
      /\ UNCHANGED <<used_map, pool_lock, panicked>>

(* ... ASSERT (bitmap_all ...), again bit by bit ... *)
Check(t) ==
  LET r == pa_req[t]
  IN  /\ PaAt(t, "check")
      /\ panicked' = (r.i + r.j \notin used_map)
      /\ IF r.j + 1 < r.cnt
         THEN pa_req' = [pa_req EXCEPT ![t].j = @ + 1] /\ UNCHANGED pa_pc
         ELSE pa_req' = [pa_req EXCEPT ![t].j = 0] /\ PaGoto(t, "clear")
      /\ UNCHANGED <<used_map, pool_lock, held, filled>>

(* ... and the bits are cleared one by one, without the lock. *)
ClearFilling(t, last) ==
  LET r == pa_req[t]
  IN  /\ PaAt(t, "clear")
      /\ used_map' = used_map \ {r.i + r.j}
      /\ IF r.j + 1 < r.cnt
         THEN pa_req' = [pa_req EXCEPT ![t].j = @ + 1] /\ UNCHANGED <<pa_pc, filled>>
         ELSE pa_req' = [pa_req EXCEPT ![t] = NoReq] /\ PaGoto(t, "idle") /\ filled' = last
      /\ UNCHANGED <<pool_lock, held, panicked>>

(* Mutant: the pages are filled once their bits are clear. *)
ClearThenFill(t) ==
  ClearFilling(t, [p \in Page |-> IF p \in Group(pa_req[t].i, pa_req[t].cnt) THEN "0xcc" ELSE filled[p]])

Clear(t) == ClearFilling(t, filled)
----------------------------------------------------------------------------
PallocInit ==
  /\ used_map = {}
  /\ pool_lock = [pool \in Pools |-> NULL]
  /\ pa_pc = [t \in Thread |-> "idle"]
  /\ pa_req = [t \in Thread |-> NoReq]
  /\ held = [t \in Thread |-> {}]
  /\ filled = [p \in Page |-> "junk"]
  /\ panicked = FALSE

PallocNext ==
  \E t \in Thread :
    \/ \E flags \in Flags, cnt \in 1..MaxCnt : Get(t, flags, cnt)
    \/ Lock(t) \/ Scan(t) \/ Mark(t) \/ Got(t) \/ Zero(t) \/ Fail(t)
    \/ \E g \in held[t] : Free(t, g)
    \/ Check(t) \/ Clear(t)

PallocSpec == PallocInit /\ [][PallocNext]_pa_vars
-----------------------------------------------------------------------------
(* The pages t holds: its groups, the group a scan has just found for it,  *)
(* and what it has not cleared yet of one that it gives back.              *)
Holds(t) ==
  (UNION {Group(g.start, g.cnt) : g \in held[t]})
    \cup LET r == pa_req[t]
         IN  CASE pa_pc[t] \in {"mark", "got", "zero", "check"} -> Group(r.i, r.cnt)
               [] pa_pc[t] = "clear" -> Group(r.i + r.j, r.cnt - r.j)
               [] OTHER -> {}

pools == INSTANCE PagePool WITH Pool <- {Pages(pool) : pool \in Pools},
                                holds <- [t \in Thread |-> Holds(t)]

(* Bit by bit, with frees under the scan, the allocator is one that hands  *)
(* out whole groups of free pages at once: no page is given to two, a      *)
(* group is contiguous and of one pool.                                    *)
ImplementsPagePool == pools!Spec

(* palloc_get_multiple returns NULL only if the pool had no such group     *)
(* when the lock was taken: frees that come under the scan cannot make it  *)
(* miss one.                                                               *)
NullMeansFull == \A t \in Thread : pa_pc[t] = "fail" => ~pa_req[t].had

(* Outside the marking of a group the used map is exactly what is held, so *)
(* nothing leaks and the assertion of palloc_free_multiple holds.          *)
UsedMapExact ==
  LET marking == UNION {Holds(t) : t \in {u \in Thread : pa_pc[u] = "mark"}}
      all == UNION {Holds(t) : t \in Thread}
  IN  used_map \subseteq all /\ all \ marking \subseteq used_map

(* A page asked for with PAL_ZERO stays zero: the fill of a page that      *)
(* another thread gives back never comes after the page has a new holder.  *)
ZeroKept ==
  \A t \in Thread : \A g \in held[t] :
    g.zero => \A p \in Group(g.start, g.cnt) : filled[p] = "zero"

(* The used map tells the truth, to palloc_get_multiple, which fails only  *)
(* when it must, and about what pages hold: the three above.               *)
PoolsExact == NullMeansFull /\ UsedMapExact /\ ZeroKept
=============================================================================
