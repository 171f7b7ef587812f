-------------------------- MODULE PageAllocProofs ---------------------------
(***************************************************************************)
(* The page allocator, bit by bit and with frees under a scan, implements  *)
(* PagePool, and its used map is exact.                                    *)
(***************************************************************************)
EXTENDS PageAlloc, TLAPS

PaPC == {"idle", "lock", "scan", "mark", "got", "zero", "fail", "check", "clear"}
Flag == {"PAL_ASSERT", "PAL_ZERO", "PAL_USER"}

PaType ==
  /\ used_map \subseteq Page
  /\ pool_lock \in [Pools -> Thread \cup {NULL}]
  /\ pa_pc \in [Thread -> PaPC]
  /\ pa_req \in [Thread -> [pool : Pools, flags : SUBSET Flag, cnt : Nat, i : Int, j : Nat,
                            had : BOOLEAN]]
  /\ held \in [Thread -> SUBSET [start : Int, cnt : Nat \ {0}, zero : BOOLEAN]]
  /\ filled \in [Page -> {"junk", "zero", "0xcc"}]
  /\ panicked \in BOOLEAN

(* The pages of the groups t holds, and those of the group it works on:    *)
(* together Holds(t).                                                      *)
Own(t) == UNION {Group(g.start, g.cnt) : g \in held[t]}
Work(t) ==
  LET r == pa_req[t]
  IN  CASE pa_pc[t] \in {"mark", "got", "zero", "check"} -> Group(r.i, r.cnt)
        [] pa_pc[t] = "clear" -> Group(r.i + r.j, r.cnt - r.j)
        [] OTHER -> {}

(* Where the index of a loop is, and that the group found lies in one pool. *)
InBounds(t) ==
  LET r == pa_req[t]
  IN  /\ pa_pc[t] # "idle" => r.cnt > 0 /\ r.j < r.cnt
      /\ pa_pc[t] = "lock" => r.j = 0
      /\ pa_pc[t] = "scan" =>
           r.i >= r.pool.base /\ (r.j > 0 => r.i + r.cnt <= r.pool.base + r.pool.cnt)
      /\ pa_pc[t] \in {"mark", "got", "zero"} => Group(r.i, r.cnt) \subseteq Pages(r.pool)
      /\ pa_pc[t] \in {"check", "clear"} => Group(r.i, r.cnt) \subseteq Page
      /\ \A g \in held[t] : Group(g.start, g.cnt) \subseteq Page

(* Scanning and marking are under the pool's lock. *)
Locked(t) ==
  pa_pc[t] \in {"scan", "mark", "got", "fail"} => pool_lock[pa_req[t].pool] = t

(* No page is in two groups of a thread, or with two threads. *)
OwnApart(t) ==
  /\ \A g, h \in held[t] : g # h => Group(g.start, g.cnt) \cap Group(h.start, h.cnt) = {}
  /\ Own(t) \cap Work(t) = {}
Apart(t, u) == t # u => Holds(t) \cap Holds(u) = {}

(* The bits of what t holds are set, as far as it has come; those it has   *)
(* looked at in a scan are clear.                                          *)
Marked(t) ==
  LET r == pa_req[t]
  IN  /\ Own(t) \subseteq used_map
      /\ pa_pc[t] \in {"got", "zero", "check", "clear"} => Work(t) \subseteq used_map
      /\ pa_pc[t] = "mark" => Group(r.i, r.j) \subseteq used_map
      /\ pa_pc[t] = "scan" => Group(r.i, r.j) \cap used_map = {}

(* The group that was free when the lock was taken is still ahead. *)
Ahead(t) ==
  LET r == pa_req[t]
  IN  /\ pa_pc[t] = "scan" /\ r.had =>
           \E s \in Pages(r.pool) :
             Group(s, r.cnt) \subseteq Pages(r.pool) \ used_map /\ r.i <= s
      /\ pa_pc[t] = "fail" => ~r.had

PaInv ==
  /\ PaType
  /\ \A t \in Thread :
       InBounds(t) /\ Locked(t) /\ OwnApart(t) /\ Marked(t) /\ Ahead(t)
  /\ \A t, u \in Thread : Apart(t, u)
  /\ \A p \in used_map : \E t \in Thread : p \in Holds(t)
  /\ ZeroKept
-----------------------------------------------------------------------------
(* What a thread holds: what it was given, and what it is giving or getting. *)
LEMMA HoldsSplit ==
  ASSUME NEW t \in Thread PROVE Holds(t) = Own(t) \cup Work(t)
  BY Zenon DEF Holds, Own, Work

(* The pools lie apart from each other. *)
LEMMA PoolsApart ==
  /\ \A pool \in Pools : pool.base \in Int /\ pool.cnt \in Nat
  /\ \A a, b \in Pools : a # b => Pages(a) \cap Pages(b) = {}
<1> DEFINE maps(n) == DIV_ROUND_UP(bitmap_buf_size(n), PGSIZE)
<1>1. UserPages \in Nat /\ KernelPages \in Nat
  <2>1. FreePages \in Nat /\ UserPageLimit \in Nat
    BY PageAllocAssumption, Zenon
  <2>2. FreePages \div 2 \in Nat /\ FreePages \div 2 <= FreePages
    BY <2>1
  <2>3. UserPages \in Nat /\ UserPages <= FreePages
    BY <2>1, <2>2 DEF UserPages, Min2
  <2> QED
    BY <2>1, <2>3 DEF KernelPages
<1>2. ASSUME NEW n \in Nat PROVE maps(n) \in Nat
  <2>1. (n + 32 - 1) \div 32 \in Nat
    OBVIOUS
  <2>2. bitmap_buf_size(n) \in Nat
    BY <2>1 DEF bitmap_buf_size, DIV_ROUND_UP
  <2> DEFINE x == bitmap_buf_size(n) + PGSIZE - 1
  <2>3. x \in Nat /\ PGSIZE \in Nat /\ PGSIZE > 0
    BY <2>2, KernelAssumption
  <2> HIDE DEF x
  <2>4. x \div PGSIZE \in Nat
    BY <2>3
  <2> QED
    BY <2>4, Zenon DEF x, DIV_ROUND_UP
<1> HIDE DEF maps
<1>3. /\ kernel_pool = [base |-> 0 + maps(KernelPages), cnt |-> KernelPages - maps(KernelPages)]
      /\ user_pool = [base |-> KernelPages + maps(UserPages),
                      cnt |-> UserPages - maps(UserPages)]
  BY Zenon DEF kernel_pool, user_pool, init_pool, maps
<1>4. maps(KernelPages) \in Nat /\ maps(UserPages) \in Nat
  BY <1>1, <1>2, Zenon
<1>5. kernel_pool.cnt >= 0 /\ user_pool.cnt >= 0
  BY PoolsFit, Zenon DEF Pools
<1>6. /\ kernel_pool.base \in Int /\ user_pool.base \in Int
      /\ kernel_pool.cnt \in Nat /\ user_pool.cnt \in Nat
      /\ kernel_pool.base + kernel_pool.cnt <= user_pool.base
  BY <1>1, <1>3, <1>4, <1>5
<1>7. Pages(kernel_pool) \cap Pages(user_pool) = {}
  BY <1>6 DEF Pages, Group
<1> QED
  BY <1>6, <1>7, Zenon DEF Pools

(* A pool's pages are pages. *)
LEMMA GroupIn ==
  ASSUME NEW pool \in Pools PROVE Pages(pool) \subseteq Page
  BY Zenon DEF Page
-----------------------------------------------------------------------------
(* A step of t alone: what it must leave so for the others.  Bits it sets  *)
(* are its own and in no pool that another scans; bits it clears and pages *)
(* it fills were its own.                                                  *)
Only(t) ==
  \A u \in Thread \ {t} :
    pa_pc'[u] = pa_pc[u] /\ pa_req'[u] = pa_req[u] /\ held'[u] = held[u]

(* A step of one thread leaves the others what they hold. *)
LEMMA OnlyFrame ==
  ASSUME NEW t \in Thread, NEW u \in Thread \ {t}, Only(t)
  PROVE  Own(u)' = Own(u) /\ Work(u)' = Work(u) /\ Holds(u)' = Holds(u)
<1>1. pa_pc'[u] = pa_pc[u] /\ pa_req'[u] = pa_req[u] /\ held'[u] = held[u]
  BY Zenon DEF Only
<1> QED
  BY <1>1, Zenon DEF Own, Work, Holds

(* The invariant after a step of one thread, from what the step does to that thread. *)
LEMMA StepOf ==
  ASSUME PaInv, PaType', NEW t \in Thread, Only(t),
         InBounds(t)', Locked(t)', OwnApart(t)', Marked(t)', Ahead(t)',
         \A pool \in Pools : pool_lock[pool] \in {t, NULL} \/ pool_lock'[pool] = pool_lock[pool],
         \A u \in Thread \ {t} : Holds(t)' \cap Holds(u) = {},
         used_map' \ used_map \subseteq Holds(t)',
         used_map' \cap Holds(t) \subseteq Holds(t)',
         used_map \ used_map' \subseteq Holds(t),
         \A u \in Thread \ {t} : pa_pc[u] = "scan" =>
           (used_map' \ used_map) \cap Pages(pa_req[u].pool) = {},
         \A p \in Page : filled'[p] = filled[p] \/ p \in Holds(t),
         \A g \in held'[t] : g.zero => \A p \in Group(g.start, g.cnt) : filled'[p] = "zero"
  PROVE  PaInv'
<1>a. /\ pa_pc \in [Thread -> PaPC] /\ used_map \subseteq Page
      /\ pa_req \in [Thread -> [pool : Pools, flags : SUBSET Flag, cnt : Nat, i : Int, j : Nat,
                                had : BOOLEAN]]
  BY Zenon DEF PaInv, PaType
<1>1. ASSUME NEW u \in Thread \ {t}
      PROVE  InBounds(u)' /\ Locked(u)' /\ OwnApart(u)' /\ Marked(u)' /\ Ahead(u)'
  <2> DEFINE r == pa_req[u]
  <2>1. pa_pc'[u] = pa_pc[u] /\ pa_req'[u] = r /\ held'[u] = held[u]
    BY Zenon DEF Only
  <2>2. Own(u)' = Own(u) /\ Work(u)' = Work(u) /\ Holds(u)' = Holds(u)
    BY OnlyFrame, Zenon
  <2>3. r.pool \in Pools /\ r.cnt \in Nat /\ r.i \in Int /\ r.j \in Nat
    BY <1>a, Zenon
  <2>4. r.pool.base \in Int /\ r.pool.cnt \in Nat
    BY <2>3, PoolsApart, Zenon
  <2>5. InBounds(u) /\ Locked(u) /\ OwnApart(u) /\ Marked(u) /\ Ahead(u)
    BY Zenon DEF PaInv
  <2> HIDE DEF r
  <2>6. InBounds(u)'
    BY <2>1, <2>5, Zenon DEF InBounds, r
  <2>7. Locked(u)'
    BY <2>1, <2>3, <2>5, KernelAssumption, Zenon DEF Locked, r
  <2>8. OwnApart(u)'
    BY <2>1, <2>2, <2>5, Zenon DEF OwnApart
  <2>9. Own(u) \cap used_map \subseteq used_map' /\ Work(u) \cap used_map \subseteq used_map'
    <3>1. Holds(t) \cap Holds(u) = {}
      BY Zenon DEF PaInv, Apart
    <3> QED
      BY <3>1, HoldsSplit, Zenon
  <2>10. pa_pc[u] = "mark" => Group(r.i, r.j) \subseteq Work(u)
    BY <2>3, <2>5 DEF Work, InBounds, Group, r
  <2>11. pa_pc[u] = "scan" => Group(r.i, r.j) \subseteq Pages(r.pool)
    BY <2>3, <2>4, <2>5 DEF InBounds, Pages, Group, r
  <2>12. Marked(u)'
    <3>1. Own(u)' \subseteq used_map'
      BY <2>2, <2>5, <2>9, Zenon DEF Marked
    <3>2. pa_pc[u] \in {"got", "zero", "check", "clear"} => Work(u)' \subseteq used_map'
      BY <2>2, <2>5, <2>9, Zenon DEF Marked
    <3>3. pa_pc[u] = "mark" => Group(r.i, r.j) \subseteq used_map'
      BY <2>5, <2>9, <2>10, Zenon DEF Marked, r
    <3>4. pa_pc[u] = "scan" => Group(r.i, r.j) \cap used_map' = {}
      <4> SUFFICES ASSUME pa_pc[u] = "scan", NEW p \in Group(r.i, r.j), p \in used_map'
                   PROVE FALSE
        BY Zenon
      <4>1. p \notin used_map
        BY <2>5, Zenon DEF Marked, r
      <4>2. p \in Pages(r.pool)
        BY <2>11, Zenon
      <4> QED
        BY <4>1, <4>2, Zenon DEF r
    <3> QED
      BY <2>1, <3>1, <3>2, <3>3, <3>4, Zenon DEF Marked
  <2>13. Ahead(u)'
    <3>1. ASSUME pa_pc[u] = "scan", r.had
          PROVE  \E s \in Pages(r.pool) :
                   Group(s, r.cnt) \subseteq Pages(r.pool) \ used_map' /\ r.i <= s
      <4>1. PICK s \in Pages(r.pool) :
              Group(s, r.cnt) \subseteq Pages(r.pool) \ used_map /\ r.i <= s
        BY <2>5, <3>1, Zenon DEF Ahead, r
      <4>2. (used_map' \ used_map) \cap Pages(r.pool) = {}
        BY <3>1, Zenon DEF r
      <4>3. Group(s, r.cnt) \subseteq Pages(r.pool) \ used_map'
        BY <4>1, <4>2, Zenon
      <4> QED
        BY <4>1, <4>3, Zenon
    <3>2. pa_pc[u] = "fail" => ~r.had
      BY <2>5, Zenon DEF Ahead, r
    <3> QED
      BY <2>1, <3>1, <3>2, Zenon DEF Ahead
  <2> QED
    BY <2>6, <2>7, <2>8, <2>12, <2>13, Zenon
<1>2. ASSUME NEW u \in Thread, NEW v \in Thread PROVE Apart(u, v)'
  <2>1. ASSUME NEW w \in Thread \ {t} PROVE Holds(w)' = Holds(w)
    BY OnlyFrame, Zenon
  <2>2. CASE u # t /\ v # t
    BY <2>1, <2>2 DEF PaInv, Apart
  <2>3. CASE u = t /\ v # t
    BY <2>1, <2>3, Zenon DEF Apart
  <2>4. CASE u # t /\ v = t
    BY <2>1, <2>4 DEF Apart
  <2> QED
    BY <2>2, <2>3, <2>4, Zenon DEF Apart
<1>3. ASSUME NEW p \in used_map' PROVE \E u \in Thread : p \in Holds(u)'
  <2>1. CASE p \in used_map
    <3>1. PICK u \in Thread : p \in Holds(u)
      BY <2>1, Zenon DEF PaInv
    <3>2. CASE u = t
      BY <3>1, <3>2, Zenon
    <3>3. CASE u # t
      BY <3>1, <3>3, OnlyFrame, Zenon
    <3> QED
      BY <3>2, <3>3, Zenon
  <2>2. CASE p \notin used_map
    BY <2>2, Zenon
  <2> QED
    BY <2>1, <2>2, Zenon
<1>4. ZeroKept'
  <2> SUFFICES ASSUME NEW u \in Thread \ {t}, NEW g \in held[u], g.zero,
                      NEW p \in Group(g.start, g.cnt)
               PROVE  filled'[p] = "zero"
    BY Zenon DEF ZeroKept, Only
  <2>1. filled[p] = "zero" /\ p \in Page
    BY Zenon DEF PaInv, ZeroKept, InBounds
  <2>2. p \in Holds(u)
    BY HoldsSplit DEF Own
  <2>3. p \notin Holds(t)
    BY <2>2, Zenon DEF PaInv, Apart
  <2> QED
    BY <2>1, <2>3, Zenon
<1> QED
  BY <1>1, <1>2, <1>3, <1>4, Zenon DEF PaInv
-----------------------------------------------------------------------------
(* Requests, and what the loops change of them. *)
Req == [pool : Pools, flags : SUBSET Flag, cnt : Nat, i : Int, j : Nat, had : BOOLEAN]
HeldGroup == [start : Int, cnt : Nat \ {0}, zero : BOOLEAN]

(* The fields of a request, *)
LEMMA ReqFacts ==
  ASSUME PaInv, NEW t \in Thread
  PROVE  LET r == pa_req[t]
         IN  /\ r \in Req /\ r.pool \in Pools /\ r.flags \in SUBSET Flag /\ r.cnt \in Nat
             /\ r.i \in Int /\ r.j \in Nat /\ r.had \in BOOLEAN
             /\ r.pool.base \in Int /\ r.pool.cnt \in Nat
<1>1. pa_req[t] \in Req
  BY Zenon DEF PaInv, PaType, Req
<1> QED
  BY <1>1, PoolsApart, Zenon DEF Req

(* of no request, *)
LEMMA NoReqType == NoReq \in Req /\ NoReq.j = 0
<1>1. kernel_pool \in Pools /\ FALSE \in BOOLEAN /\ {} \in SUBSET Flag
  BY Zenon DEF Pools
<1> QED
  BY <1>1 DEF NoReq, Req

(* of a new one, *)
LEMMA ReqNew ==
  ASSUME NEW f \in [Thread -> Req], NEW t \in Thread, NEW q \in Req
  PROVE  LET g == [f EXCEPT ![t] = q]
         IN  g \in [Thread -> Req] /\ g[t] = q /\ \A u \in Thread \ {t} : g[u] = f[u]
  BY Zenon

Asked(pool, flags, cnt) == [NoReq EXCEPT !.pool = pool, !.flags = flags, !.cnt = cnt]
GivenBack(pool, cnt, i) == [NoReq EXCEPT !.pool = pool, !.cnt = cnt, !.i = i]
WithJ(f, t, j) == [f EXCEPT ![t].j = j]
WithIJ(f, t, i, j) == [f EXCEPT ![t].i = i, ![t].j = j]
WithHadI(f, t, had, i) == [f EXCEPT ![t].had = had, ![t].i = i]

(* of one that asks for pages, *)
LEMMA ReqAsked ==
  ASSUME NEW pool \in Pools, NEW flags \in SUBSET Flag, NEW cnt \in Nat
  PROVE  LET g == Asked(pool, flags, cnt) IN g \in Req /\ g.pool = pool /\ g.cnt = cnt /\ g.j = 0
<1>1. ASSUME NEW q \in Req, NEW g,
             g = [q EXCEPT !.pool = pool, !.flags = flags, !.cnt = cnt]
      PROVE  g \in Req /\ g.pool = pool /\ g.cnt = cnt /\ g.j = q.j
  BY <1>1, Zenon DEF Req
<1> DEFINE g == Asked(pool, flags, cnt)
<1>2. g = [NoReq EXCEPT !.pool = pool, !.flags = flags, !.cnt = cnt]
  BY Zenon DEF Asked
<1> HIDE DEF g
<1>3. g \in Req /\ g.pool = pool /\ g.cnt = cnt /\ g.j = NoReq.j
  BY <1>1, <1>2, NoReqType, Zenon
<1> QED
  BY <1>3, NoReqType, Zenon DEF g

(* and of one that gives some back. *)
LEMMA ReqGivenBack ==
  ASSUME NEW pool \in Pools, NEW cnt \in Nat, NEW i \in Int
  PROVE  LET g == GivenBack(pool, cnt, i) IN g \in Req /\ g.cnt = cnt /\ g.i = i /\ g.j = 0
<1>1. ASSUME NEW q \in Req, NEW g, g = [q EXCEPT !.pool = pool, !.cnt = cnt, !.i = i]
      PROVE  g \in Req /\ g.cnt = cnt /\ g.i = i /\ g.j = q.j
  BY <1>1, Zenon DEF Req
<1> DEFINE g == GivenBack(pool, cnt, i)
<1>2. g = [NoReq EXCEPT !.pool = pool, !.cnt = cnt, !.i = i]
  BY Zenon DEF GivenBack
<1> HIDE DEF g
<1>3. g \in Req /\ g.cnt = cnt /\ g.i = i /\ g.j = NoReq.j
  BY <1>1, <1>2, NoReqType, Zenon
<1> QED
  BY <1>3, NoReqType, Zenon DEF g

(* Changing the page that the scan looks at, *)
LEMMA ReqJ ==
  ASSUME NEW f \in [Thread -> Req], NEW t \in Thread, NEW j \in Nat
  PROVE  LET g == WithJ(f, t, j)
         IN  /\ g \in [Thread -> Req] /\ \A u \in Thread \ {t} : g[u] = f[u]
             /\ g[t].pool = f[t].pool /\ g[t].flags = f[t].flags /\ g[t].cnt = f[t].cnt
             /\ g[t].i = f[t].i /\ g[t].j = j /\ g[t].had = f[t].had
  BY Zenon DEF Req, WithJ

(* where it starts as well, *)
LEMMA ReqIJ ==
  ASSUME NEW f \in [Thread -> Req], NEW t \in Thread, NEW i \in Int, NEW j \in Nat
  PROVE  LET g == WithIJ(f, t, i, j)
         IN  /\ g \in [Thread -> Req] /\ \A u \in Thread \ {t} : g[u] = f[u]
             /\ g[t].pool = f[t].pool /\ g[t].cnt = f[t].cnt
             /\ g[t].i = i /\ g[t].j = j /\ g[t].had = f[t].had
  BY Zenon DEF Req, WithIJ

(* or where it found room, leaves the other fields alone. *)
LEMMA ReqHadI ==
  ASSUME NEW f \in [Thread -> Req], NEW t \in Thread, NEW i \in Int, NEW had \in BOOLEAN
  PROVE  LET g == WithHadI(f, t, had, i)
         IN  /\ g \in [Thread -> Req] /\ \A u \in Thread \ {t} : g[u] = f[u]
             /\ g[t].pool = f[t].pool /\ g[t].cnt = f[t].cnt
             /\ g[t].i = i /\ g[t].j = f[t].j /\ g[t].had = had
  BY Zenon DEF Req, WithHadI

(* The types, with the sets named. *)
LEMMA PaTypes ==
  PaType <=> /\ used_map \subseteq Page /\ pool_lock \in [Pools -> Thread \cup {NULL}]
             /\ pa_pc \in [Thread -> PaPC] /\ pa_req \in [Thread -> Req]
             /\ held \in [Thread -> SUBSET HeldGroup]
             /\ filled \in [Page -> {"junk", "zero", "0xcc"}] /\ panicked \in BOOLEAN
  BY Zenon DEF PaType, Req, HeldGroup
-----------------------------------------------------------------------------
(* A step that changes no bit, no page and no holding. *)
LEMMA QuietStep ==
  ASSUME PaInv, NEW t \in Thread, NEW l \in PaPC,
         pa_pc' = [pa_pc EXCEPT ![t] = l],
         pa_req' \in [Thread -> Req], \A u \in Thread \ {t} : pa_req'[u] = pa_req[u],
         pool_lock' \in [Pools -> Thread \cup {NULL}],
         \A pool \in Pools : pool_lock[pool] \in {t, NULL} \/ pool_lock'[pool] = pool_lock[pool],
         UNCHANGED <<used_map, held, filled>>, panicked' \in BOOLEAN,
         InBounds(t)', Locked(t)', Ahead(t)', Work(t)' = Work(t),
         l \in {"got", "zero", "check", "clear"} => Work(t) \subseteq used_map,
         l = "mark" => Group(pa_req'[t].i, pa_req'[t].j) \subseteq used_map,
         l = "scan" => Group(pa_req'[t].i, pa_req'[t].j) \cap used_map = {}
  PROVE  PaInv' /\ \A u \in Thread : Holds(u)' = Holds(u)
<1>1. PaType
  BY Zenon DEF PaInv
<1>2. pa_pc'[t] = l /\ pa_pc' \in [Thread -> PaPC]
  BY <1>1, PaTypes, Zenon
<1>3. PaType'
  BY <1>1, <1>2, PaTypes, Zenon DEF PaType, Req
<1>4. Only(t)
  BY <1>1, PaTypes, Zenon DEF Only
<1>5. Own(t)' = Own(t)
  BY Zenon DEF Own
<1>6. Holds(t)' = Holds(t)
  <2>1. Holds(t)' = (Own(t) \cup Work(t))'
    BY Zenon DEF Holds, Own, Work
  <2> QED
    BY <1>5, <2>1, HoldsSplit, Zenon
<1>7. OwnApart(t)'
  BY <1>5, Zenon DEF PaInv, OwnApart
<1>8. Marked(t)'
  BY <1>2, <1>5, Zenon DEF PaInv, Marked
<1>9. \A u \in Thread \ {t} : Holds(t)' \cap Holds(u) = {}
  BY <1>6, Zenon DEF PaInv, Apart
<1>10. \A g \in held'[t] : g.zero => \A p \in Group(g.start, g.cnt) : filled'[p] = "zero"
  BY Zenon DEF PaInv, ZeroKept
<1>11. PaInv'
  BY <1>3, <1>4, <1>6, <1>7, <1>8, <1>9, <1>10, StepOf, Zenon
<1> QED
  BY <1>4, <1>6, <1>11, OnlyFrame, Zenon

(* palloc_get_multiple begins. *)
LEMMA GetNext ==
  ASSUME PaInv, NEW t \in Thread, NEW flags \in Flags, NEW cnt \in 1..MaxCnt,
         Get(t, flags, cnt)
  PROVE  PaInv' /\ \A u \in Thread : Holds(u)' = Holds(u)
<1> DEFINE pool == IF "PAL_USER" \in flags THEN user_pool ELSE kernel_pool
           q == Asked(pool, flags, cnt)
<1>0. PaType /\ pa_req \in [Thread -> Req] /\ pa_pc \in [Thread -> PaPC]
  BY PaTypes, Zenon DEF PaInv
<1>1. pool \in Pools /\ flags \in SUBSET Flag /\ cnt \in Nat /\ cnt > 0
  BY PageAllocAssumption DEF Pools, Flag
<1>2. /\ pa_req' = [pa_req EXCEPT ![t] = q] /\ pa_pc' = [pa_pc EXCEPT ![t] = "lock"]
      /\ pa_pc[t] = "idle" /\ UNCHANGED <<used_map, pool_lock, held, filled, panicked>>
  BY Zenon DEF Get, PaAt, PaGoto, Asked
<1> HIDE DEF pool
<1>3. q \in Req /\ q.cnt = cnt /\ q.j = 0
  BY <1>1, ReqAsked
<1> HIDE DEF q
<1>4. /\ pa_req' \in [Thread -> Req] /\ pa_req'[t] = q
      /\ \A u \in Thread \ {t} : pa_req'[u] = pa_req[u]
  BY <1>0, <1>2, <1>3, ReqNew, Zenon
<1>5. pa_pc'[t] = "lock"
  BY <1>0, <1>2, Zenon
<1>6. InBounds(t)' /\ Locked(t)' /\ Ahead(t)'
  BY <1>1, <1>2, <1>3, <1>4, <1>5, Zenon DEF PaInv, InBounds, Locked, Ahead
<1>7. Work(t)' = Work(t)
  BY <1>2, <1>5, Zenon DEF Work
<1>8. pool_lock \in [Pools -> Thread \cup {NULL}] /\ panicked \in BOOLEAN /\ "lock" \in PaPC
  BY <1>0, PaTypes, Zenon DEF PaPC
<1> QED
  BY <1>2, <1>4, <1>6, <1>7, <1>8, QuietStep, Zenon

(* lock_acquire on the pool's lock. *)
LEMMA LockNext ==
  ASSUME PaInv, NEW t \in Thread, Lock(t)
  PROVE  PaInv' /\ \A u \in Thread : Holds(u)' = Holds(u)
<1> DEFINE r == pa_req[t]
           had == Available(r.pool, r.cnt)
<1>0. PaType /\ pa_req \in [Thread -> Req] /\ pa_pc \in [Thread -> PaPC]
      /\ pool_lock \in [Pools -> Thread \cup {NULL}] /\ panicked \in BOOLEAN
  BY PaTypes, Zenon DEF PaInv
<1>1. /\ r.pool \in Pools /\ r.cnt \in Nat /\ r.pool.base \in Int /\ r.pool.cnt \in Nat
      /\ r.cnt > 0 /\ r.j = 0
  <2>1. InBounds(t) /\ pa_pc[t] = "lock"
    BY Zenon DEF PaInv, Lock, PaAt
  <2> QED
    BY <2>1, ReqFacts, Zenon DEF InBounds
<1>2. had \in BOOLEAN
  BY Zenon DEF Available
<1>3. /\ pa_req' = WithHadI(pa_req, t, had, r.pool.base)
      /\ pa_pc' = [pa_pc EXCEPT ![t] = "scan"] /\ pa_pc[t] = "lock"
      /\ pool_lock[r.pool] = NULL /\ pool_lock' = [pool_lock EXCEPT ![r.pool] = t]
      /\ UNCHANGED <<used_map, held, filled, panicked>>
  BY Zenon DEF Lock, PaAt, PaGoto, WithHadI
<1>4. /\ pa_req' \in [Thread -> Req]
      /\ pa_req'[t].pool = r.pool /\ pa_req'[t].cnt = r.cnt /\ pa_req'[t].i = r.pool.base
      /\ pa_req'[t].j = 0 /\ pa_req'[t].had = had
      /\ \A u \in Thread \ {t} : pa_req'[u] = pa_req[u]
  <2> HIDE DEF had
  <2> QED
    BY <1>0, <1>1, <1>2, <1>3, ReqHadI
<1>5. pa_pc'[t] = "scan" /\ pool_lock'[r.pool] = t /\ held'[t] = held[t]
  BY <1>0, <1>1, <1>3, Zenon
<1>6. /\ pool_lock' \in [Pools -> Thread \cup {NULL}]
      /\ \A pool \in Pools : pool_lock[pool] \in {t, NULL} \/ pool_lock'[pool] = pool_lock[pool]
  BY <1>0, <1>1, <1>3, Zenon
<1>7. had => \E s \in Pages(r.pool) :
               Group(s, r.cnt) \subseteq Pages(r.pool) \ used_map /\ r.pool.base <= s
  <2>1. \A s \in Pages(r.pool) : r.pool.base <= s
    BY <1>1 DEF Pages, Group
  <2> QED
    BY <2>1, Zenon DEF Available
<1> HIDE DEF had
<1>8. InBounds(t)'
  BY <1>1, <1>4, <1>5 DEF PaInv, InBounds
<1>9. Locked(t)'
  BY <1>4, <1>5, Zenon DEF Locked
<1>10. Ahead(t)'
  BY <1>3, <1>4, <1>5, <1>7, Zenon DEF Ahead
<1>11. Work(t)' = Work(t)
  BY <1>3, <1>5, Zenon DEF Work
<1>12. Group(pa_req'[t].i, pa_req'[t].j) \cap used_map = {}
  BY <1>1, <1>4 DEF Group
<1>13. "scan" \in PaPC
  BY Zenon DEF PaPC
<1> QED
  BY <1>0, <1>3, <1>4, <1>6, <1>8, <1>9, <1>10, <1>11, <1>12, <1>13, QuietStep, Zenon

(* Steps as PagePool sees them. *)
OthersKeep(t) == \A u \in Thread \ {t} : Holds(u)' = Holds(u)
Takes(t) ==
  /\ OthersKeep(t)
  /\ \E pool \in Pools, first, last \in Int :
       /\ first <= last
       /\ first..last \subseteq Pages(pool)
       /\ \A u \in Thread : (first..last) \cap Holds(u) = {}
       /\ Holds(t)' = Holds(t) \cup (first..last)
Drops(t) ==
  /\ OthersKeep(t)
  /\ \E p \in Holds(t) : Holds(t)' = Holds(t) \ {p}

(* A group whose bits a scan found clear belongs to nobody: what others    *)
(* hold is marked, or being marked under the lock of the other pool.       *)
LEMMA FoundFree ==
  ASSUME PaInv, NEW t \in Thread, pa_pc[t] = "scan", NEW g, g \subseteq Pages(pa_req[t].pool),
         g \cap used_map = {}
  PROVE  \A u \in Thread : g \cap Holds(u) = {}
<1> SUFFICES ASSUME NEW u \in Thread PROVE g \cap Holds(u) = {}
  BY Zenon
<1>1. Own(u) \subseteq used_map
  BY Zenon DEF PaInv, Marked
<1>2. g \cap Work(u) = {}
  <2>1. CASE pa_pc[u] \in {"got", "zero", "check", "clear"}
    BY <2>1, Zenon DEF PaInv, Marked
  <2>2. CASE pa_pc[u] = "mark"
    <3>1. pool_lock[pa_req[u].pool] = u /\ pool_lock[pa_req[t].pool] = t /\ u # t
      BY <2>2, Zenon DEF PaInv, Locked
    <3>2. pa_req[u].pool # pa_req[t].pool
      BY <3>1, Zenon
    <3>3. Work(u) \subseteq Pages(pa_req[u].pool)
      BY <2>2, Zenon DEF PaInv, InBounds, Work
    <3>4. Pages(pa_req[u].pool) \cap Pages(pa_req[t].pool) = {}
      BY <3>2, ReqFacts, PoolsApart, Zenon
    <3> QED
      BY <3>3, <3>4, Zenon
  <2>3. CASE pa_pc[u] \notin {"mark", "got", "zero", "check", "clear"}
    BY <2>3, Zenon DEF Work
  <2> QED
    BY <2>1, <2>2, <2>3, Zenon
<1> QED
  BY <1>1, <1>2, HoldsSplit, Zenon

(* bitmap_scan looks at one more page. *)
LEMMA ScanNext ==
  ASSUME PaInv, NEW t \in Thread, Scan(t)
  PROVE  PaInv' /\ ((\A u \in Thread : Holds(u)' = Holds(u)) \/ Takes(t))
<1> DEFINE r == pa_req[t]
           end == r.pool.base + r.pool.cnt
<1>0. PaType /\ pa_req \in [Thread -> Req] /\ pa_pc \in [Thread -> PaPC]
      /\ pool_lock \in [Pools -> Thread \cup {NULL}] /\ panicked \in BOOLEAN
  BY PaTypes, Zenon DEF PaInv
<1>a. pa_pc[t] = "scan"
  BY Zenon DEF Scan, ScanBelow, PaAt
<1>1. /\ r.pool \in Pools /\ r.cnt \in Nat /\ r.i \in Int /\ r.j \in Nat
      /\ r.pool.base \in Int /\ r.pool.cnt \in Nat /\ end \in Int
  BY ReqFacts
<1>2. r.cnt > 0 /\ r.j < r.cnt /\ r.i >= r.pool.base
  BY <1>a, Zenon DEF PaInv, InBounds
<1>3. /\ Own(t) \subseteq used_map /\ Group(r.i, r.j) \cap used_map = {}
      /\ pool_lock[r.pool] = t /\ Work(t) = {}
      /\ \A g \in held[t] : Group(g.start, g.cnt) \subseteq Page
  BY <1>a, Zenon DEF PaInv, Marked, Locked, Work, InBounds
<1>4. UNCHANGED <<used_map, pool_lock, held, filled, panicked>>
  BY Zenon DEF Scan, ScanBelow
<1>5. r.had => \E s \in Pages(r.pool) :
                 Group(s, r.cnt) \subseteq Pages(r.pool) \ used_map /\ r.i <= s
  BY <1>a, Zenon DEF PaInv, Ahead
<1>6. \A pool \in Pools : pool_lock'[pool] = pool_lock[pool]
  BY <1>4, Zenon
<1>7. pa_pc' = pa_pc => pa_pc' = [pa_pc EXCEPT ![t] = "scan"]
  BY <1>0, <1>a, Zenon
<1>8. "scan" \in PaPC /\ "fail" \in PaPC /\ "mark" \in PaPC
  BY Zenon DEF PaPC
<1>c. \/ /\ r.i + r.cnt > end
         /\ pa_pc' = [pa_pc EXCEPT ![t] = "fail"] /\ pa_req' = pa_req
      \/ /\ r.i + r.cnt <= end /\ r.i + r.j \in used_map
         /\ pa_pc' = pa_pc /\ pa_req' = WithIJ(pa_req, t, r.i + 1, 0)
      \/ /\ r.i + r.cnt <= end /\ r.i + r.j \notin used_map /\ r.j + 1 < r.cnt
         /\ pa_pc' = pa_pc /\ pa_req' = WithJ(pa_req, t, r.j + 1)
      \/ /\ r.i + r.cnt <= end /\ r.i + r.j \notin used_map /\ r.j + 1 >= r.cnt
         /\ pa_pc' = [pa_pc EXCEPT ![t] = "mark"] /\ pa_req' = WithJ(pa_req, t, 0)
  <2>1. /\ (r.i + r.cnt > end) <=> ~(r.i + r.cnt <= end)
        /\ (r.j + 1 < r.cnt) <=> ~(r.j + 1 >= r.cnt)
    BY <1>1
  <2> QED
    BY <2>1, Zenon DEF Scan, ScanBelow, PaGoto, WithJ, WithIJ
<1>9. CASE r.i + r.cnt > end /\ pa_pc' = [pa_pc EXCEPT ![t] = "fail"] /\ pa_req' = pa_req
  <2>1. pa_pc'[t] = "fail"
    BY <1>0, <1>9, Zenon
  <2>2. ~r.had
    <3> SUFFICES ASSUME r.had PROVE FALSE
      BY Zenon
    <3>1. PICK s \in Pages(r.pool) :
            Group(s, r.cnt) \subseteq Pages(r.pool) \ used_map /\ r.i <= s
      BY <1>5, Zenon
    <3>2. s \in Int /\ s + r.cnt - 1 \in Group(s, r.cnt)
      BY <1>1, <1>2 DEF Pages, Group
    <3>3. s + r.cnt - 1 \in Pages(r.pool)
      BY <3>1, <3>2, Zenon
    <3> HIDE DEF r
    <3> QED
      BY <1>1, <1>2, <1>9, <3>1, <3>2, <3>3 DEF Pages, Group
  <2>3. InBounds(t)' /\ Locked(t)' /\ Ahead(t)'
    BY <1>2, <1>3, <1>4, <1>9, <2>1, <2>2, Zenon DEF InBounds, Locked, Ahead
  <2>4. Work(t)' = Work(t)
    BY <1>3, <2>1, Zenon DEF Work
  <2> QED
    BY <1>0, <1>4, <1>6, <1>8, <1>9, <2>3, <2>4, QuietStep, Zenon
<1>10. CASE /\ r.i + r.cnt <= end /\ r.i + r.j \in used_map
            /\ pa_pc' = pa_pc /\ pa_req' = WithIJ(pa_req, t, r.i + 1, 0)
  <2>1. /\ pa_req' \in [Thread -> Req] /\ \A u \in Thread \ {t} : pa_req'[u] = pa_req[u]
        /\ pa_req'[t].pool = r.pool /\ pa_req'[t].cnt = r.cnt
        /\ pa_req'[t].i = r.i + 1 /\ pa_req'[t].j = 0 /\ pa_req'[t].had = r.had
    BY <1>0, <1>1, <1>10, ReqIJ
  <2>2. pa_pc'[t] = "scan"
    BY <1>a, <1>10, Zenon
  <2>3. InBounds(t)'
    BY <1>1, <1>2, <1>3, <1>4, <2>1, <2>2 DEF InBounds
  <2>4. Locked(t)'
    BY <1>3, <1>4, <2>1, Zenon DEF Locked
  <2>5. Ahead(t)'
    <3>1. ASSUME r.had PROVE \E s \in Pages(r.pool) :
            Group(s, r.cnt) \subseteq Pages(r.pool) \ used_map /\ r.i + 1 <= s
      <4>1. PICK s \in Pages(r.pool) :
              Group(s, r.cnt) \subseteq Pages(r.pool) \ used_map /\ r.i <= s
        BY <1>5, <3>1, Zenon
      <4>2. s # r.i
        BY <1>1, <1>2, <1>10, <4>1 DEF Group
      <4>3. s \in Int
        BY <1>1 DEF Pages, Group
      <4>4. \A i \in Int : i <= s /\ s # i => i + 1 <= s
        BY <4>3
      <4>5. r.i + 1 <= s
        BY <1>1, <4>1, <4>2, <4>4, Zenon
      <4> QED
        BY <4>1, <4>5, Zenon
    <3> QED
      BY <1>4, <2>1, <2>2, <3>1, Zenon DEF Ahead
  <2>6. Work(t)' = Work(t)
    BY <1>3, <2>2, Zenon DEF Work
  <2>7. Group(pa_req'[t].i, pa_req'[t].j) \cap used_map = {}
    BY <1>1, <2>1 DEF Group
  <2> QED
    BY <1>0, <1>4, <1>6, <1>7, <1>8, <1>10, <2>1, <2>3, <2>4, <2>5, <2>6, <2>7, QuietStep, Zenon
<1>11. CASE /\ r.i + r.cnt <= end /\ r.i + r.j \notin used_map /\ r.j + 1 < r.cnt
            /\ pa_pc' = pa_pc /\ pa_req' = WithJ(pa_req, t, r.j + 1)
  <2>1. /\ pa_req' \in [Thread -> Req] /\ \A u \in Thread \ {t} : pa_req'[u] = pa_req[u]
        /\ pa_req'[t].pool = r.pool /\ pa_req'[t].cnt = r.cnt
        /\ pa_req'[t].i = r.i /\ pa_req'[t].j = r.j + 1 /\ pa_req'[t].had = r.had
    BY <1>0, <1>1, <1>11, ReqJ
  <2>2. pa_pc'[t] = "scan"
    BY <1>a, <1>11, Zenon
  <2>3. InBounds(t)'
    BY <1>1, <1>2, <1>3, <1>4, <1>11, <2>1, <2>2, Zenon DEF InBounds
  <2>4. Locked(t)' /\ Ahead(t)'
    BY <1>3, <1>4, <1>5, <2>1, <2>2, Zenon DEF Locked, Ahead
  <2>5. Work(t)' = Work(t)
    BY <1>3, <2>2, Zenon DEF Work
  <2>6. Group(pa_req'[t].i, pa_req'[t].j) \cap used_map = {}
    <3>1. Group(r.i, r.j + 1) = Group(r.i, r.j) \cup {r.i + r.j}
      BY <1>1 DEF Group
    <3> QED
      BY <1>3, <1>11, <2>1, <3>1, Zenon
  <2> QED
    BY <1>0, <1>4, <1>6, <1>7, <1>8, <1>11, <2>1, <2>3, <2>4, <2>5, <2>6, QuietStep, Zenon
<1>12. CASE /\ r.i + r.cnt <= end /\ r.i + r.j \notin used_map /\ r.j + 1 >= r.cnt
            /\ pa_pc' = [pa_pc EXCEPT ![t] = "mark"] /\ pa_req' = WithJ(pa_req, t, 0)
  <2> DEFINE g == Group(r.i, r.cnt)
  <2>1. /\ pa_req' \in [Thread -> Req] /\ \A u \in Thread \ {t} : pa_req'[u] = pa_req[u]
        /\ pa_req'[t].pool = r.pool /\ pa_req'[t].cnt = r.cnt
        /\ pa_req'[t].i = r.i /\ pa_req'[t].j = 0 /\ pa_req'[t].had = r.had
    BY <1>0, <1>1, <1>12, ReqJ
  <2>2. pa_pc'[t] = "mark" /\ pa_pc' \in [Thread -> PaPC]
    BY <1>0, <1>8, <1>12, Zenon
  <2>3. g \subseteq Pages(r.pool)
    BY <1>1, <1>2, <1>12 DEF Pages, Group
  <2>4. g \cap used_map = {}
    <3>1. g = Group(r.i, r.j) \cup {r.i + r.j}
      BY <1>1, <1>2, <1>12 DEF Group
    <3> QED
      BY <1>3, <1>12, <3>1, Zenon
  <2>5. \A u \in Thread : g \cap Holds(u) = {}
    BY <1>a, <2>3, <2>4, FoundFree, Zenon
  <2>6. Work(t)' = g /\ Own(t)' = Own(t)
    BY <1>4, <2>1, <2>2, Zenon DEF Work, Own
  <2>7. Holds(t)' = Holds(t) \cup g
    <3>1. Holds(t)' = (Own(t) \cup Work(t))'
      BY Zenon DEF Holds, Own, Work
    <3>2. Holds(t) = Own(t)
      BY <1>3, HoldsSplit, Zenon
    <3> QED
      BY <2>6, <3>1, <3>2, Zenon
  <2>8. PaType'
    BY <1>0, <1>4, <2>1, <2>2, PaTypes, Zenon DEF PaType, Req
  <2>9. Only(t)
    BY <1>0, <1>4, <1>12, <2>1, Zenon DEF Only
  <2>10. InBounds(t)'
    BY <1>2, <1>3, <1>4, <2>1, <2>2, <2>3, Zenon DEF InBounds
  <2>11. Locked(t)' /\ Ahead(t)'
    BY <1>3, <1>4, <2>1, <2>2, Zenon DEF Locked, Ahead
  <2>12. OwnApart(t)'
    BY <1>3, <1>4, <2>4, <2>6, Zenon DEF PaInv, OwnApart
  <2>13. Marked(t)'
    <3>1. Group(r.i, 0) = {}
      BY <1>1 DEF Group
    <3> QED
      BY <1>3, <1>4, <2>1, <2>2, <2>6, <3>1, Zenon DEF Marked
  <2>14. \A u \in Thread \ {t} : Holds(t)' \cap Holds(u) = {}
    BY <2>5, <2>7, Zenon DEF PaInv, Apart
  <2>15. \A h \in held'[t] : h.zero => \A p \in Group(h.start, h.cnt) : filled'[p] = "zero"
    BY <1>4, Zenon DEF PaInv, ZeroKept
  <2> HIDE DEF g
  <2>16. PaInv'
    BY <1>4, <2>7, <2>8, <2>9, <2>10, <2>11, <2>12, <2>13, <2>14, <2>15, StepOf, Zenon
  <2>17. Takes(t)
    <3>1. OthersKeep(t)
      BY <2>9, OnlyFrame, Zenon DEF OthersKeep
    <3>2. g = r.i..r.i + r.cnt - 1
      BY Zenon DEF g, Group
    <3>3. r.i \in Int /\ r.i + r.cnt - 1 \in Int /\ r.i <= r.i + r.cnt - 1
      BY <1>1, <1>2
    <3> HIDE DEF r
    <3> QED
      BY <1>1, <2>3, <2>5, <2>7, <3>1, <3>2, <3>3, Zenon DEF Takes
  <2> QED
    BY <2>16, <2>17, Zenon
<1> QED
  BY <1>c, <1>9, <1>10, <1>11, <1>12, Zenon
-----------------------------------------------------------------------------
(* lock_release after a group was found: by its holder. *)
LEMMA GotNext ==
  ASSUME PaInv, NEW t \in Thread, Got(t)
  PROVE  PaInv' /\ \A u \in Thread : Holds(u)' = Holds(u)
<1> DEFINE r == pa_req[t]
<1>0. PaType /\ pa_req \in [Thread -> Req] /\ pa_pc \in [Thread -> PaPC]
      /\ pool_lock \in [Pools -> Thread \cup {NULL}] /\ panicked \in BOOLEAN
  BY PaTypes, Zenon DEF PaInv
<1>1. /\ pa_pc[t] = "got" /\ pa_pc' = [pa_pc EXCEPT ![t] = "zero"]
      /\ pool_lock' = [pool_lock EXCEPT ![r.pool] = NULL]
      /\ UNCHANGED <<used_map, pa_req, held, filled, panicked>>
  BY Zenon DEF Got, PaAt, PaGoto
<1>2. r.pool \in Pools /\ pool_lock[r.pool] = t
  BY <1>1, ReqFacts, Zenon DEF PaInv, Locked
<1>3. /\ pool_lock' \in [Pools -> Thread \cup {NULL}]
      /\ \A pool \in Pools : pool_lock[pool] \in {t, NULL} \/ pool_lock'[pool] = pool_lock[pool]
  BY <1>0, <1>1, <1>2, Zenon
<1>4. pa_pc'[t] = "zero" /\ "zero" \in PaPC
  BY <1>0, <1>1, Zenon DEF PaPC
<1>5. InBounds(t)' /\ Locked(t)' /\ Ahead(t)'
  BY <1>1, <1>4, Zenon DEF PaInv, InBounds, Locked, Ahead
<1>6. Work(t)' = Work(t) /\ Work(t) \subseteq used_map
  BY <1>1, <1>4, Zenon DEF PaInv, Work, Marked
<1> QED
  BY <1>0, <1>1, <1>3, <1>4, <1>5, <1>6, QuietStep, Zenon

(* lock_release with nothing found, and the panic of PAL_ASSERT. *)
LEMMA FailNext ==
  ASSUME PaInv, NEW t \in Thread, Fail(t)
  PROVE  PaInv' /\ \A u \in Thread : Holds(u)' = Holds(u)
<1> DEFINE r == pa_req[t]
<1>0. PaType /\ pa_req \in [Thread -> Req] /\ pa_pc \in [Thread -> PaPC]
      /\ pool_lock \in [Pools -> Thread \cup {NULL}]
  BY PaTypes, Zenon DEF PaInv
<1>1. /\ pa_pc[t] = "fail" /\ pa_pc' = [pa_pc EXCEPT ![t] = "idle"]
      /\ pool_lock' = [pool_lock EXCEPT ![r.pool] = NULL]
      /\ pa_req' = [pa_req EXCEPT ![t] = NoReq]
      /\ UNCHANGED <<used_map, held, filled>>
  BY Zenon DEF Fail, PaAt, PaGoto
<1>2. panicked' \in BOOLEAN
  <2>1. panicked' = ("PAL_ASSERT" \in r.flags)
    BY Zenon DEF Fail
  <2>2. CASE "PAL_ASSERT" \in r.flags
    BY <2>1, <2>2, Zenon
  <2>3. CASE "PAL_ASSERT" \notin r.flags
    BY <2>1, <2>3
  <2> QED
    BY <2>2, <2>3, Zenon
<1>3. r.pool \in Pools /\ pool_lock[r.pool] = t
  BY <1>1, ReqFacts, Zenon DEF PaInv, Locked
<1>4. /\ pool_lock' \in [Pools -> Thread \cup {NULL}]
      /\ \A pool \in Pools : pool_lock[pool] \in {t, NULL} \/ pool_lock'[pool] = pool_lock[pool]
  BY <1>0, <1>1, <1>3, Zenon
<1>5. pa_pc'[t] = "idle" /\ "idle" \in PaPC
  BY <1>0, <1>1, Zenon DEF PaPC
<1>6. pa_req' \in [Thread -> Req] /\ \A u \in Thread \ {t} : pa_req'[u] = pa_req[u]
  BY <1>0, <1>1, NoReqType, ReqNew, Zenon
<1>7. InBounds(t)' /\ Locked(t)' /\ Ahead(t)'
  BY <1>1, <1>5, Zenon DEF PaInv, InBounds, Locked, Ahead
<1>8. Work(t)' = Work(t)
  BY <1>1, <1>5, Zenon DEF Work
<1> QED
  BY <1>1, <1>2, <1>4, <1>5, <1>6, <1>7, <1>8, QuietStep, Zenon

(* The assertion of palloc_free_multiple, a bit further. *)
LEMMA CheckNext ==
  ASSUME PaInv, NEW t \in Thread, Check(t)
  PROVE  PaInv' /\ (\A u \in Thread : Holds(u)' = Holds(u)) /\ panicked' = FALSE
<1> DEFINE r == pa_req[t]
<1>0. PaType /\ pa_req \in [Thread -> Req] /\ pa_pc \in [Thread -> PaPC]
      /\ pool_lock \in [Pools -> Thread \cup {NULL}]
  BY PaTypes, Zenon DEF PaInv
<1>1. /\ pa_pc[t] = "check" /\ UNCHANGED <<used_map, pool_lock, held, filled>>
      /\ panicked' = (r.i + r.j \notin used_map)
  BY Zenon DEF Check, PaAt
<1>2. r.cnt \in Nat /\ r.i \in Int /\ r.j \in Nat /\ r.cnt > 0 /\ r.j < r.cnt
  BY <1>1, ReqFacts, Zenon DEF PaInv, InBounds
<1>3. Work(t) = Group(r.i, r.cnt) /\ Work(t) \subseteq used_map /\ Work(t) \subseteq Page
  BY <1>1, Zenon DEF PaInv, Work, Marked, InBounds
<1>4. r.i + r.j \in Work(t)
  BY <1>2, <1>3 DEF Group
<1>5. panicked' = FALSE
  BY <1>1, <1>3, <1>4, Zenon
<1>6. \/ r.j + 1 < r.cnt /\ pa_req' = WithJ(pa_req, t, r.j + 1) /\ pa_pc' = pa_pc
      \/ pa_req' = WithJ(pa_req, t, 0) /\ pa_pc' = [pa_pc EXCEPT ![t] = "clear"]
  BY Zenon DEF Check, PaGoto, WithJ
<1>7. \A pool \in Pools : pool_lock'[pool] = pool_lock[pool]
  BY <1>1, Zenon
<1>8. "check" \in PaPC /\ "clear" \in PaPC
  BY Zenon DEF PaPC
<1>9. \A g \in held'[t] : Group(g.start, g.cnt) \subseteq Page
  BY <1>1, Zenon DEF PaInv, InBounds
<1>10. CASE r.j + 1 < r.cnt /\ pa_req' = WithJ(pa_req, t, r.j + 1) /\ pa_pc' = pa_pc
  <2>1. /\ pa_req' \in [Thread -> Req] /\ \A u \in Thread \ {t} : pa_req'[u] = pa_req[u]
        /\ pa_req'[t].cnt = r.cnt /\ pa_req'[t].i = r.i /\ pa_req'[t].j = r.j + 1
    BY <1>0, <1>2, <1>10, ReqJ
  <2>2. pa_pc'[t] = "check" /\ pa_pc' = [pa_pc EXCEPT ![t] = "check"]
    BY <1>0, <1>1, <1>10, Zenon
  <2>3. InBounds(t)' /\ Locked(t)' /\ Ahead(t)'
    BY <1>2, <1>3, <1>9, <1>10, <2>1, <2>2, Zenon DEF InBounds, Locked, Ahead
  <2>4. Work(t)' = Work(t)
    BY <1>3, <2>1, <2>2, Zenon DEF Work
  <2> QED
    BY <1>0, <1>1, <1>3, <1>5, <1>7, <1>8, <2>1, <2>2, <2>3, <2>4, QuietStep, Zenon
<1>11. CASE pa_req' = WithJ(pa_req, t, 0) /\ pa_pc' = [pa_pc EXCEPT ![t] = "clear"]
  <2>1. /\ pa_req' \in [Thread -> Req] /\ \A u \in Thread \ {t} : pa_req'[u] = pa_req[u]
        /\ pa_req'[t].cnt = r.cnt /\ pa_req'[t].i = r.i /\ pa_req'[t].j = 0
    BY <1>0, <1>2, <1>11, ReqJ
  <2>2. pa_pc'[t] = "clear"
    BY <1>0, <1>11, Zenon
  <2>3. InBounds(t)' /\ Locked(t)' /\ Ahead(t)'
    BY <1>2, <1>3, <1>9, <2>1, <2>2, Zenon DEF InBounds, Locked, Ahead
  <2>4. Work(t)' = Group(r.i + 0, r.cnt - 0)
    BY <2>1, <2>2, Zenon DEF Work
  <2>5. Work(t)' = Work(t)
    BY <1>2, <1>3, <2>4
  <2> QED
    BY <1>0, <1>1, <1>3, <1>5, <1>7, <1>8, <1>11, <2>1, <2>3, <2>5, QuietStep, Zenon
<1> QED
  BY <1>5, <1>6, <1>10, <1>11, Zenon

(* bitmap_set_multiple, a bit further: the bit is one the scan found for t, *)
(* and nobody else scans this pool.                                        *)
LEMMA MarkNext ==
  ASSUME PaInv, NEW t \in Thread, Mark(t)
  PROVE  PaInv' /\ \A u \in Thread : Holds(u)' = Holds(u)
<1> DEFINE r == pa_req[t]
           p == r.i + r.j
<1>0. PaType /\ pa_req \in [Thread -> Req] /\ pa_pc \in [Thread -> PaPC]
      /\ pool_lock \in [Pools -> Thread \cup {NULL}] /\ panicked \in BOOLEAN
      /\ used_map \subseteq Page
  BY PaTypes, Zenon DEF PaInv
<1>1. /\ pa_pc[t] = "mark" /\ used_map' = used_map \cup {p}
      /\ UNCHANGED <<pool_lock, held, filled, panicked>>
  BY Zenon DEF Mark, MarkTo, PaAt
<1>2. /\ r.pool \in Pools /\ r.cnt \in Nat /\ r.i \in Int /\ r.j \in Nat
      /\ r.cnt > 0 /\ r.j < r.cnt
  BY <1>1, ReqFacts, Zenon DEF PaInv, InBounds
<1>3. Work(t) = Group(r.i, r.cnt) /\ Group(r.i, r.cnt) \subseteq Pages(r.pool)
  BY <1>1, Zenon DEF PaInv, Work, InBounds
<1>4. p \in Work(t) /\ p \in Pages(r.pool) /\ p \in Page
  BY <1>2, <1>3, GroupIn DEF Group
<1>5. \/ r.j + 1 < r.cnt /\ pa_req' = WithJ(pa_req, t, r.j + 1) /\ pa_pc' = pa_pc
      \/ ~(r.j + 1 < r.cnt) /\ pa_req' = pa_req /\ pa_pc' = [pa_pc EXCEPT ![t] = "got"]
  BY Zenon DEF Mark, MarkTo, PaGoto, WithJ
<1>6. Own(t) \subseteq used_map /\ Group(r.i, r.j) \subseteq used_map /\ pool_lock[r.pool] = t
  BY <1>1, Zenon DEF PaInv, Marked, Locked
<1>7. Group(r.i, r.j + 1) = Group(r.i, r.j) \cup {p}
  BY <1>2 DEF Group
<1>8. /\ pa_req' \in [Thread -> Req] /\ \A u \in Thread \ {t} : pa_req'[u] = pa_req[u]
      /\ pa_req'[t].pool = r.pool /\ pa_req'[t].cnt = r.cnt /\ pa_req'[t].i = r.i
      /\ pa_pc' \in [Thread -> PaPC] /\ \A u \in Thread \ {t} : pa_pc'[u] = pa_pc[u]
      /\ \/ pa_pc'[t] = "mark" /\ r.j + 1 < r.cnt /\ pa_req'[t].j = r.j + 1
         \/ pa_pc'[t] = "got" /\ r.j + 1 = r.cnt /\ pa_req'[t].j = r.j
  <2>1. CASE r.j + 1 < r.cnt /\ pa_req' = WithJ(pa_req, t, r.j + 1) /\ pa_pc' = pa_pc
    BY <1>0, <1>1, <1>2, <2>1, ReqJ
  <2>2. CASE ~(r.j + 1 < r.cnt) /\ pa_req' = pa_req /\ pa_pc' = [pa_pc EXCEPT ![t] = "got"]
    <3>1. "got" \in PaPC
      BY Zenon DEF PaPC
    <3>2. r.j + 1 = r.cnt
      BY <1>2, <2>2
    <3> QED
      BY <1>0, <2>2, <3>1, <3>2, Zenon
  <2> QED
    BY <1>5, <2>1, <2>2, Zenon
<1> HIDE DEF p
<1>9. PaType'
  BY <1>0, <1>1, <1>4, <1>8, PaTypes, Zenon DEF PaType, Req
<1>10. Only(t)
  BY <1>1, <1>8, Zenon DEF Only
<1>11. InBounds(t)'
  BY <1>1, <1>2, <1>3, <1>8, Zenon DEF PaInv, InBounds
<1>12. Locked(t)' /\ Ahead(t)'
  BY <1>1, <1>6, <1>8, Zenon DEF Locked, Ahead
<1>13. Own(t)' = Own(t) /\ Work(t)' = Work(t)
  BY <1>1, <1>3, <1>8, Zenon DEF Own, Work
<1>14. OwnApart(t)'
  BY <1>1, <1>13, Zenon DEF PaInv, OwnApart
<1>15. Marked(t)'
  BY <1>1, <1>3, <1>6, <1>7, <1>8, <1>13, Zenon DEF Marked
<1>16. Holds(t)' = Holds(t)
  <2>1. Holds(t)' = (Own(t) \cup Work(t))'
    BY Zenon DEF Holds, Own, Work
  <2> QED
    BY <1>13, <2>1, HoldsSplit, Zenon
<1>17. \A u \in Thread \ {t} : Holds(t)' \cap Holds(u) = {}
  BY <1>16, Zenon DEF PaInv, Apart
<1>18. p \in Holds(t)
  BY <1>4, HoldsSplit, Zenon
<1>19. ASSUME NEW u \in Thread \ {t}, pa_pc[u] = "scan"
       PROVE  (used_map' \ used_map) \cap Pages(pa_req[u].pool) = {}
  <2>1. pool_lock[pa_req[u].pool] = u /\ pa_req[u].pool \in Pools
    BY <1>19, ReqFacts, Zenon DEF PaInv, Locked
  <2>2. Pages(pa_req[u].pool) \cap Pages(r.pool) = {}
    BY <1>2, <1>6, <2>1, PoolsApart, Zenon
  <2> QED
    BY <1>1, <1>4, <2>2, Zenon
<1>20. \A g \in held'[t] : g.zero => \A q \in Group(g.start, g.cnt) : filled'[q] = "zero"
  BY <1>1, Zenon DEF PaInv, ZeroKept
<1>21. PaInv'
  <2>1. /\ used_map' \ used_map \subseteq Holds(t)' /\ used_map' \cap Holds(t) \subseteq Holds(t)'
        /\ used_map \ used_map' \subseteq Holds(t)
    BY <1>1, <1>16, <1>18, Zenon
  <2> QED
    BY <1>1, <1>9, <1>10, <1>11, <1>12, <1>14, <1>15, <1>17, <1>19, <1>20, <2>1, StepOf, Zenon
<1> QED
  BY <1>10, <1>16, <1>21, OnlyFrame, Zenon

(* PAL_ZERO: only the group just found is filled, and the caller gets it. *)
LEMMA ZeroNext ==
  ASSUME PaInv, NEW t \in Thread, Zero(t)
  PROVE  PaInv' /\ \A u \in Thread : Holds(u)' = Holds(u)
<1> DEFINE r == pa_req[t]
           zero == "PAL_ZERO" \in r.flags
           h == [start |-> r.i, cnt |-> r.cnt, zero |-> zero]
           G == Group(r.i, r.cnt)
<1>0. PaType /\ pa_req \in [Thread -> Req] /\ pa_pc \in [Thread -> PaPC]
      /\ held \in [Thread -> SUBSET HeldGroup] /\ filled \in [Page -> {"junk", "zero", "0xcc"}]
  BY PaTypes, Zenon DEF PaInv
<1>1. /\ pa_pc[t] = "zero" /\ pa_pc' = [pa_pc EXCEPT ![t] = "idle"]
      /\ pa_req' = [pa_req EXCEPT ![t] = NoReq]
      /\ UNCHANGED <<used_map, pool_lock, panicked>>
  BY Zenon DEF Zero, PaAt, PaGoto
<1>2. held' = [held EXCEPT ![t] = @ \cup {h}]
  BY Zenon DEF Zero
<1>3. filled' = [p \in Page |-> IF zero /\ p \in G THEN "zero" ELSE filled[p]]
  BY Zenon DEF Zero
<1>4. r.pool \in Pools /\ r.cnt \in Nat \ {0} /\ r.i \in Int
  <2>1. r.cnt > 0
    BY <1>1, Zenon DEF PaInv, InBounds
  <2>2. r.pool \in Pools /\ r.cnt \in Nat /\ r.i \in Int
    BY ReqFacts, Zenon
  <2> QED
    BY <2>1, <2>2
<1>5. zero \in BOOLEAN
  <2>1. CASE zero
    BY <2>1, Zenon
  <2>2. CASE ~zero
    BY <2>2
  <2> QED
    BY <2>1, <2>2, Zenon
<1>6. h \in HeldGroup /\ h.start = r.i /\ h.cnt = r.cnt /\ h.zero = zero
  BY <1>4, <1>5, Zenon DEF HeldGroup
<1>7. Work(t) = G /\ G \subseteq used_map /\ G \subseteq Page
  <2>1. Work(t) = G /\ G \subseteq used_map /\ G \subseteq Pages(r.pool)
    BY <1>1, Zenon DEF PaInv, Work, Marked, InBounds
  <2> QED
    BY <1>4, <2>1, GroupIn, Zenon
<1> HIDE DEF h, zero, G
<1>8. held'[t] = held[t] \cup {h} /\ held' \in [Thread -> SUBSET HeldGroup]
      /\ \A u \in Thread \ {t} : held'[u] = held[u]
  BY <1>0, <1>2, <1>6, Zenon
<1>9. /\ pa_req' \in [Thread -> Req] /\ \A u \in Thread \ {t} : pa_req'[u] = pa_req[u]
  BY <1>0, <1>1, NoReqType, ReqNew, Zenon
<1>10. /\ pa_pc'[t] = "idle" /\ pa_pc' \in [Thread -> PaPC]
       /\ \A u \in Thread \ {t} : pa_pc'[u] = pa_pc[u]
  BY <1>0, <1>1, Zenon DEF PaPC
<1>11. filled' \in [Page -> {"junk", "zero", "0xcc"}]
  BY <1>0, <1>3, Zenon
<1>12. PaType'
  BY <1>0, <1>1, <1>8, <1>9, <1>10, <1>11, PaTypes, Zenon DEF PaType, Req, HeldGroup
<1>13. Only(t)
  BY <1>8, <1>9, <1>10, Zenon DEF Only
<1>14. Group(h.start, h.cnt) = G
  BY <1>6, Zenon DEF G
<1>15. Own(t)' = Own(t) \cup G /\ Work(t)' = {}
  BY <1>8, <1>10, <1>14, Zenon DEF Own, Work
<1>16. InBounds(t)'
  BY <1>7, <1>8, <1>10, <1>14, Zenon DEF PaInv, InBounds
<1>17. Locked(t)' /\ Ahead(t)'
  BY <1>10, Zenon DEF Locked, Ahead
<1>18. \A g \in held[t] : Group(g.start, g.cnt) \cap G = {}
  BY <1>7, Zenon DEF PaInv, OwnApart, Own
<1>19. OwnApart(t)'
  <2>1. ASSUME NEW a \in held'[t], NEW b \in held'[t], a # b
        PROVE  Group(a.start, a.cnt) \cap Group(b.start, b.cnt) = {}
    <3>1. CASE a \in held[t] /\ b \in held[t]
      BY <2>1, <3>1, Zenon DEF PaInv, OwnApart
    <3>2. CASE a = h
      BY <1>8, <1>14, <1>18, <2>1, <3>2, Zenon
    <3>3. CASE b = h
      BY <1>8, <1>14, <1>18, <2>1, <3>3, Zenon
    <3> QED
      BY <1>8, <3>1, <3>2, <3>3, Zenon
  <2> QED
    BY <1>15, <2>1, Zenon DEF OwnApart
<1>20. Marked(t)'
  BY <1>1, <1>7, <1>10, <1>15, Zenon DEF PaInv, Marked
<1>21. Holds(t)' = Holds(t)
  <2>1. Holds(t)' = (Own(t) \cup Work(t))'
    BY Zenon DEF Holds, Own, Work
  <2> QED
    BY <1>7, <1>15, <2>1, HoldsSplit, Zenon
<1>22. \A u \in Thread \ {t} : Holds(t)' \cap Holds(u) = {}
  BY <1>21, Zenon DEF PaInv, Apart
<1>23. \A p \in Page : filled'[p] = filled[p] \/ p \in Holds(t)
  BY <1>3, <1>7, HoldsSplit, Zenon
<1>24. ASSUME NEW g \in held'[t], g.zero, NEW p \in Group(g.start, g.cnt)
       PROVE  filled'[p] = "zero"
  <2>1. CASE g \in held[t]
    <3>1. filled[p] = "zero" /\ p \in Page /\ p \notin G
      BY <1>18, <1>24, <2>1, Zenon DEF PaInv, ZeroKept, InBounds
    <3> QED
      BY <1>3, <3>1, Zenon
  <2>2. CASE g = h
    <3>1. p \in G /\ p \in Page /\ zero
      BY <1>6, <1>7, <1>14, <1>24, <2>2, Zenon
    <3> QED
      BY <1>3, <3>1, Zenon
  <2> QED
    BY <1>8, <2>1, <2>2, Zenon
<1>25. PaInv'
  BY <1>1, <1>12, <1>13, <1>16, <1>17, <1>19, <1>20, <1>21, <1>22, <1>23, <1>24, StepOf, Zenon
<1> QED
  BY <1>13, <1>21, <1>25, OnlyFrame, Zenon

(* palloc_free_multiple begins: the group is filled while it is still t's. *)
LEMMA FreeNext ==
  ASSUME PaInv, NEW t \in Thread, NEW g \in held[t], Free(t, g)
  PROVE  PaInv' /\ \A u \in Thread : Holds(u)' = Holds(u)
<1> DEFINE pool == IF page_from_pool(kernel_pool, g.start) THEN kernel_pool ELSE user_pool
           q == GivenBack(pool, g.cnt, g.start)
           G == Group(g.start, g.cnt)
<1>0. PaType /\ pa_req \in [Thread -> Req] /\ pa_pc \in [Thread -> PaPC]
      /\ held \in [Thread -> SUBSET HeldGroup] /\ filled \in [Page -> {"junk", "zero", "0xcc"}]
  BY PaTypes, Zenon DEF PaInv
<1>1. pool \in Pools
  BY Zenon DEF Pools
<1>2. /\ pa_req' = [pa_req EXCEPT ![t] = q] /\ pa_pc' = [pa_pc EXCEPT ![t] = "check"]
      /\ pa_pc[t] = "idle" /\ UNCHANGED <<used_map, pool_lock, panicked>>
      /\ held' = [held EXCEPT ![t] = @ \ {g}]
  BY Zenon DEF Free, PaAt, PaGoto, GivenBack
<1>3. filled' = [p \in Page |-> IF p \in G THEN "0xcc" ELSE filled[p]]
  BY Zenon DEF Free
<1> HIDE DEF pool
<1>4. g \in HeldGroup /\ g.cnt \in Nat /\ g.cnt > 0 /\ g.start \in Int
  BY <1>0 DEF HeldGroup
<1>5. q \in Req /\ q.cnt = g.cnt /\ q.i = g.start /\ q.j = 0
  BY <1>1, <1>4, ReqGivenBack, Zenon
<1> HIDE DEF q
<1>6. /\ pa_req' \in [Thread -> Req] /\ pa_req'[t] = q
      /\ \A u \in Thread \ {t} : pa_req'[u] = pa_req[u]
  BY <1>0, <1>2, <1>5, ReqNew, Zenon
<1>7. /\ pa_pc'[t] = "check" /\ pa_pc' \in [Thread -> PaPC]
      /\ \A u \in Thread \ {t} : pa_pc'[u] = pa_pc[u]
  BY <1>0, <1>2, Zenon DEF PaPC
<1>8. held'[t] = held[t] \ {g} /\ held' \in [Thread -> SUBSET HeldGroup]
      /\ \A u \in Thread \ {t} : held'[u] = held[u]
  BY <1>0, <1>2, Zenon
<1>9. G \subseteq Own(t) /\ G \subseteq Page /\ Own(t) \subseteq used_map /\ Work(t) = {}
  BY <1>2, Zenon DEF PaInv, Own, InBounds, Marked, Work
<1>10. Work(t)' = G
  BY <1>5, <1>6, <1>7, Zenon DEF Work
<1>11. \A h \in held'[t] : Group(h.start, h.cnt) \cap G = {}
  BY <1>8, Zenon DEF PaInv, OwnApart
<1> HIDE DEF G
<1>12. filled' \in [Page -> {"junk", "zero", "0xcc"}]
  BY <1>0, <1>3, Zenon
<1>13. PaType'
  BY <1>0, <1>2, <1>6, <1>7, <1>8, <1>12, PaTypes, Zenon DEF PaType, Req, HeldGroup
<1>14. Only(t)
  BY <1>6, <1>7, <1>8, Zenon DEF Only
<1>15. Own(t)' \cap G = {} /\ Own(t)' \subseteq Own(t)
  BY <1>8, <1>11, Zenon DEF Own
<1>16. Own(t) = Own(t)' \cup G
  <2>1. ASSUME NEW p \in Own(t) PROVE p \in Own(t)' \cup G
    <3>1. PICK h \in held[t] : p \in Group(h.start, h.cnt)
      BY <2>1, Zenon DEF Own
    <3>2. CASE h = g
      BY <3>1, <3>2, Zenon DEF G
    <3>3. CASE h # g
      BY <1>8, <3>1, <3>3, Zenon DEF Own
    <3> QED
      BY <3>2, <3>3, Zenon
  <2> QED
    BY <1>9, <1>15, <2>1, Zenon
<1>17. InBounds(t)'
  <2>1. Group(pa_req'[t].i, pa_req'[t].cnt) = G
    BY <1>5, <1>6, Zenon DEF G
  <2>2. \A h \in held'[t] : Group(h.start, h.cnt) \subseteq Page
    BY <1>8, Zenon DEF PaInv, InBounds
  <2> QED
    BY <1>4, <1>5, <1>6, <1>7, <1>9, <2>1, <2>2, Zenon DEF InBounds
<1>18. Locked(t)' /\ Ahead(t)'
  BY <1>7, Zenon DEF Locked, Ahead
<1>19. OwnApart(t)'
  BY <1>8, <1>10, <1>15, Zenon DEF PaInv, OwnApart
<1>20. Marked(t)'
  BY <1>2, <1>7, <1>9, <1>10, <1>15, Zenon DEF Marked
<1>21. Holds(t)' = Holds(t)
  <2>1. Holds(t)' = (Own(t) \cup Work(t))'
    BY Zenon DEF Holds, Own, Work
  <2> QED
    BY <1>9, <1>10, <1>16, <2>1, HoldsSplit, Zenon
<1>22. \A u \in Thread \ {t} : Holds(t)' \cap Holds(u) = {}
  BY <1>21, Zenon DEF PaInv, Apart
<1>23. \A p \in Page : filled'[p] = filled[p] \/ p \in Holds(t)
  BY <1>3, <1>9, HoldsSplit, Zenon
<1>24. ASSUME NEW h \in held'[t], h.zero, NEW p \in Group(h.start, h.cnt)
       PROVE  filled'[p] = "zero"
  <2>1. filled[p] = "zero" /\ p \in Page
    BY <1>8, <1>24, Zenon DEF PaInv, ZeroKept, InBounds
  <2> QED
    BY <1>3, <1>11, <2>1, Zenon
<1>25. PaInv'
  BY <1>2, <1>13, <1>14, <1>17, <1>18, <1>19, <1>20, <1>21, <1>22, <1>23, <1>24, StepOf, Zenon
<1> QED
  BY <1>14, <1>21, <1>25, OnlyFrame, Zenon

(* The bits are cleared without the lock: each is t's until it is clear. *)
LEMMA ClearNext ==
  ASSUME PaInv, NEW t \in Thread, Clear(t)
  PROVE  PaInv' /\ Drops(t)
<1> DEFINE r == pa_req[t]
           p == r.i + r.j
<1>0. PaType /\ pa_req \in [Thread -> Req] /\ pa_pc \in [Thread -> PaPC]
      /\ used_map \subseteq Page
  BY PaTypes, Zenon DEF PaInv
<1>1. /\ pa_pc[t] = "clear" /\ used_map' = used_map \ {p}
      /\ UNCHANGED <<pool_lock, held, filled, panicked>>
  BY Zenon DEF Clear, ClearFilling, PaAt
<1>2. r.cnt \in Nat /\ r.i \in Int /\ r.j \in Nat /\ r.cnt > 0 /\ r.j < r.cnt
  BY <1>1, ReqFacts, Zenon DEF PaInv, InBounds
<1>3. /\ Work(t) = Group(p, r.cnt - r.j) /\ Group(r.i, r.cnt) \subseteq Page
      /\ Own(t) \subseteq used_map /\ Work(t) \subseteq used_map /\ Own(t) \cap Work(t) = {}
  BY <1>1, Zenon DEF PaInv, Work, InBounds, Marked, OwnApart
<1>4. p \in Work(t)
  BY <1>2, <1>3 DEF Group
<1>5. \/ r.j + 1 < r.cnt /\ pa_req' = WithJ(pa_req, t, r.j + 1) /\ pa_pc' = pa_pc
      \/ /\ ~(r.j + 1 < r.cnt) /\ pa_req' = [pa_req EXCEPT ![t] = NoReq]
         /\ pa_pc' = [pa_pc EXCEPT ![t] = "idle"]
  BY Zenon DEF Clear, ClearFilling, PaGoto, WithJ
<1>6. /\ pa_req' \in [Thread -> Req] /\ \A u \in Thread \ {t} : pa_req'[u] = pa_req[u]
      /\ pa_pc' \in [Thread -> PaPC] /\ \A u \in Thread \ {t} : pa_pc'[u] = pa_pc[u]
      /\ \/ /\ pa_pc'[t] = "clear" /\ r.j + 1 < r.cnt
            /\ pa_req'[t].j = r.j + 1 /\ pa_req'[t].cnt = r.cnt /\ pa_req'[t].i = r.i
         \/ pa_pc'[t] = "idle" /\ r.j + 1 = r.cnt
  <2>1. CASE r.j + 1 < r.cnt /\ pa_req' = WithJ(pa_req, t, r.j + 1) /\ pa_pc' = pa_pc
    BY <1>0, <1>1, <1>2, <2>1, ReqJ
  <2>2. CASE /\ ~(r.j + 1 < r.cnt) /\ pa_req' = [pa_req EXCEPT ![t] = NoReq]
             /\ pa_pc' = [pa_pc EXCEPT ![t] = "idle"]
    <3>1. "idle" \in PaPC
      BY Zenon DEF PaPC
    <3>2. r.j + 1 = r.cnt
      BY <1>2, <2>2
    <3>3. pa_req' \in [Thread -> Req] /\ \A u \in Thread \ {t} : pa_req'[u] = pa_req[u]
      BY <1>0, <2>2, NoReqType, ReqNew, Zenon
    <3> QED
      BY <1>0, <2>2, <3>1, <3>2, <3>3, Zenon
  <2> QED
    BY <1>5, <2>1, <2>2, Zenon
<1>7. Work(t)' = Work(t) \ {p}
  <2>1. CASE /\ pa_pc'[t] = "clear" /\ r.j + 1 < r.cnt
             /\ pa_req'[t].j = r.j + 1 /\ pa_req'[t].cnt = r.cnt /\ pa_req'[t].i = r.i
    <3>1. Work(t)' = Group(r.i + (r.j + 1), r.cnt - (r.j + 1))
      BY <2>1, Zenon DEF Work
    <3>2. \A a, n \in Int : Group(a + 1, n - 1) = Group(a, n) \ {a}
      BY DEF Group
    <3>3. /\ p \in Int /\ r.cnt - r.j \in Int
          /\ r.i + (r.j + 1) = p + 1 /\ r.cnt - (r.j + 1) = r.cnt - r.j - 1
      BY <1>2
    <3> QED
      BY <1>3, <3>1, <3>2, <3>3, Zenon
  <2>2. CASE pa_pc'[t] = "idle" /\ r.j + 1 = r.cnt
    <3>1. Work(t)' = {}
      BY <2>2, Zenon DEF Work
    <3>2. Group(p, r.cnt - r.j) = {p}
      BY <1>2, <2>2 DEF Group
    <3> QED
      BY <1>3, <3>1, <3>2, Zenon
  <2> QED
    BY <1>6, <2>1, <2>2, Zenon
<1> HIDE DEF p
<1>8. PaType'
  BY <1>0, <1>1, <1>6, PaTypes, Zenon DEF PaType, Req
<1>9. Only(t)
  BY <1>1, <1>6, Zenon DEF Only
<1>10. Own(t)' = Own(t)
  BY <1>1, Zenon DEF Own
<1>11. InBounds(t)'
  BY <1>1, <1>2, <1>3, <1>6, Zenon DEF PaInv, InBounds
<1>12. Locked(t)' /\ Ahead(t)'
  BY <1>6, Zenon DEF Locked, Ahead
<1>13. OwnApart(t)'
  BY <1>1, <1>7, <1>10, Zenon DEF PaInv, OwnApart
<1>14. Marked(t)'
  BY <1>1, <1>3, <1>4, <1>6, <1>7, <1>10, Zenon DEF Marked
<1>15. Holds(t)' = Holds(t) \ {p}
  <2>1. Holds(t)' = (Own(t) \cup Work(t))'
    BY Zenon DEF Holds, Own, Work
  <2> QED
    BY <1>3, <1>4, <1>7, <1>10, <2>1, HoldsSplit, Zenon
<1>16. p \in Holds(t)
  BY <1>4, HoldsSplit, Zenon
<1>17. \A u \in Thread \ {t} : Holds(t)' \cap Holds(u) = {}
  BY <1>15, Zenon DEF PaInv, Apart
<1>18. \A g \in held'[t] : g.zero => \A q \in Group(g.start, g.cnt) : filled'[q] = "zero"
  BY <1>1, Zenon DEF PaInv, ZeroKept
<1>19. PaInv'
  <2>1. /\ used_map' \ used_map = {} /\ used_map' \cap Holds(t) \subseteq Holds(t)'
        /\ used_map \ used_map' \subseteq Holds(t)
    BY <1>1, <1>15, <1>16, Zenon
  <2> QED
    BY <1>1, <1>8, <1>9, <1>11, <1>12, <1>13, <1>14, <1>17, <1>18, <2>1, StepOf, Zenon
<1>20. Drops(t)
  BY <1>9, <1>15, <1>16, OnlyFrame, Zenon DEF Drops, OthersKeep
<1> QED
  BY <1>19, <1>20, Zenon
-----------------------------------------------------------------------------
(* At boot nothing is held and no bit is set. *)
LEMMA PaInvInit == PallocInit => PaInv /\ \A t \in Thread : Holds(t) = {}
<1> SUFFICES ASSUME PallocInit PROVE PaInv /\ \A t \in Thread : Holds(t) = {}
  BY Zenon
<1>1. /\ used_map = {} /\ pool_lock = [pool \in Pools |-> NULL]
      /\ pa_pc = [t \in Thread |-> "idle"] /\ pa_req = [t \in Thread |-> NoReq]
      /\ held = [t \in Thread |-> {}] /\ filled = [p \in Page |-> "junk"] /\ panicked = FALSE
  BY Zenon DEF PallocInit
<1>2. PaType
  BY <1>1, NoReqType, PaTypes, Zenon DEF PaPC
<1>3. ASSUME NEW t \in Thread
      PROVE  /\ pa_pc[t] = "idle" /\ held[t] = {} /\ Own(t) = {} /\ Work(t) = {} /\ Holds(t) = {}
  <2>1. pa_pc[t] = "idle" /\ held[t] = {}
    BY <1>1, Zenon
  <2> QED
    BY <2>1, HoldsSplit, Zenon DEF Own, Work
<1>4. ASSUME NEW t \in Thread
      PROVE  InBounds(t) /\ Locked(t) /\ OwnApart(t) /\ Marked(t) /\ Ahead(t)
  BY <1>3, Zenon DEF InBounds, Locked, OwnApart, Marked, Ahead
<1> QED
  BY <1>1, <1>2, <1>3, <1>4, Zenon DEF PaInv, Apart, ZeroKept

(* Every step keeps the invariant, and is one of PagePool's or none. *)
LEMMA PaInvNext ==
  ASSUME PaInv, [PallocNext]_pa_vars
  PROVE  PaInv' /\ \/ \A u \in Thread : Holds(u)' = Holds(u)
                   \/ \E t \in Thread : Takes(t) \/ Drops(t)
<1>1. CASE UNCHANGED pa_vars
  <2>1. UNCHANGED <<used_map, pool_lock, pa_pc, pa_req, held, filled, panicked>>
    BY <1>1, Zenon DEF pa_vars
  <2>2. PaType'
    BY <2>1, Zenon DEF PaInv, PaType
  <2>3. ASSUME NEW t \in Thread
        PROVE  Own(t)' = Own(t) /\ Work(t)' = Work(t) /\ Holds(t)' = Holds(t)
    BY <2>1, Zenon DEF Own, Work, Holds
  <2>4. ASSUME NEW t \in Thread
        PROVE  InBounds(t)' /\ Locked(t)' /\ OwnApart(t)' /\ Marked(t)' /\ Ahead(t)'
    <3>1. InBounds(t) /\ Locked(t) /\ OwnApart(t) /\ Marked(t) /\ Ahead(t)
      BY Zenon DEF PaInv
    <3>2. InBounds(t)' /\ Locked(t)' /\ Ahead(t)'
      BY <2>1, <3>1, Zenon DEF InBounds, Locked, Ahead
    <3>3. OwnApart(t)' /\ Marked(t)'
      BY <2>1, <2>3, <3>1, Zenon DEF OwnApart, Marked
    <3> QED
      BY <3>2, <3>3, Zenon
  <2>5. ZeroKept'
    BY <2>1, Zenon DEF PaInv, ZeroKept
  <2>6. \A t, u \in Thread : Apart(t, u)'
    BY <2>3, Zenon DEF PaInv, Apart
  <2>7. \A p \in used_map' : \E t \in Thread : p \in Holds(t)'
    BY <2>1, <2>3, Zenon DEF PaInv
  <2> QED
    BY <2>2, <2>3, <2>4, <2>5, <2>6, <2>7, Zenon DEF PaInv
<1>2. CASE PallocNext
  <2>1. PICK t \in Thread :
          \/ \E flags \in Flags, cnt \in 1..MaxCnt : Get(t, flags, cnt)
          \/ Lock(t) \/ Scan(t) \/ Mark(t) \/ Got(t) \/ Zero(t) \/ Fail(t)
          \/ \E g \in held[t] : Free(t, g)
          \/ Check(t) \/ Clear(t)
    BY <1>2, Zenon DEF PallocNext
  <2> QED
    BY <2>1, GetNext, LockNext, ScanNext, MarkNext, GotNext, ZeroNext, FailNext, FreeNext,
       CheckNext, ClearNext, Zenon
<1> QED
  BY <1>1, <1>2, Zenon

(* The inductive invariant of the page allocator. *)
THEOREM PaInvHolds == PallocSpec => []PaInv
<1>1. PallocInit => PaInv
  BY PaInvInit, Zenon
<1>2. PaInv /\ [PallocNext]_pa_vars => PaInv'
  BY PaInvNext, Zenon
<1> QED
  BY <1>1, <1>2, PTL DEF PallocSpec

(* The invariant implies that the pools are exact. *)
LEMMA PaInvExact == PaInv => PoolsExact
<1> SUFFICES ASSUME PaInv PROVE PoolsExact
  BY Zenon
<1>1. NullMeansFull
  BY Zenon DEF PaInv, NullMeansFull, Ahead
<1>2. UsedMapExact
  <2>1. used_map \subseteq UNION {Holds(t) : t \in Thread}
    BY Zenon DEF PaInv
  <2>2. ASSUME NEW t \in Thread, NEW p \in Holds(t), p \notin used_map
        PROVE  pa_pc[t] = "mark"
    BY <2>2, HoldsSplit, Zenon DEF PaInv, Marked, Work
  <2>3. ASSUME NEW p, p \in UNION {Holds(t) : t \in Thread},
               p \notin UNION {Holds(t) : t \in {u \in Thread : pa_pc[u] = "mark"}}
        PROVE  p \in used_map
    <3>1. PICK t \in Thread : p \in Holds(t)
      BY <2>3, Zenon
    <3>2. pa_pc[t] # "mark"
      BY <2>3, <3>1, Zenon
    <3> QED
      BY <2>2, <3>1, <3>2, Zenon
  <2> QED
    BY <2>1, <2>3, Zenon DEF UsedMapExact
<1> QED
  BY <1>1, <1>2, Zenon DEF PaInv, PoolsExact

(* For pools of every size, any number of threads and frees that clear     *)
(* bits under a scan without the lock: palloc_get_multiple fails only when *)
(* the pool had no such group when the lock was taken, the used map is     *)
(* exactly what is held, and a page asked for with PAL_ZERO stays zero.    *)
THEOREM PoolsExactHolds == PallocSpec => []PoolsExact
  BY PaInvHolds, PaInvExact, PTL

(* The assertion of palloc_free_multiple: while a group is given back,     *)
(* each bit it looks at is still set.                                      *)
FreeAsserts == \A t \in Thread : Check(t) => ~panicked'

(* ASSERT (bitmap_all (...)) in palloc_free_multiple never stops the       *)
(* kernel, whatever other threads get and free meanwhile.                  *)
THEOREM FreeAssertsHolds == PallocSpec => [][FreeAsserts]_pa_vars
<1>1. PaInv /\ [PallocNext]_pa_vars => [FreeAsserts]_pa_vars
  BY CheckNext, Zenon DEF FreeAsserts
<1> QED
  BY <1>1, PaInvHolds, PTL DEF PallocSpec
-----------------------------------------------------------------------------
(* A step in which a thread takes a group is the abstract pool's, *)
LEMMA TakesGets ==
  ASSUME NEW t \in Thread, Takes(t) PROVE pools!Next
<1> DEFINE H == [u \in Thread |-> Holds(u)]
<1>1. PICK pool \in Pools, first \in Int, last \in Int :
        /\ first <= last
        /\ first..last \subseteq Pages(pool)
        /\ \A u \in Thread : (first..last) \cap Holds(u) = {}
        /\ Holds(t)' = Holds(t) \cup (first..last)
  BY Zenon DEF Takes
<1> DEFINE g == first..last
<1>2. first \in g /\ last \in g
  BY <1>1
<1>3. pools!IsGroup(g)
  BY <1>2, Zenon DEF pools!IsGroup
<1> HIDE DEF g
<1>4. \A u \in Thread : g \cap Holds(u) = {} /\ g \subseteq Pages(pool)
  BY <1>1, Zenon DEF g
<1>5. Pages(pool) \in {Pages(q) : q \in Pools}
  BY Zenon
<1>6. g \subseteq pools!Free(Pages(pool))
  BY <1>4, Zenon DEF pools!Free
<1>7. H' = [H EXCEPT ![t] = @ \cup g]
  <2>1. \A u \in Thread \ {t} : Holds(u)' = Holds(u)
    BY Zenon DEF Takes, OthersKeep
  <2>2. Holds(t)' = Holds(t) \cup g
    BY <1>1, Zenon DEF g
  <2> QED
    BY <2>1, <2>2, Zenon
<1>8. pools!Get(t, g)
  BY <1>3, <1>5, <1>6, <1>7, Zenon DEF pools!Get
<1>9. g = H'[t] \ H[t]
  BY <1>1, <1>4, Zenon DEF g
<1> QED
  BY <1>8, <1>9, Zenon DEF pools!Next

(* as is one in which it drops a page. *)
LEMMA DropsPuts ==
  ASSUME NEW t \in Thread, Drops(t) PROVE pools!Next
<1> DEFINE H == [u \in Thread |-> Holds(u)]
<1>1. PICK p \in Holds(t) : Holds(t)' = Holds(t) \ {p}
  BY Zenon DEF Drops
<1>2. H' = [H EXCEPT ![t] = @ \ {p}]
  BY <1>1, Zenon DEF Drops, OthersKeep
<1>3. p \in H[t]
  BY Zenon
<1>4. pools!Put(t, p)
  BY <1>2, <1>3, Zenon DEF pools!Put
<1> QED
  BY <1>3, <1>4, Zenon DEF pools!Next

(* The allocator, a bit at a time and with frees under a scan, implements  *)
(* PagePool: a group found is handed out at once, at the last bit of the   *)
(* scan, and is contiguous, of one pool and free; pages come back one at a *)
(* time, each as its bit is cleared.                                       *)
THEOREM PagePoolImplemented == PallocSpec => ImplementsPagePool
<1>1. PallocInit => pools!Init
  BY PaInvInit, Zenon DEF pools!Init
<1>2. PaInv /\ [PallocNext]_pa_vars => [pools!Next]_([t \in Thread |-> Holds(t)])
  <2> SUFFICES ASSUME PaInv, [PallocNext]_pa_vars
               PROVE  pools!Next \/ UNCHANGED [t \in Thread |-> Holds(t)]
    BY Zenon
  <2>1. CASE \A u \in Thread : Holds(u)' = Holds(u)
    BY <2>1, Zenon
  <2>2. CASE \E t \in Thread : Takes(t) \/ Drops(t)
    BY <2>2, TakesGets, DropsPuts, Zenon
  <2> QED
    BY <2>1, <2>2, PaInvNext, Zenon
<1> QED
  BY <1>1, <1>2, PaInvHolds, PTL DEF PallocSpec, ImplementsPagePool, pools!Spec
=============================================================================
