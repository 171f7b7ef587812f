------------------------- MODULE AddressSpaceProofs -------------------------
(***************************************************************************)
(* Address spaces share no page and lose none, through loads that fail     *)
(* half-way, exits and switches, and the processor is always in one that   *)
(* exists.                                                                 *)
(***************************************************************************)
EXTENDS AddressSpace, TLAPS, WellFoundedInduction

(* What a process has of memory: its page directory, how far               *)
(* pagedir_destroy has come with it, and the page about to be mapped.      *)
Space == [dir : KPage \cup {NONE}, i : 0..UserDirs, j : 0..TableSize, kpage : UPage \cup {NONE}]
Tbl == [0..TableSize - 1 -> Int]
Contents == [KPage -> Tbl]
SpaceOf(p) ==
  [dir |-> IF apc[p] \in {"deactivate", "destroy"} THEN areq[p].pd ELSE pagedir[p],
   i |-> areq[p].i, j |-> areq[p].j, kpage |-> areq[p].kpage]

(* Its page tables, the entries of one that are still its own, and the     *)
(* pages it has of each pool, when the kernel's pages hold E.              *)
TablesOf(E, s) == {E[s.dir][k] : k \in s.i..UserDirs - 1} \ {NONE}
Live(E, s, pt) == (IF pt = E[s.dir][s.i] THEN s.j ELSE 0) .. TableSize - 1
FramesOf(E, s) == (UNION {{E[pt][k] : k \in Live(E, s, pt)} : pt \in TablesOf(E, s)}) \ {NONE}
KernelOf(E, s) == IF s.dir = NONE THEN {} ELSE {s.dir} \cup TablesOf(E, s)
UserOf(E, s) == (IF s.dir = NONE THEN {} ELSE FramesOf(E, s)) \cup ({s.kpage} \ {NONE})

(* A page directory is a tree: no page is its own table, and no two        *)
(* entries lead to the same page.                                          *)
TreeOfTables(E, s) ==
  /\ \A k \in s.i..UserDirs - 1 : E[s.dir][k] \in KPage \cup {NONE} /\ E[s.dir][k] # s.dir
  /\ \A k, l \in s.i..UserDirs - 1 : E[s.dir][k] = E[s.dir][l] /\ E[s.dir][k] # NONE => k = l
  /\ s.j > 0 => s.i < UserDirs /\ E[s.dir][s.i] # NONE
TreeOfFrames(E, s) ==
  /\ \A pt \in TablesOf(E, s) : \A k \in Live(E, s, pt) : E[pt][k] \in UPage \cup {NONE}
  /\ \A pt, qt \in TablesOf(E, s) : \A k \in Live(E, s, pt), l \in Live(E, s, qt) :
       E[pt][k] = E[qt][l] /\ E[pt][k] # NONE => pt = qt /\ k = l
  /\ s.kpage \notin FramesOf(E, s)
Tree(E, s) == s.dir # NONE => TreeOfTables(E, s) /\ TreeOfFrames(E, s)

(* Every page is free or in one space. *)
Divided(E, sp, kf, uf) ==
  /\ \A p \in Proc : /\ Tree(E, sp[p])
                     /\ KernelOf(E, sp[p]) \subseteq KPage \ kf
                     /\ UserOf(E, sp[p]) \subseteq UPage \ uf
  /\ \A p, q \in Proc : p # q => /\ KernelOf(E, sp[p]) \cap KernelOf(E, sp[q]) = {}
                                 /\ UserOf(E, sp[p]) \cap UserOf(E, sp[q]) = {}
  /\ \A x \in KPage : x \in kf \/ \E p \in Proc : x \in KernelOf(E, sp[p])
  /\ \A x \in UPage : x \in uf \/ \E p \in Proc : x \in UserOf(E, sp[p])

spaces == [p \in Proc |-> SpaceOf(p)]

APC == {"start", "activate", "headers", "page", "stack", "read", "map", "map_stack", "user",
        "exit", "deactivate", "destroy"}
Loading == {"headers", "page", "stack", "read", "map", "map_stack", "user"}
Areq == [pd : KPage \cup {NONE}, u : Nat, last : Nat, kpage : UPage \cup {NONE},
         i : 0..UserDirs, j : 0..TableSize]

ATypes ==
  /\ run \in Proc
  /\ pagedir \in [Proc -> KPage \cup {NONE}]
  /\ entries \in Contents
  /\ kfree \in SUBSET KPage
  /\ ufree \in SUBSET UPage
  /\ apc \in [Proc -> APC]
  /\ areq \in [Proc -> Areq]

(* The pages that page directories have entries for. *)
UserVpage == 0 .. UserDirs * TableSize - 1

(* Where a process is decides which parts of its request are used. *)
StageOf(l, pd, r) ==
  /\ l \in {"start", "activate", "headers", "user", "exit"} => r = NoAreq
  /\ l \in {"start", "deactivate", "destroy"} => pd = NONE
  /\ l \in Loading \cup {"activate"} => pd # NONE
  /\ l \in {"page", "stack", "read", "map", "map_stack"} =>
       r.u \in UserVpage /\ r.last \in UserVpage /\ r.i = 0 /\ r.j = 0
  /\ l \in {"read", "map", "map_stack"} <=> r.kpage # NONE
  /\ l \in {"deactivate", "destroy"} <=> r.pd # NONE
  /\ l = "deactivate" => r.i = 0 /\ r.j = 0
  /\ l \in {"stack", "map_stack"} => r.u = r.last

(* The processor is in the running process's space, once load has activated *)
(* it and until process_exit has left it.                                   *)
InOwnSpace ==
  /\ cr3 # init_page_dir => cr3 = SpaceOf(run).dir /\ apc[run] # "destroy"
  /\ apc[run] \in Loading => cr3 = pagedir[run]
  /\ tlb # {} => apc[run] \in {"user", "deactivate"} /\ cr3 # init_page_dir
  /\ \A e \in tlb : e[1] \in Vpage /\ lookup_page(cr3, e[1]) = e[2] /\ e[2] # NONE

AInv ==
  /\ ATypes
  /\ \A p \in Proc : StageOf(apc[p], pagedir[p], areq[p])
  /\ Divided(entries, spaces, kfree, ufree)
  /\ InOwnSpace
-----------------------------------------------------------------------------
(* The kernel pool and the user pool of palloc_init share no page. *)
LEMMA PoolsDistinct ==
  /\ NONE \notin KPage /\ NONE \notin UPage /\ KPage \cap UPage = {}
  /\ KPage \in SUBSET Nat /\ UPage \in SUBSET Nat
  BY AddressSpaceAssumption DEF KPage, UPage, NONE

(* palloc_get_page takes the first free page: there is one if any is free. *)
LEMMA FirstFree ==
  ASSUME NEW T \in SUBSET Nat, T # {} PROVE First(T) \in T
<1>1. \E x \in T : \A y \in T : ~ (<<y, x>> \in OpToRel(<, Nat))
  BY NatLessThanWellFounded, WFMin, Zenon
<1>2. PICK x \in T : \A y \in T : ~ (<<y, x>> \in OpToRel(<, Nat))
  BY <1>1, Zenon
<1>3. \A y \in T : ~ (y < x)
  BY <1>2, Zenon DEF OpToRel
<1>4. \A y \in T : x <= y
  BY <1>3
<1> QED
  BY <1>4, Zenon DEF First

(* The pages load maps are below PHYS_BASE, so a page directory has entries for them. *)
LEMMA Mappable ==
  StackPage \in UserVpage /\ Vpage \subseteq UserVpage /\ UserVpage \subseteq Nat
<1>1. TableSize \in Nat /\ TableSize > 0 /\ UserDirs \in Nat /\ UserDirs > 0
  BY AddressSpaceAssumption
<1>2. UserDirs * TableSize \in Nat /\ UserDirs * TableSize > 0
  BY <1>1
<1> QED BY <1>2 DEF StackPage, Vpage, UserVpage

(* Both halves of an address are indices. *)
LEMMA Indices ==
  ASSUME NEW u \in UserVpage
  PROVE  pd_no(u) \in 0..UserDirs - 1 /\ pt_no(u) \in 0..TableSize - 1
<1>1. TableSize \in Nat /\ TableSize > 0 /\ UserDirs \in Nat /\ u \in Nat
  BY AddressSpaceAssumption DEF UserVpage
<1>2. u < UserDirs * TableSize
  BY <1>1 DEF UserVpage
<1>3. u \div TableSize \in Nat /\ u \div TableSize < UserDirs
  BY <1>1, <1>2
<1>4. u % TableSize \in 0..TableSize - 1
  BY <1>1
<1> QED BY <1>1, <1>3, <1>4 DEF pd_no, pt_no

(* A page reached through two tables. *)
LEMMA InFrames ==
  ASSUME NEW E, NEW s, NEW x
  PROVE  x \in FramesOf(E, s) <=>
           x # NONE /\ \E pt \in TablesOf(E, s) : \E k \in Live(E, s, pt) : x = E[pt][k]
  BY SMT DEF FramesOf

(* The same when all entries of the tables count. *)
LEMMA InAllFrames ==
  ASSUME NEW E, NEW s, s.j = 0
  PROVE  /\ \A x : x \in FramesOf(E, s) <=>
                  x # NONE /\ \E pt \in TablesOf(E, s) : \E k \in 0..TableSize - 1 : x = E[pt][k]
         /\ TreeOfFrames(E, s) <=>
              /\ \A pt \in TablesOf(E, s) : \A k \in 0..TableSize - 1 : E[pt][k] \in UPage \cup {NONE}
              /\ \A pt, qt \in TablesOf(E, s) : \A k, l \in 0..TableSize - 1 :
                   E[pt][k] = E[qt][l] /\ E[pt][k] # NONE => pt = qt /\ k = l
              /\ s.kpage \notin FramesOf(E, s)
<1>1. \A pt : Live(E, s, pt) = 0..TableSize - 1
  BY Zenon DEF Live
<1>2. ASSUME NEW x
      PROVE  x \in FramesOf(E, s) <=>
               x # NONE /\ \E pt \in TablesOf(E, s) : \E k \in 0..TableSize - 1 : x = E[pt][k]
  <2>1. x \in FramesOf(E, s) <=>
          x # NONE /\ \E pt \in TablesOf(E, s) : \E k \in Live(E, s, pt) : x = E[pt][k]
    BY InFrames
  <2> QED BY <1>1, <2>1, Zenon
<1>3. TreeOfFrames(E, s) <=>
        /\ \A pt \in TablesOf(E, s) : \A k \in 0..TableSize - 1 : E[pt][k] \in UPage \cup {NONE}
        /\ \A pt, qt \in TablesOf(E, s) : \A k, l \in 0..TableSize - 1 :
             E[pt][k] = E[qt][l] /\ E[pt][k] # NONE => pt = qt /\ k = l
        /\ s.kpage \notin FramesOf(E, s)
  <2>1. (\A pt \in TablesOf(E, s) : \A k \in Live(E, s, pt) : E[pt][k] \in UPage \cup {NONE}) <=>
        (\A pt \in TablesOf(E, s) : \A k \in 0..TableSize - 1 : E[pt][k] \in UPage \cup {NONE})
    BY <1>1, Zenon
  <2>2. (\A pt, qt \in TablesOf(E, s) : \A k \in Live(E, s, pt), l \in Live(E, s, qt) :
           E[pt][k] = E[qt][l] /\ E[pt][k] # NONE => pt = qt /\ k = l) <=>
        (\A pt, qt \in TablesOf(E, s) : \A k, l \in 0..TableSize - 1 :
           E[pt][k] = E[qt][l] /\ E[pt][k] # NONE => pt = qt /\ k = l)
    <3>1. ASSUME NEW pt \in TablesOf(E, s), NEW qt \in TablesOf(E, s)
          PROVE  (\A k \in Live(E, s, pt), l \in Live(E, s, qt) :
                    E[pt][k] = E[qt][l] /\ E[pt][k] # NONE => pt = qt /\ k = l) <=>
                 (\A k, l \in 0..TableSize - 1 :
                    E[pt][k] = E[qt][l] /\ E[pt][k] # NONE => pt = qt /\ k = l)
      <4>1. Live(E, s, pt) = 0..TableSize - 1 /\ Live(E, s, qt) = 0..TableSize - 1
        BY <1>1, Zenon
      <4> QED BY <4>1, Zenon
    <3> QED BY <3>1
  <2> QED BY <2>1, <2>2, Zenon DEF TreeOfFrames
<1> QED BY <1>2, <1>3, Zenon

(* A space keeps its pages when the contents of its kernel pages stay. *)
LEMMA SameSpace ==
  ASSUME NEW E, NEW F, NEW s \in Space, Tree(E, s), \A k \in KernelOf(E, s) : F[k] = E[k]
  PROVE  Tree(F, s) /\ KernelOf(F, s) = KernelOf(E, s) /\ UserOf(F, s) = UserOf(E, s)
<1>1. CASE s.dir = NONE
  BY <1>1, Zenon DEF Tree, KernelOf, UserOf
<1>2. CASE s.dir # NONE
  <2>1. F[s.dir] = E[s.dir] /\ \A pt \in TablesOf(E, s) : F[pt] = E[pt]
    BY <1>2, Zenon DEF KernelOf
  <2>2. TablesOf(F, s) = TablesOf(E, s)
    BY <2>1, Zenon DEF TablesOf
  <2>3. \A pt : Live(F, s, pt) = Live(E, s, pt)
    BY <2>1, Zenon DEF Live
  <2>4. FramesOf(F, s) = FramesOf(E, s)
    <3>1. ASSUME NEW x PROVE x \in FramesOf(F, s) <=> x \in FramesOf(E, s)
      <4>1. x \in FramesOf(E, s) <=>
              x # NONE /\ \E pt \in TablesOf(E, s) : \E k \in Live(E, s, pt) : x = E[pt][k]
        BY InFrames
      <4>2. x \in FramesOf(F, s) <=>
              x # NONE /\ \E pt \in TablesOf(F, s) : \E k \in Live(F, s, pt) : x = F[pt][k]
        BY InFrames
      <4> QED BY <2>1, <2>2, <2>3, <4>1, <4>2
    <3> QED BY <3>1, Zenon
  <2>5. TreeOfTables(F, s)
    BY <1>2, <2>1, Zenon DEF Tree, TreeOfTables
  <2>6. TreeOfFrames(F, s)
    <3>1. TreeOfFrames(E, s)
      BY <1>2, Zenon DEF Tree
    <3>2. \A pt \in TablesOf(E, s) : \A k \in Live(E, s, pt) : E[pt][k] \in UPage \cup {NONE}
      BY <3>1, Zenon DEF TreeOfFrames
    <3>3. \A pt, qt \in TablesOf(E, s) : \A k \in Live(E, s, pt), l \in Live(E, s, qt) :
            E[pt][k] = E[qt][l] /\ E[pt][k] # NONE => pt = qt /\ k = l
      BY <3>1, Zenon DEF TreeOfFrames
    <3>4. \A pt \in TablesOf(F, s) : \A k \in Live(F, s, pt) : F[pt][k] \in UPage \cup {NONE}
      BY <2>1, <2>2, <2>3, <3>2, Zenon
    <3>5. ASSUME NEW pt \in TablesOf(F, s), NEW qt \in TablesOf(F, s),
                 NEW k \in Live(F, s, pt), NEW l \in Live(F, s, qt),
                 F[pt][k] = F[qt][l] /\ F[pt][k] # NONE
          PROVE  pt = qt /\ k = l
      <4>1. /\ pt \in TablesOf(E, s) /\ qt \in TablesOf(E, s)
            /\ k \in Live(E, s, pt) /\ l \in Live(E, s, qt)
        BY <2>2, <2>3, <3>5, Zenon
      <4>2. E[pt][k] = E[qt][l] /\ E[pt][k] # NONE
        BY <2>1, <3>5, <4>1, Zenon
      <4> QED BY <3>3, <4>1, <4>2, Zenon
    <3>6. s.kpage \notin FramesOf(F, s)
      BY <2>4, <3>1, Zenon DEF TreeOfFrames
    <3> QED BY <3>4, <3>5, <3>6, Zenon DEF TreeOfFrames
  <2> QED BY <1>2, <2>2, <2>4, <2>5, <2>6, Zenon DEF Tree, KernelOf, UserOf
<1> QED BY <1>1, <1>2, Zenon

(* A process's step divides what is its own and what is free in another    *)
(* way; other processes do not notice.                                     *)
LEMMA OneStep ==
  ASSUME NEW E, NEW F, NEW sp \in [Proc -> Space], NEW kf, NEW uf, NEW kg, NEW ug,
         NEW p \in Proc, NEW t \in Space,
         Divided(E, sp, kf, uf),
         \A k \in KPage \ (KernelOf(E, sp[p]) \cup kf) : F[k] = E[k],
         Tree(F, t),
         KernelOf(F, t) \cup kg = KernelOf(E, sp[p]) \cup kf, KernelOf(F, t) \cap kg = {},
         UserOf(F, t) \cup ug = UserOf(E, sp[p]) \cup uf, UserOf(F, t) \cap ug = {}
  PROVE  kf \subseteq KPage /\ uf \subseteq UPage => Divided(F, [sp EXCEPT ![p] = t], kg, ug)
<1> DEFINE sq == [sp EXCEPT ![p] = t]
<1>0. SUFFICES ASSUME kf \subseteq KPage, uf \subseteq UPage PROVE Divided(F, sq, kg, ug)
  BY Zenon
<1>1. sq[p] = t /\ \A q \in Proc : q # p => sq[q] = sp[q]
  BY Zenon
<1> HIDE DEF sq
<1>2. ASSUME NEW q \in Proc, q # p
      PROVE  /\ Tree(F, sq[q])
             /\ KernelOf(F, sq[q]) = KernelOf(E, sp[q]) /\ UserOf(F, sq[q]) = UserOf(E, sp[q])
  <2>1. /\ Tree(E, sp[q]) /\ KernelOf(E, sp[q]) \subseteq KPage \ kf
        /\ KernelOf(E, sp[p]) \cap KernelOf(E, sp[q]) = {} /\ sp[q] \in Space
    BY <1>2, Zenon DEF Divided
  <2>2. \A k \in KernelOf(E, sp[q]) : F[k] = E[k]
    BY <2>1, Zenon
  <2>3. /\ Tree(F, sp[q])
        /\ KernelOf(F, sp[q]) = KernelOf(E, sp[q]) /\ UserOf(F, sp[q]) = UserOf(E, sp[q])
    BY <2>1, <2>2, SameSpace
  <2> QED BY <1>1, <1>2, <2>3, Zenon
<1>3. /\ KernelOf(E, sp[p]) \subseteq KPage \ kf /\ UserOf(E, sp[p]) \subseteq UPage \ uf
      /\ \A q \in Proc : q # p => /\ KernelOf(E, sp[q]) \subseteq KPage \ kf
                                 /\ UserOf(E, sp[q]) \subseteq UPage \ uf
                                 /\ KernelOf(E, sp[p]) \cap KernelOf(E, sp[q]) = {}
                                 /\ UserOf(E, sp[p]) \cap UserOf(E, sp[q]) = {}
  BY Zenon DEF Divided
<1>4. ASSUME NEW q \in Proc
      PROVE  /\ Tree(F, sq[q])
             /\ KernelOf(F, sq[q]) \subseteq KPage \ kg
             /\ UserOf(F, sq[q]) \subseteq UPage \ ug
  <2>1. CASE q = p
    BY <1>0, <1>1, <1>3, <2>1, Zenon
  <2>2. CASE q # p
    BY <1>0, <1>2, <1>3, <2>2, Zenon
  <2> QED BY <2>1, <2>2, Zenon
<1>5. ASSUME NEW q \in Proc, q # p
      PROVE  /\ KernelOf(F, sq[p]) \cap KernelOf(F, sq[q]) = {}
             /\ UserOf(F, sq[p]) \cap UserOf(F, sq[q]) = {}
  BY <1>1, <1>2, <1>3, <1>5, Zenon
<1>6. ASSUME NEW q \in Proc, NEW r \in Proc, q # r
      PROVE  /\ KernelOf(F, sq[q]) \cap KernelOf(F, sq[r]) = {}
             /\ UserOf(F, sq[q]) \cap UserOf(F, sq[r]) = {}
  <2>1. CASE q = p
    BY <1>5, <1>6, <2>1, Zenon
  <2>2. CASE r = p
    BY <1>5, <1>6, <2>2, Zenon
  <2>3. CASE q # p /\ r # p
    BY <1>2, <1>6, <2>3, Zenon DEF Divided
  <2> QED BY <2>1, <2>2, <2>3, Zenon
<1>7. ASSUME NEW x \in KPage PROVE x \in kg \/ \E q \in Proc : x \in KernelOf(F, sq[q])
  <2>1. x \in kf \/ \E q \in Proc : x \in KernelOf(E, sp[q])
    BY <1>7, Zenon DEF Divided
  <2>2. x \in kf \/ x \in KernelOf(E, sp[p]) => x \in kg \/ x \in KernelOf(F, sq[p])
    BY <1>1, Zenon
  <2> QED BY <1>2, <2>1, <2>2, Zenon
<1>8. ASSUME NEW x \in UPage PROVE x \in ug \/ \E q \in Proc : x \in UserOf(F, sq[q])
  <2>1. x \in uf \/ \E q \in Proc : x \in UserOf(E, sp[q])
    BY <1>8, Zenon DEF Divided
  <2>2. x \in uf \/ x \in UserOf(E, sp[p]) => x \in ug \/ x \in UserOf(F, sq[p])
    BY <1>1, Zenon
  <2> QED BY <1>2, <2>1, <2>2, Zenon
<1> QED BY <1>4, <1>6, <1>7, <1>8, Zenon DEF Divided
-----------------------------------------------------------------------------
(* A space without page tables has no pages to lose. *)
LEMMA NoTables ==
  ASSUME NEW E, NEW s, TablesOf(E, s) = {}
  PROVE  FramesOf(E, s) = {} /\ TreeOfFrames(E, s)
<1>1. FramesOf(E, s) = {}
  BY InFrames, Zenon
<1> QED BY <1>1, Zenon DEF TreeOfFrames

(* pagedir_create: an empty directory. *)
LEMMA Created ==
  ASSUME NEW F, NEW t \in Space, t.dir # NONE, t.i = 0, t.j = 0, t.kpage = NONE,
         \A k \in 0..TableSize - 1 : F[t.dir][k] = NONE
  PROVE  Tree(F, t) /\ KernelOf(F, t) = {t.dir} /\ UserOf(F, t) = {}
<1>1. \A k \in t.i..UserDirs - 1 : F[t.dir][k] = NONE
  BY AddressSpaceAssumption
<1>2. TablesOf(F, t) = {}
  BY <1>1, Zenon DEF TablesOf
<1>3. TreeOfTables(F, t)
  <2>1. ~ (t.j > 0)
    OBVIOUS
  <2> QED BY <1>1, <2>1, Zenon DEF TreeOfTables
<1> QED BY <1>2, <1>3, NoTables, Zenon DEF Tree, KernelOf, UserOf

(* A page taken for the space, or given back, leaves its tables alone. *)
LEMMA OtherPage ==
  ASSUME NEW E, NEW s \in Space, NEW t \in Space, Tree(E, s), s.dir # NONE,
         t.dir = s.dir, t.i = s.i, t.j = s.j, t.kpage \notin FramesOf(E, s)
  PROVE  /\ Tree(E, t) /\ KernelOf(E, t) = KernelOf(E, s)
         /\ UserOf(E, t) = FramesOf(E, s) \cup ({t.kpage} \ {NONE})
<1>1. TablesOf(E, t) = TablesOf(E, s)
  BY Zenon DEF TablesOf
<1>2. \A pt : Live(E, t, pt) = Live(E, s, pt)
  BY Zenon DEF Live
<1>3. FramesOf(E, t) = FramesOf(E, s)
  <2>1. ASSUME NEW x PROVE x \in FramesOf(E, t) <=> x \in FramesOf(E, s)
    <3>1. x \in FramesOf(E, s) <=>
            x # NONE /\ \E pt \in TablesOf(E, s) : \E k \in Live(E, s, pt) : x = E[pt][k]
      BY InFrames
    <3>2. x \in FramesOf(E, t) <=>
            x # NONE /\ \E pt \in TablesOf(E, t) : \E k \in Live(E, t, pt) : x = E[pt][k]
      BY InFrames
    <3> QED BY <1>1, <1>2, <3>1, <3>2, Zenon
  <2> QED BY <2>1, Zenon
<1>4. TreeOfTables(E, t)
  BY Zenon DEF Tree, TreeOfTables
<1>5. TreeOfFrames(E, s)
  BY Zenon DEF Tree
<1>6. TreeOfFrames(E, t)
  BY <1>1, <1>2, <1>3, <1>5 DEF TreeOfFrames
<1> QED BY <1>1, <1>3, <1>4, <1>6, Zenon DEF Tree, KernelOf, UserOf

(* lookup_page with create: an empty table at an entry not present. *)
LEMMA TableAdded ==
  ASSUME NEW E, NEW F, NEW s \in Space, Tree(E, s), s.dir # NONE, s.i = 0, s.j = 0,
         NEW a \in 0..UserDirs - 1, NEW pt \in KPage \ KernelOf(E, s), E[s.dir][a] = NONE,
         F[s.dir][a] = pt, \A k \in 0..UserDirs - 1 : k # a => F[s.dir][k] = E[s.dir][k],
         \A k \in 0..TableSize - 1 : F[pt][k] = NONE,
         \A x \in TablesOf(E, s) : F[x] = E[x]
  PROVE  /\ Tree(F, s) /\ KernelOf(F, s) = KernelOf(E, s) \cup {pt}
         /\ UserOf(F, s) = UserOf(E, s)
<1>1. pt # NONE /\ pt # s.dir /\ pt \notin TablesOf(E, s)
  BY PoolsDistinct, Zenon DEF KernelOf
<1>2. TablesOf(F, s) = TablesOf(E, s) \cup {pt}
  BY <1>1 DEF TablesOf
<1>3. TreeOfTables(E, s) /\ TreeOfFrames(E, s)
  BY Zenon DEF Tree
<1>4. TreeOfTables(F, s)
  <2>1. /\ \A k \in 0..UserDirs - 1 : E[s.dir][k] \in KPage \cup {NONE} /\ E[s.dir][k] # s.dir
        /\ \A k, l \in 0..UserDirs - 1 : E[s.dir][k] = E[s.dir][l] /\ E[s.dir][k] # NONE => k = l
    BY <1>3, Zenon DEF TreeOfTables
  <2>2. \A k \in 0..UserDirs - 1 : F[s.dir][k] \in KPage \cup {NONE} /\ F[s.dir][k] # s.dir
    BY <1>1, <2>1, Zenon
  <2>3. \A k \in 0..UserDirs - 1 : E[s.dir][k] # pt
    BY <1>1, Zenon DEF TablesOf
  <2>4. \A k, l \in 0..UserDirs - 1 : F[s.dir][k] = F[s.dir][l] /\ F[s.dir][k] # NONE => k = l
    <3>1. ASSUME NEW k \in 0..UserDirs - 1, NEW l \in 0..UserDirs - 1,
                 F[s.dir][k] = F[s.dir][l], F[s.dir][k] # NONE
          PROVE  k = l
      <4>1. CASE k = a
        BY <2>3, <3>1, <4>1, Zenon
      <4>2. CASE l = a
        BY <2>3, <3>1, <4>2, Zenon
      <4>3. CASE k # a /\ l # a
        BY <2>1, <3>1, <4>3, Zenon
      <4> QED BY <4>1, <4>2, <4>3, Zenon
    <3> QED BY <3>1, Zenon
  <2>5. ~ (s.j > 0)
    OBVIOUS
  <2> QED BY <2>2, <2>4, <2>5, Zenon DEF TreeOfTables
<1>6. FramesOf(F, s) = FramesOf(E, s)
  <2>1. ASSUME NEW x PROVE x \in FramesOf(F, s) <=> x \in FramesOf(E, s)
    <3>1. x \in FramesOf(E, s) <=>
            x # NONE /\ \E y \in TablesOf(E, s) : \E k \in 0..TableSize - 1 : x = E[y][k]
      BY InAllFrames
    <3>2. x \in FramesOf(F, s) <=>
            x # NONE /\ \E y \in TablesOf(F, s) : \E k \in 0..TableSize - 1 : x = F[y][k]
      BY InAllFrames
    <3> QED BY <1>2, <3>1, <3>2
  <2> QED BY <2>1, Zenon
<1>7. TreeOfFrames(F, s)
  <2>1. /\ \A x \in TablesOf(E, s) : \A k \in 0..TableSize - 1 : E[x][k] \in UPage \cup {NONE}
        /\ \A x, y \in TablesOf(E, s) : \A k, l \in 0..TableSize - 1 :
             E[x][k] = E[y][l] /\ E[x][k] # NONE => x = y /\ k = l
        /\ s.kpage \notin FramesOf(E, s)
    BY <1>3, InAllFrames, Zenon
  <2>3. ASSUME NEW x \in TablesOf(F, s), NEW k \in 0..TableSize - 1
        PROVE  F[x][k] \in UPage \cup {NONE}
    BY <1>2, <2>1, <2>3, Zenon
  <2>4. ASSUME NEW x \in TablesOf(F, s), NEW y \in TablesOf(F, s),
               NEW k \in 0..TableSize - 1, NEW l \in 0..TableSize - 1,
               F[x][k] = F[y][l] /\ F[x][k] # NONE
        PROVE  x = y /\ k = l
    <3>2. x \in TablesOf(E, s) /\ y \in TablesOf(E, s)
      BY <1>2, <2>4, Zenon
    <3>3. E[x][k] = E[y][l] /\ E[x][k] # NONE
      BY <2>4, <3>2, Zenon
    <3> QED BY <2>1, <3>2, <3>3
  <2>5. s.kpage \notin FramesOf(F, s)
    BY <1>6, <2>1, Zenon
  <2> QED BY <2>3, <2>4, <2>5, InAllFrames, Zenon
<1> QED BY <1>2, <1>4, <1>6, <1>7, Zenon DEF Tree, KernelOf, UserOf

(* pagedir_set_page: the page in flight is mapped at a free entry. *)
MapsAt(E, F, s, t, a, b, pt) ==
  /\ s.dir # NONE /\ s.i = 0 /\ s.j = 0 /\ s.kpage # NONE
  /\ t.dir = s.dir /\ t.i = 0 /\ t.j = 0 /\ t.kpage = NONE
  /\ pt = E[s.dir][a] /\ pt # NONE /\ E[pt][b] = NONE
  /\ F[s.dir] = E[s.dir] /\ F[pt][b] = s.kpage
  /\ \A k \in 0..TableSize - 1 : k # b => F[pt][k] = E[pt][k]
  /\ \A x \in TablesOf(E, s) : x # pt => F[x] = E[x]

(* pagedir_set_page: a page taken from the user pool joins the space it is mapped in. *)
LEMMA Mapped ==
  ASSUME NEW E, NEW F, NEW s \in Space, NEW t \in Space, Tree(E, s),
         NEW a \in 0..UserDirs - 1, NEW b \in 0..TableSize - 1, NEW pt,
         MapsAt(E, F, s, t, a, b, pt)
  PROVE  /\ Tree(F, t) /\ KernelOf(F, t) = KernelOf(E, s)
         /\ UserOf(F, t) = UserOf(E, s)
<1> USE DEF MapsAt
<1> DEFINE Ix == 0..TableSize - 1
<1>0. /\ TablesOf(E, s) = {E[s.dir][k] : k \in 0..UserDirs - 1} \ {NONE}
      /\ TablesOf(F, t) = {F[s.dir][k] : k \in 0..UserDirs - 1} \ {NONE}
  BY DEF TablesOf
<1>1. TablesOf(F, t) = TablesOf(E, s) /\ pt \in TablesOf(E, s)
  BY <1>0
<1>2. TreeOfTables(E, s) /\ TreeOfFrames(E, s)
  BY Zenon DEF Tree
<1>3. TreeOfTables(F, t)
  <2>1. ~ (t.j > 0)
    OBVIOUS
  <2>2. /\ \A k \in 0..UserDirs - 1 : E[s.dir][k] \in KPage \cup {NONE} /\ E[s.dir][k] # s.dir
        /\ \A k, l \in 0..UserDirs - 1 : E[s.dir][k] = E[s.dir][l] /\ E[s.dir][k] # NONE => k = l
    BY <1>2, Zenon DEF TreeOfTables
  <2> QED BY <2>1, <2>2 DEF TreeOfTables
<1>5. ASSUME NEW x PROVE x \in FramesOf(E, s) <=>
        x # NONE /\ \E y \in TablesOf(E, s) : \E k \in Ix : x = E[y][k]
  BY InAllFrames
<1>6. ASSUME NEW x PROVE x \in FramesOf(F, t) <=>
        x # NONE /\ \E y \in TablesOf(E, s) : \E k \in Ix : x = F[y][k]
  <2>1. x \in FramesOf(F, t) <=>
          x # NONE /\ \E y \in TablesOf(F, t) : \E k \in Ix : x = F[y][k]
    BY InAllFrames
  <2> QED BY <1>1, <2>1, Zenon
<1>7. FramesOf(F, t) = FramesOf(E, s) \cup {s.kpage}
  <2>1. ASSUME NEW x \in FramesOf(F, t) PROVE x \in FramesOf(E, s) \cup {s.kpage}
    BY <1>5, <1>6, <2>1
  <2>2. s.kpage \in FramesOf(F, t)
    BY <1>1, <1>6, Zenon
  <2>3. ASSUME NEW x \in FramesOf(E, s) PROVE x \in FramesOf(F, t)
    <3>1. PICK y \in TablesOf(E, s), k \in Ix : x = E[y][k] /\ x # NONE
      BY <1>5, <2>3
    <3>2. x = F[y][k]
      BY <3>1, Zenon
    <3> QED BY <1>6, <3>1, <3>2, Zenon
  <2> QED BY <2>1, <2>2, <2>3, Zenon
<1>8. TreeOfFrames(F, t)
  <2>1. /\ \A x \in TablesOf(E, s) : \A k \in Ix : E[x][k] \in UPage \cup {NONE}
        /\ \A x, y \in TablesOf(E, s) : \A k, l \in Ix :
             E[x][k] = E[y][l] /\ E[x][k] # NONE => x = y /\ k = l
        /\ s.kpage \notin FramesOf(E, s)
    BY <1>2, InAllFrames, Zenon
  <2>3. \A x \in TablesOf(E, s) : \A k \in Ix : E[x][k] # s.kpage
    BY <1>5, <2>1, Zenon
  <2>4. s.kpage \in UPage
    BY Zenon DEF Space
  <2>5. ASSUME NEW x \in TablesOf(E, s), NEW k \in Ix PROVE F[x][k] \in UPage \cup {NONE}
    BY <2>1, <2>4, <2>5, Zenon
  <2>6. ASSUME NEW x \in TablesOf(E, s), NEW y \in TablesOf(E, s), NEW k \in Ix, NEW l \in Ix,
               F[x][k] = F[y][l], F[x][k] # NONE
        PROVE  x = y /\ k = l
    <3>1. \A z \in TablesOf(E, s), m \in Ix :
            /\ z = pt /\ m = b => F[z][m] = s.kpage
            /\ ~ (z = pt /\ m = b) => F[z][m] = E[z][m]
      BY Zenon
    <3>2. CASE x = pt /\ k = b
      <4>1. ~ (y = pt /\ l = b) => FALSE
        BY <2>3, <2>6, <3>1, <3>2
      <4> QED BY <3>2, <4>1, Zenon
    <3>3. CASE ~ (x = pt /\ k = b)
      <4>1. F[x][k] = E[x][k] /\ F[x][k] # s.kpage
        BY <2>3, <3>1, <3>3
      <4>2. ~ (y = pt /\ l = b)
        BY <2>6, <3>1, <4>1, Zenon
      <4>3. E[x][k] = E[y][l] /\ E[x][k] # NONE
        BY <2>6, <3>1, <4>1, <4>2, Zenon
      <4> QED BY <2>1, <4>3, Zenon
    <3> QED BY <3>2, <3>3, Zenon
  <2>7. t.kpage \notin FramesOf(F, t)
    BY <1>6, Zenon
  <2>8. /\ \A x \in TablesOf(F, t) : \A k \in Ix : F[x][k] \in UPage \cup {NONE}
        /\ \A x, y \in TablesOf(F, t) : \A k, l \in Ix :
             F[x][k] = F[y][l] /\ F[x][k] # NONE => x = y /\ k = l
    BY <1>1, <2>5, <2>6
  <2> QED BY <2>7, <2>8, InAllFrames, Zenon
<1> QED BY <1>1, <1>3, <1>7, <1>8, Zenon DEF Tree, KernelOf, UserOf
-----------------------------------------------------------------------------
(* pagedir_destroy passes an entry that is not present. *)
LEMMA Skipped ==
  ASSUME NEW E, NEW s \in Space, NEW t \in Space, Tree(E, s), s.dir # NONE,
         s.i < UserDirs, E[s.dir][s.i] = NONE,
         t.dir = s.dir, t.i = s.i + 1, t.j = s.j, t.kpage = s.kpage
  PROVE  /\ Tree(E, t) /\ KernelOf(E, t) = KernelOf(E, s)
         /\ UserOf(E, t) = UserOf(E, s)
<1>1. s.i \in Nat /\ UserDirs \in Nat /\ s.j \in Nat
  BY AddressSpaceAssumption DEF Space
<1>2. s.i..UserDirs - 1 = {s.i} \cup t.i..UserDirs - 1
  BY <1>1
<1>3. TablesOf(E, t) = TablesOf(E, s)
  BY <1>2, Zenon DEF TablesOf
<1>4. TreeOfTables(E, s) /\ TreeOfFrames(E, s)
  BY Zenon DEF Tree
<1>5. s.j = 0 /\ t.j = 0
  BY <1>1, <1>4 DEF TreeOfTables
<1>6. TreeOfTables(E, t)
  <2>1. ~ (t.j > 0)
    BY <1>5
  <2> QED BY <1>2, <1>4, <2>1, Zenon DEF TreeOfTables
<1>7. FramesOf(E, t) = FramesOf(E, s)
  <2>1. ASSUME NEW x PROVE x \in FramesOf(E, t) <=> x \in FramesOf(E, s)
    <3>1. x \in FramesOf(E, s) <=>
            x # NONE /\ \E y \in TablesOf(E, s) : \E k \in 0..TableSize - 1 : x = E[y][k]
      BY <1>5, InAllFrames
    <3>2. x \in FramesOf(E, t) <=>
            x # NONE /\ \E y \in TablesOf(E, t) : \E k \in 0..TableSize - 1 : x = E[y][k]
      BY <1>5, InAllFrames
    <3> QED BY <1>3, <3>1, <3>2, Zenon
  <2> QED BY <2>1, Zenon
<1>8. TreeOfFrames(E, t)
  <2>1. /\ \A pt \in TablesOf(E, s) : \A k \in 0..TableSize - 1 : E[pt][k] \in UPage \cup {NONE}
        /\ \A pt, qt \in TablesOf(E, s) : \A k, l \in 0..TableSize - 1 :
             E[pt][k] = E[qt][l] /\ E[pt][k] # NONE => pt = qt /\ k = l
        /\ s.kpage \notin FramesOf(E, s)
    BY <1>4, <1>5, InAllFrames, Zenon
  <2> QED BY <1>3, <1>5, <1>7, <2>1, InAllFrames
<1> QED BY <1>3, <1>6, <1>7, <1>8, Zenon DEF Tree, KernelOf, UserOf

(* It frees a page that a table leads to, if the entry is present. *)
LEMMA FrameFreed ==
  ASSUME NEW E, NEW s \in Space, NEW t \in Space, Tree(E, s), s.dir # NONE, s.kpage = NONE,
         s.i < UserDirs, s.j < TableSize, NEW pt, pt = E[s.dir][s.i], pt # NONE,
         t.dir = s.dir, t.i = s.i, t.j = s.j + 1, t.kpage = NONE
  PROVE  /\ Tree(E, t) /\ KernelOf(E, t) = KernelOf(E, s)
         /\ UserOf(E, t) = UserOf(E, s) \ {E[pt][s.j]}
         /\ E[pt][s.j] = NONE \/ E[pt][s.j] \in UserOf(E, s)
<1>1. s.i \in Nat /\ UserDirs \in Nat /\ s.j \in Nat /\ TableSize \in Nat
  BY AddressSpaceAssumption DEF Space
<1>2. s.i \in s.i..UserDirs - 1
  BY <1>1
<1>3. TablesOf(E, t) = TablesOf(E, s) /\ pt \in TablesOf(E, s)
  BY <1>2, Zenon DEF TablesOf
<1>4. TreeOfTables(E, s) /\ TreeOfFrames(E, s)
  BY Zenon DEF Tree
<1>5. TreeOfTables(E, t)
  BY <1>4, Zenon DEF TreeOfTables
<1>6. /\ Live(E, s, pt) = s.j..TableSize - 1 /\ Live(E, t, pt) = s.j + 1..TableSize - 1
      /\ \A x : x # pt => Live(E, t, x) = Live(E, s, x)
  BY Zenon DEF Live
<1>7. /\ s.j \in Live(E, s, pt) /\ s.j \notin Live(E, t, pt)
      /\ Live(E, s, pt) = Live(E, t, pt) \cup {s.j}
  BY <1>1, <1>6
<1>8. \A x : Live(E, t, x) \subseteq Live(E, s, x)
  BY <1>6, <1>7, Zenon
<1>9. /\ \A x, y \in TablesOf(E, s) : \A k \in Live(E, s, x), l \in Live(E, s, y) :
           E[x][k] = E[y][l] /\ E[x][k] # NONE => x = y /\ k = l
      /\ \A x \in TablesOf(E, s) : \A k \in Live(E, s, x) : E[x][k] \in UPage \cup {NONE}
  BY <1>4, Zenon DEF TreeOfFrames
<1>10. ASSUME NEW x
       PROVE  /\ x \in FramesOf(E, s) <=>
                   x # NONE /\ \E y \in TablesOf(E, s) : \E k \in Live(E, s, y) : x = E[y][k]
              /\ x \in FramesOf(E, t) <=>
                   x # NONE /\ \E y \in TablesOf(E, s) : \E k \in Live(E, t, y) : x = E[y][k]
  BY <1>3, InFrames
<1>11. FramesOf(E, t) = FramesOf(E, s) \ {E[pt][s.j]}
  <2>1. ASSUME NEW x \in FramesOf(E, t) PROVE x \in FramesOf(E, s) /\ x # E[pt][s.j]
    <3>0. PICK y \in TablesOf(E, s) : \E k \in Live(E, t, y) : x = E[y][k] /\ x # NONE
      BY <1>10, <2>1, Zenon
    <3>1. PICK k \in Live(E, t, y) : x = E[y][k] /\ x # NONE
      BY <3>0, Zenon
    <3>2. k \in Live(E, s, y)
      BY <1>8, <3>1, Zenon
    <3>3. x \in FramesOf(E, s)
      BY <1>10, <3>1, <3>2, Zenon
    <3>4. ASSUME x = E[pt][s.j] PROVE FALSE
      <4>1. y = pt /\ k = s.j
        <5>1. pt \in TablesOf(E, s) /\ s.j \in Live(E, s, pt)
          BY <1>3, <1>7, Zenon
        <5>2. E[y][k] = E[pt][s.j] /\ E[y][k] # NONE
          BY <3>1, <3>4, Zenon
        <5>3. \A l \in Live(E, s, pt) : E[y][k] = E[pt][l] /\ E[y][k] # NONE => y = pt /\ k = l
          BY <1>9, <3>2, <5>1
        <5> QED BY <5>1, <5>2, <5>3, Zenon
      <4> QED BY <1>7, <3>1, <4>1, Zenon
    <3> QED BY <3>3, <3>4, Zenon
  <2>2. ASSUME NEW x \in FramesOf(E, s), x # E[pt][s.j] PROVE x \in FramesOf(E, t)
    <3>0. PICK y \in TablesOf(E, s) : \E k \in Live(E, s, y) : x = E[y][k] /\ x # NONE
      BY <1>10, <2>2, Zenon
    <3>1. PICK k \in Live(E, s, y) : x = E[y][k] /\ x # NONE
      BY <3>0, Zenon
    <3>2. k \in Live(E, t, y)
      BY <1>6, <1>7, <2>2, <3>1, Zenon
    <3> QED BY <1>10, <3>1, <3>2, Zenon
  <2> QED BY <2>1, <2>2, Zenon
<1>12. E[pt][s.j] = NONE \/ E[pt][s.j] \in FramesOf(E, s)
  BY <1>3, <1>7, <1>10, Zenon
<1>13. TreeOfFrames(E, t)
  <2>1. ASSUME NEW x \in TablesOf(E, t), NEW k \in Live(E, t, x)
        PROVE  x \in TablesOf(E, s) /\ k \in Live(E, s, x)
    BY <1>3, <1>8, Zenon
  <2>2. \A x \in TablesOf(E, t) : \A k \in Live(E, t, x) : E[x][k] \in UPage \cup {NONE}
    BY <1>9, <2>1, Zenon
  <2>3. \A x, y \in TablesOf(E, t) : \A k \in Live(E, t, x), l \in Live(E, t, y) :
          E[x][k] = E[y][l] /\ E[x][k] # NONE => x = y /\ k = l
    BY <1>9, <2>1
  <2>4. t.kpage \notin FramesOf(E, t)
    BY <1>10, Zenon
  <2> QED BY <2>2, <2>3, <2>4, Zenon DEF TreeOfFrames
<1> QED BY <1>3, <1>5, <1>11, <1>12, <1>13, Zenon DEF Tree, KernelOf, UserOf

(* It frees a table all of whose pages are free. *)
LEMMA TableFreed ==
  ASSUME NEW E, NEW F, NEW s \in Space, NEW t \in Space, Tree(E, s), s.dir # NONE,
         s.i < UserDirs, s.j = TableSize, NEW pt, pt = E[s.dir][s.i], pt # NONE,
         \A x \in KernelOf(E, s) : x # pt => F[x] = E[x],
         t.dir = s.dir, t.i = s.i + 1, t.j = 0, t.kpage = s.kpage
  PROVE  /\ Tree(F, t) /\ KernelOf(F, t) = KernelOf(E, s) \ {pt} /\ pt \in KernelOf(E, s)
         /\ UserOf(F, t) = UserOf(E, s)
<1>1. s.i \in Nat /\ UserDirs \in Nat /\ TableSize \in Nat
  BY AddressSpaceAssumption DEF Space
<1>2. s.i..UserDirs - 1 = {s.i} \cup t.i..UserDirs - 1 /\ s.i \notin t.i..UserDirs - 1
  BY <1>1
<1>3. TreeOfTables(E, s) /\ TreeOfFrames(E, s)
  BY Zenon DEF Tree
<1>4. \A k \in t.i..UserDirs - 1 : E[s.dir][k] # pt
  BY <1>2, <1>3, Zenon DEF TreeOfTables
<1>5. pt # s.dir /\ pt \in TablesOf(E, s)
  BY <1>2, <1>3, Zenon DEF TreeOfTables, TablesOf
<1>6. F[s.dir] = E[s.dir] /\ \A x \in TablesOf(E, s) : x # pt => F[x] = E[x]
  BY <1>5, Zenon DEF KernelOf
<1>7. TablesOf(F, t) = TablesOf(E, s) \ {pt}
  BY <1>2, <1>4, <1>6 DEF TablesOf
<1>8. TreeOfTables(F, t)
  <2>1. ~ (t.j > 0)
    OBVIOUS
  <2> QED BY <1>2, <1>3, <1>6, <2>1 DEF TreeOfTables
<1>9. Live(E, s, pt) = {} /\ \A x : x # pt => Live(E, s, x) = 0..TableSize - 1
  BY <1>1 DEF Live
<1>10. FramesOf(F, t) = FramesOf(E, s)
  <2>1. ASSUME NEW x PROVE x \in FramesOf(F, t) <=> x \in FramesOf(E, s)
    <3>1. x \in FramesOf(E, s) <=>
            x # NONE /\ \E y \in TablesOf(E, s) : \E k \in Live(E, s, y) : x = E[y][k]
      BY InFrames
    <3>2. x \in FramesOf(F, t) <=>
            x # NONE /\ \E y \in TablesOf(F, t) : \E k \in 0..TableSize - 1 : x = F[y][k]
      BY InAllFrames
    <3>3. ASSUME NEW y \in TablesOf(E, s), NEW k \in Live(E, s, y)
          PROVE  y \in TablesOf(F, t) /\ k \in 0..TableSize - 1 /\ F[y][k] = E[y][k]
      BY <1>6, <1>7, <1>9, <3>3, Zenon
    <3>4. ASSUME NEW y \in TablesOf(F, t), NEW k \in 0..TableSize - 1
          PROVE  y \in TablesOf(E, s) /\ k \in Live(E, s, y) /\ F[y][k] = E[y][k]
      BY <1>6, <1>7, <1>9, <3>4, Zenon
    <3> QED BY <3>1, <3>2, <3>3, <3>4
  <2> QED BY <2>1, Zenon
<1>11. TreeOfFrames(F, t)
  <2>1. /\ \A x, y \in TablesOf(E, s) : \A k \in Live(E, s, x), l \in Live(E, s, y) :
             E[x][k] = E[y][l] /\ E[x][k] # NONE => x = y /\ k = l
        /\ \A x \in TablesOf(E, s) : \A k \in Live(E, s, x) : E[x][k] \in UPage \cup {NONE}
        /\ s.kpage \notin FramesOf(E, s)
    BY <1>3, Zenon DEF TreeOfFrames
  <2>2. ASSUME NEW x \in TablesOf(F, t)
        PROVE  /\ x \in TablesOf(E, s) /\ F[x] = E[x]
               /\ \A k \in 0..TableSize - 1 : k \in Live(E, s, x)
    BY <1>6, <1>7, <1>9, <2>2, Zenon
  <2>3. \A x \in TablesOf(F, t) : \A k \in 0..TableSize - 1 : F[x][k] \in UPage \cup {NONE}
    BY <2>1, <2>2, Zenon
  <2>4. \A x, y \in TablesOf(F, t) : \A k, l \in 0..TableSize - 1 :
          F[x][k] = F[y][l] /\ F[x][k] # NONE => x = y /\ k = l
    BY <2>1, <2>2
  <2>5. t.kpage \notin FramesOf(F, t)
    BY <1>10, <2>1, Zenon
  <2> QED BY <2>3, <2>4, <2>5, InAllFrames, Zenon
<1> QED BY <1>5, <1>7, <1>8, <1>10, <1>11, Zenon DEF Tree, KernelOf, UserOf

(* It frees the directory when all tables are free. *)
LEMMA DirFreed ==
  ASSUME NEW E, NEW s \in Space, s.dir # NONE, s.i = UserDirs, s.kpage = NONE
  PROVE  KernelOf(E, s) = {s.dir} /\ UserOf(E, s) = {}
<1>1. s.i..UserDirs - 1 = {}
  BY AddressSpaceAssumption
<1>2. TablesOf(E, s) = {}
  BY <1>1, Zenon DEF TablesOf
<1> QED BY <1>2, NoTables, Zenon DEF KernelOf, UserOf

(* A process that has nothing. *)
LEMMA NoSpace ==
  ASSUME NEW E, NEW s \in Space, s.dir = NONE, s.kpage = NONE
  PROVE  Tree(E, s) /\ KernelOf(E, s) = {} /\ UserOf(E, s) = {}
  BY Zenon DEF Tree, KernelOf, UserOf
-----------------------------------------------------------------------------
(* What the invariant says of one process. *)
LEMMA OfOne ==
  ASSUME AInv, NEW p \in Proc
  PROVE  /\ areq[p] \in Areq /\ pagedir[p] \in KPage \cup {NONE} /\ apc[p] \in APC
         /\ StageOf(apc[p], pagedir[p], areq[p])
         /\ SpaceOf(p) \in Space /\ Tree(entries, SpaceOf(p))
         /\ KernelOf(entries, SpaceOf(p)) \subseteq KPage \ kfree
         /\ UserOf(entries, SpaceOf(p)) \subseteq UPage \ ufree
<1>1. /\ areq[p] \in Areq /\ pagedir[p] \in KPage \cup {NONE} /\ apc[p] \in APC
      /\ StageOf(apc[p], pagedir[p], areq[p])
  BY Zenon DEF AInv, ATypes
<1>2. SpaceOf(p) \in Space
  BY <1>1, Zenon DEF SpaceOf, Space, Areq
<1>3. spaces[p] = SpaceOf(p)
  BY Zenon DEF spaces
<1> QED BY <1>1, <1>2, <1>3, Zenon DEF AInv, Divided

(* The request for a run of pages. *)
LEMMA AreqWith ==
  ASSUME NEW u, NEW last, NEW r, r = [NoAreq EXCEPT !.u = u, !.last = last]
  PROVE  r = [pd |-> NONE, u |-> u, last |-> last, kpage |-> NONE, i |-> 0, j |-> 0]
  BY Zenon DEF NoAreq

(* What a step makes of a request is a request. *)
LEMMA AreqFor ==
  ASSUME NEW u \in UserVpage, NEW last \in UserVpage, NEW r,
         r = [pd |-> NONE, u |-> u, last |-> last, kpage |-> NONE, i |-> 0, j |-> 0]
  PROVE  /\ r \in Areq /\ r.pd = NONE /\ r.kpage = NONE /\ r.i = 0 /\ r.j = 0
         /\ r.u \in UserVpage /\ r.last \in UserVpage
<1>1. 0 \in 0..UserDirs /\ 0 \in 0..TableSize /\ u \in Nat /\ last \in Nat
  BY AddressSpaceAssumption, Mappable
<1>2. r \in Areq
  BY <1>1, Zenon DEF Areq
<1> QED BY <1>2, Zenon

(* The fields of the empty request. *)
LEMMA NoAreqFields ==
  /\ NoAreq \in Areq /\ NoAreq.pd = NONE /\ NoAreq.kpage = NONE /\ NoAreq.i = 0 /\ NoAreq.j = 0
  BY AddressSpaceAssumption DEF NoAreq, Areq, NONE

(* p's step leaves the other processes where they are. *)
Others(p) ==
  \A q \in Proc : q # p => pagedir'[q] = pagedir[q] /\ apc'[q] = apc[q] /\ areq'[q] = areq[q]

(* A step of one process leaves where the others are. *)
LEMMA StagesKept ==
  ASSUME AInv, NEW p \in Proc, Others(p), StageOf(apc'[p], pagedir'[p], areq'[p])
  PROVE  (\A q \in Proc : StageOf(apc[q], pagedir[q], areq[q]))'
  BY Zenon DEF AInv, Others

(* A step of p divides p's pages and the free ones anew. *)
LEMMA DividedStep ==
  ASSUME AInv, ATypes', NEW p \in Proc, Others(p),
         \A k \in KPage \ (KernelOf(entries, SpaceOf(p)) \cup kfree) : entries'[k] = entries[k],
         NEW t \in Space, t = SpaceOf(p)', Tree(entries', t),
         KernelOf(entries', t) \cup kfree' = KernelOf(entries, SpaceOf(p)) \cup kfree,
         KernelOf(entries', t) \cap kfree' = {},
         UserOf(entries', t) \cup ufree' = UserOf(entries, SpaceOf(p)) \cup ufree,
         UserOf(entries', t) \cap ufree' = {}
  PROVE  Divided(entries, spaces, kfree, ufree)'
<1>1. spaces \in [Proc -> Space] /\ spaces[p] = SpaceOf(p)
  BY OfOne, Zenon DEF spaces
<1>2. spaces' = [spaces EXCEPT ![p] = t]
  <2>1. ASSUME NEW q \in Proc, q # p PROVE SpaceOf(q)' = SpaceOf(q)
    BY <2>1, Zenon DEF SpaceOf, Others
  <2> QED BY <2>1, Zenon DEF spaces
<1>3. kfree \subseteq KPage /\ ufree \subseteq UPage /\ Divided(entries, spaces, kfree, ufree)
  BY Zenon DEF AInv, ATypes
<1>4. Divided(entries', [spaces EXCEPT ![p] = t], kfree', ufree')
  BY <1>1, <1>3, OneStep, Zenon
<1> QED BY <1>2, <1>4, Zenon

(* No page changes hands. *)
LEMMA DividedSame ==
  ASSUME AInv, ATypes', NEW p \in Proc, Others(p), SpaceOf(p)' = SpaceOf(p),
         UNCHANGED <<entries, kfree, ufree>>
  PROVE  Divided(entries, spaces, kfree, ufree)'
<1>1. ASSUME NEW q \in Proc PROVE SpaceOf(q)' = SpaceOf(q)
  <2>1. CASE q # p
    BY <2>1, Zenon DEF SpaceOf, Others
  <2> QED BY <2>1, Zenon
<1>2. spaces' = spaces
  BY <1>1, Zenon DEF spaces
<1> QED BY <1>2, Zenon DEF AInv

(* The processor stays where it is through a step of the process that runs. *)
LEMMA OwnKept ==
  ASSUME AInv, NEW p \in Proc, run = p, UNCHANGED <<run, cr3, tlb>>,
         apc[p] \notin {"user", "deactivate"},
         cr3 # init_page_dir => SpaceOf(p).dir' = SpaceOf(p).dir /\ apc'[p] # "destroy",
         apc'[p] \in Loading => apc[p] \in Loading /\ pagedir'[p] = pagedir[p]
  PROVE  InOwnSpace'
<1>1. tlb = {}
  BY Zenon DEF AInv, InOwnSpace
<1>2. cr3 # init_page_dir => cr3 = SpaceOf(p).dir
  BY Zenon DEF AInv, InOwnSpace
<1>3. apc[p] \in Loading => cr3 = pagedir[p]
  BY Zenon DEF AInv, InOwnSpace
<1>4. (cr3 # init_page_dir => cr3 = SpaceOf(run).dir /\ apc[run] # "destroy")'
  <2>1. SpaceOf(run)' = SpaceOf(p)'
    BY Zenon DEF SpaceOf
  <2> QED BY <1>2, <2>1, Zenon DEF init_page_dir
<1>5. apc'[run'] \in Loading => cr3' = pagedir'[run']
  BY <1>3, Zenon
<1> QED BY <1>1, <1>4, <1>5, Zenon DEF InOwnSpace

(* At the start of load there is no page directory to be in. *)
LEMMA KernelsOwn ==
  ASSUME AInv, apc[run] \in {"start", "destroy"} PROVE cr3 = init_page_dir
<1>1. CASE apc[run] = "destroy"
  BY <1>1, Zenon DEF AInv, InOwnSpace
<1>2. CASE apc[run] = "start"
  <2>1. run \in Proc
    BY Zenon DEF AInv, ATypes
  <2>2. pagedir[run] = NONE
    BY <1>2, <2>1, OfOne, Zenon DEF StageOf
  <2>3. SpaceOf(run).dir = NONE
    BY <1>2, <2>2, Zenon DEF SpaceOf
  <2> QED BY <2>3, Zenon DEF AInv, InOwnSpace, NONE, init_page_dir
<1> QED BY <1>1, <1>2, Zenon
-----------------------------------------------------------------------------
(* thread_schedule_tail activates the next process, with its directory or the initial one. *)
LEMMA SwitchKeeps ==
  ASSUME AInv, NEW p \in Proc, Switch(p) PROVE AInv'
<1>1. ATypes' /\ (\A q \in Proc : StageOf(apc[q], pagedir[q], areq[q]))'
  BY Zenon DEF AInv, ATypes, Switch, a_pools
<1>2. Divided(entries, spaces, kfree, ufree)'
  <2>1. spaces' = spaces
    BY Zenon DEF spaces, SpaceOf, Switch
  <2> QED BY <2>1, Zenon DEF AInv, Switch, a_pools
<1>3. InOwnSpace'
  <2>1. run' = p /\ tlb' = {} /\ cr3' = pagedir[p] /\ pagedir' = pagedir /\ apc' = apc /\ areq' = areq
    BY Zenon DEF Switch, Activate, NONE, init_page_dir
  <2>2. StageOf(apc[p], pagedir[p], areq[p])
    BY OfOne, Zenon
  <2>3. pagedir[p] # NONE => apc[p] \notin {"deactivate", "destroy"}
    BY <2>2, Zenon DEF StageOf
  <2>4. (cr3 # init_page_dir => cr3 = SpaceOf(run).dir /\ apc[run] # "destroy")'
    BY <2>1, <2>3, Zenon DEF SpaceOf, NONE, init_page_dir
  <2>5. (apc[run] \in Loading => cr3 = pagedir[run])'
    BY <2>1, Zenon
  <2> QED BY <2>1, <2>4, <2>5, Zenon DEF InOwnSpace
<1> QED BY <1>1, <1>2, <1>3, Zenon DEF AInv

(* A user access goes through lookup_page and is remembered by the processor. *)
LEMMA AccessKeeps ==
  ASSUME AInv, NEW u \in Vpage, Access(u) PROVE AInv'
<1>1. ATypes' /\ (\A q \in Proc : StageOf(apc[q], pagedir[q], areq[q]))'
  BY Zenon DEF AInv, ATypes, Access, a_pools
<1>2. Divided(entries, spaces, kfree, ufree)'
  <2>1. spaces' = spaces
    BY Zenon DEF spaces, SpaceOf, Access
  <2> QED BY <2>1, Zenon DEF AInv, Access, a_pools
<1>3. InOwnSpace'
  <2>1. /\ UNCHANGED <<run, cr3, pagedir, entries, apc, areq>> /\ apc[run] = "user"
        /\ cr3 # init_page_dir
        /\ tlb' = tlb \cup {<<u, lookup_page(cr3, u)>>} /\ lookup_page(cr3, u) # NONE
    BY Zenon DEF Access
  <2>2. \A e \in tlb : e[1] \in Vpage /\ lookup_page(cr3, e[1]) = e[2] /\ e[2] # NONE
    BY Zenon DEF AInv, InOwnSpace
  <2>3. \A a : lookup_page(cr3, a)' = lookup_page(cr3, a)
    BY <2>1, Zenon DEF lookup_page
  <2>4. \A e \in tlb' : e[1] \in Vpage /\ lookup_page(cr3, e[1])' = e[2] /\ e[2] # NONE
    BY <2>1, <2>2, <2>3
  <2>5. (cr3 # init_page_dir => cr3 = SpaceOf(run).dir /\ apc[run] # "destroy")'
    <3>1. SpaceOf(run)' = SpaceOf(run)
      BY <2>1, Zenon DEF SpaceOf
    <3> QED BY <2>1, <3>1, Zenon DEF AInv, InOwnSpace, init_page_dir
  <2>6. (apc[run] \in Loading => cr3 = pagedir[run])'
    BY <2>1, Zenon DEF AInv, InOwnSpace
  <2>7. (tlb # {} => apc[run] \in {"user", "deactivate"} /\ cr3 # init_page_dir)'
    BY <2>1, Zenon DEF init_page_dir
  <2> QED BY <2>4, <2>5, <2>6, <2>7, Zenon DEF InOwnSpace
<1> QED BY <1>1, <1>2, <1>3, Zenon DEF AInv

(* The four parts of the invariant after a step of p. *)
LEMMA Kept ==
  ASSUME AInv, NEW p \in Proc, Others(p), StageOf(apc'[p], pagedir'[p], areq'[p]),
         ATypes', Divided(entries, spaces, kfree, ufree)', InOwnSpace'
  PROVE  AInv'
  BY StagesKept, Zenon DEF AInv

(* pagedir_create: a new directory from the kernel pool, or none is left. *)
LEMMA PagedirCreateKeeps ==
  ASSUME AInv, NEW p \in Proc, PagedirCreate(p) PROVE AInv'
<1>1. /\ run = p /\ apc[p] = "start" /\ pagedir[p] = NONE /\ areq[p] = NoAreq
      /\ UNCHANGED <<run, cr3, tlb, ufree, areq>> /\ cr3 = init_page_dir
  BY OfOne, KernelsOwn, Zenon DEF PagedirCreate, AAt, StageOf
<1>2. SpaceOf(p) = [dir |-> NONE, i |-> 0, j |-> 0, kpage |-> NONE]
  BY <1>1, NoAreqFields, Zenon DEF SpaceOf
<1>3. CASE kfree = {}
  <2>1. apc' = [apc EXCEPT ![p] = "exit"] /\ UNCHANGED <<pagedir, entries, kfree>>
    BY <1>3, Zenon DEF PagedirCreate, AGoto
  <2>2. apc'[p] = "exit" /\ Others(p) /\ apc' \in [Proc -> APC]
    BY <1>1, <2>1, Zenon DEF Others, AInv, ATypes, APC
  <2>3. ATypes'
    BY <1>1, <2>1, <2>2, Zenon DEF AInv, ATypes
  <2>4. StageOf(apc'[p], pagedir'[p], areq'[p])
    BY <1>1, <2>1, <2>2, NoAreqFields, Zenon DEF StageOf, Loading
  <2>5. SpaceOf(p)' = SpaceOf(p)
    BY <1>1, <2>1, <2>2, Zenon DEF SpaceOf
  <2>6. Divided(entries, spaces, kfree, ufree)'
    BY <1>1, <2>1, <2>2, <2>3, <2>5, DividedSame, Zenon
  <2>7. InOwnSpace'
    BY <1>1, <2>2, OwnKept, Zenon DEF Loading
  <2> QED BY <2>2, <2>3, <2>4, <2>6, <2>7, Kept, Zenon
<1>4. CASE kfree # {}
  <2> DEFINE pd == First(kfree)
  <2>1. /\ kfree' = kfree \ {pd} /\ pagedir' = [pagedir EXCEPT ![p] = pd]
        /\ entries' = [entries EXCEPT ![pd] = Table(NONE)]
        /\ apc' = [apc EXCEPT ![p] = "activate"]
    BY <1>4, Zenon DEF PagedirCreate, AGoto
  <2>2. pd \in kfree /\ pd \in KPage /\ pd # NONE
    BY <1>4, FirstFree, PoolsDistinct, Zenon DEF AInv, ATypes
  <2> HIDE DEF pd
  <2>3. apc'[p] = "activate" /\ pagedir'[p] = pd /\ areq'[p] = NoAreq /\ Others(p)
    BY <1>1, <2>1, Zenon DEF Others, AInv, ATypes
  <2>4. ATypes'
    <3>1. Table(NONE) \in Tbl
      BY DEF Table, Tbl, NONE
    <3>2. entries' \in Contents
      BY <2>1, <3>1, Zenon DEF AInv, ATypes, Contents
    <3> QED BY <1>1, <2>1, <2>2, <3>2, Zenon DEF AInv, ATypes, APC
  <2>5. StageOf(apc'[p], pagedir'[p], areq'[p])
    BY <2>2, <2>3, NoAreqFields, Zenon DEF StageOf, Loading
  <2> DEFINE t == [dir |-> pd, i |-> 0, j |-> 0, kpage |-> NONE]
  <2>6. t = SpaceOf(p)' /\ t \in Space
    BY <2>2, <2>3, NoAreqFields, AddressSpaceAssumption DEF SpaceOf, Space, NONE
  <2>7. entries'[pd] = Table(NONE) /\ \A k \in KPage : k # pd => entries'[k] = entries[k]
    BY <2>1, <2>2, Zenon DEF AInv, ATypes, Contents
  <2>8. Tree(entries', t) /\ KernelOf(entries', t) = {pd} /\ UserOf(entries', t) = {}
    <3>1. \A k \in 0..TableSize - 1 : entries'[pd][k] = NONE
      BY <2>7, Zenon DEF Table
    <3>2. t.dir = pd /\ t.i = 0 /\ t.j = 0 /\ t.kpage = NONE
      BY Zenon
    <3> QED BY <2>2, <2>6, <3>1, <3>2, Created, Zenon
  <2>9. KernelOf(entries, SpaceOf(p)) = {} /\ UserOf(entries, SpaceOf(p)) = {}
    BY <1>2, OfOne, NoSpace
  <2> HIDE DEF t
  <2>10. Divided(entries, spaces, kfree, ufree)'
    BY <1>1, <2>1, <2>2, <2>3, <2>4, <2>6, <2>7, <2>8, <2>9, DividedStep, Zenon
  <2>11. InOwnSpace'
    BY <1>1, <2>3, OwnKept, Zenon DEF Loading
  <2> QED BY <2>3, <2>4, <2>5, <2>10, <2>11, Kept, Zenon
<1> QED BY <1>3, <1>4, Zenon

(* process_activate in load enters the new directory. *)
LEMMA LoadActivateKeeps ==
  ASSUME AInv, NEW p \in Proc, LoadActivate(p) PROVE AInv'
<1>1. /\ run = p /\ apc[p] = "activate" /\ pagedir[p] # NONE /\ areq[p] = NoAreq
      /\ UNCHANGED <<run, pagedir, entries, kfree, ufree, areq>>
      /\ apc' = [apc EXCEPT ![p] = "headers"] /\ cr3' = pagedir[p] /\ tlb' = {}
  BY OfOne, Zenon DEF LoadActivate, AAt, AGoto, Activate, StageOf, a_pools
<1>2. apc'[p] = "headers" /\ Others(p) /\ apc' \in [Proc -> APC]
  BY <1>1, Zenon DEF Others, AInv, ATypes, APC
<1>3. ATypes'
  BY <1>1, <1>2, Zenon DEF AInv, ATypes
<1>4. StageOf(apc'[p], pagedir'[p], areq'[p])
  BY <1>1, <1>2, NoAreqFields, Zenon DEF StageOf, Loading
<1>5. SpaceOf(p)' = SpaceOf(p)
  BY <1>1, <1>2, Zenon DEF SpaceOf
<1>6. Divided(entries, spaces, kfree, ufree)'
  BY <1>1, <1>2, <1>3, <1>5, DividedSame, Zenon
<1>7. InOwnSpace'
  BY <1>1, <1>2, Zenon DEF InOwnSpace, SpaceOf
<1> QED BY <1>2, <1>3, <1>4, <1>6, <1>7, Kept, Zenon

(* From headers on, load leaves the processor alone. *)
LEMMA LoadOwn ==
  ASSUME AInv, NEW p \in Proc, run = p, apc[p] \in Loading \ {"user"}, UNCHANGED <<run, cr3, tlb, pagedir>>,
         apc'[p] \in Loading \cup {"exit"}
  PROVE  InOwnSpace'
<1>1. SpaceOf(p)'.dir = SpaceOf(p).dir
  BY Zenon DEF SpaceOf, Loading
<1> QED BY <1>1, OwnKept, Zenon DEF Loading

(* The program headers: a segment to load, the stack, or an error. *)
LEMMA LoadHeaderKeeps ==
  ASSUME AInv, NEW p \in Proc, LoadHeader(p) PROVE AInv'
<1>1. /\ run = p /\ apc[p] = "headers" /\ pagedir[p] # NONE /\ areq[p] = NoAreq
      /\ UNCHANGED <<run, cr3, tlb, pagedir, entries, kfree, ufree>>
  BY OfOne, Zenon DEF LoadHeader, AAt, StageOf, Loading, a_pools
<1>2. StackPage \in UserVpage /\ Vpage \subseteq UserVpage /\ UserVpage \subseteq Nat
  BY Mappable, Zenon
<1>3. PICK r \in Areq, l \in {"page", "stack", "exit"} :
        /\ apc' = [apc EXCEPT ![p] = l] /\ areq' = [areq EXCEPT ![p] = r]
        /\ r.pd = NONE /\ r.kpage = NONE /\ r.i = 0 /\ r.j = 0
        /\ l = "exit" => r = NoAreq
        /\ l # "exit" => r.u \in UserVpage /\ r.last \in UserVpage
        /\ l = "stack" => r.u = r.last
  <2>1. CASE \E u, last \in Vpage : /\ u <= last
                                    /\ ASet(p, [NoAreq EXCEPT !.u = u, !.last = last])
                                    /\ AGoto(p, "page")
    <3>1. PICK u \in Vpage, last \in Vpage :
            /\ areq' = [areq EXCEPT ![p] = [NoAreq EXCEPT !.u = u, !.last = last]]
            /\ apc' = [apc EXCEPT ![p] = "page"]
      BY <2>1, Zenon DEF ASet, AGoto
    <3> DEFINE r == [NoAreq EXCEPT !.u = u, !.last = last]
    <3>2. /\ r \in Areq /\ r.pd = NONE /\ r.kpage = NONE /\ r.i = 0 /\ r.j = 0
          /\ r.u \in UserVpage /\ r.last \in UserVpage
      <4>1. r = [pd |-> NONE, u |-> u, last |-> last, kpage |-> NONE, i |-> 0, j |-> 0]
        BY AreqWith, Zenon
      <4> HIDE DEF r
      <4> QED BY <1>2, <4>1, AreqFor, Zenon
    <3> HIDE DEF r
    <3> QED BY <3>1, <3>2, Zenon DEF r
  <2>2. CASE /\ ASet(p, [NoAreq EXCEPT !.u = StackPage, !.last = StackPage])
             /\ AGoto(p, "stack")
    <3> DEFINE r == [NoAreq EXCEPT !.u = StackPage, !.last = StackPage]
    <3>2. /\ r \in Areq /\ r.pd = NONE /\ r.kpage = NONE /\ r.i = 0 /\ r.j = 0
          /\ r.u \in UserVpage /\ r.last \in UserVpage /\ r.u = r.last
      <4>1. r = [pd |-> NONE, u |-> StackPage, last |-> StackPage, kpage |-> NONE, i |-> 0, j |-> 0]
        BY AreqWith, Zenon
      <4> HIDE DEF r
      <4> QED BY <1>2, <4>1, AreqFor, Zenon
    <3> HIDE DEF r
    <3> QED BY <2>2, <3>2, Zenon DEF r, ASet, AGoto
  <2>3. CASE ASet(p, NoAreq) /\ AGoto(p, "exit")
    BY <2>3, NoAreqFields, Zenon DEF ASet, AGoto
  <2> QED BY <2>1, <2>2, <2>3, Zenon DEF LoadHeader
<1>4. apc'[p] = l /\ areq'[p] = r /\ Others(p)
  BY <1>1, <1>3, Zenon DEF Others, AInv, ATypes
<1>5. ATypes'
  <2>1. apc' \in [Proc -> APC] /\ areq' \in [Proc -> Areq]
    BY <1>3, Zenon DEF AInv, ATypes, APC
  <2> QED BY <1>1, <2>1, Zenon DEF AInv, ATypes
<1>6. StageOf(apc'[p], pagedir'[p], areq'[p])
  BY <1>1, <1>3, <1>4, Zenon DEF StageOf, Loading
<1>7. SpaceOf(p)' = SpaceOf(p)
  BY <1>1, <1>3, <1>4, NoAreqFields, Zenon DEF SpaceOf
<1>8. Divided(entries, spaces, kfree, ufree)'
  BY <1>1, <1>4, <1>5, <1>7, DividedSame, Zenon
<1>9. InOwnSpace'
  BY <1>1, <1>3, <1>4, LoadOwn, Zenon DEF Loading
<1> QED BY <1>4, <1>5, <1>6, <1>8, <1>9, Kept, Zenon

(* palloc_get_page in load_segment and setup_stack. *)
LEMMA UserPageKeeps ==
  ASSUME AInv, NEW p \in Proc, UserPage(p) PROVE AInv'
<1> DEFINE r == areq[p]
<1>1. /\ run = p /\ apc[p] \in {"page", "stack"} /\ pagedir[p] # NONE
      /\ UNCHANGED <<run, cr3, tlb, pagedir, entries, kfree>>
      /\ r \in Areq /\ r.u \in UserVpage /\ r.last \in UserVpage /\ r.i = 0 /\ r.j = 0
      /\ r.kpage = NONE /\ r.pd = NONE
  BY OfOne, Zenon DEF UserPage, AAt, StageOf, Loading
<1>2. CASE ufree = {}
  <2>1. /\ apc' = [apc EXCEPT ![p] = "exit"] /\ areq' = [areq EXCEPT ![p] = NoAreq]
        /\ ufree' = ufree
    BY <1>2, Zenon DEF UserPage, AGoto, ASet
  <2>2. apc'[p] = "exit" /\ areq'[p] = NoAreq /\ Others(p)
    BY <1>1, <2>1, Zenon DEF Others, AInv, ATypes
  <2>3. ATypes'
    <3>1. apc' \in [Proc -> APC] /\ areq' \in [Proc -> Areq]
      BY <2>1, NoAreqFields, Zenon DEF AInv, ATypes, APC
    <3> QED BY <1>1, <2>1, <3>1, Zenon DEF AInv, ATypes
  <2>4. StageOf(apc'[p], pagedir'[p], areq'[p])
    BY <1>1, <2>2, NoAreqFields, Zenon DEF StageOf, Loading
  <2>5. SpaceOf(p)' = SpaceOf(p)
    BY <1>1, <2>2, NoAreqFields, Zenon DEF SpaceOf
  <2>6. Divided(entries, spaces, kfree, ufree)'
    BY <1>1, <2>1, <2>2, <2>3, <2>5, DividedSame, Zenon
  <2>7. InOwnSpace'
    BY <1>1, <2>2, LoadOwn, Zenon DEF Loading
  <2> QED BY <2>2, <2>3, <2>4, <2>6, <2>7, Kept, Zenon
<1>3. CASE ufree # {}
  <2> DEFINE page == First(ufree)
             l == IF apc[p] = "page" THEN "read" ELSE "map_stack"
             n == [r EXCEPT !.kpage = page]
  <2>1. /\ ufree' = ufree \ {page} /\ apc' = [apc EXCEPT ![p] = l]
        /\ areq' = [areq EXCEPT ![p] = n]
    BY <1>1, <1>3, Zenon DEF UserPage, AGoto, AInv, ATypes
  <2>2. page \in ufree /\ page \in UPage /\ page # NONE
    BY <1>3, FirstFree, PoolsDistinct, Zenon DEF AInv, ATypes
  <2> HIDE DEF page
  <2>3. /\ n \in Areq /\ n.u = r.u /\ n.last = r.last /\ n.i = 0 /\ n.j = 0
        /\ n.kpage = page /\ n.pd = NONE
    BY <1>1, <2>2, Zenon DEF Areq
  <2>4. l \in {"read", "map_stack"} /\ (l = "map_stack" => n.u = n.last)
    <3>1. apc[p] = "stack" => r.u = r.last
      BY OfOne, Zenon DEF StageOf
    <3> QED BY <1>1, <2>3, <3>1, Zenon
  <2> HIDE DEF n, l
  <2>5. apc'[p] = l /\ areq'[p] = n /\ Others(p)
    BY <1>1, <2>1, Zenon DEF Others, AInv, ATypes
  <2>6. ATypes'
    <3>1. apc' \in [Proc -> APC] /\ areq' \in [Proc -> Areq] /\ ufree' \in SUBSET UPage
      BY <2>1, <2>3, <2>4, Zenon DEF AInv, ATypes, APC
    <3> QED BY <1>1, <2>1, <3>1, Zenon DEF AInv, ATypes
  <2>7. StageOf(apc'[p], pagedir'[p], areq'[p])
    BY <1>1, <2>2, <2>3, <2>4, <2>5, Zenon DEF StageOf, Loading
  <2> DEFINE s == SpaceOf(p)
             t == [dir |-> pagedir[p], i |-> 0, j |-> 0, kpage |-> page]
  <2>8. s = [dir |-> pagedir[p], i |-> 0, j |-> 0, kpage |-> NONE] /\ s \in Space
    BY <1>1, OfOne, Zenon DEF SpaceOf
  <2>9. t = SpaceOf(p)' /\ t \in Space
    BY <1>1, <2>2, <2>3, <2>4, <2>5, <2>8, Zenon DEF SpaceOf, Space
  <2>10. UserOf(entries, s) = FramesOf(entries, s)
    BY <1>1, <2>8 DEF UserOf
  <2>11. /\ Tree(entries, s) /\ KernelOf(entries, s) \subseteq KPage \ kfree
         /\ UserOf(entries, s) \subseteq UPage \ ufree
    BY OfOne, Zenon
  <2>12. /\ Tree(entries, t) /\ KernelOf(entries, t) = KernelOf(entries, s)
         /\ UserOf(entries, t) = FramesOf(entries, s) \cup {page}
    <3>1. /\ t.dir = s.dir /\ t.i = s.i /\ t.j = s.j /\ t.kpage = page /\ s.dir # NONE
          /\ page \notin FramesOf(entries, s)
      BY <1>1, <2>2, <2>8, <2>10, <2>11
    <3> HIDE DEF s, t
    <3>2. /\ Tree(entries, t) /\ KernelOf(entries, t) = KernelOf(entries, s)
          /\ UserOf(entries, t) = FramesOf(entries, s) \cup ({t.kpage} \ {NONE})
      BY <2>8, <2>9, <2>11, <3>1, OtherPage
    <3> QED BY <2>2, <3>1, <3>2, Zenon
  <2> HIDE DEF t
  <2>13. Divided(entries, spaces, kfree, ufree)'
    <3>1. /\ KernelOf(entries', t) \cup kfree' = KernelOf(entries, s) \cup kfree
          /\ KernelOf(entries', t) \cap kfree' = {}
      BY <1>1, <2>11, <2>12, Zenon
    <3>2. /\ UserOf(entries', t) \cup ufree' = UserOf(entries, s) \cup ufree
          /\ UserOf(entries', t) \cap ufree' = {}
      BY <1>1, <2>1, <2>2, <2>10, <2>11, <2>12, Zenon
    <3>3. Tree(entries', t) /\ entries' = entries
      BY <1>1, <2>12, Zenon
    <3> QED BY <2>5, <2>6, <2>9, <3>1, <3>2, <3>3, DividedStep, Zenon
  <2>14. InOwnSpace'
    BY <1>1, <2>4, <2>5, LoadOwn, Zenon DEF Loading
  <2> QED BY <2>5, <2>6, <2>7, <2>13, <2>14, Kept, Zenon
<1> QED BY <1>2, <1>3, Zenon

(* load gives up the page it has not mapped. *)
LEMMA GivenUp ==
  ASSUME AInv, NEW p \in Proc, run = p, apc[p] \in {"read", "map", "map_stack"},
         UNCHANGED <<run, cr3, tlb, pagedir, entries, kfree>>,
         ufree' = ufree \cup {areq[p].kpage}, areq' = [areq EXCEPT ![p] = NoAreq],
         apc' = [apc EXCEPT ![p] = "exit"]
  PROVE  AInv'
<1> DEFINE r == areq[p]
           s == SpaceOf(p)
           t == [dir |-> pagedir[p], i |-> 0, j |-> 0, kpage |-> NONE]
<1>1. /\ pagedir[p] # NONE /\ r \in Areq /\ r.i = 0 /\ r.j = 0
      /\ r.kpage # NONE /\ r.kpage \in UPage /\ r.pd = NONE
  BY OfOne, Zenon DEF StageOf, Loading, Areq
<1>2. apc'[p] = "exit" /\ areq'[p] = NoAreq /\ Others(p)
  BY Zenon DEF Others, AInv, ATypes
<1>3. ATypes'
  <2>1. apc' \in [Proc -> APC] /\ areq' \in [Proc -> Areq] /\ ufree' \in SUBSET UPage
    BY <1>1, NoAreqFields, Zenon DEF AInv, ATypes, APC
  <2> QED BY <1>1, <2>1, Zenon DEF AInv, ATypes
<1>4. StageOf(apc'[p], pagedir'[p], areq'[p])
  BY <1>1, <1>2, NoAreqFields, Zenon DEF StageOf, Loading
<1>5. s = [dir |-> pagedir[p], i |-> 0, j |-> 0, kpage |-> r.kpage] /\ s \in Space
  BY <1>1, OfOne, Zenon DEF SpaceOf
<1>6. t = SpaceOf(p)' /\ t \in Space
  BY <1>1, <1>2, <1>5, NoAreqFields, Zenon DEF SpaceOf, Space
<1>7. UserOf(entries, s) = FramesOf(entries, s) \cup {r.kpage}
  BY <1>1, <1>5 DEF UserOf
<1>8. /\ Tree(entries, s) /\ KernelOf(entries, s) \subseteq KPage \ kfree
      /\ UserOf(entries, s) \subseteq UPage \ ufree
  BY OfOne, Zenon
<1>9. r.kpage \notin FramesOf(entries, s)
  BY <1>1, <1>5, <1>8 DEF Tree, TreeOfFrames
<1>10. /\ Tree(entries, t) /\ KernelOf(entries, t) = KernelOf(entries, s)
       /\ UserOf(entries, t) = FramesOf(entries, s)
  <2>1. NONE \notin FramesOf(entries, s)
    BY Zenon DEF FramesOf
  <2>2. /\ t.dir = s.dir /\ t.i = s.i /\ t.j = s.j /\ t.kpage = NONE /\ s.dir # NONE
    BY <1>1, <1>5
  <2> HIDE DEF s, t
  <2>3. /\ Tree(entries, t) /\ KernelOf(entries, t) = KernelOf(entries, s)
        /\ UserOf(entries, t) = FramesOf(entries, s) \cup ({t.kpage} \ {NONE})
    BY <1>5, <1>6, <1>8, <2>1, <2>2, OtherPage
  <2> QED BY <2>2, <2>3, Zenon
<1> HIDE DEF t
<1>11. Divided(entries, spaces, kfree, ufree)'
  <2>1. /\ KernelOf(entries', t) \cup kfree' = KernelOf(entries, s) \cup kfree
        /\ KernelOf(entries', t) \cap kfree' = {}
    BY <1>8, <1>10, Zenon
  <2>2. /\ UserOf(entries', t) \cup ufree' = UserOf(entries, s) \cup ufree
        /\ UserOf(entries', t) \cap ufree' = {}
    BY <1>7, <1>8, <1>9, <1>10, Zenon
  <2>3. Tree(entries', t) /\ entries' = entries
    BY <1>10, Zenon
  <2> QED BY <1>2, <1>3, <1>6, <2>1, <2>2, <2>3, DividedStep, Zenon
<1>12. InOwnSpace'
  BY <1>2, LoadOwn, Zenon DEF Loading
<1> QED BY <1>2, <1>3, <1>4, <1>11, <1>12, Kept, Zenon

(* file_read fills the page, or load_segment frees it again. *)
LEMMA ReadPageKeeps ==
  ASSUME AInv, NEW p \in Proc, ReadPage(p) PROVE AInv'
<1>1. /\ run = p /\ apc[p] = "read" /\ pagedir[p] # NONE
      /\ UNCHANGED <<run, cr3, tlb, pagedir, entries, kfree>>
  BY OfOne, Zenon DEF ReadPage, AAt, StageOf, Loading
<1>2. CASE AGoto(p, "map") /\ UNCHANGED <<ufree, areq>>
  <2>1. apc'[p] = "map" /\ areq' = areq /\ ufree' = ufree /\ Others(p) /\ apc' \in [Proc -> APC]
    BY <1>1, <1>2, Zenon DEF AGoto, Others, AInv, ATypes, APC
  <2>2. ATypes'
    BY <1>1, <2>1, Zenon DEF AInv, ATypes
  <2>3. StageOf(apc[p], pagedir[p], areq[p])
    BY OfOne, Zenon
  <2>4. StageOf(apc'[p], pagedir'[p], areq'[p])
    BY <1>1, <2>1, <2>3, Zenon DEF StageOf, Loading
  <2>5. SpaceOf(p)' = SpaceOf(p)
    BY <1>1, <2>1, Zenon DEF SpaceOf
  <2>6. Divided(entries, spaces, kfree, ufree)'
    BY <1>1, <2>1, <2>2, <2>5, DividedSame, Zenon
  <2>7. InOwnSpace'
    BY <1>1, <2>1, LoadOwn, Zenon DEF Loading
  <2> QED BY <2>1, <2>2, <2>4, <2>6, <2>7, Kept, Zenon
<1>3. CASE ufree' = ufree \cup {areq[p].kpage} /\ ASet(p, NoAreq) /\ AGoto(p, "exit")
  BY <1>1, <1>3, GivenUp, Zenon DEF ASet, AGoto
<1> QED BY <1>2, <1>3, Zenon DEF ReadPage

(* install_page maps the page: in a table that is there, or in a new one. *)
Installs(p, a, b, pt, old) ==
  /\ \/ /\ entries[pagedir[p]][a] # NONE /\ pt = entries[pagedir[p]][a]
        /\ old = entries[pt] /\ entries[pt][b] = NONE
     \/ entries[pagedir[p]][a] = NONE /\ pt \in kfree /\ old = Table(NONE)
  /\ entries' = [entries EXCEPT ![pagedir[p]][a] = pt,
                                ![pt] = [old EXCEPT ![b] = areq[p].kpage]]

(* install_page keeps the pages divided, with and without a new page table. *)
LEMMA Installed ==
  ASSUME AInv, NEW p \in Proc, apc[p] \in {"map", "map_stack"},
         NEW a, NEW b, NEW pt, NEW old, a = pd_no(areq[p].u), b = pt_no(areq[p].u),
         Installs(p, a, b, pt, old),
         NEW t \in Space, t = [dir |-> pagedir[p], i |-> 0, j |-> 0, kpage |-> NONE]
  PROVE  /\ entries' \in Contents
         /\ \A k \in KPage \ (KernelOf(entries, SpaceOf(p)) \cup kfree) : entries'[k] = entries[k]
         /\ Tree(entries', t)
         /\ KernelOf(entries', t) = KernelOf(entries, SpaceOf(p)) \cup {pt} /\ pt \in KPage
         /\ UserOf(entries', t) = UserOf(entries, SpaceOf(p))
<1> DEFINE r == areq[p]
           s == SpaceOf(p)
           pd == pagedir[p]
           new == [old EXCEPT ![b] = r.kpage]
<1>1. /\ pd # NONE /\ pd \in KPage /\ r \in Areq /\ r.i = 0 /\ r.j = 0
      /\ r.kpage # NONE /\ r.kpage \in UPage /\ r.u \in UserVpage
  BY OfOne, Zenon DEF StageOf, Loading, Areq
<1>2. a \in 0..UserDirs - 1 /\ b \in 0..TableSize - 1 /\ a \in 0..TableSize - 1
  BY <1>1, Indices, AddressSpaceAssumption
<1>3. s = [dir |-> pd, i |-> 0, j |-> 0, kpage |-> r.kpage] /\ s \in Space
  BY <1>1, OfOne, Zenon DEF SpaceOf
<1>4. /\ Tree(entries, s) /\ KernelOf(entries, s) \subseteq KPage \ kfree
      /\ UserOf(entries, s) \subseteq UPage \ ufree /\ entries \in Contents /\ kfree \subseteq KPage
  BY OfOne, Zenon DEF AInv, ATypes
<1>5. s.dir = pd /\ s.i = 0 /\ s.j = 0 /\ s.kpage = r.kpage
  BY <1>3
<1>6. t.dir = pd /\ t.i = 0 /\ t.j = 0 /\ t.kpage = NONE
  BY Zenon
<1>7. pd \in KernelOf(entries, s)
  BY <1>1, <1>5, Zenon DEF KernelOf
<1>8. entries[pd][a] # NONE => entries[pd][a] \in TablesOf(entries, s) /\ entries[pd][a] # pd
  BY <1>1, <1>2, <1>4, <1>5, Zenon DEF Tree, TreeOfTables, TablesOf
<1>9. pt \in KPage /\ pt # pd
  <2>1. CASE entries[pd][a] # NONE
    BY <1>1, <1>4, <1>5, <1>8, <2>1, Zenon DEF KernelOf, Installs
  <2>2. CASE entries[pd][a] = NONE
    BY <1>4, <1>7, <2>2, Zenon DEF Installs
  <2> QED BY <2>1, <2>2, Zenon
<1>10. old \in Tbl /\ new \in Tbl
  <2>1. Table(NONE) \in Tbl
    BY DEF Table, Tbl, NONE
  <2>2. entries[pt] \in Tbl
    BY <1>4, <1>9, Zenon DEF Contents
  <2>3. old \in Tbl
    BY <2>1, <2>2, Zenon DEF Installs
  <2>4. r.kpage \in Int
    <3>1. r.kpage \in Nat
      BY <1>1, PoolsDistinct, Zenon
    <3> QED BY <3>1
  <2> QED BY <1>2, <2>3, <2>4, Zenon DEF Tbl
<1>11. /\ entries' \in Contents
       /\ entries'[pd] = [entries[pd] EXCEPT ![a] = pt]
       /\ entries'[pt] = new
       /\ \A k \in KPage : k # pd /\ k # pt => entries'[k] = entries[k]
  <2>1. entries[pd] \in Tbl /\ [entries[pd] EXCEPT ![a] = pt] \in Tbl
    <3>1. pt \in Int
      BY <1>9, PoolsDistinct
    <3> QED BY <1>1, <1>2, <1>4, <3>1, Zenon DEF Contents, Tbl
  <2> HIDE DEF new
  <2>2. entries' = [k \in KPage |-> IF k = pt THEN new ELSE
                                    IF k = pd THEN [entries[pd] EXCEPT ![a] = pt] ELSE entries[k]]
    <3>1. entries' = [[entries EXCEPT ![pd] = [entries[pd] EXCEPT ![a] = pt]] EXCEPT ![pt] = new]
      BY Zenon DEF new, Installs
    <3> QED BY <1>1, <1>4, <1>9, <3>1, Zenon DEF Contents
  <2>3. entries'[pd] = [entries[pd] EXCEPT ![a] = pt] /\ entries'[pt] = new
    BY <1>1, <1>9, <2>2, Zenon
  <2>4. \A k \in KPage : k # pd /\ k # pt => entries'[k] = entries[k]
    BY <2>2, Zenon
  <2>5. \A k \in KPage : entries[k] \in Tbl
    BY <1>4, Zenon DEF Contents
  <2>6. entries' \in Contents
    BY <1>10, <2>1, <2>2, <2>5, Zenon DEF Contents
  <2> QED BY <2>3, <2>4, <2>6, Zenon
<1>12. /\ entries'[pd][a] = pt
       /\ \A k \in 0..UserDirs - 1 : k # a => entries'[pd][k] = entries[pd][k]
       /\ new[b] = r.kpage
       /\ \A k \in 0..TableSize - 1 : k # b => new[k] = old[k]
  <2>1. entries[pd] \in Tbl /\ UserDirs <= TableSize /\ UserDirs \in Nat /\ TableSize \in Nat
    BY <1>1, <1>4, AddressSpaceAssumption DEF Contents
  <2>2. entries'[pd] = [entries[pd] EXCEPT ![a] = pt]
    BY <1>11, Zenon
  <2>3. \A k \in 0..UserDirs - 1 : k \in 0..TableSize - 1
    BY <2>1
  <2>4. /\ entries'[pd][a] = pt
        /\ \A k \in 0..UserDirs - 1 : k # a => entries'[pd][k] = entries[pd][k]
    BY <1>2, <2>1, <2>2, <2>3, Zenon DEF Tbl
  <2>5. /\ new[b] = r.kpage
        /\ \A k \in 0..TableSize - 1 : k # b => new[k] = old[k]
    BY <1>2, <1>10, Zenon DEF Tbl
  <2> QED BY <2>4, <2>5, Zenon
<1>13. CASE entries[pd][a] # NONE
  <2>1. pt = entries[pd][a] /\ old = entries[pt] /\ entries[pt][b] = NONE
    BY <1>13, Zenon DEF Installs
  <2>2. entries'[pd] = entries[pd]
    <3>1. entries[pd] \in Tbl
      BY <1>1, <1>4, Zenon DEF Contents
    <3> QED BY <1>2, <1>11, <2>1, <3>1, Zenon DEF Tbl
  <2>3. KernelOf(entries, s) \subseteq KPage /\ TablesOf(entries, s) \subseteq KPage
    BY <1>1, <1>4, <1>5, Zenon DEF KernelOf
  <2>4. pd \notin TablesOf(entries, s)
    BY <1>1, <1>4, <1>5, Zenon DEF Tree, TreeOfTables, TablesOf
  <2>5. \A x \in TablesOf(entries, s) : x # pt => entries'[x] = entries[x]
    BY <1>11, <2>3, <2>4, Zenon
  <2>6. pt \in KernelOf(entries, s)
    BY <1>1, <1>5, <1>8, <1>13, <2>1, Zenon DEF KernelOf
  <2>7. /\ entries'[pt][b] = s.kpage
        /\ \A k \in 0..TableSize - 1 : k # b => entries'[pt][k] = entries[pt][k]
    <3> HIDE DEF s, pd, new, r
    <3>1. entries'[pt] = new
      BY <1>11, Zenon
    <3> QED BY <1>5, <1>12, <2>1, <3>1, Zenon
  <2> HIDE DEF s, pd, new, r
  <2>8. /\ Tree(entries', t) /\ KernelOf(entries', t) = KernelOf(entries, s)
        /\ UserOf(entries', t) = UserOf(entries, s)
    <3>1. /\ s \in Space /\ t \in Space /\ Tree(entries, s)
          /\ s.dir # NONE /\ s.i = 0 /\ s.j = 0 /\ s.kpage # NONE
          /\ t.dir = s.dir /\ t.i = 0 /\ t.j = 0 /\ t.kpage = NONE
          /\ a \in 0..UserDirs - 1 /\ b \in 0..TableSize - 1 /\ pt = entries[s.dir][a]
          /\ pt # NONE /\ entries[pt][b] = NONE /\ entries'[s.dir] = entries[s.dir]
      BY <1>1, <1>2, <1>3, <1>4, <1>5, <1>6, <1>13, <2>1, <2>2, Zenon
    <3>2. MapsAt(entries, entries', s, t, a, b, pt)
      BY <2>5, <2>7, <3>1, Zenon DEF MapsAt
    <3> QED BY <3>1, <3>2, Mapped
  <2>9. \A k \in KPage \ (KernelOf(entries, s) \cup kfree) : entries'[k] = entries[k]
    BY <1>7, <1>11, <2>6, Zenon
  <2>10. KernelOf(entries', t) = KernelOf(entries, s) \cup {pt}
    BY <2>6, <2>8, Zenon
  <2> QED BY <1>9, <1>11, <2>8, <2>9, <2>10, Zenon DEF s
<1>14. CASE entries[pd][a] = NONE
  <2>1. pt \in kfree /\ old = Table(NONE) /\ pt \notin KernelOf(entries, s)
    BY <1>4, <1>14, Zenon DEF Installs
  <2> DEFINE G == [k \in KPage |-> IF k = pt THEN Table(NONE) ELSE entries'[k]]
  <2>2. TablesOf(entries, s) \subseteq KPage /\ pd \notin TablesOf(entries, s) /\ pt \notin TablesOf(entries, s)
    BY <1>1, <1>4, <1>5, <2>1, Zenon DEF Tree, TreeOfTables, TablesOf, KernelOf
  <2>3. /\ G[pd] = entries'[pd] /\ G[pt] = Table(NONE)
        /\ \A x \in KPage : x # pt => G[x] = entries'[x]
    BY <1>1, <1>9, Zenon
  <2> HIDE DEF s, pd, new, r, G
  <2>4. \A x \in TablesOf(entries, s) : G[x] = entries[x]
    BY <1>11, <2>2, <2>3, Zenon
  <2>5. \A k \in 0..TableSize - 1 : G[pt][k] = NONE
    BY <2>3, Zenon DEF Table
  <2>6. G[pd][a] = pt /\ \A k \in 0..UserDirs - 1 : k # a => G[pd][k] = entries[pd][k]
    BY <1>12, <2>3, Zenon
  <2>7. /\ Tree(G, s) /\ KernelOf(G, s) = KernelOf(entries, s) \cup {pt}
        /\ UserOf(G, s) = UserOf(entries, s)
    BY <1>1, <1>2, <1>3, <1>4, <1>5, <1>9, <1>14, <2>1, <2>4, <2>5, <2>6, TableAdded
  <2>8. /\ entries'[pd] = G[pd] /\ entries'[pt][b] = s.kpage
        /\ \A k \in 0..TableSize - 1 : k # b => entries'[pt][k] = G[pt][k]
    BY <1>5, <1>11, <1>12, <2>1, <2>3
  <2>9. TablesOf(G, s) \subseteq KPage
    BY <1>1, <1>4, <1>5, <1>9, <2>7, Zenon DEF KernelOf
  <2>10. \A x \in TablesOf(G, s) : x # pt => entries'[x] = G[x]
    BY <2>3, <2>9, Zenon
  <2>11. pt # NONE /\ G[pt][b] = NONE
    BY <1>2, <1>9, <2>5, PoolsDistinct, Zenon
  <2>12. /\ Tree(entries', t) /\ KernelOf(entries', t) = KernelOf(G, s)
         /\ UserOf(entries', t) = UserOf(G, s)
    <3>1. /\ s \in Space /\ t \in Space /\ Tree(G, s)
          /\ s.dir # NONE /\ s.i = 0 /\ s.j = 0 /\ s.kpage # NONE
          /\ t.dir = s.dir /\ t.i = 0 /\ t.j = 0 /\ t.kpage = NONE
          /\ a \in 0..UserDirs - 1 /\ b \in 0..TableSize - 1 /\ pt = G[s.dir][a]
          /\ pt # NONE /\ G[pt][b] = NONE /\ entries'[s.dir] = G[s.dir]
      BY <1>1, <1>2, <1>3, <1>5, <1>6, <2>6, <2>7, <2>8, <2>11, Zenon
    <3>2. MapsAt(G, entries', s, t, a, b, pt)
      BY <2>8, <2>10, <3>1, Zenon DEF MapsAt
    <3> QED BY <3>1, <3>2, Mapped
  <2>13. \A k \in KPage \ (KernelOf(entries, s) \cup kfree) : entries'[k] = entries[k]
    BY <1>7, <1>11, <2>1, Zenon
  <2> QED BY <1>9, <1>11, <2>7, <2>12, <2>13, Zenon DEF s
<1> QED BY <1>13, <1>14, Zenon

(* install_page as a step of load, its failure included. *)
LEMMA InstallPageKeeps ==
  ASSUME AInv, NEW p \in Proc, InstallPage(p) PROVE AInv'
<1> DEFINE r == areq[p]
           pd == pagedir[p]
           a == pd_no(r.u)
           b == pt_no(r.u)
           there == entries[pd][a]
           pt == IF there = NONE THEN First(kfree) ELSE there
           old == IF there = NONE THEN Table(NONE) ELSE entries[pt]
           fails == lookup_page(pd, r.u) # NONE \/ (there = NONE /\ kfree = {})
           n == IF r.u < r.last THEN [r EXCEPT !.u = @ + 1, !.kpage = NONE] ELSE NoAreq
           l == CASE r.u < r.last -> "page"
                  [] apc[p] = "map_stack" -> "user"
                  [] OTHER -> "headers"
<1>1. /\ run = p /\ apc[p] \in {"map", "map_stack"} /\ pd # NONE /\ pd \in KPage
      /\ UNCHANGED <<run, cr3, tlb, pagedir>>
      /\ r \in Areq /\ r.u \in UserVpage /\ r.last \in UserVpage /\ r.i = 0 /\ r.j = 0
      /\ r.kpage # NONE /\ r.pd = NONE
  BY OfOne, Zenon DEF InstallPage, Install, AAt, StageOf, Loading
<1>2. CASE fails
  BY <1>1, <1>2, GivenUp, Zenon DEF InstallPage, Install, ASet, AGoto
<1>3. CASE ~fails
  <2>1. /\ kfree' = kfree \ {pt} /\ ufree' = ufree
        /\ entries' = [entries EXCEPT ![pd][a] = pt, ![pt] = [old EXCEPT ![b] = r.kpage]]
        /\ areq' = [areq EXCEPT ![p] = n] /\ apc' = [apc EXCEPT ![p] = l]
    BY <1>3, Zenon DEF InstallPage, Install, ASet, AGoto
  <2>2. \/ there # NONE /\ pt = there /\ old = entries[pt] /\ entries[pt][b] = NONE
        \/ there = NONE /\ pt \in kfree /\ old = Table(NONE)
    <3>1. CASE there = NONE
      <4>1. kfree # {} /\ kfree \in SUBSET Nat
        BY <1>3, <3>1, PoolsDistinct, Zenon DEF AInv, ATypes
      <4>2. First(kfree) \in kfree
        BY <4>1, FirstFree, Zenon
      <4> QED BY <3>1, <4>2, Zenon
    <3>2. CASE there # NONE
      BY <1>3, <3>2, Zenon DEF lookup_page
    <3> QED BY <3>1, <3>2, Zenon
  <2>3. /\ n \in Areq /\ n.i = 0 /\ n.j = 0 /\ n.kpage = NONE /\ n.pd = NONE
        /\ l \in {"page", "user", "headers"}
        /\ l = "page" => n.u \in UserVpage /\ n.last \in UserVpage
        /\ l # "page" => n = NoAreq
    <3>1. CASE r.u < r.last
      <4>1. n = [pd |-> r.pd, u |-> r.u + 1, last |-> r.last, kpage |-> NONE, i |-> r.i, j |-> r.j]
        BY <1>1, <3>1, Zenon DEF Areq
      <4>2. r.u + 1 \in UserVpage /\ r.u + 1 \in Nat /\ r.last \in Nat
        <5>1. UserDirs * TableSize \in Nat
          BY AddressSpaceAssumption
        <5> QED BY <1>1, <3>1, <5>1 DEF UserVpage
      <4>3. l = "page"
        <5>1. apc[p] # "map_stack"
          <6>1. apc[p] = "map_stack" => r.u = r.last
            BY OfOne, Zenon DEF StageOf
          <6>2. r.u \in Nat /\ r.last \in Nat
            BY <1>1, Zenon DEF Areq
          <6> QED BY <3>1, <6>1, <6>2
        <5> QED BY <3>1, <5>1, Zenon
      <4>4. n \in Areq
        BY <1>1, <4>1, <4>2 DEF Areq
      <4> QED BY <1>1, <4>1, <4>2, <4>3, <4>4, Zenon
    <3>2. CASE ~ (r.u < r.last)
      <4>1. n = NoAreq /\ l \in {"user", "headers"}
        BY <3>2, Zenon
      <4> QED BY <4>1, NoAreqFields, Zenon
    <3> QED BY <3>1, <3>2, Zenon
  <2> DEFINE s == SpaceOf(p)
             t == [dir |-> pd, i |-> 0, j |-> 0, kpage |-> NONE]
  <2>4. t \in Space
    BY <1>1, AddressSpaceAssumption DEF Space
  <2>5. /\ entries' \in Contents
        /\ \A k \in KPage \ (KernelOf(entries, s) \cup kfree) : entries'[k] = entries[k]
        /\ Tree(entries', t)
        /\ KernelOf(entries', t) = KernelOf(entries, s) \cup {pt} /\ pt \in KPage
        /\ UserOf(entries', t) = UserOf(entries, s)
    <3> HIDE DEF pt, old
    <3>1. Installs(p, a, b, pt, old)
      BY <2>1, <2>2, Zenon DEF Installs
    <3> HIDE DEF a, b, t, s
    <3> QED BY <1>1, <2>4, <3>1, Installed, Zenon DEF a, b, t, s
  <2> HIDE DEF n, l, pt, old, there
  <2>6. apc'[p] = l /\ areq'[p] = n /\ Others(p)
    BY <1>1, <2>1, Zenon DEF Others, AInv, ATypes
  <2>7. ATypes'
    <3>1. apc' \in [Proc -> APC] /\ areq' \in [Proc -> Areq] /\ kfree' \in SUBSET KPage
      BY <2>1, <2>3, Zenon DEF AInv, ATypes, APC
    <3> QED BY <1>1, <2>1, <2>5, <3>1, Zenon DEF AInv, ATypes
  <2>8. StageOf(apc'[p], pagedir'[p], areq'[p])
    BY <1>1, <2>3, <2>6, Zenon DEF StageOf, Loading
  <2>9. t = SpaceOf(p)'
    BY <1>1, <2>3, <2>6, Zenon DEF SpaceOf
  <2>10. /\ KernelOf(entries, s) \subseteq KPage \ kfree /\ UserOf(entries, s) \subseteq UPage \ ufree
         /\ s \in Space
    BY OfOne, Zenon
  <2>11. pt \in kfree \cup KernelOf(entries, s)
    <3>1. CASE pt \in kfree
      BY <3>1, Zenon
    <3>2. CASE there # NONE /\ pt = there
      <4>1. a \in 0..UserDirs - 1
        BY <1>1, Indices, Zenon
      <4>2. s.dir = pd /\ s.i = 0
        BY <1>1, Zenon DEF SpaceOf
      <4> QED BY <1>1, <3>2, <4>1, <4>2, Zenon DEF KernelOf, TablesOf, there
    <3> QED BY <2>2, <3>1, <3>2, Zenon
  <2> HIDE DEF s, t
  <2>12. Divided(entries, spaces, kfree, ufree)'
    <3>1. /\ KernelOf(entries', t) \cup kfree' = KernelOf(entries, s) \cup kfree
          /\ KernelOf(entries', t) \cap kfree' = {}
      BY <2>1, <2>5, <2>10, <2>11, Zenon
    <3>2. /\ UserOf(entries', t) \cup ufree' = UserOf(entries, s) \cup ufree
          /\ UserOf(entries', t) \cap ufree' = {}
      BY <2>1, <2>5, <2>10, Zenon
    <3> QED BY <2>4, <2>5, <2>6, <2>7, <2>9, <3>1, <3>2, DividedStep, Zenon DEF s
  <2>13. InOwnSpace'
    BY <1>1, <2>3, <2>6, LoadOwn, Zenon DEF Loading
  <2> QED BY <2>6, <2>7, <2>8, <2>12, <2>13, Kept, Zenon
<1> QED BY <1>2, <1>3, Zenon
-----------------------------------------------------------------------------
(* process_exit takes the directory from the thread first. *)
LEMMA ProcessExitKeeps ==
  ASSUME AInv, NEW p \in Proc, ProcessExit(p) PROVE AInv'
<1>1. /\ run = p /\ apc[p] \in {"user", "exit"} /\ areq[p] = NoAreq
      /\ UNCHANGED <<run, cr3, tlb, entries, kfree, ufree>>
      /\ apc[p] = "user" => pagedir[p] # NONE
  BY OfOne, Zenon DEF ProcessExit, AAt, StageOf, Loading, a_pools
<1>2. CASE pagedir[p] = NONE
  <2>1. apc' = [apc EXCEPT ![p] = "start"] /\ UNCHANGED <<pagedir, areq>>
    BY <1>2, Zenon DEF ProcessExit, AGoto
  <2>2. apc'[p] = "start" /\ Others(p) /\ apc' \in [Proc -> APC] /\ apc[p] = "exit"
    BY <1>1, <1>2, <2>1, Zenon DEF Others, AInv, ATypes, APC
  <2>3. ATypes'
    BY <1>1, <2>1, <2>2, Zenon DEF AInv, ATypes
  <2>4. StageOf(apc'[p], pagedir'[p], areq'[p])
    BY <1>1, <1>2, <2>1, <2>2, NoAreqFields, Zenon DEF StageOf, Loading
  <2>5. SpaceOf(p)' = SpaceOf(p)
    BY <1>1, <2>1, <2>2, Zenon DEF SpaceOf
  <2>6. Divided(entries, spaces, kfree, ufree)'
    BY <1>1, <2>1, <2>2, <2>3, <2>5, DividedSame, Zenon
  <2>7. InOwnSpace'
    BY <1>1, <2>2, <2>5, OwnKept, Zenon DEF Loading
  <2> QED BY <2>2, <2>3, <2>4, <2>6, <2>7, Kept, Zenon
<1>3. CASE pagedir[p] # NONE
  <2> DEFINE n == [NoAreq EXCEPT !.pd = pagedir[p]]
  <2>1. /\ apc' = [apc EXCEPT ![p] = "deactivate"] /\ areq' = [areq EXCEPT ![p] = n]
        /\ pagedir' = [pagedir EXCEPT ![p] = NONE]
    BY <1>3, Zenon DEF ProcessExit, AGoto, ASet
  <2>2. /\ n = [pd |-> pagedir[p], u |-> 0, last |-> 0, kpage |-> NONE, i |-> 0, j |-> 0]
        /\ pagedir[p] \in KPage
    BY <1>3, OfOne DEF NoAreq
  <2> HIDE DEF n
  <2>3. n \in Areq
    BY <2>2, AddressSpaceAssumption DEF Areq
  <2>4. /\ apc'[p] = "deactivate" /\ areq'[p] = n /\ pagedir'[p] = NONE /\ Others(p)
        /\ apc' \in [Proc -> APC] /\ areq' \in [Proc -> Areq]
        /\ pagedir' \in [Proc -> KPage \cup {NONE}]
    BY <2>1, <2>3, Zenon DEF Others, AInv, ATypes, APC
  <2>5. ATypes'
    BY <1>1, <2>4, Zenon DEF AInv, ATypes
  <2>6. StageOf(apc'[p], pagedir'[p], areq'[p])
    BY <1>3, <2>2, <2>4 DEF StageOf, Loading
  <2>7. SpaceOf(p)' = SpaceOf(p)
    <3>1. SpaceOf(p)' = [dir |-> pagedir[p], i |-> 0, j |-> 0, kpage |-> NONE]
      BY <2>2, <2>4 DEF SpaceOf
    <3>2. SpaceOf(p) = [dir |-> pagedir[p], i |-> 0, j |-> 0, kpage |-> NONE]
      BY <1>1, NoAreqFields, Zenon DEF SpaceOf
    <3> QED BY <3>1, <3>2, Zenon
  <2>8. Divided(entries, spaces, kfree, ufree)'
    BY <1>1, <2>4, <2>5, <2>7, DividedSame, Zenon
  <2>9. InOwnSpace'
    <3>1. (cr3 # init_page_dir => cr3 = SpaceOf(run).dir /\ apc[run] # "destroy")'
      <4>1. SpaceOf(run)' = SpaceOf(run)
        BY <1>1, <2>7, Zenon DEF SpaceOf
      <4>2. cr3 # init_page_dir => cr3 = SpaceOf(run).dir
        BY Zenon DEF AInv, InOwnSpace
      <4> QED BY <1>1, <2>4, <4>1, <4>2, Zenon DEF init_page_dir
    <3>2. (apc[run] \in Loading => cr3 = pagedir[run])'
      BY <1>1, <2>4, Zenon DEF Loading
    <3>3. (tlb # {} => apc[run] \in {"user", "deactivate"} /\ cr3 # init_page_dir)'
      <4>1. tlb # {} => cr3 # init_page_dir
        BY Zenon DEF AInv, InOwnSpace
      <4> QED BY <1>1, <2>4, <4>1, Zenon DEF init_page_dir
    <3>4. (\A e \in tlb : e[1] \in Vpage /\ lookup_page(cr3, e[1]) = e[2] /\ e[2] # NONE)'
      <4>1. \A e \in tlb : e[1] \in Vpage /\ lookup_page(cr3, e[1]) = e[2] /\ e[2] # NONE
        BY Zenon DEF AInv, InOwnSpace
      <4>2. ASSUME NEW a PROVE lookup_page(cr3, a)' = lookup_page(cr3, a)
        BY <1>1, Zenon DEF lookup_page
      <4> QED BY <1>1, <4>1, <4>2, Zenon
    <3> QED BY <3>1, <3>2, <3>3, <3>4, Zenon DEF InOwnSpace
  <2> QED BY <2>4, <2>5, <2>6, <2>8, <2>9, Kept, Zenon
<1> QED BY <1>2, <1>3, Zenon

(* process_exit enters the initial directory before it destroys its own. *)
LEMMA DeactivateKeeps ==
  ASSUME AInv, NEW p \in Proc, Deactivate(p) PROVE AInv'
<1>1. /\ run = p /\ apc[p] = "deactivate"
      /\ UNCHANGED <<run, pagedir, entries, kfree, ufree, areq>>
      /\ apc' = [apc EXCEPT ![p] = "destroy"] /\ cr3' = init_page_dir /\ tlb' = {}
  BY Zenon DEF Deactivate, AAt, AGoto, Activate, a_pools
<1>2. apc'[p] = "destroy" /\ Others(p) /\ apc' \in [Proc -> APC]
  BY <1>1, Zenon DEF Others, AInv, ATypes, APC
<1>3. ATypes'
  BY <1>1, <1>2, Zenon DEF AInv, ATypes
<1>4. StageOf(apc'[p], pagedir'[p], areq'[p])
  <2>1. StageOf(apc[p], pagedir[p], areq[p])
    BY OfOne, Zenon
  <2> QED BY <1>1, <1>2, <2>1, Zenon DEF StageOf, Loading
<1>5. SpaceOf(p)' = SpaceOf(p)
  BY <1>1, <1>2, Zenon DEF SpaceOf
<1>6. Divided(entries, spaces, kfree, ufree)'
  BY <1>1, <1>2, <1>3, <1>5, DividedSame, Zenon
<1>7. InOwnSpace'
  BY <1>1, <1>2, Zenon DEF InOwnSpace, Loading, init_page_dir
<1> QED BY <1>2, <1>3, <1>4, <1>6, <1>7, Kept, Zenon

(* While p destroys, its next request n is what counts. *)
LEMMA Destroys ==
  ASSUME AInv, NEW p \in Proc, run = p, apc[p] = "destroy", UNCHANGED <<run, cr3, tlb, pagedir>>,
         NEW n \in Areq, NEW l \in {"destroy", "start"},
         apc' = [apc EXCEPT ![p] = l], areq' = [areq EXCEPT ![p] = n],
         n.kpage = NONE, n.pd # NONE <=> l = "destroy", l = "start" => n = NoAreq,
         entries' \in Contents, kfree' \in SUBSET KPage, ufree' \in SUBSET UPage,
         \A k \in KPage \ (KernelOf(entries, SpaceOf(p)) \cup kfree) : entries'[k] = entries[k],
         NEW t, t = [dir |-> n.pd, i |-> n.i, j |-> n.j, kpage |-> NONE],
         t \in Space => Tree(entries', t),
         KernelOf(entries', t) \cup kfree' = KernelOf(entries, SpaceOf(p)) \cup kfree,
         KernelOf(entries', t) \cap kfree' = {},
         UserOf(entries', t) \cup ufree' = UserOf(entries, SpaceOf(p)) \cup ufree,
         UserOf(entries', t) \cap ufree' = {}
  PROVE  AInv'
<1>1. pagedir[p] = NONE
  BY OfOne, Zenon DEF StageOf
<1>2. apc'[p] = l /\ areq'[p] = n /\ Others(p) /\ pagedir'[p] = NONE
  BY <1>1, Zenon DEF Others, AInv, ATypes
<1>3. ATypes'
  <2>1. apc' \in [Proc -> APC] /\ areq' \in [Proc -> Areq]
    BY Zenon DEF AInv, ATypes, APC
  <2> QED BY <2>1, Zenon DEF AInv, ATypes
<1>4. StageOf(apc'[p], pagedir'[p], areq'[p])
  BY <1>2, NoAreqFields, Zenon DEF StageOf, Loading
<1>5. t \in Space
  BY Zenon DEF Space, Areq
<1>6. t = SpaceOf(p)'
  BY <1>2, NoAreqFields, Zenon DEF SpaceOf
<1>7. Divided(entries, spaces, kfree, ufree)'
  BY <1>2, <1>3, <1>5, <1>6, DividedStep, Zenon
<1>8. InOwnSpace'
  <2>1. cr3 = init_page_dir
    BY KernelsOwn, Zenon
  <2> QED BY <1>2, <2>1, OwnKept, Zenon DEF Loading
<1> QED BY <1>2, <1>3, <1>4, <1>7, <1>8, Kept, Zenon

(* A kernel page given back holds nothing. *)
LEMMA Emptied ==
  ASSUME AInv, NEW page \in KPage, entries' = [entries EXCEPT ![page] = Table(Junk)]
  PROVE  entries' \in Contents /\ \A k \in KPage : k # page => entries'[k] = entries[k]
<1>1. Table(Junk) \in Tbl
  BY DEF Table, Tbl, Junk
<1>2. entries \in Contents
  BY Zenon DEF AInv, ATypes
<1> QED BY <1>1, <1>2, Zenon DEF Contents

(* The loop counters of pagedir_destroy stay within a directory and a table. *)
LEMMA NextEntry ==
  ASSUME NEW r \in Areq, NEW n, n = [r EXCEPT !.i = @ + 1, !.j = 0]
  PROVE  n = [pd |-> r.pd, u |-> r.u, last |-> r.last, kpage |-> r.kpage, i |-> r.i + 1, j |-> 0]
  BY Zenon DEF Areq

(* pagedir_destroy: one entry, one table or the directory at a time. *)
LEMMA PagedirDestroyKeeps ==
  ASSUME AInv, NEW p \in Proc, PagedirDestroy(p) PROVE AInv'
<1> DEFINE r == areq[p]
           s == SpaceOf(p)
           pt == entries[r.pd][r.i]
<1>1. /\ run = p /\ apc[p] = "destroy" /\ UNCHANGED <<run, cr3, tlb, pagedir>>
      /\ r \in Areq /\ r.pd # NONE /\ r.pd \in KPage /\ r.kpage = NONE
      /\ areq \in [Proc -> Areq] /\ apc \in [Proc -> APC] /\ entries \in Contents
      /\ kfree \subseteq KPage /\ ufree \subseteq UPage
  BY OfOne, Zenon DEF PagedirDestroy, Destroy, AAt, StageOf, AInv, ATypes, Areq
<1>2. s = [dir |-> r.pd, i |-> r.i, j |-> r.j, kpage |-> NONE]
  BY <1>1, Zenon DEF SpaceOf
<1>3. s.dir = r.pd /\ s.i = r.i /\ s.j = r.j /\ s.kpage = NONE
  BY <1>2
<1>4. /\ s \in Space /\ Tree(entries, s) /\ KernelOf(entries, s) \subseteq KPage \ kfree
      /\ UserOf(entries, s) \subseteq UPage \ ufree
  BY OfOne, Zenon
<1>5. r.i \in Nat /\ r.j \in Nat /\ r.i <= UserDirs /\ r.j <= TableSize /\ UserDirs \in Nat /\ TableSize \in Nat
  BY <1>1, AddressSpaceAssumption DEF Areq
<1>6. /\ r.pd \in KernelOf(entries, s)
      /\ r.i < UserDirs /\ pt # NONE => pt \in KernelOf(entries, s)
  <2>1. r.i < UserDirs => r.i \in r.i..UserDirs - 1
    BY <1>5
  <2> QED BY <1>1, <1>3, <2>1, Zenon DEF KernelOf, TablesOf
<1> HIDE DEF s
<1>7. CASE r.i = UserDirs
  <2>1. /\ kfree' = kfree \cup {r.pd} /\ entries' = [entries EXCEPT ![r.pd] = Table(Junk)]
        /\ areq' = [areq EXCEPT ![p] = NoAreq] /\ apc' = [apc EXCEPT ![p] = "start"]
        /\ ufree' = ufree
    BY <1>7, Zenon DEF PagedirDestroy, Destroy, ASet, AGoto
  <2>2. KernelOf(entries, s) = {r.pd} /\ UserOf(entries, s) = {}
    BY <1>1, <1>3, <1>4, <1>7, DirFreed, Zenon
  <2> DEFINE t == [dir |-> NoAreq.pd, i |-> NoAreq.i, j |-> NoAreq.j, kpage |-> NONE]
  <2>3. /\ t \in Space => Tree(entries', t)
        /\ KernelOf(entries', t) = {} /\ UserOf(entries', t) = {}
    BY NoAreqFields, Zenon DEF Tree, KernelOf, UserOf
  <2>4. entries' \in Contents /\ \A k \in KPage : k # r.pd => entries'[k] = entries[k]
    BY <1>1, <2>1, Emptied, Zenon
  <2>5. \A k \in KPage \ (KernelOf(entries, s) \cup kfree) : entries'[k] = entries[k]
    BY <1>6, <2>4, Zenon
  <2> HIDE DEF t
  <2>6. /\ KernelOf(entries', t) \cup kfree' = KernelOf(entries, s) \cup kfree
        /\ KernelOf(entries', t) \cap kfree' = {}
        /\ UserOf(entries', t) \cup ufree' = UserOf(entries, s) \cup ufree
        /\ UserOf(entries', t) \cap ufree' = {}
        /\ kfree' \in SUBSET KPage /\ ufree' \in SUBSET UPage
    BY <1>1, <2>1, <2>2, <2>3, Zenon
  <2> QED BY <1>1, <2>1, <2>3, <2>4, <2>5, <2>6, NoAreqFields, Destroys, Zenon DEF s, t
<1>8. CASE r.i # UserDirs /\ pt = NONE
  <2> DEFINE n == [r EXCEPT !.i = @ + 1]
             t == [dir |-> n.pd, i |-> n.i, j |-> n.j, kpage |-> NONE]
  <2>1. /\ areq' = [areq EXCEPT ![p] = n] /\ UNCHANGED <<entries, kfree, ufree, apc>>
    BY <1>8, Zenon DEF PagedirDestroy, Destroy, ASet, a_pools
  <2>2. n \in Areq /\ n.pd = r.pd /\ n.i = r.i + 1 /\ n.j = r.j /\ n.kpage = NONE
    BY <1>1, <1>5, <1>8 DEF Areq
  <2> HIDE DEF n
  <2>3. t.dir = s.dir /\ t.i = s.i + 1 /\ t.j = s.j /\ t.kpage = s.kpage /\ t \in Space
    BY <1>3, <2>2, Zenon DEF Space, Areq
  <2>4. apc' = [apc EXCEPT ![p] = "destroy"]
    BY <1>1, <2>1, Zenon
  <2> HIDE DEF t
  <2>5. /\ Tree(entries, t) /\ KernelOf(entries, t) = KernelOf(entries, s)
        /\ UserOf(entries, t) = UserOf(entries, s)
    <3>1. s.dir # NONE /\ s.i < UserDirs /\ entries[s.dir][s.i] = NONE
      BY <1>1, <1>3, <1>5, <1>8
    <3> QED BY <1>4, <2>3, <3>1, Skipped, Zenon
  <2>6. /\ KernelOf(entries', t) \cup kfree' = KernelOf(entries, s) \cup kfree
        /\ KernelOf(entries', t) \cap kfree' = {}
        /\ UserOf(entries', t) \cup ufree' = UserOf(entries, s) \cup ufree
        /\ UserOf(entries', t) \cap ufree' = {}
        /\ kfree' \in SUBSET KPage /\ ufree' \in SUBSET UPage
        /\ entries' = entries /\ Tree(entries', t)
    BY <1>1, <1>4, <2>1, <2>5, Zenon
  <2> QED BY <1>1, <2>1, <2>2, <2>4, <2>6, Destroys, Zenon DEF s, t
<1>9. CASE r.i # UserDirs /\ pt # NONE /\ r.j < TableSize
  <2> DEFINE n == [r EXCEPT !.j = @ + 1]
             t == [dir |-> n.pd, i |-> n.i, j |-> n.j, kpage |-> NONE]
             x == entries[pt][r.j]
  <2>1. /\ areq' = [areq EXCEPT ![p] = n] /\ UNCHANGED <<entries, kfree, apc>>
        /\ ufree' = ufree \cup ({x} \ {NONE})
    BY <1>9, Zenon DEF PagedirDestroy, Destroy, ASet
  <2>2. n \in Areq /\ n.pd = r.pd /\ n.i = r.i /\ n.j = r.j + 1 /\ n.kpage = NONE
    BY <1>1, <1>5, <1>9 DEF Areq
  <2> HIDE DEF n
  <2>3. t.dir = s.dir /\ t.i = s.i /\ t.j = s.j + 1 /\ t.kpage = NONE /\ t \in Space
    BY <1>3, <2>2, Zenon DEF Space, Areq
  <2>4. apc' = [apc EXCEPT ![p] = "destroy"]
    BY <1>1, <2>1, Zenon
  <2> HIDE DEF t
  <2>5. /\ Tree(entries, t) /\ KernelOf(entries, t) = KernelOf(entries, s)
        /\ UserOf(entries, t) = UserOf(entries, s) \ {x}
        /\ x = NONE \/ x \in UserOf(entries, s)
    <3>1. s.dir # NONE /\ s.i < UserDirs /\ s.j < TableSize /\ pt = entries[s.dir][s.i] /\ x = entries[pt][s.j]
      BY <1>1, <1>3, <1>5, <1>9
    <3> HIDE DEF x, pt
    <3>2. /\ s \in Space /\ t \in Space /\ Tree(entries, s) /\ s.dir # NONE /\ s.kpage = NONE
          /\ s.i < UserDirs /\ s.j < TableSize /\ pt = entries[s.dir][s.i] /\ pt # NONE
          /\ t.dir = s.dir /\ t.i = s.i /\ t.j = s.j + 1 /\ t.kpage = NONE
      BY <1>3, <1>4, <1>9, <2>3, <3>1, Zenon
    <3>3. /\ Tree(entries, t) /\ KernelOf(entries, t) = KernelOf(entries, s)
          /\ UserOf(entries, t) = UserOf(entries, s) \ {entries[pt][s.j]}
          /\ entries[pt][s.j] = NONE \/ entries[pt][s.j] \in UserOf(entries, s)
      BY <3>2, FrameFreed
    <3> QED BY <3>1, <3>3, Zenon
  <2> HIDE DEF x
  <2>6. /\ KernelOf(entries', t) \cup kfree' = KernelOf(entries, s) \cup kfree
        /\ KernelOf(entries', t) \cap kfree' = {}
        /\ kfree' \in SUBSET KPage /\ entries' = entries /\ Tree(entries', t)
    BY <1>1, <1>4, <2>1, <2>5, Zenon
  <2>7. NONE \notin UserOf(entries, s)
    BY <1>4, PoolsDistinct, Zenon
  <2>8. /\ UserOf(entries', t) \cup ufree' = UserOf(entries, s) \cup ufree
        /\ UserOf(entries', t) \cap ufree' = {}
        /\ ufree' \in SUBSET UPage
    BY <1>1, <1>4, <2>1, <2>5, <2>7, Zenon
  <2>9. /\ entries' \in Contents
        /\ \A k \in KPage \ (KernelOf(entries, s) \cup kfree) : entries'[k] = entries[k]
        /\ n.pd # NONE
    BY <1>1, <2>2, <2>6, Zenon
  <2> HIDE DEF pt
  <2> QED BY <1>1, <2>1, <2>2, <2>4, <2>6, <2>8, <2>9, Destroys, Zenon DEF s, t
<1>10. CASE r.i # UserDirs /\ pt # NONE /\ ~ (r.j < TableSize)
  <2> DEFINE n == [r EXCEPT !.i = @ + 1, !.j = 0]
             t == [dir |-> n.pd, i |-> n.i, j |-> n.j, kpage |-> NONE]
  <2>1. /\ areq' = [areq EXCEPT ![p] = n] /\ UNCHANGED <<ufree, apc>>
        /\ kfree' = kfree \cup {pt} /\ entries' = [entries EXCEPT ![pt] = Table(Junk)]
    BY <1>10, Zenon DEF PagedirDestroy, Destroy, ASet
  <2>2. n \in Areq /\ n.pd = r.pd /\ n.i = r.i + 1 /\ n.j = 0 /\ n.kpage = NONE
    <3>1. n = [pd |-> r.pd, u |-> r.u, last |-> r.last, kpage |-> r.kpage, i |-> r.i + 1, j |-> 0]
      BY <1>1, NextEntry, Zenon
    <3> HIDE DEF n
    <3>2. n \in Areq
      BY <1>1, <1>5, <1>10, <3>1 DEF Areq
    <3> QED BY <1>1, <3>1, <3>2, Zenon
  <2> HIDE DEF n
  <2>3. t.dir = s.dir /\ t.i = s.i + 1 /\ t.j = 0 /\ t.kpage = s.kpage /\ t \in Space
    BY <1>3, <2>2, Zenon DEF Space, Areq
  <2>4. apc' = [apc EXCEPT ![p] = "destroy"] /\ pt \in KPage /\ pt \in KernelOf(entries, s)
    BY <1>1, <1>4, <1>5, <1>6, <1>10, <2>1
  <2> HIDE DEF t
  <2>5. entries' \in Contents /\ \A k \in KPage : k # pt => entries'[k] = entries[k]
    BY <2>1, <2>4, Emptied, Zenon
  <2>6. /\ Tree(entries', t) /\ KernelOf(entries', t) = KernelOf(entries, s) \ {pt}
        /\ UserOf(entries', t) = UserOf(entries, s)
    <3>1. s.dir # NONE /\ s.i < UserDirs /\ s.j = TableSize /\ pt = entries[s.dir][s.i] /\ pt # NONE
      BY <1>1, <1>3, <1>5, <1>10
    <3>2. \A x \in KernelOf(entries, s) : x # pt => entries'[x] = entries[x]
      BY <1>4, <2>5, Zenon
    <3> HIDE DEF pt
    <3> QED BY <1>4, <2>3, <3>1, <3>2, TableFreed
  <2>7. \A k \in KPage \ (KernelOf(entries, s) \cup kfree) : entries'[k] = entries[k]
    BY <2>4, <2>5, Zenon
  <2>8. /\ KernelOf(entries', t) \cup kfree' = KernelOf(entries, s) \cup kfree
        /\ KernelOf(entries', t) \cap kfree' = {}
        /\ kfree' \in SUBSET KPage
    BY <1>1, <1>4, <2>1, <2>4, <2>6, Zenon
  <2>9. /\ UserOf(entries', t) \cup ufree' = UserOf(entries, s) \cup ufree
        /\ UserOf(entries', t) \cap ufree' = {}
        /\ ufree' \in SUBSET UPage
    BY <1>1, <1>4, <2>1, <2>6, Zenon
  <2> QED BY <1>1, <2>1, <2>2, <2>4, <2>5, <2>6, <2>7, <2>8, <2>9, Destroys, Zenon DEF s, t
<1> QED BY <1>7, <1>8, <1>9, <1>10, Zenon

(* At the start every page is free and no process has a directory. *)
LEMMA AInvInit == SpaceInit => AInv
<1> SUFFICES ASSUME SpaceInit PROVE AInv
  BY Zenon
<1>1. ATypes
  <2>1. Table(Junk) \in Tbl
    BY DEF Table, Tbl, Junk
  <2>2. entries \in Contents
    BY <2>1, Zenon DEF SpaceInit, Contents
  <2> QED BY <2>2, NoAreqFields, Zenon DEF SpaceInit, ATypes, APC
<1>2. ASSUME NEW p \in Proc
      PROVE  /\ apc[p] = "start" /\ pagedir[p] = NONE /\ areq[p] = NoAreq
             /\ SpaceOf(p) = [dir |-> NONE, i |-> 0, j |-> 0, kpage |-> NONE]
  <2>1. apc[p] = "start" /\ pagedir[p] = NONE /\ areq[p] = NoAreq
    BY Zenon DEF SpaceInit
  <2> QED BY <2>1, NoAreqFields, Zenon DEF SpaceOf
<1>3. ASSUME NEW p \in Proc PROVE StageOf(apc[p], pagedir[p], areq[p])
  BY <1>2, NoAreqFields, Zenon DEF StageOf, Loading
<1>4. Divided(entries, spaces, kfree, ufree)
  <2>1. ASSUME NEW p \in Proc
        PROVE  /\ Tree(entries, spaces[p])
               /\ KernelOf(entries, spaces[p]) = {} /\ UserOf(entries, spaces[p]) = {}
    BY <1>2 DEF spaces, Tree, KernelOf, UserOf
  <2> QED BY <2>1, Zenon DEF Divided, SpaceInit
<1>5. InOwnSpace
  <2>1. run \in Proc /\ cr3 = init_page_dir /\ tlb = {}
    BY Zenon DEF SpaceInit
  <2> QED BY <1>2, <2>1, Zenon DEF InOwnSpace, Loading
<1> QED BY <1>1, <1>3, <1>4, <1>5, Zenon DEF AInv

(* Every step of a process, and the switch between two, keeps AInv. *)
LEMMA AInvNext == AInv /\ [SpaceNext]_a_vars => AInv'
<1> SUFFICES ASSUME AInv, [SpaceNext]_a_vars PROVE AInv'
  BY Zenon
<1>1. CASE UNCHANGED a_vars
  <2>1. UNCHANGED <<run, cr3, tlb, pagedir, entries, kfree, ufree, apc, areq>>
    BY <1>1, Zenon DEF a_vars, a_pools
  <2>2. spaces' = spaces /\ \A u : lookup_page(cr3, u)' = lookup_page(cr3, u)
    BY <2>1, Zenon DEF spaces, SpaceOf, lookup_page
  <2>3. SpaceOf(run)' = SpaceOf(run)
    BY <2>1, Zenon DEF SpaceOf
  <2>4. InOwnSpace'
    BY <2>1, <2>2, <2>3, Zenon DEF AInv, InOwnSpace, init_page_dir
  <2> QED BY <2>1, <2>2, <2>4, Zenon DEF AInv, ATypes
<1>2. CASE \E u \in Vpage : Access(u)
  BY <1>2, AccessKeeps, Zenon
<1>3. CASE \E p \in Proc :
       \/ Switch(p) \/ PagedirCreate(p) \/ LoadActivate(p) \/ LoadHeader(p) \/ UserPage(p)
       \/ ReadPage(p) \/ InstallPage(p) \/ ProcessExit(p) \/ Deactivate(p) \/ PagedirDestroy(p)
  BY <1>3, SwitchKeeps, PagedirCreateKeeps, LoadActivateKeeps, LoadHeaderKeeps, UserPageKeeps,
     ReadPageKeeps, InstallPageKeeps, ProcessExitKeeps, DeactivateKeeps, PagedirDestroyKeeps, Zenon
<1> QED BY <1>1, <1>2, <1>3, Zenon DEF SpaceNext

(* The inductive invariant of address spaces. *)
THEOREM AInvHolds == SpaceSpec => []AInv
  BY AInvInit, AInvNext, PTL DEF SpaceSpec
-----------------------------------------------------------------------------
(* A page directory in use or being destroyed is one process's space. *)
LEMMA DirOfSpace ==
  ASSUME AInv, NEW d \in Dirs
  PROVE  \E p \in Proc : /\ SpaceOf(p).dir # NONE
                         /\ d = [pd |-> SpaceOf(p).dir, i |-> SpaceOf(p).i, j |-> SpaceOf(p).j]
<1>1. CASE d \in {[pd |-> pagedir[p], i |-> 0, j |-> 0] : p \in {q \in Proc : pagedir[q] # NONE}}
  <2>1. PICK p \in Proc : pagedir[p] # NONE /\ d = [pd |-> pagedir[p], i |-> 0, j |-> 0]
    BY <1>1, Zenon
  <2>2. StageOf(apc[p], pagedir[p], areq[p]) /\ apc[p] \in APC
    BY OfOne, Zenon
  <2>3. areq[p].i = 0 /\ areq[p].j = 0 /\ apc[p] \notin {"deactivate", "destroy"}
    BY <2>1, <2>2, NoAreqFields, Zenon DEF StageOf, APC
  <2> QED BY <2>1, <2>3, Zenon DEF SpaceOf
<1>2. CASE d \in {[pd |-> areq[p].pd, i |-> areq[p].i, j |-> areq[p].j] :
                  p \in {q \in Proc : apc[q] \in {"deactivate", "destroy"}}}
  <2>1. PICK p \in Proc : /\ apc[p] \in {"deactivate", "destroy"}
                          /\ d = [pd |-> areq[p].pd, i |-> areq[p].i, j |-> areq[p].j]
    BY <1>2, Zenon
  <2>2. areq[p].pd # NONE
    BY <2>1, OfOne, Zenon DEF StageOf
  <2> QED BY <2>1, <2>2, Zenon DEF SpaceOf
<1> QED BY <1>1, <1>2, Zenon DEF Dirs

(* And the space of every process that has one is such a directory. *)
LEMMA SpaceOfDir ==
  ASSUME AInv, NEW p \in Proc, SpaceOf(p).dir # NONE
  PROVE  [pd |-> SpaceOf(p).dir, i |-> SpaceOf(p).i, j |-> SpaceOf(p).j] \in Dirs
<1> DEFINE d == [pd |-> SpaceOf(p).dir, i |-> SpaceOf(p).i, j |-> SpaceOf(p).j]
<1>1. CASE apc[p] \in {"deactivate", "destroy"}
  <2>1. d = [pd |-> areq[p].pd, i |-> areq[p].i, j |-> areq[p].j]
    BY <1>1, Zenon DEF SpaceOf
  <2> QED BY <1>1, <2>1, Zenon DEF Dirs
<1>2. CASE apc[p] \notin {"deactivate", "destroy"}
  <2>1. StageOf(apc[p], pagedir[p], areq[p]) /\ apc[p] \in APC
    BY OfOne, Zenon
  <2>2. areq[p].i = 0 /\ areq[p].j = 0
    BY <1>2, <2>1, NoAreqFields, Zenon DEF StageOf, APC
  <2>3. d = [pd |-> pagedir[p], i |-> 0, j |-> 0] /\ pagedir[p] # NONE
    BY <1>2, <2>2, Zenon DEF SpaceOf
  <2> QED BY <2>3, Zenon DEF Dirs
<1> QED BY <1>1, <1>2, Zenon

(* What a directory leads to is its process's pages but the one in flight. *)
LEMMA ReachOfSpace ==
  ASSUME AInv, NEW p \in Proc, SpaceOf(p).dir # NONE, NEW d,
         d = [pd |-> SpaceOf(p).dir, i |-> SpaceOf(p).i, j |-> SpaceOf(p).j]
  PROVE  Reach(d) = KernelOf(entries, SpaceOf(p)) \cup FramesOf(entries, SpaceOf(p))
<1> DEFINE s == SpaceOf(p)
<1>0. d.pd = s.dir /\ d.i = s.i /\ d.j = s.j
  BY Zenon
<1>1. s \in Space
  BY OfOne, Zenon
<1> HIDE DEF s
<1>2. Tables(d.pd, d.i) = TablesOf(entries, s)
  BY <1>0, Zenon DEF Tables, TablesOf
<1>3. Frames(d.pd, d.i, d.j) = FramesOf(entries, s)
  <2>1. Frames(s.dir, s.i, s.j) = FramesOf(entries, s)
    BY Zenon DEF Frames, Tables, FramesOf, Live, TablesOf
  <2> QED BY <1>0, <2>1, Zenon
<1>4. ~ (s.i < UserDirs) => FramesOf(entries, s) = {}
  <2>1. SUFFICES ASSUME ~ (s.i < UserDirs) PROVE FramesOf(entries, s) = {}
    BY Zenon
  <2>2. s.i..UserDirs - 1 = {}
    BY <1>1, <2>1, AddressSpaceAssumption DEF Space
  <2>3. TablesOf(entries, s) = {}
    BY <2>2, Zenon DEF TablesOf
  <2> QED BY <2>3, NoTables, Zenon
<1>5. KernelOf(entries, s) = {d.pd} \cup TablesOf(entries, s)
  BY <1>0, Zenon DEF KernelOf, s
<1> QED BY <1>0, <1>2, <1>3, <1>4, <1>5, Zenon DEF Reach, s

(* Free, in one space or in flight: the division of AInv is that of PagesAccounted. *)
LEMMA AInvAccounts ==
  ASSUME AInv PROVE PagesAccounted
<1> DEFINE K(p) == KernelOf(entries, SpaceOf(p))
           U(p) == UserOf(entries, SpaceOf(p))
           R(p) == K(p) \cup FramesOf(entries, SpaceOf(p))
<1>1. /\ \A p \in Proc : K(p) \subseteq KPage \ kfree /\ U(p) \subseteq UPage \ ufree
      /\ \A p, q \in Proc : p # q => K(p) \cap K(q) = {} /\ U(p) \cap U(q) = {}
      /\ \A x \in KPage : x \in kfree \/ \E p \in Proc : x \in K(p)
      /\ \A x \in UPage : x \in ufree \/ \E p \in Proc : x \in U(p)
  <2>1. \A p \in Proc : spaces[p] = SpaceOf(p)
    BY Zenon DEF spaces
  <2> QED BY <2>1, Zenon DEF AInv, Divided
<1>2. ASSUME NEW p \in Proc
      PROVE  /\ U(p) = (IF SpaceOf(p).dir = NONE THEN {} ELSE FramesOf(entries, SpaceOf(p)))
                        \cup ({areq[p].kpage} \ {NONE})
             /\ SpaceOf(p).dir # NONE => areq[p].kpage \notin FramesOf(entries, SpaceOf(p))
             /\ SpaceOf(p).dir = NONE => K(p) = {}
  <2>1. SpaceOf(p).kpage = areq[p].kpage
    BY Zenon DEF SpaceOf
  <2>2. Tree(entries, SpaceOf(p))
    BY OfOne, Zenon
  <2> QED BY <2>1, <2>2, Zenon DEF UserOf, KernelOf, Tree, TreeOfFrames
<1>3. ASSUME NEW d \in Dirs
      PROVE  \E p \in Proc : /\ SpaceOf(p).dir # NONE /\ Reach(d) = R(p)
                             /\ d = [pd |-> SpaceOf(p).dir, i |-> SpaceOf(p).i, j |-> SpaceOf(p).j]
  <2>1. PICK p \in Proc :
          /\ SpaceOf(p).dir # NONE
          /\ d = [pd |-> SpaceOf(p).dir, i |-> SpaceOf(p).i, j |-> SpaceOf(p).j]
    BY DirOfSpace, Zenon
  <2> QED BY <2>1, ReachOfSpace, Zenon
<1>4. ASSUME NEW p \in Proc, SpaceOf(p).dir # NONE
      PROVE  \E d \in Dirs : Reach(d) = R(p)
  <2>1. PICK d : d = [pd |-> SpaceOf(p).dir, i |-> SpaceOf(p).i, j |-> SpaceOf(p).j]
    BY Zenon
  <2>2. d \in Dirs
    BY <1>4, <2>1, SpaceOfDir, Zenon
  <2>3. Reach(d) = R(p)
    BY <1>4, <2>1, ReachOfSpace, Zenon
  <2> QED BY <2>2, <2>3, Zenon
<1>5. \A x : x \in InFlight <=> \E p \in Proc : x = areq[p].kpage /\ x # NONE
  BY Zenon DEF InFlight
<1>6. kfree \subseteq KPage /\ ufree \subseteq UPage /\ KPage \cap UPage = {}
  BY PoolsDistinct, Zenon DEF AInv, ATypes
<1> HIDE DEF K, U
<1>7. ASSUME NEW p \in Proc, SpaceOf(p).dir # NONE
      PROVE  /\ FramesOf(entries, SpaceOf(p)) \subseteq U(p)
             /\ R(p) \subseteq (KPage \ kfree) \cup (UPage \ ufree)
  <2>1. U(p) = FramesOf(entries, SpaceOf(p)) \cup ({areq[p].kpage} \ {NONE})
    BY <1>2, <1>7, Zenon
  <2>2. FramesOf(entries, SpaceOf(p)) \subseteq U(p)
    BY <2>1, Zenon
  <2>3. K(p) \subseteq KPage \ kfree /\ U(p) \subseteq UPage \ ufree
    BY <1>1, Zenon
  <2> QED BY <2>2, <2>3, Zenon
<1>8. ASSUME NEW x PROVE x \in InFlight => x \in UPage \ ufree /\ \E p \in Proc : x \in U(p)
  <2>1. SUFFICES ASSUME x \in InFlight PROVE x \in UPage \ ufree /\ \E p \in Proc : x \in U(p)
    BY Zenon
  <2>2. PICK p \in Proc : x = areq[p].kpage /\ x # NONE
    BY <1>5, <2>1, Zenon
  <2>3. x \in U(p)
    BY <1>2, <2>2, Zenon
  <2> QED BY <1>1, <2>3, Zenon
<1>9. kfree \cup ufree \cup InFlight \cup UNION {Reach(d) : d \in Dirs} = KPage \cup UPage
  <2>1. ASSUME NEW d \in Dirs PROVE Reach(d) \subseteq KPage \cup UPage
    BY <1>3, <1>7, Zenon
  <2>2. ASSUME NEW x \in KPage, x \notin kfree PROVE \E d \in Dirs : x \in Reach(d)
    <3>1. PICK p \in Proc : x \in K(p)
      BY <1>1, <2>2, Zenon
    <3>2. SpaceOf(p).dir # NONE
      BY <1>2, <3>1, Zenon
    <3> QED BY <1>4, <3>1, <3>2, Zenon
  <2>3. ASSUME NEW x \in UPage, x \notin ufree PROVE x \in InFlight \/ \E d \in Dirs : x \in Reach(d)
    <3>1. PICK p \in Proc : x \in U(p)
      BY <1>1, <2>3, Zenon
    <3>2. CASE x \in {areq[p].kpage} \ {NONE}
      BY <1>5, <3>2, Zenon
    <3>3. CASE SpaceOf(p).dir # NONE /\ x \in FramesOf(entries, SpaceOf(p))
      BY <1>4, <3>3, Zenon
    <3> QED BY <1>2, <3>1, <3>2, <3>3, Zenon
  <2> QED BY <1>6, <1>8, <2>1, <2>2, <2>3, Zenon
<1>10. ASSUME NEW d \in Dirs PROVE Reach(d) \cap (kfree \cup ufree \cup InFlight) = {}
  <2>1. PICK p \in Proc : SpaceOf(p).dir # NONE /\ Reach(d) = R(p)
    BY <1>3, Zenon
  <2>2. R(p) \cap (kfree \cup ufree) = {}
    BY <1>6, <1>7, <2>1, Zenon
  <2>3. ASSUME NEW x, x \in R(p), x \in InFlight PROVE FALSE
    <3>1. PICK q \in Proc : x = areq[q].kpage /\ x # NONE
      BY <1>5, <2>3, Zenon
    <3>2. x \in U(q) /\ x \in UPage
      BY <1>1, <1>2, <3>1, Zenon
    <3>3. x \in FramesOf(entries, SpaceOf(p)) /\ x \in U(p)
      BY <1>1, <1>6, <1>7, <2>1, <2>3, <3>2, Zenon
    <3>4. CASE p = q
      BY <1>2, <2>1, <3>1, <3>3, <3>4, Zenon
    <3>5. CASE p # q
      BY <1>1, <3>2, <3>3, <3>5, Zenon
    <3> QED BY <3>4, <3>5, Zenon
  <2> QED BY <2>1, <2>2, <2>3, Zenon
<1>11. ASSUME NEW d \in Dirs, NEW e \in Dirs, d # e PROVE Reach(d) \cap Reach(e) = {}
  <2>1. PICK p \in Proc : /\ SpaceOf(p).dir # NONE /\ Reach(d) = R(p)
                          /\ d = [pd |-> SpaceOf(p).dir, i |-> SpaceOf(p).i, j |-> SpaceOf(p).j]
    BY <1>3, Zenon
  <2>2. PICK q \in Proc : /\ SpaceOf(q).dir # NONE /\ Reach(e) = R(q)
                          /\ e = [pd |-> SpaceOf(q).dir, i |-> SpaceOf(q).i, j |-> SpaceOf(q).j]
    BY <1>3, Zenon
  <2>3. p # q
    BY <1>11, <2>1, <2>2, Zenon
  <2>4. K(p) \cap K(q) = {} /\ U(p) \cap U(q) = {} /\ K(p) \subseteq KPage /\ K(q) \subseteq KPage
    BY <1>1, <2>3, Zenon
  <2>5. /\ FramesOf(entries, SpaceOf(p)) \subseteq U(p) /\ FramesOf(entries, SpaceOf(q)) \subseteq U(q)
        /\ U(p) \subseteq UPage /\ U(q) \subseteq UPage
    BY <1>1, <1>7, <2>1, <2>2, Zenon
  <2> QED BY <1>6, <2>1, <2>2, <2>4, <2>5, Zenon
<1>12. InFlight \cap ufree = {}
  BY <1>8, Zenon
<1> QED BY <1>9, <1>10, <1>11, <1>12, Zenon DEF PagesAccounted

(* No page belongs to two address spaces and none is lost, through loads   *)
(* that fail half-way, exits and switches.                                 *)
THEOREM PagesAccountedHolds == SpaceSpec => []PagesAccounted
<1>1. AInv => PagesAccounted
  BY AInvAccounts, Zenon
<1> QED BY <1>1, AInvHolds, PTL

(* The active directory and the remembered translations, from AInv. *)
LEMMA AInvOwn ==
  ASSUME AInv PROVE SpacesOwn
<1>1. run \in Proc
  BY Zenon DEF AInv, ATypes
<1> DEFINE s == SpaceOf(run)
<1>2. /\ apc[run] \in APC /\ StageOf(apc[run], pagedir[run], areq[run]) /\ s \in Space
      /\ KernelOf(entries, s) \subseteq KPage \ kfree /\ UserOf(entries, s) \subseteq UPage \ ufree
  BY <1>1, OfOne, Zenon
<1>3. /\ cr3 # init_page_dir => cr3 = s.dir /\ apc[run] # "destroy"
      /\ apc[run] \in Loading => cr3 = pagedir[run]
      /\ tlb # {} => apc[run] \in {"user", "deactivate"} /\ cr3 # init_page_dir
      /\ \A e \in tlb : e[1] \in Vpage /\ lookup_page(cr3, e[1]) = e[2] /\ e[2] # NONE
  BY Zenon DEF AInv, InOwnSpace
<1>4. cr3 # init_page_dir => cr3 \in KernelOf(entries, s) /\ s.dir # NONE
  BY <1>3, Zenon DEF KernelOf, NONE, init_page_dir
<1>5. ASSUME cr3 # init_page_dir
      PROVE  /\ cr3 \notin kfree
             /\ cr3 = pagedir[run] \/ (apc[run] = "deactivate" /\ cr3 = areq[run].pd)
             /\ cr3 \notin {areq[p].pd : p \in Dying}
  <2>1. cr3 \notin kfree
    BY <1>2, <1>4, <1>5, Zenon
  <2>2. cr3 = pagedir[run] \/ (apc[run] = "deactivate" /\ cr3 = areq[run].pd)
    BY <1>3, <1>5, Zenon DEF SpaceOf
  <2>3. ASSUME NEW p \in Dying, cr3 = areq[p].pd PROVE FALSE
    <3>1. p \in Proc /\ apc[p] = "destroy"
      BY Zenon DEF Dying
    <3>2. p # run
      BY <1>3, <1>5, <3>1, Zenon
    <3>3. SpaceOf(p).dir = areq[p].pd /\ areq[p].pd # NONE
      BY <3>1, OfOne, Zenon DEF SpaceOf, StageOf
    <3>4. cr3 \in KernelOf(entries, SpaceOf(p))
      BY <2>3, <3>3, Zenon DEF KernelOf
    <3>5. KernelOf(entries, SpaceOf(p)) \cap KernelOf(entries, SpaceOf(run)) = {}
      <4>1. spaces[p] = SpaceOf(p) /\ spaces[run] = SpaceOf(run)
        BY <1>1, <3>1, Zenon DEF spaces
      <4> QED BY <1>1, <3>1, <3>2, <4>1, Zenon DEF AInv, Divided
    <3> QED BY <1>4, <1>5, <3>4, <3>5, Zenon
  <2> QED BY <2>1, <2>2, <2>3, Zenon
<1>6. apc[run] = "user" => cr3 = pagedir[run]
  BY <1>3, Zenon DEF Loading
<1>7. ASSUME NEW e \in tlb
      PROVE  cr3 # init_page_dir /\ lookup_page(cr3, e[1]) = e[2] /\ e[2] \notin ufree
  <2>1. /\ cr3 # init_page_dir /\ lookup_page(cr3, e[1]) = e[2] /\ e[2] # NONE
        /\ e[1] \in Vpage /\ apc[run] \in {"user", "deactivate"}
    BY <1>3, <1>7, Zenon
  <2>2. pd_no(e[1]) \in 0..UserDirs - 1 /\ pt_no(e[1]) \in 0..TableSize - 1
    BY <2>1, Indices, Mappable, Zenon
  <2>3. s.dir = cr3 /\ s.dir # NONE /\ s.i = 0 /\ s.j = 0
    <3>1. areq[run].i = 0 /\ areq[run].j = 0
      BY <1>2, <2>1, NoAreqFields, Zenon DEF StageOf
    <3> QED BY <1>3, <1>4, <2>1, <3>1, Zenon DEF SpaceOf
  <2> DEFINE pt == entries[cr3][pd_no(e[1])]
  <2>4. pt # NONE /\ e[2] = entries[pt][pt_no(e[1])]
    BY <2>1, Zenon DEF lookup_page
  <2> HIDE DEF s
  <2>5. pt \in TablesOf(entries, s)
    BY <2>2, <2>3, <2>4, Zenon DEF TablesOf
  <2> HIDE DEF pt
  <2>6. e[2] \in FramesOf(entries, s)
    <3>1. e[2] \in FramesOf(entries, s) <=>
            e[2] # NONE /\ \E q \in TablesOf(entries, s) : \E k \in 0..TableSize - 1 : e[2] = entries[q][k]
      BY <2>3, InAllFrames
    <3> QED BY <2>1, <2>2, <2>4, <2>5, <3>1, Zenon
  <2>7. e[2] \notin ufree
    BY <1>2, <2>3, <2>6, Zenon DEF UserOf
  <2> QED BY <2>1, <2>7, Zenon
<1> QED BY <1>5, <1>6, <1>7, Zenon DEF SpacesOwn, ActiveDirectoryLives, TranslationsOwn

(* The processor is in an address space that exists and is the running     *)
(* process's own, whenever the timer interrupts load or process_exit.      *)
THEOREM SpacesOwnHolds == SpaceSpec => []SpacesOwn
<1>1. AInv => SpacesOwn
  BY AInvOwn, Zenon
<1> QED BY <1>1, AInvHolds, PTL
=============================================================================
