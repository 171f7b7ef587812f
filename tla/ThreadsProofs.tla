--------------------------- MODULE ThreadsProofs ----------------------------
(***************************************************************************)
(* Locks, wake-ups and tids in Threads: mutual exclusion of lock_acquire   *)
(* and lock_release, no wake-up of sema_up lost, and no tid given twice.   *)
(* Then the theorems about Threads, for every set of threads and           *)
(* semaphores, every time slice and every range of priorities; those about *)
(* lists and the scheduler rest on ThreadsListsProofs and                  *)
(* ThreadsSafetyProofs.                                                    *)
(***************************************************************************)
EXTENDS ThreadsSafetyProofs, FiniteSetTheorems, WellFoundedInduction

(* The smallest sets. *)
LEMMA SmallSets ==
  IsFiniteSet({}) /\ Cardinality({}) = 0 /\ \A x : Cardinality({x}) = 1
  BY FS_EmptySet, FS_Singleton, Zenon

(* A finite set has a natural number of members. *)
LEMMA SizeType ==
  ASSUME NEW S, IsFiniteSet(S)
  PROVE  Cardinality(S) \in Nat
  BY FS_CardinalityType, Zenon

(* A part of a finite set is finite. *)
LEMMA PartFinite ==
  ASSUME NEW S, IsFiniteSet(S), NEW T \in SUBSET S
  PROVE  IsFiniteSet(T)
  BY FS_Subset, Zenon

(* One member more, *)
LEMMA SizeAdds ==
  ASSUME NEW S, IsFiniteSet(S), NEW x, x \notin S
  PROVE  IsFiniteSet(S \cup {x}) /\ Cardinality(S \cup {x}) = Cardinality(S) + 1
  BY FS_AddElement

(* and one member less. *)
LEMMA SizeDrops ==
  ASSUME NEW S, IsFiniteSet(S), NEW x
  PROVE  /\ IsFiniteSet(S \ {x})
         /\ Cardinality(S \ {x}) = IF x \in S THEN Cardinality(S) - 1 ELSE Cardinality(S)
  BY FS_RemoveElement

(* The fact about naturals that the lists take as a hypothesis. *)
LEMMA LeastNatHolds == LeastNat
<1>1. ASSUME NEW T \in SUBSET Nat, T # {} PROVE \E x \in T : \A y \in T : x <= y
  <2>1. \E x \in T : \A y \in T : ~ (<<y, x>> \in OpToRel(<, Nat))
    BY <1>1, NatLessThanWellFounded, WFMin, Zenon
  <2>2. PICK x \in T : \A y \in T : ~ (<<y, x>> \in OpToRel(<, Nat))
    BY <2>1, Zenon
  <2>3. \A y \in T : ~ (y < x)
    BY <2>2, Zenon DEF OpToRel
  <2> QED
    BY <2>3
<1> QED
  BY <1>1, Zenon DEF LeastNat
----------------------------------------------------------------------------

(* The places inside sema_down, lock_acquire and lock_release. *)
SynchPC == {"down", "own", "up"}

(* Thread t stays where it is with respect to every semaphore. *)
Stays(t) ==
  pc[t] \in SynchPC \/ pc'[t] \in SynchPC => pc'[t] = pc[t] /\ arg'[t] = arg[t]

OthersStay == \A t \in Thread \ {cur} : Stays(t)

(* A step does nothing to the semaphores, ... *)
Quiet == UNCHANGED synch /\ \A t \in Thread : Stays(t)

(* ... or takes a unit of s, ... *)
Takes(s) ==
  /\ value[s] # 0 /\ value' = [value EXCEPT ![s] = @ - 1]
  /\ UNCHANGED <<waiters, holder>>
  /\ pc[cur] \notin {"own", "up"} /\ (pc[cur] = "down" => arg[cur] = s)
  /\ IF s \in Lock THEN pc'[cur] = "own" /\ arg'[cur] = s ELSE pc'[cur] = "run"
  /\ OthersStay

(* ... or links the running thread into the waiters of s, ... *)
Waits(s) ==
  /\ value[s] = 0
  /\ waiters' = [waiters EXCEPT ![s] = ListInsertOrdered(@, cur, CmpPriority(priority))]
  /\ UNCHANGED <<value, holder>>
  /\ pc[cur] \notin {"own", "up"} /\ (pc[cur] = "down" => arg[cur] = s)
  /\ pc'[cur] = "down" /\ arg'[cur] = s
  /\ OthersStay

(* ... or gives a unit to s and takes its first waiter off the list, ... *)
Gives(s) ==
  /\ value' = [value EXCEPT ![s] = @ + 1]
  /\ waiters' = IF waiters[s] = <<>> THEN waiters ELSE [waiters EXCEPT ![s] = Tail(@)]
  /\ holder' = holder
  /\ \/ s \notin Lock /\ Stays(cur)
     \/ pc[cur] = "up" /\ arg[cur] = s /\ pc'[cur] \notin SynchPC
  /\ OthersStay

(* ... or sets or clears the holder of a lock. *)
Owns ==
  /\ pc[cur] = "own" /\ holder' = [holder EXCEPT ![arg[cur]] = cur]
  /\ UNCHANGED <<value, waiters>> /\ pc'[cur] \notin SynchPC
  /\ OthersStay

Releases(l) ==
  /\ holder[l] = cur /\ holder' = [holder EXCEPT ![l] = NULL]
  /\ UNCHANGED <<value, waiters>>
  /\ pc[cur] \notin SynchPC /\ pc'[cur] = "up" /\ arg'[cur] = l
  /\ OthersStay

SynchMoves ==
  \/ Quiet
  \/ \E s \in Sema : Takes(s) \/ Waits(s) \/ Gives(s)
  \/ Owns
  \/ \E l \in Lock : Releases(l)

(* sema_down takes the semaphore or waits for it. *)
LEMMA DownSynch ==
  ASSUME TypeOK, NEW s \in Sema, SemaDownStep(s), holder' = holder,
         pc[cur] \notin {"own", "up"}, pc[cur] = "down" => arg[cur] = s
  PROVE  SynchMoves
<1>1. cur \in Thread /\ pc \in [Thread -> PC] /\ arg \in [Thread -> Sema \cup {NULL}]
  BY Zenon DEF TypeOK
<1>2. CASE value[s] = 0
  <2>1. /\ pc' = [pc EXCEPT ![cur] = "down"] /\ arg' = [arg EXCEPT ![cur] = s]
        /\ waiters' = [waiters EXCEPT ![s] = ListInsertOrdered(@, cur, CmpPriority(priority))]
        /\ value' = value
    BY <1>2, Zenon DEF SemaDownStep, Goto
  <2>2. /\ pc'[cur] = "down" /\ arg'[cur] = s
        /\ \A t \in Thread \ {cur} : pc'[t] = pc[t] /\ arg'[t] = arg[t]
    BY <1>1, <2>1, Zenon
  <2>3. OthersStay
    BY <2>2, Zenon DEF OthersStay, Stays
  <2>4. Waits(s)
    BY <1>2, <2>1, <2>2, <2>3, Zenon DEF Waits
  <2> QED
    BY <2>4, Zenon DEF SynchMoves
<1>3. CASE value[s] # 0
  <2>1. /\ pc' = [pc EXCEPT ![cur] = AfterDown(s)]
        /\ arg' = [arg EXCEPT ![cur] = IF s \in Lock THEN s ELSE NULL]
        /\ value' = [value EXCEPT ![s] = @ - 1] /\ waiters' = waiters
    BY <1>3, Zenon DEF SemaDownStep, Goto
  <2>2. /\ IF s \in Lock THEN pc'[cur] = "own" /\ arg'[cur] = s ELSE pc'[cur] = "run"
        /\ \A t \in Thread \ {cur} : pc'[t] = pc[t] /\ arg'[t] = arg[t]
    BY <1>1, <2>1, Zenon DEF AfterDown
  <2>3. OthersStay
    BY <2>2, Zenon DEF OthersStay, Stays
  <2>4. Takes(s)
    BY <1>3, <2>1, <2>2, <2>3, Zenon DEF Takes
  <2> QED
    BY <2>4, Zenon DEF SynchMoves
<1> QED
  BY <1>2, <1>3, Zenon

(* A step outside synch.c, made by the running thread. *)
LEMMA QuietSynch ==
  ASSUME UNCHANGED synch, pc[cur] \notin SynchPC, pc'[cur] \notin SynchPC, cur \in Thread,
         \A t \in Thread \ {cur} : Stays(t)
  PROVE  SynchMoves
  BY Zenon DEF SynchMoves, Quiet, Stays

(* What any step does to the locks and semaphores. *)
LEMMA NextSynch == SInv /\ [Next]_vars => SynchMoves
<1> SUFFICES ASSUME SInv PROVE [Next]_vars => SynchMoves
  BY Zenon
<1>a. TypeOK /\ Operands /\ Lists /\ Calls
  BY Zenon DEF SInv
<1>b. /\ cur \in Thread /\ pc \in [Thread -> PC] /\ arg \in [Thread -> Sema \cup {NULL}]
      /\ value \in [Sema -> Nat] /\ new \in [Thread -> Thread \cup {NULL}]
  BY <1>a, Zenon DEF TypeOK
<1>q. ASSUME NEW p, Goto(p), p \notin SynchPC, pc[cur] \notin SynchPC, arg' = arg,
             UNCHANGED synch
      PROVE  SynchMoves
  BY <1>b, <1>q, QuietSynch, Zenon DEF Goto, Stays
<1>s. ASSUME UNCHANGED <<synch, pc, arg>> PROVE SynchMoves
  BY <1>s, Zenon DEF SynchMoves, Quiet, Stays
<1>1. ASSUME NEW s \in Sema, SemaDown(s) PROVE SynchMoves
  BY <1>1, <1>a, DownSynch, Zenon DEF SemaDown, At
<1>2. ASSUME SemaDownWoken PROVE SynchMoves
  <2>1. arg[cur] \in Sema /\ pc[cur] = "down"
    BY <1>2, <1>a, <1>b, Zenon DEF SemaDownWoken, At, Operands
  <2> QED
    BY <1>2, <1>a, <2>1, DownSynch, Zenon DEF SemaDownWoken
<1>3. ASSUME NEW s \in Sema, SemaTryDown(s) PROVE SynchMoves
  <2>1. /\ s \notin Lock /\ pc[cur] = "run" /\ value' = [value EXCEPT ![s] = @ - 1]
        /\ UNCHANGED <<waiters, holder, pc, arg>> /\ value[s] > 0
    BY <1>3, Zenon DEF SemaTryDown, At, control
  <2>2. value[s] # 0
    BY <2>1, <1>b
  <2>3. Takes(s)
    BY <2>1, <2>2, Zenon DEF Takes, OthersStay, Stays
  <2> QED
    BY <2>3, Zenon DEF SynchMoves
<1>4. ASSUME NEW s \in Sema, SemaUp(s) PROVE SynchMoves
  <2>1. Gives(s)
    BY <1>4, Zenon DEF SemaUp, SemaUpStep, control, Gives, OthersStay, Stays
  <2> QED
    BY <2>1, Zenon DEF SynchMoves
<1>5. ASSUME NEW l \in Lock, LockAcquire(l) PROVE SynchMoves
  BY <1>5, <1>a, DownSynch, ThreadsAssumption, Zenon DEF LockAcquire, At
<1>6. ASSUME NEW l \in Lock, LockTryAcquire(l) PROVE SynchMoves
  <2>1. l \in Sema
    BY ThreadsAssumption, Zenon
  <2>2. /\ pc[cur] = "run" /\ value' = [value EXCEPT ![l] = @ - 1]
        /\ UNCHANGED <<waiters, holder>> /\ value[l] > 0
        /\ pc' = [pc EXCEPT ![cur] = "own"] /\ arg' = [arg EXCEPT ![cur] = l]
    BY <1>6, Zenon DEF LockTryAcquire, At, Goto
  <2>3. value[l] # 0
    BY <2>1, <2>2, <1>b
  <2>4. Takes(l)
    BY <1>b, <2>2, <2>3, Zenon DEF Takes, OthersStay, Stays
  <2> QED
    BY <2>1, <2>4, Zenon DEF SynchMoves
<1>7. ASSUME LockOwn PROVE SynchMoves
  <2>1. /\ pc[cur] = "own" /\ holder' = [holder EXCEPT ![arg[cur]] = cur]
        /\ UNCHANGED <<value, waiters>>
        /\ pc' = [pc EXCEPT ![cur] = IF new[cur] # NULL THEN "read" ELSE "run"]
        /\ arg' = [arg EXCEPT ![cur] = NULL]
    BY <1>7, Zenon DEF LockOwn, At, Goto
  <2>2. Owns
    BY <1>b, <2>1, Zenon DEF Owns, OthersStay, Stays, SynchPC
  <2> QED
    BY <2>2, Zenon DEF SynchMoves
<1>8. ASSUME NEW l \in Lock, LockRelease(l) PROVE SynchMoves
  <2>1. /\ pc[cur] \notin SynchPC /\ holder[l] = cur /\ holder' = [holder EXCEPT ![l] = NULL]
        /\ UNCHANGED <<value, waiters>>
        /\ pc' = [pc EXCEPT ![cur] = "up"] /\ arg' = [arg EXCEPT ![cur] = l]
    BY <1>8, Zenon DEF LockRelease, At, Goto, SynchPC
  <2>2. Releases(l)
    BY <1>b, <2>1, Zenon DEF Releases, OthersStay, Stays
  <2> QED
    BY <2>2, Zenon DEF SynchMoves
<1>9. ASSUME LockReleaseUp PROVE SynchMoves
  <2> DEFINE s == arg[cur]
  <2>1. s \in Sema /\ pc[cur] = "up"
    BY <1>9, <1>a, <1>b, ThreadsAssumption, Zenon DEF LockReleaseUp, At, Operands
  <2>2. /\ pc' = [pc EXCEPT ![cur] = AfterUp] /\ arg' = [arg EXCEPT ![cur] = NULL]
        /\ value' = [value EXCEPT ![s] = @ + 1] /\ holder' = holder
        /\ waiters' = IF waiters[s] = <<>> THEN waiters
                                           ELSE [waiters EXCEPT ![s] = Tail(@)]
    BY <1>9, Zenon DEF LockReleaseUp, SemaUpStep, Goto
  <2>3. pc'[cur] \notin SynchPC /\ \A t \in Thread \ {cur} : Stays(t)
    BY <1>b, <2>2, Zenon DEF AfterUp, SynchPC, Stays
  <2>4. Gives(s)
    BY <2>1, <2>2, <2>3, Zenon DEF Gives, OthersStay
  <2> QED
    BY <2>1, <2>4, Zenon DEF SynchMoves
<1>10. ASSUME NEW t \in Thread, NEW q \in NewPriority, ThreadCreate(t, q) PROVE SynchMoves
  <2>1. /\ UNCHANGED synch /\ pc[cur] = "run"
        /\ pc' = [pc EXCEPT ![cur] = "alloc", ![t] = "run"]
        /\ arg' = [arg EXCEPT ![t] = NULL] /\ status[t] = "UNUSED"
    BY <1>10, Zenon DEF ThreadCreate, At
  <2>2. pc[t] = "run" /\ t # cur
    BY <1>a, <1>b, <2>1, Zenon DEF Calls, Lists, OneRunning
  <2>3. /\ pc'[cur] = "alloc" /\ pc'[t] = "run"
        /\ \A u \in Thread \ {cur, t} : pc'[u] = pc[u] /\ arg'[u] = arg[u]
    BY <1>b, <2>1, <2>2, Zenon
  <2> QED
    BY <1>b, <2>1, <2>2, <2>3, QuietSynch, Zenon DEF Stays, SynchPC
<1>11. ASSUME AllocateTidRead PROVE SynchMoves
  BY <1>11, <1>q, Zenon DEF AllocateTidRead, At, SynchPC
<1>12. ASSUME AllocateTidWrite PROVE SynchMoves
  BY <1>12, <1>q, Zenon DEF AllocateTidWrite, At, SynchPC
<1>13. ASSUME ThreadCreateUnblock PROVE SynchMoves
  BY <1>13, <1>q, Zenon DEF ThreadCreateUnblock, At, SynchPC
<1>14. ASSUME ThreadCreateCheck PROVE SynchMoves
  BY <1>14, <1>q, Zenon DEF ThreadCreateCheck, At, SynchPC
<1>15. ASSUME ThreadExit PROVE SynchMoves
  BY <1>15, <1>s, Zenon DEF ThreadExit, control
<1>16. ASSUME Yield PROVE SynchMoves
  BY <1>16, <1>s, Zenon DEF Yield, control
<1>17. ASSUME NEW q \in NewPriority, ThreadSetPriority(q) PROVE SynchMoves
  BY <1>17, <1>s, Zenon DEF ThreadSetPriority, control
<1>18. ASSUME NEW n \in SleepTicks, TimerSleep(n) PROVE SynchMoves
  BY <1>18, <1>q, Zenon DEF TimerSleep, At, SynchPC
<1>19. ASSUME ThreadSleep PROVE SynchMoves
  BY <1>19, <1>q, Zenon DEF ThreadSleep, At, SynchPC
<1>20. ASSUME IdleLoop PROVE SynchMoves
  BY <1>20, <1>q, Zenon DEF IdleLoop, At, SynchPC
<1>21. ASSUME TimerInterrupt PROVE SynchMoves
  BY <1>21, <1>s, Zenon DEF TimerInterrupt, control
<1>22. ASSUME ThreadAwake PROVE SynchMoves
  BY <1>22, <1>s, Zenon DEF ThreadAwake, control
<1>w. ASSUME WakeIdle, arg' = arg PROVE \A t \in Thread : Stays(t)
  <2>1. cur = IdleThread => pc[cur] \notin SynchPC
    BY <1>a, <1>b, Zenon DEF Lists, IdleLoops, SynchPC
  <2> QED
    BY <1>b, <1>w, <2>1, Zenon DEF WakeIdle, Stays, SynchPC
<1>23. ASSUME IntrReturn PROVE SynchMoves
  BY <1>23, <1>w, Zenon DEF IntrReturn, SynchMoves, Quiet
<1>24. ASSUME NEW s \in IntrSema, DeviceInterrupt(s) PROVE SynchMoves
  <2>1. s \in Sema /\ s \notin Lock
    BY ThreadsAssumption, Zenon
  <2>2. \A t \in Thread : Stays(t)
    BY <1>24, <1>w, Zenon DEF DeviceInterrupt
  <2>3. Gives(s)
    BY <1>24, <1>b, <2>1, <2>2, Zenon DEF DeviceInterrupt, Gives, OthersStay
  <2> QED
    BY <2>1, <2>3, Zenon DEF SynchMoves
<1>25. ASSUME UNCHANGED vars PROVE SynchMoves
  BY <1>25, <1>s, Zenon DEF vars, control
<1> QED
  BY <1>1, <1>2, <1>3, <1>4, <1>5, <1>6, <1>7, <1>8, <1>9, <1>10, <1>11, <1>12,
     <1>13, <1>14, <1>15, <1>16, <1>17, <1>18, <1>19, <1>20, <1>21, <1>22, <1>23,
     <1>24, <1>25, Zenon
     DEF Next, ThreadStep, Interrupt, Halted
----------------------------------------------------------------------------
(* Mutual exclusion.  A lock's semaphore is 1 and nobody is inside, or it  *)
(* is 0 and one thread is; the holder field is clear while that thread is  *)
(* in the windows of lock_acquire and lock_release around its semaphore.   *)
Window(t, l) == arg[t] = l /\ pc[t] \in {"own", "up"}

Held(l, t) ==
  /\ value[l] = 0
  /\ Inside(l) = {t}
  /\ Window(t, l) => holder[l] = NULL

Holders ==
  \A l \in Lock : (value[l] = 1 /\ Inside(l) = {}) \/ \E t \in Thread : Held(l, t)

(* A lock is left alone by a step that keeps its semaphore, its holder and *)
(* the threads in its windows.                                             *)
LEMMA HoldersFrame ==
  ASSUME NEW l \in Lock, value'[l] = value[l], holder'[l] = holder[l],
         \A t \in Thread : Window(t, l)' <=> Window(t, l),
         (value[l] = 1 /\ Inside(l) = {}) \/ \E t \in Thread : Held(l, t)
  PROVE  ((value[l] = 1 /\ Inside(l) = {}) \/ \E t \in Thread : Held(l, t))'
<1>1. Inside(l)' = Inside(l)
  BY Zenon DEF Inside, Window
<1> QED
  BY <1>1, Zenon DEF Held

(* A thread that stays where it is stays in its window between lock and semaphore. *)
LEMMA WindowFrame ==
  ASSUME NEW t \in Thread, Stays(t), NEW l
  PROVE  Window(t, l)' <=> Window(t, l)
  BY Zenon DEF Stays, Window, SynchPC

(* A lock's holder and its semaphore's value go together in every step. *)
LEMMA HoldersNext == TypeOK /\ Operands /\ Holders /\ SynchMoves => Holders'
<1> SUFFICES ASSUME TypeOK, Operands, Holders, SynchMoves, NEW l \in Lock,
                    NEW c \in Thread, c = cur
             PROVE  (value'[l] = 1 /\ Inside(l)' = {}) \/ \E t \in Thread : Held(l, t)'
  BY Zenon DEF Holders, TypeOK
<1>a. /\ cur \in Thread /\ value \in [Sema -> Nat] /\ l \in Sema
      /\ holder \in [Lock -> Thread \cup {NULL}]
  BY ThreadsAssumption, Zenon DEF TypeOK
<1>b. NULL \notin Thread
  BY ThreadsAssumption, Zenon
<1>h. (value[l] = 1 /\ Inside(l) = {}) \/ \E t \in Thread : Held(l, t)
  BY Zenon DEF Holders
<1>o. ASSUME OthersStay, NEW t \in Thread \ {cur} PROVE Window(t, l)' <=> Window(t, l)
  BY <1>o, WindowFrame, Zenon DEF OthersStay
<1>1. CASE Quiet
  BY <1>1, <1>h, HoldersFrame, WindowFrame, Zenon DEF Quiet, synch
<1>2. ASSUME NEW s \in Sema, Takes(s)
      PROVE  (value'[l] = 1 /\ Inside(l)' = {}) \/ \E t \in Thread : Held(l, t)'
  <2>1. CASE s # l
    <3>1. value'[l] = value[l] /\ holder' = holder
      BY <1>a, <1>2, <2>1, Zenon DEF Takes
    <3>2. ~Window(c, l) /\ ~Window(c, l)'
      BY <1>2, <2>1, Zenon DEF Takes, Window
    <3>3. \A t \in Thread : Window(t, l)' <=> Window(t, l)
      BY <1>2, <1>o, <3>2, Zenon DEF Takes
    <3> QED
      BY <1>h, <3>1, <3>3, HoldersFrame, Zenon
  <2>2. CASE s = l
    <3>1. value[l] # 0 /\ value'[l] = value[l] - 1 /\ holder' = holder
      BY <1>a, <1>2, <2>2, Zenon DEF Takes
    <3>2. value[l] = 1 /\ Inside(l) = {}
      BY <1>h, <3>1, Zenon DEF Held
    <3>3. holder[l] \notin Thread /\ \A t \in Thread : ~Window(t, l)
      BY <3>2, Zenon DEF Inside, Window
    <3>4. Window(c, l)' /\ \A t \in Thread \ {cur} : ~Window(t, l)'
      BY <1>2, <1>o, <2>2, <3>3, Zenon DEF Takes, Window
    <3>5. Inside(l)' = {c}
      BY <1>a, <3>1, <3>3, <3>4, Zenon DEF Inside, Window
    <3>6. value'[l] = 0 /\ holder'[l] = NULL
      BY <1>a, <3>1, <3>2, <3>3
    <3>7. Held(l, c)'
      BY <3>5, <3>6, Zenon DEF Held
    <3> QED
      BY <3>7, Zenon
  <2> QED
    BY <2>1, <2>2, Zenon
<1>3. ASSUME NEW s \in Sema, Waits(s)
      PROVE  (value'[l] = 1 /\ Inside(l)' = {}) \/ \E t \in Thread : Held(l, t)'
  <2>1. value' = value /\ holder' = holder /\ ~Window(c, l) /\ ~Window(c, l)'
    BY <1>3, Zenon DEF Waits, Window
  <2>2. \A t \in Thread : Window(t, l)' <=> Window(t, l)
    BY <1>3, <1>o, <2>1, Zenon DEF Waits
  <2> QED
    BY <1>h, <2>1, <2>2, HoldersFrame, Zenon
<1>4. ASSUME NEW s \in Sema, Gives(s)
      PROVE  (value'[l] = 1 /\ Inside(l)' = {}) \/ \E t \in Thread : Held(l, t)'
  <2>1. CASE s # l
    <3>1. value'[l] = value[l] /\ holder' = holder
      BY <1>a, <1>4, <2>1, Zenon DEF Gives
    <3>2. Window(c, l)' <=> Window(c, l)
      <4>1. CASE Stays(cur)
        BY <1>a, <4>1, WindowFrame, Zenon
      <4>2. CASE pc[cur] = "up" /\ arg[cur] = s /\ pc'[cur] \notin SynchPC
        BY <2>1, <4>2, Zenon DEF Window, SynchPC
      <4> QED
        BY <1>4, <4>1, <4>2, Zenon DEF Gives
    <3>3. \A t \in Thread : Window(t, l)' <=> Window(t, l)
      BY <1>4, <1>o, <3>2, Zenon DEF Gives
    <3> QED
      BY <1>h, <3>1, <3>3, HoldersFrame, Zenon
  <2>2. CASE s = l
    <3>1. /\ value'[l] = value[l] + 1 /\ holder' = holder
          /\ Window(c, l) /\ ~Window(c, l)'
      BY <1>a, <1>4, <2>2, Zenon DEF Gives, Window, SynchPC
    <3>2. cur \in Inside(l)
      BY <1>a, <3>1, Zenon DEF Inside, Window
    <3>3. Held(l, c)
      BY <1>h, <3>2, Zenon DEF Held
    <3>4. value[l] = 0 /\ Inside(l) = {cur} /\ holder[l] = NULL
      BY <3>1, <3>3, Zenon DEF Held
    <3>5. \A t \in Thread : ~Window(t, l)'
      BY <1>4, <1>o, <3>1, <3>4, Zenon DEF Gives, Inside, Window
    <3>6. Inside(l)' = {}
      BY <1>b, <3>1, <3>4, <3>5, Zenon DEF Inside, Window
    <3> QED
      BY <3>1, <3>4, <3>6
  <2> QED
    BY <2>1, <2>2, Zenon
<1>5. ASSUME Owns
      PROVE  (value'[l] = 1 /\ Inside(l)' = {}) \/ \E t \in Thread : Held(l, t)'
  <2>1. /\ value' = value /\ pc[cur] = "own" /\ arg[cur] \in Lock /\ ~Window(c, l)'
        /\ holder' = [holder EXCEPT ![arg[cur]] = cur]
    BY <1>5, <1>a, Zenon DEF Owns, Operands, Window, SynchPC
  <2>2. CASE arg[cur] # l
    <3>1. holder'[l] = holder[l] /\ ~Window(c, l)
      BY <1>a, <2>1, <2>2, Zenon DEF Window
    <3>2. \A t \in Thread : Window(t, l)' <=> Window(t, l)
      BY <1>5, <1>o, <2>1, <3>1, Zenon DEF Owns
    <3> QED
      BY <1>h, <2>1, <3>1, <3>2, HoldersFrame, Zenon
  <2>3. CASE arg[cur] = l
    <3>1. Window(c, l) /\ cur \in Inside(l) /\ holder'[l] = cur
      BY <1>a, <2>1, <2>3, Zenon DEF Window, Inside
    <3>2. value[l] = 0 /\ Inside(l) = {cur}
      BY <1>h, <3>1, Zenon DEF Held
    <3>3. \A t \in Thread : ~Window(t, l)'
      BY <1>5, <1>o, <2>1, <3>2, Zenon DEF Owns, Inside, Window
    <3>4. Inside(l)' = {c}
      BY <1>a, <3>1, <3>3, Zenon DEF Inside, Window
    <3>5. Held(l, c)'
      BY <1>a, <2>1, <3>2, <3>3, <3>4, Zenon DEF Held
    <3> QED
      BY <3>5, Zenon
  <2> QED
    BY <2>2, <2>3, Zenon
<1>6. ASSUME NEW k \in Lock, Releases(k)
      PROVE  (value'[l] = 1 /\ Inside(l)' = {}) \/ \E t \in Thread : Held(l, t)'
  <2>1. /\ value' = value /\ holder[k] = cur /\ holder' = [holder EXCEPT ![k] = NULL]
        /\ ~Window(c, l) /\ (Window(c, l)' <=> k = l)
    BY <1>6, Zenon DEF Releases, Window, SynchPC
  <2>2. CASE k # l
    <3>1. holder'[l] = holder[l]
      BY <1>a, <2>1, <2>2, Zenon
    <3>2. \A t \in Thread : Window(t, l)' <=> Window(t, l)
      BY <1>6, <1>o, <2>1, <2>2, Zenon DEF Releases
    <3> QED
      BY <1>h, <2>1, <3>1, <3>2, HoldersFrame, Zenon
  <2>3. CASE k = l
    <3>1. cur \in Inside(l) /\ holder'[l] = NULL
      BY <1>a, <2>1, <2>3, Zenon DEF Inside
    <3>2. value[l] = 0 /\ Inside(l) = {cur}
      BY <1>h, <3>1, Zenon DEF Held
    <3>3. \A t \in Thread \ {cur} : ~Window(t, l)'
      BY <1>6, <1>o, <3>2, Zenon DEF Releases, Inside, Window
    <3>4. Inside(l)' = {c}
      BY <1>a, <1>b, <2>1, <2>3, <3>1, <3>3, Zenon DEF Inside, Window
    <3>5. Held(l, c)'
      BY <2>1, <3>1, <3>2, <3>4, Zenon DEF Held
    <3> QED
      BY <3>5, Zenon
  <2> QED
    BY <2>2, <2>3, Zenon
<1> QED
  BY <1>1, <1>2, <1>3, <1>4, <1>5, <1>6, Zenon DEF SynchMoves

(* Locks are free when the kernel has started. *)
LEMMA HoldersInit ==
  Init => Holders
<1> SUFFICES ASSUME Init, NEW l \in Lock PROVE value[l] = 1 /\ Inside(l) = {}
  BY Zenon DEF Holders
<1>1. l \in Sema /\ NULL \notin Thread
  BY ThreadsAssumption, Zenon
<1> QED
  BY <1>1, Zenon DEF Init, Inside

(* With the holders in order a lock has its unit or one thread inside. *)
LEMMA HoldersExclude ==
  Holders => LockExclusion
<1> SUFFICES ASSUME Holders, NEW l \in Lock
             PROVE  Cardinality(Inside(l)) + value[l] = 1
  BY Zenon DEF LockExclusion
<1>1. CASE value[l] = 1 /\ Inside(l) = {}
  BY <1>1, SmallSets
<1>2. CASE \E t \in Thread : Held(l, t)
  <2>1. PICK t \in Thread : value[l] = 0 /\ Inside(l) = {t}
    BY <1>2, Zenon DEF Held
  <2>2. Cardinality({t}) = 1
    BY SmallSets, Zenon
  <2> QED
    BY <2>1, <2>2
<1> QED
  BY <1>1, <1>2, Zenon DEF Holders
----------------------------------------------------------------------------
(* Wake-ups.  The units of s and the threads on their way to them.         *)
Answered(s) ==
  /\ IsFiniteSet(Woken(s))
  /\ waiters[s] # <<>> => value[s] <= Cardinality(Woken(s))

(* The threads woken from s stay so as long as they, and the list, do. *)
LEMMA WokenFrame ==
  ASSUME NEW s \in Sema, waiters'[s] = waiters[s], NEW T \in SUBSET Thread,
         \A t \in T : Stays(t)
  PROVE  \A t \in T : t \in Woken(s)' <=> t \in Woken(s)
  BY Zenon DEF Woken, Stays, SynchPC

(* Steps that change no semaphore keep its waiters answered. *)
LEMMA AnsweredFrame ==
  ASSUME NEW s \in Sema, Answered(s), waiters'[s] = waiters[s], value'[s] = value[s],
         \A t \in Thread : t \in Woken(s)' <=> t \in Woken(s)
  PROVE  Answered(s)'
<1>1. Woken(s)' = Woken(s)
  BY Zenon DEF Woken
<1> QED
  BY <1>1, Zenon DEF Answered

(* A waiter stays answered in every step. *)
LEMMA AnsweredNext ==
  ASSUME LeastNat, SInv, SynchMoves, NEW s \in Sema, Answered(s)
  PROVE  Answered(s)'
<1>a. /\ value \in [Sema -> Nat] /\ waiters \in [Sema -> Seq(Thread)]
      /\ priority \in [Thread -> Priority] /\ cur \in Thread
  BY Zenon DEF SInv, TypeOK
<1> SUFFICES ASSUME NEW c \in Thread, c = cur PROVE Answered(s)'
  BY <1>a, Zenon
<1>t. TypeOK /\ Lists /\ Linked(ready_list, sleep_list, waiters, status, pc, arg)
  BY Zenon DEF SInv, Lists
<1>f. IsFiniteSet(Woken(s)) /\ Cardinality(Woken(s)) \in Nat
  BY SizeType, Zenon DEF Answered
<1>o. ASSUME OthersStay, waiters'[s] = waiters[s]
      PROVE  \A t \in Thread \ {c} : t \in Woken(s)' <=> t \in Woken(s)
  <2>1. \A t \in Thread \ {c} : Stays(t)
    BY <1>o, Zenon DEF OthersStay
  <2> HIDE DEF OthersStay, Stays
  <2> QED
    BY <1>o, <2>1, WokenFrame, Zenon
<1>n. ASSUME pc[cur] # "down" PROVE c \notin Woken(s)
  BY <1>n, Zenon DEF Woken
<1>m. ASSUME pc'[cur] # "down" PROVE c \notin Woken(s)'
  BY <1>m, Zenon DEF Woken
<1>1. CASE Quiet
  <2>1. waiters' = waiters /\ value' = value /\ \A t \in Thread : Stays(t)
    BY <1>1, Zenon DEF Quiet, synch
  <2>2. \A t \in Thread : t \in Woken(s)' <=> t \in Woken(s)
    BY <2>1, WokenFrame, Zenon
  <2> QED
    BY <2>1, <2>2, AnsweredFrame, Zenon
<1>2. ASSUME NEW r \in Sema, Takes(r) PROVE Answered(s)'
  <2>1. /\ waiters' = waiters /\ OthersStay /\ pc'[cur] # "down"
        /\ pc[cur] = "down" => arg[cur] = r
        /\ value[r] # 0 /\ value' = [value EXCEPT ![r] = @ - 1]
    BY <1>2, Zenon DEF Takes
  <2>2. \A t \in Thread \ {c} : t \in Woken(s)' <=> t \in Woken(s)
    BY <1>o, <2>1, Zenon
  <2>3. c \notin Woken(s)'
    BY <1>m, <2>1, Zenon
  <2>4. CASE r # s
    <3>1. value'[s] = value[s] /\ c \notin Woken(s)
      BY <1>a, <2>1, <2>4, Zenon DEF Woken
    <3> QED
      BY <2>1, <2>2, <2>3, <3>1, AnsweredFrame, Zenon
  <2>5. CASE r = s
    <3>1. Woken(s)' = Woken(s) \ {c}
      <4>1. Woken(s)' \subseteq Thread /\ Woken(s) \subseteq Thread
        BY Zenon DEF Woken
      <4> QED
        BY <2>2, <2>3, <4>1, Zenon
    <3>2. /\ IsFiniteSet(Woken(s) \ {c})
          /\ Cardinality(Woken(s) \ {c}) = IF c \in Woken(s) THEN Cardinality(Woken(s)) - 1
                                                            ELSE Cardinality(Woken(s))
      BY <1>f, SizeDrops, Zenon
    <3>3. value'[s] = value[s] - 1 /\ value[s] \in Nat
      BY <1>a, <2>1, <2>5, Zenon
    <3>4. waiters[s] # <<>> => value[s] - 1 <= Cardinality(Woken(s) \ {c})
      BY <1>f, <3>2, <3>3 DEF Answered
    <3> QED
      BY <2>1, <3>1, <3>2, <3>3, <3>4, Zenon DEF Answered
  <2> QED
    BY <2>4, <2>5, Zenon
<1>3. ASSUME NEW r \in Sema, Waits(r) PROVE Answered(s)'
  <2>1. /\ value' = value /\ OthersStay /\ value[r] = 0
        /\ waiters' = [waiters EXCEPT ![r] =
                         ListInsertOrdered(@, cur, CmpPriority(priority))]
        /\ pc[cur] = "down" => arg[cur] = r
        /\ arg'[cur] = r
    BY <1>3, Zenon DEF Waits
  <2>2. CASE r # s
    <3>1. waiters'[s] = waiters[s]
      BY <1>a, <2>1, <2>2, Zenon
    <3>2. c \notin Woken(s) /\ c \notin Woken(s)'
      BY <2>1, <2>2, Zenon DEF Woken
    <3>3. \A t \in Thread \ {c} : t \in Woken(s)' <=> t \in Woken(s)
      BY <1>o, <2>1, <3>1, Zenon
    <3> QED
      BY <2>1, <3>1, <3>2, <3>3, AnsweredFrame, Zenon
  <2>3. CASE r = s
    <3> DEFINE m == ListInsertOrdered(waiters[s], cur, CmpPriority(priority))
    <3>1. waiters'[s] = m
      BY <1>a, <2>1, <2>3, Zenon
    <3>2. waiters[s] \in Seq(Thread) /\ CmpPriority(priority) \in [Thread -> Int]
      BY <1>a, CmpPriorityType, Zenon
    <3>3. \A u : On(u, m) <=> u = cur \/ On(u, waiters[s])
      BY <1>a, <3>2, InsertOn, Zenon
    <3> HIDE DEF m
    <3>4. \A t \in Thread \ {c} : t \in Woken(s)' => t \in Woken(s)
      BY <2>1, <3>1, <3>3, Zenon DEF OthersStay, Stays, SynchPC, Woken
    <3>5. c \notin Woken(s)'
      BY <3>1, <3>3, Zenon DEF Woken
    <3>6. Woken(s)' \in SUBSET Woken(s)
      <4>1. Woken(s)' \subseteq Thread
        BY Zenon DEF Woken
      <4> QED
        BY <3>4, <3>5, <4>1, Zenon
    <3>7. IsFiniteSet(Woken(s)')
      BY <1>f, <3>6, PartFinite, Zenon
    <3>8. Cardinality(Woken(s)') \in Nat
      BY <3>7, SizeType, Zenon
    <3>9. value'[s] = 0
      BY <2>1, <2>3, Zenon
    <3> QED
      BY <3>7, <3>8, <3>9 DEF Answered
  <2> QED
    BY <2>2, <2>3, Zenon
<1>4. ASSUME NEW r \in Sema, Gives(r) PROVE Answered(s)'
  <2>1. /\ value' = [value EXCEPT ![r] = @ + 1] /\ OthersStay
        /\ waiters' = IF waiters[r] = <<>> THEN waiters ELSE [waiters EXCEPT ![r] = Tail(@)]
    BY <1>4, Zenon DEF Gives
  <2>2. pc'[cur] = "down" \/ pc[cur] = "down" => Stays(cur)
    BY <1>4, Zenon DEF Gives, SynchPC
  <2>3. ASSUME waiters'[s] = waiters[s]
        PROVE  \A t \in Thread : t \in Woken(s)' <=> t \in Woken(s)
    <3>1. c \in Woken(s)' <=> c \in Woken(s)
      BY <2>2, <2>3, Zenon DEF Woken, Stays, SynchPC
    <3> QED
      BY <1>o, <2>1, <2>3, <3>1, Zenon
  <2>4. CASE r # s
    <3>1. waiters'[s] = waiters[s] /\ value'[s] = value[s]
      BY <1>a, <2>1, <2>4, Zenon
    <3> QED
      BY <2>3, <3>1, AnsweredFrame, Zenon
  <2>5. CASE r = s /\ waiters[s] = <<>>
    <3>1. waiters'[s] = waiters[s]
      BY <2>1, <2>5, Zenon
    <3>2. Woken(s)' = Woken(s)
      <4>1. Woken(s)' \subseteq Thread /\ Woken(s) \subseteq Thread
        BY Zenon DEF Woken
      <4> QED
        BY <2>3, <3>1, <4>1, Zenon
    <3> QED
      BY <1>f, <2>5, <3>1, <3>2, Zenon DEF Answered
  <2>6. CASE r = s /\ waiters[s] # <<>>
    <3>1. PICK t \in Thread : t = Head(waiters[s])
      BY <1>a, <2>6, PopFront, Zenon
    <3>2. waiters'[s] = Tail(waiters[s]) /\ value'[s] = value[s] + 1 /\ value[s] \in Nat
      BY <1>a, <2>1, <2>6, Zenon
    <3>3. /\ On(t, waiters[s]) /\ ~On(t, Tail(waiters[s]))
          /\ \A u : u # t => (On(u, Tail(waiters[s])) <=> On(u, waiters[s]))
      <4>1. waiters[s] \in Seq(Thread) /\ NoDuplicates(waiters[s])
        BY <1>a, <1>t, Zenon DEF Linked
      <4> QED
        BY <2>6, <3>1, <4>1, PopFront, Zenon
    <3>4. status[t] = "BLOCKED" /\ pc[t] = "down" /\ arg[t] = s
      BY <1>t, <3>3, Zenon DEF Linked
    <3>5. t # c
      BY <1>t, <3>4, Zenon DEF Lists, OneRunning
    <3>6. t \notin Woken(s) /\ t \in Woken(s)'
      <4>1. pc'[t] = "down" /\ arg'[t] = s
        BY <2>1, <3>4, <3>5, Zenon DEF OthersStay, Stays, SynchPC
      <4> QED
        BY <3>2, <3>3, <4>1, Zenon DEF Woken
    <3>7. \A u \in Thread \ {c, t} : u \in Woken(s)' <=> u \in Woken(s)
      BY <2>1, <3>2, <3>3, Zenon DEF OthersStay, Stays, SynchPC, Woken
    <3>8. c \in Woken(s)' <=> c \in Woken(s)
      BY <2>2, <3>2, <3>3, <3>5, Zenon DEF Woken, Stays, SynchPC
    <3>9. Woken(s)' = Woken(s) \cup {t}
      <4>1. Woken(s)' \subseteq Thread /\ Woken(s) \subseteq Thread
        BY Zenon DEF Woken
      <4> QED
        BY <3>6, <3>7, <3>8, <4>1, Zenon
    <3>10. /\ IsFiniteSet(Woken(s) \cup {t})
           /\ Cardinality(Woken(s) \cup {t}) = Cardinality(Woken(s)) + 1
      BY <1>f, <3>6, SizeAdds, Zenon
    <3>11. value[s] + 1 <= Cardinality(Woken(s)) + 1
      BY <1>f, <2>6, <3>2 DEF Answered
    <3> QED
      BY <3>2, <3>9, <3>10, <3>11, Zenon DEF Answered
  <2> QED
    BY <2>4, <2>5, <2>6, Zenon
<1>5. ASSUME waiters' = waiters, value' = value, OthersStay,
             pc[cur] # "down", pc'[cur] # "down"
      PROVE  Answered(s)'
  <2>1. \A t \in Thread \ {c} : t \in Woken(s)' <=> t \in Woken(s)
    BY <1>5, <1>o, Zenon
  <2> QED
    BY <1>5, <1>m, <1>n, <2>1, AnsweredFrame, Zenon
<1>6. CASE Owns
  BY <1>5, <1>6, Zenon DEF Owns, SynchPC
<1>7. ASSUME NEW l \in Lock, Releases(l) PROVE Answered(s)'
  BY <1>5, <1>7, Zenon DEF Releases, SynchPC
<1> QED
  BY <1>1, <1>2, <1>3, <1>4, <1>6, <1>7, Zenon DEF SynchMoves

(* Nobody waits when the kernel has started. *)
LEMMA AnsweredInit ==
  Init => \A s \in Sema : Answered(s)
<1> SUFFICES ASSUME Init, NEW s \in Sema PROVE Answered(s)
  BY Zenon
<1>1. Woken(s) = {} /\ waiters[s] = <<>>
  BY Zenon DEF Init, Woken
<1> QED
  BY <1>1, SmallSets, Zenon DEF Answered
----------------------------------------------------------------------------
(* Tids.  A creator that has its number and has not stored it yet.         *)
Named(t) == new[t] # NULL /\ pc[t] \in {"release", "up", "unblock"}

(* allocate_tid reads and writes next_tid inside tid_lock; the number it   *)
(* returns is below next_tid, and is no thread's and no other creator's.   *)
Tids ==
  /\ 0 < next_tid
  /\ \A t \in Thread :
       /\ pc[t] \in {"read", "write", "release"} => holder[TidLock] = t
       /\ pc[t] = "write" => tmp[t] = next_tid
       /\ tid[t] < next_tid
       /\ Named(t) => /\ 0 < tmp[t] /\ tmp[t] < next_tid
                      /\ \A u \in Thread : tid[u] # tmp[t]
                      /\ \A u \in Thread : Named(u) /\ tmp[u] = tmp[t] => u = t
  /\ TidsUnique

(* A step that gives and stores no number: threads may lose one, and a     *)
(* thread outside allocate_tid stays outside.                              *)
LEMMA TidsFrame ==
  ASSUME Tids, next_tid' = next_tid,
         \A t \in Thread : tid'[t] = tid[t] \/ tid'[t] = 0,
         \A t \in Thread : pc'[t] \in {"read", "write", "release"} =>
                             holder'[TidLock] = t,
         \A t \in Thread : pc'[t] = "write" => tmp'[t] = next_tid,
         \A t \in Thread : Named(t)' => Named(t) /\ tmp'[t] = tmp[t]
  PROVE  Tids'
<1>1. \A t \in Thread : tid'[t] < next_tid'
  BY Zenon DEF Tids
<1>2. ASSUME NEW t \in Thread, Named(t)'
      PROVE  /\ 0 < tmp'[t] /\ tmp'[t] < next_tid'
             /\ \A u \in Thread : tid'[u] # tmp'[t]
             /\ \A u \in Thread : Named(u)' /\ tmp'[u] = tmp'[t] => u = t
  BY <1>2 DEF Tids
<1>3. TidsUnique'
  BY Zenon DEF Tids, TidsUnique
<1> QED
  BY <1>1, <1>2, <1>3, Zenon DEF Tids

(* Every thread's tid stays its own in every step. *)
LEMMA TidsNext == SInv /\ Holders /\ Tids => ([Next]_vars => Tids')
<1> SUFFICES ASSUME SInv, Holders, Tids PROVE [Next]_vars => Tids'
  BY Zenon
<1>a. TypeOK /\ Operands /\ Lists /\ Calls
  BY Zenon DEF SInv
<1>b. /\ cur \in Thread /\ pc \in [Thread -> PC] /\ arg \in [Thread -> Sema \cup {NULL}]
      /\ new \in [Thread -> Thread \cup {NULL}] /\ holder \in [Lock -> Thread \cup {NULL}]
      /\ tid \in [Thread -> Nat] /\ next_tid \in Nat /\ tmp \in [Thread -> Int]
  BY <1>a, Zenon DEF TypeOK
<1>c. NULL \notin Thread /\ TidLock \in Lock
  BY ThreadsAssumption, Zenon
<1>d. \A t \in Thread : pc[t] \in {"read", "write", "release"} => holder[TidLock] = t
  BY Zenon DEF Tids
<1>e. \A t \in Thread : pc[t] = "write" => tmp[t] = next_tid
  BY Zenon DEF Tids
(* The running thread goes to a place outside allocate_tid. *)
<1>q. ASSUME \A t \in Thread \ {cur} : pc'[t] = pc[t] /\ new'[t] = new[t] /\ tmp'[t] = tmp[t],
             pc'[cur] \notin {"read", "write", "release"},
             pc'[cur] \in {"up", "unblock"} =>
               Named(cur) /\ new'[cur] = new[cur] /\ tmp'[cur] = tmp[cur],
             UNCHANGED <<holder, tid, next_tid>>
      PROVE  Tids'
  <2>1. \A t \in Thread : pc'[t] \in {"read", "write", "release"} => holder'[TidLock] = t
    BY <1>d, <1>q, Zenon
  <2>2. \A t \in Thread : pc'[t] = "write" => tmp'[t] = next_tid
    BY <1>e, <1>q, Zenon
  <2>3. \A t \in Thread : Named(t)' => Named(t) /\ tmp'[t] = tmp[t]
    BY <1>q, Zenon DEF Named
  <2> QED
    BY <1>q, <2>1, <2>2, <2>3, TidsFrame, Zenon
<1>s. ASSUME UNCHANGED <<pc, holder, next_tid, new, tmp>>,
             \A t \in Thread : tid'[t] = tid[t] \/ tid'[t] = 0
      PROVE  Tids'
  BY <1>d, <1>e, <1>s, TidsFrame, Zenon DEF Named
<1>n. pc[cur] = "run" => new[cur] = NULL
  BY <1>a, <1>b, Zenon DEF Calls, Creating
<1>g. ASSUME NEW s \in Sema, SemaDownStep(s), UNCHANGED <<holder, tid, next_tid, new, tmp>>
      PROVE  Tids'
  <2>1. PICK p \in {"down", "own", "run"} : pc' = [pc EXCEPT ![cur] = p]
    BY <1>g, Zenon DEF SemaDownStep, Goto, AfterDown
  <2>2. pc'[cur] = p /\ \A t \in Thread \ {cur} : pc'[t] = pc[t]
    BY <1>b, <2>1, Zenon
  <2> QED
    BY <1>g, <1>q, <2>2, Zenon
<1>1. ASSUME NEW s \in Sema, SemaDown(s) PROVE Tids'
  BY <1>1, <1>g, Zenon DEF SemaDown, tids
<1>2. ASSUME SemaDownWoken PROVE Tids'
  <2>1. arg[cur] \in Sema
    BY <1>2, <1>a, <1>b, Zenon DEF SemaDownWoken, At, Operands
  <2> QED
    BY <1>2, <1>g, <2>1, Zenon DEF SemaDownWoken, tids
<1>3. ASSUME NEW s \in Sema, SemaTryDown(s) PROVE Tids'
  BY <1>3, <1>s, Zenon DEF SemaTryDown, tids, control
<1>4. ASSUME NEW s \in Sema, SemaUp(s) PROVE Tids'
  BY <1>4, <1>s, Zenon DEF SemaUp, tids, control
<1>5. ASSUME NEW l \in Lock, LockAcquire(l) PROVE Tids'
  BY <1>5, <1>g, ThreadsAssumption, Zenon DEF LockAcquire, tids
<1>6. ASSUME NEW l \in Lock, LockTryAcquire(l) PROVE Tids'
  <2>1. /\ pc' = [pc EXCEPT ![cur] = "own"] /\ UNCHANGED <<holder, tid, next_tid, new, tmp>>
    BY <1>6, Zenon DEF LockTryAcquire, Goto, tids
  <2>2. pc'[cur] = "own" /\ \A t \in Thread \ {cur} : pc'[t] = pc[t]
    BY <1>b, <2>1, Zenon
  <2> QED
    BY <1>q, <2>1, <2>2, Zenon
<1>7. ASSUME LockOwn PROVE Tids'
  <2>1. /\ pc[cur] = "own" /\ holder' = [holder EXCEPT ![arg[cur]] = cur]
        /\ pc' = [pc EXCEPT ![cur] = IF new[cur] # NULL THEN "read" ELSE "run"]
        /\ UNCHANGED <<tid, next_tid, new, tmp>>
    BY <1>7, Zenon DEF LockOwn, At, Goto, tids
  <2>2. /\ pc'[cur] \in {"read", "run"} /\ (pc'[cur] = "read" => new[cur] # NULL)
        /\ \A t \in Thread \ {cur} : pc'[t] = pc[t]
    BY <1>b, <2>1, Zenon
  <2>3. arg[cur] \in Lock /\ (new[cur] # NULL => arg[cur] = TidLock)
    BY <1>a, <1>b, <2>1, Zenon DEF Operands, Calls
  <2>4. arg[cur] = TidLock => holder[TidLock] = NULL
    <3> SUFFICES ASSUME arg[cur] = TidLock PROVE holder[TidLock] = NULL
      BY Zenon
    <3>1. Window(cur, TidLock) /\ cur \in Inside(TidLock)
      BY <1>b, <2>1, Zenon DEF Window, Inside
    <3>2. PICK t \in Thread : Held(TidLock, t)
      BY <1>c, <3>1, Zenon DEF Holders
    <3>3. t = cur
      BY <3>1, <3>2, Zenon DEF Held
    <3> QED
      BY <3>1, <3>2, <3>3, Zenon DEF Held
  <2>5. ASSUME NEW t \in Thread, pc'[t] \in {"read", "write", "release"}
        PROVE  holder'[TidLock] = t
    <3>1. CASE t = cur
      BY <1>b, <1>c, <2>1, <2>2, <2>3, <2>5, <3>1, Zenon
    <3>2. CASE t # cur
      <4>1. holder[TidLock] = t
        BY <1>d, <2>2, <2>5, <3>2, Zenon
      <4>2. arg[cur] # TidLock
        BY <1>c, <2>4, <4>1, Zenon
      <4> QED
        BY <1>b, <1>c, <2>1, <2>3, <4>1, <4>2, Zenon
    <3> QED
      BY <3>1, <3>2, Zenon
  <2>6. \A t \in Thread : pc'[t] = "write" => tmp'[t] = next_tid
    BY <1>e, <2>1, <2>2, Zenon
  <2>7. \A t \in Thread : Named(t)' => Named(t) /\ tmp'[t] = tmp[t]
    BY <2>1, <2>2, Zenon DEF Named
  <2> QED
    BY <2>1, <2>5, <2>6, <2>7, TidsFrame, Zenon
<1>8. ASSUME NEW l \in Lock, LockRelease(l) PROVE Tids'
  <2>1. /\ \/ pc[cur] = "run" /\ l # TidLock
           \/ pc[cur] = "release" /\ l = TidLock
        /\ holder[l] = cur /\ holder' = [holder EXCEPT ![l] = NULL]
        /\ pc' = [pc EXCEPT ![cur] = "up"]
        /\ UNCHANGED <<tid, next_tid, new, tmp>>
    BY <1>8, Zenon DEF LockRelease, At, Goto, tids
  <2>2. pc'[cur] = "up" /\ \A t \in Thread \ {cur} : pc'[t] = pc[t]
    BY <1>b, <2>1, Zenon
  <2>3. ASSUME NEW t \in Thread, pc'[t] \in {"read", "write", "release"}
        PROVE  holder'[TidLock] = t
    <3>1. t # cur /\ holder[TidLock] = t
      BY <1>d, <2>2, <2>3, Zenon
    <3>2. l # TidLock
      BY <2>1, <3>1, Zenon
    <3> QED
      BY <1>b, <1>c, <2>1, <3>1, <3>2, Zenon
  <2>4. \A t \in Thread : pc'[t] = "write" => tmp'[t] = next_tid
    BY <1>e, <2>1, <2>2, Zenon
  <2>5. \A t \in Thread : Named(t)' => Named(t) /\ tmp'[t] = tmp[t]
    BY <1>n, <2>1, <2>2, Zenon DEF Named
  <2> QED
    BY <2>1, <2>3, <2>4, <2>5, TidsFrame, Zenon
<1>9. ASSUME LockReleaseUp PROVE Tids'
  <2>1. /\ pc[cur] = "up" /\ pc' = [pc EXCEPT ![cur] = AfterUp]
        /\ UNCHANGED <<holder, tid, next_tid, new, tmp>>
    BY <1>9, Zenon DEF LockReleaseUp, At, Goto, tids
  <2>2. AfterUp \in {"unblock", "run"} /\ (AfterUp = "unblock" => new[cur] # NULL)
    BY Zenon DEF AfterUp
  <2>3. AfterUp = "unblock" => Named(cur)
    BY <2>1, <2>2, Zenon DEF Named
  <2>4. pc'[cur] = AfterUp /\ \A t \in Thread \ {cur} : pc'[t] = pc[t]
    BY <1>b, <2>1, Zenon
  <2> QED
    BY <1>q, <2>1, <2>2, <2>3, <2>4, Zenon
<1>10. ASSUME NEW t \in Thread, NEW q \in NewPriority, ThreadCreate(t, q) PROVE Tids'
  <2>1. /\ pc' = [pc EXCEPT ![cur] = "alloc", ![t] = "run"] /\ status[t] = "UNUSED"
        /\ new' = [new EXCEPT ![cur] = t, ![t] = NULL] /\ tmp' = [tmp EXCEPT ![t] = 0]
        /\ UNCHANGED <<holder, next_tid>> /\ tid' = [tid EXCEPT ![t] = 0]
    BY <1>10, Zenon DEF ThreadCreate, synch
  <2>2. t # cur
    BY <1>a, <1>b, <2>1, Zenon DEF Lists, OneRunning
  <2>3. /\ pc'[cur] = "alloc" /\ pc'[t] = "run"
        /\ \A u \in Thread \ {cur, t} : pc'[u] = pc[u] /\ new'[u] = new[u] /\ tmp'[u] = tmp[u]
        /\ \A u \in Thread : tid'[u] = tid[u] \/ tid'[u] = 0
    BY <1>b, <2>1, <2>2, Zenon
  <2>4. \A u \in Thread : pc'[u] \in {"read", "write", "release"} => holder'[TidLock] = u
    BY <1>d, <2>1, <2>3, Zenon
  <2>5. \A u \in Thread : pc'[u] = "write" => tmp'[u] = next_tid
    BY <1>e, <2>3, Zenon
  <2>6. \A u \in Thread : Named(u)' => Named(u) /\ tmp'[u] = tmp[u]
    BY <2>3, Zenon DEF Named
  <2>7. next_tid' = next_tid /\ \A u \in Thread : tid'[u] = tid[u] \/ tid'[u] = 0
    BY <2>1, <2>3, Zenon
  <2> QED
    BY <2>4, <2>5, <2>6, <2>7, TidsFrame, Zenon
<1>11. ASSUME AllocateTidRead PROVE Tids'
  <2>1. /\ pc[cur] = "read" /\ pc' = [pc EXCEPT ![cur] = "write"]
        /\ tmp' = [tmp EXCEPT ![cur] = next_tid] /\ UNCHANGED <<holder, tid, next_tid, new>>
    BY <1>11, Zenon DEF AllocateTidRead, At, Goto, tids, synch
  <2>2. /\ pc'[cur] = "write" /\ tmp'[cur] = next_tid
        /\ \A u \in Thread \ {cur} : pc'[u] = pc[u] /\ tmp'[u] = tmp[u]
    BY <1>b, <2>1, Zenon
  <2>3. \A u \in Thread : pc'[u] \in {"read", "write", "release"} => holder'[TidLock] = u
    BY <1>b, <1>d, <2>1, <2>2, Zenon
  <2>4. \A u \in Thread : pc'[u] = "write" => tmp'[u] = next_tid
    BY <1>e, <2>2, Zenon
  <2>5. \A u \in Thread : Named(u)' => Named(u) /\ tmp'[u] = tmp[u]
    BY <2>1, <2>2, Zenon DEF Named
  <2> QED
    BY <2>1, <2>3, <2>4, <2>5, TidsFrame, Zenon
<1>12. ASSUME AllocateTidWrite PROVE Tids'
  <2>1. /\ pc[cur] = "write" /\ pc' = [pc EXCEPT ![cur] = "release"]
        /\ next_tid' = tmp[cur] + 1 /\ UNCHANGED <<holder, tid, new, tmp>>
    BY <1>12, Zenon DEF AllocateTidWrite, At, Goto, synch
  <2>2. pc'[cur] = "release" /\ \A u \in Thread \ {cur} : pc'[u] = pc[u]
    BY <1>b, <2>1, Zenon
  <2>3. /\ tmp[cur] = next_tid /\ next_tid' = next_tid + 1 /\ 0 < next_tid
        /\ holder[TidLock] = cur
    BY <1>b, <1>d, <1>e, <2>1, Zenon DEF Tids
  <2>4. \A u \in Thread : pc'[u] \in {"read", "write", "release"} => u = cur
    BY <1>d, <2>2, <2>3, Zenon
  <2>5. \A u \in Thread : tid[u] < next_tid /\ tid[u] \in Nat /\ tmp[u] \in Int
    BY <1>b, Zenon DEF Tids
  <2>6. \A u \in Thread \ {cur} : Named(u)' <=> Named(u)
    BY <2>1, <2>2, Zenon DEF Named
  <2>7. ASSUME NEW t \in Thread, Named(t)'
        PROVE  /\ 0 < tmp'[t] /\ tmp'[t] < next_tid'
               /\ \A u \in Thread : tid'[u] # tmp'[t]
               /\ \A u \in Thread : Named(u)' /\ tmp'[u] = tmp'[t] => u = t
    <3>1. \A u \in Thread \ {cur} : Named(u)' => tmp[u] < next_tid
      BY <2>6, Zenon DEF Tids
    <3>2. CASE t = cur
      BY <1>b, <2>1, <2>3, <2>5, <3>1, <3>2
    <3>3. CASE t # cur
      <4>1. /\ 0 < tmp[t] /\ tmp[t] < next_tid
            /\ \A u \in Thread : tid[u] # tmp[t]
            /\ \A u \in Thread : Named(u) /\ tmp[u] = tmp[t] => u = t
        BY <2>6, <2>7, <3>3, Zenon DEF Tids
      <4>2. tmp[t] < next_tid'
        BY <1>b, <2>3, <4>1
      <4>3. ASSUME NEW u \in Thread, Named(u)', tmp[u] = tmp[t] PROVE u = t
        BY <1>b, <2>3, <2>6, <4>1, <4>3
      <4> QED
        BY <2>1, <4>1, <4>2, <4>3, Zenon
    <3> QED
      BY <3>2, <3>3, Zenon
  <2>8. TidsUnique' /\ 0 < next_tid' /\ \A t \in Thread : tid'[t] < next_tid'
    BY <1>b, <2>1, <2>3, <2>5 DEF Tids, TidsUnique
  <2>9. \A t \in Thread : /\ pc'[t] \in {"read", "write", "release"} => holder'[TidLock] = t
                          /\ pc'[t] # "write"
    BY <2>1, <2>2, <2>3, <2>4, Zenon
  <2> QED
    BY <2>7, <2>8, <2>9, Zenon DEF Tids
<1>13. ASSUME ThreadCreateUnblock PROVE Tids'
  <2>1. /\ pc[cur] = "unblock" /\ pc' = [pc EXCEPT ![cur] = "check"]
        /\ tid' = [tid EXCEPT ![new[cur]] = tmp[cur]]
        /\ UNCHANGED <<holder, next_tid, new, tmp>>
    BY <1>13, Zenon DEF ThreadCreateUnblock, At, Goto, synch
  <2>2. Named(cur) /\ new[cur] \in Thread
    BY <1>a, <1>b, <2>1, Zenon DEF Operands, Named
  <2>3. /\ pc'[cur] = "check" /\ \A u \in Thread \ {cur} : pc'[u] = pc[u]
        /\ tid'[new[cur]] = tmp[cur]
        /\ \A u \in Thread : u # new[cur] => tid'[u] = tid[u]
    BY <1>b, <2>1, <2>2, Zenon
  <2>4. /\ 0 < tmp[cur] /\ tmp[cur] < next_tid
        /\ \A u \in Thread : tid[u] # tmp[cur]
        /\ \A u \in Thread : Named(u) /\ tmp[u] = tmp[cur] => u = cur
    BY <1>b, <2>2, Zenon DEF Tids
  <2>5. ASSUME NEW t \in Thread, Named(t)'
        PROVE  /\ 0 < tmp'[t] /\ tmp'[t] < next_tid'
               /\ \A u \in Thread : tid'[u] # tmp'[t]
               /\ \A u \in Thread : Named(u)' /\ tmp'[u] = tmp'[t] => u = t
    <3>1. \A u \in Thread : Named(u)' => Named(u) /\ u # cur
      BY <2>1, <2>3, Zenon DEF Named
    <3>2. /\ 0 < tmp[t] /\ tmp[t] < next_tid
          /\ \A u \in Thread : tid[u] # tmp[t]
          /\ \A u \in Thread : Named(u) /\ tmp[u] = tmp[t] => u = t
      BY <2>5, <3>1, Zenon DEF Tids
    <3>3. tmp[t] # tmp[cur]
      BY <2>4, <2>5, <3>1, Zenon
    <3> QED
      BY <2>1, <2>3, <3>1, <3>2, <3>3, Zenon
  <2>6. TidsUnique' /\ \A t \in Thread : tid'[t] < next_tid'
    BY <2>1, <2>3, <2>4 DEF Tids, TidsUnique
  <2>7. \A t \in Thread : /\ pc'[t] \in {"read", "write", "release"} => holder'[TidLock] = t
                          /\ pc'[t] = "write" => tmp'[t] = next_tid'
    BY <1>d, <1>e, <2>1, <2>3, Zenon
  <2>8. 0 < next_tid'
    BY <2>1, Zenon DEF Tids
  <2> QED
    BY <2>5, <2>6, <2>7, <2>8, Zenon DEF Tids
<1>14. ASSUME ThreadCreateCheck PROVE Tids'
  <2>1. /\ pc'[cur] = "run" /\ UNCHANGED <<holder, tid, next_tid>>
        /\ \A t \in Thread \ {cur} :
             pc'[t] = pc[t] /\ new'[t] = new[t] /\ tmp'[t] = tmp[t]
    BY <1>14, <1>b, Zenon DEF ThreadCreateCheck, Goto, synch
  <2> QED
    BY <1>q, <2>1, Zenon
<1>15. ASSUME ThreadExit PROVE Tids'
  BY <1>15, <1>b, <1>s, Zenon DEF ThreadExit, synch, control
<1>16. ASSUME Yield PROVE Tids'
  BY <1>16, <1>s, Zenon DEF Yield, tids, synch, control
<1>17. ASSUME NEW q \in NewPriority, ThreadSetPriority(q) PROVE Tids'
  BY <1>17, <1>s, Zenon DEF ThreadSetPriority, tids, synch, control
<1>18. ASSUME NEW n \in SleepTicks, TimerSleep(n) PROVE Tids'
  <2>1. /\ pc'[cur] = "sleep" /\ UNCHANGED <<holder, tid, next_tid>>
        /\ \A t \in Thread \ {cur} :
             pc'[t] = pc[t] /\ new'[t] = new[t] /\ tmp'[t] = tmp[t]
    BY <1>18, <1>b, Zenon DEF TimerSleep, Goto, synch, tids
  <2> QED
    BY <1>q, <2>1, Zenon
<1>19. ASSUME ThreadSleep PROVE Tids'
  <2>1. /\ pc'[cur] = "run" /\ UNCHANGED <<holder, tid, next_tid>>
        /\ \A t \in Thread \ {cur} :
             pc'[t] = pc[t] /\ new'[t] = new[t] /\ tmp'[t] = tmp[t]
    BY <1>19, <1>b, Zenon DEF ThreadSleep, Goto, synch, tids
  <2> QED
    BY <1>q, <2>1, Zenon
<1>20. ASSUME IdleLoop PROVE Tids'
  <2>1. /\ pc' = [pc EXCEPT ![cur] = "hlt"] /\ UNCHANGED <<holder, tid, next_tid, new, tmp>>
    BY <1>20, Zenon DEF IdleLoop, Goto, synch, tids
  <2>2. pc'[cur] = "hlt" /\ \A t \in Thread \ {cur} : pc'[t] = pc[t]
    BY <1>b, <2>1, Zenon
  <2> QED
    BY <1>q, <2>1, <2>2, Zenon
<1>21. ASSUME TimerInterrupt PROVE Tids'
  BY <1>21, <1>s, Zenon DEF TimerInterrupt, tids, synch, control
<1>22. ASSUME ThreadAwake PROVE Tids'
  BY <1>22, <1>s, Zenon DEF ThreadAwake, tids, synch, control
<1>w. ASSUME WakeIdle, UNCHANGED <<holder, tid, next_tid, new, tmp>> PROVE Tids'
  <2>1. CASE pc' = pc
    BY <1>w, <1>s, <2>1, Zenon
  <2>2. CASE pc' = [pc EXCEPT ![cur] = "loop"]
    <3>1. pc'[cur] = "loop" /\ \A t \in Thread \ {cur} : pc'[t] = pc[t]
      BY <1>b, <2>2, Zenon
    <3> QED
      BY <1>w, <1>q, <3>1, Zenon
  <2> QED
    BY <1>w, <2>1, <2>2, Zenon DEF WakeIdle
<1>23. ASSUME IntrReturn PROVE Tids'
  BY <1>23, <1>w, Zenon DEF IntrReturn, synch, tids
<1>24. ASSUME NEW s \in IntrSema, DeviceInterrupt(s) PROVE Tids'
  BY <1>24, <1>w, Zenon DEF DeviceInterrupt, tids
<1>25. ASSUME UNCHANGED vars PROVE Tids'
  BY <1>25, <1>s, Zenon DEF vars, tids, synch, control
<1> QED
  BY <1>1, <1>2, <1>3, <1>4, <1>5, <1>6, <1>7, <1>8, <1>9, <1>10, <1>11, <1>12,
     <1>13, <1>14, <1>15, <1>16, <1>17, <1>18, <1>19, <1>20, <1>21, <1>22, <1>23,
     <1>24, <1>25, Zenon
     DEF Next, ThreadStep, Interrupt, Halted

(* The initial thread and idle have the first two numbers. *)
LEMMA TidsInit ==
  Init => Tids
<1> SUFFICES ASSUME Init PROVE Tids
  BY Zenon
<1>1. \A t \in Thread : pc[t] \in {"run", "loop"} /\ new[t] = NULL
  BY Zenon DEF Init
<1>2. \A t \in Thread : tid[t] = IF t = InitialThread THEN 1
                                 ELSE IF t = IdleThread THEN 2 ELSE 0
  BY ThreadsAssumption, Zenon DEF Init
<1>3. next_tid = 3
  BY Zenon DEF Init
<1>4. TidsUnique
  BY <1>2, ThreadsAssumption DEF TidsUnique
<1> QED
  BY <1>1, <1>2, <1>3, <1>4 DEF Tids, Named
----------------------------------------------------------------------------
(* Type correctness of the kernel's variables: a lock's holder is a thread *)
(* or nobody, a semaphore's value never goes below zero, and a priority    *)
(* stays within PRI_MIN..PRI_MAX under aging.                              *)
THEOREM TypeCorrect == Spec => []TypeOK
<1>1. Init => TInv
  BY TInvInit
<1>2. TInv /\ [Next]_vars => TInv'
  BY TInvNext, LeastNatHolds
<1>3. TInv => TypeOK
  BY DEF TInv
<1> QED
  BY <1>1, <1>2, <1>3, PTL DEF Spec

(* The inductive invariant holds in every reachable state. *)
THEOREM IInvHolds == Spec => [](TypeOK /\ IInv)
<1>1. (TypeOK /\ IInv) /\ [Next]_vars => (TypeOK /\ IInv)'
  BY TInvNext, ListsNext, LeastNatHolds, Zenon DEF TInv, IInv, Lists
<1> QED
  BY <1>1, IInvInit, PTL DEF Spec

(* A thread's one list element is never linked into two lists: neither of  *)
(* ready_list, sleep_list and the waiters of all semaphores, nor twice     *)
(* into one of them, whatever interrupts whom.                             *)
THEOREM ElemOnOneListHolds == Spec => []ElemOnOneList
<1>1. TypeOK /\ IInv => ElemOnOneList
  BY ElemOnce
<1> QED
  BY <1>1, IInvHolds, PTL

(* The invariant holds in every state. *)
THEOREM SInvHolds == Spec => []SInv
<1>1. SInv /\ [Next]_vars => SInv'
  BY SInvNext, LeastNatHolds
<1> QED
  BY <1>1, SInvInit, PTL DEF Spec

(* No thread drops out of the kernel: whatever sema_down, sema_up,         *)
(* timer_sleep, thread_create and the interrupts do, a ready thread is on  *)
(* ready_list and a blocked one is on a list that somebody takes it from,  *)
(* or is still being created.                                              *)
THEOREM NoThreadLostHolds == Spec => []NoThreadLost
<1>1. SInv => NoThreadLost
  BY DEF SInv
<1> QED
  BY <1>1, SInvHolds, PTL

(* list_insert_ordered and list_pop_front keep every list of threads       *)
(* sorted, and so does thread_aging, which changes the priorities of       *)
(* threads that are linked.                                                *)
THEOREM QueuesSortedHolds == Spec => []QueuesSorted
<1>1. SInv => QueuesSorted
  BY DEF SInv
<1> QED
  BY <1>1, SInvHolds, PTL

(* idle is in hlt only with an empty run queue. *)
THEOREM NeverIdleWithWorkHolds == Spec => []NeverIdleWithWork
<1>1. SInv => NeverIdleWithWork
  BY DEF SInv
<1> QED
  BY <1>1, SInvHolds, PTL
----------------------------------------------------------------------------
(* schedule switches to a thread that no ready thread outranks. *)
THEOREM DispatchesHighestHolds == Spec => DispatchesHighest
<1>1. SInv /\ [Next]_vars =>
        [cur' # cur => \A i \in 1..Len(ready_list') :
           priority'[ready_list'[i]] <= priority'[cur']]_vars
  BY HighestNext, LeastNatHolds, Zenon
<1> QED
  BY <1>1, SInvHolds, PTL DEF Spec, DispatchesHighest

(* timer_interrupt returns only when thread_awake has taken everybody off  *)
(* sleep_list whose wake_up_time has come: looking at the front is enough. *)
THEOREM AwakeOnTimeHolds == Spec => AwakeOnTime
  BY AwakeNext, SInvHolds, PTL DEF Spec, AwakeOnTime

(* docs/threads.md:36: where threads become ready only by sema_up and      *)
(* thread_create (nobody sleeps, no aging), test_max_priority and          *)
(* thread_create see to it that no ready thread outranks the running one.  *)
THEOREM RunningIsHighestHolds ==
  Spec => [](SleepTicks = {} /\ ~Aging => RunningIsHighest)
<1> DEFINE R == SleepTicks = {} /\ ~Aging => NobodySleeps /\ Ranked
<1>1. Init => R
  BY EmptyList DEF Init, NobodySleeps, Ranked
<1>2. SInv /\ R /\ [Next]_vars => R'
  BY SInvNext, RankedNext, LeastNatHolds
<1>3. SInv /\ R => (SleepTicks = {} /\ ~Aging => RunningIsHighest)
  BY RankedHighest
<1> HIDE DEF R
<1> QED
  BY <1>1, <1>2, <1>3, SInvHolds, PTL DEF Spec
----------------------------------------------------------------------------
(* They go together in every state. *)
LEMMA HoldersHold == Spec => []Holders
<1>1. SInv /\ Holders /\ [Next]_vars => Holders'
  BY NextSynch, HoldersNext DEF SInv
<1> QED
  BY <1>1, HoldersInit, SInvHolds, PTL DEF Spec

(* synch.c:175: "A lock can be held by at most a single thread at any      *)
(* given time."  Its semaphore says so, also while holder is unset yet in  *)
(* lock_acquire or already cleared in lock_release.                        *)
THEOREM LockExclusionHolds == Spec => []LockExclusion
<1>1. Holders => LockExclusion
  BY HoldersExclude, LeastNatHolds
<1> QED
  BY <1>1, HoldersHold, PTL

(* sema_up wakes a waiter for every unit it adds, so whoever barges in and *)
(* takes a unit first, no thread waits on beside a unit nobody is on the   *)
(* way to.                                                                 *)
THEOREM NoLostWakeupHolds == Spec => []NoLostWakeup
<1> DEFINE A == \A s \in Sema : Answered(s)
<1>1. Init => A
  BY AnsweredInit, LeastNatHolds
<1>2. SInv /\ A /\ [Next]_vars => A'
  BY NextSynch, AnsweredNext, LeastNatHolds
<1>3. A => NoLostWakeup
  BY DEF Answered, NoLostWakeup
<1> HIDE DEF A
<1> QED
  BY <1>1, <1>2, <1>3, SInvHolds, PTL DEF Spec

(* allocate_tid's tid_lock makes next_tid++ atomic, however the creators   *)
(* interleave: no two live threads have the same tid.                      *)
THEOREM TidsUniqueHolds == Spec => []TidsUnique
<1>1. SInv /\ Holders /\ Tids /\ [Next]_vars => Tids'
  BY TidsNext
<1>2. Tids => TidsUnique
  BY DEF Tids
<1> QED
  BY <1>1, <1>2, TidsInit, SInvHolds, HoldersHold, PTL DEF Spec
=============================================================================
