------------------------ MODULE ThreadsSafetyProofs ------------------------
(***************************************************************************)
(* The steps of Threads lose no thread, keep the lists sorted and run idle *)
(* only when there is nothing to run; the scheduler picks the highest      *)
(* priority, sleepers wake on time, and the running thread is not          *)
(* outranked where every change of the ready list is followed by a test.   *)
(***************************************************************************)
EXTENDS ThreadsListsProofs

----------------------------------------------------------------------------
(* Every step moves threads between the lists in one of five ways.  l and  *)
(* stat are the ready list and the statuses when the scheduler is called;  *)
(* it may put the running thread back and switch.                          *)
Dispatched(l, stat) ==
  \/ cur' = cur /\ ready_list' = l /\ status' = stat
  \/ ThreadYield(l, stat, priority')

(* Nobody enters or leaves a list, unless the running thread yields. *)
Remains ==
  /\ UNCHANGED <<sleep_list, waiters, wake_up_time>>
  /\ Dispatched(ready_list, status)
  /\ \/ priority' = ThreadAging
     \/ \A t \in Thread \ {cur} : priority'[t] = priority[t]

(* thread_unblock moves t from the front of its list to ready_list. *)
Wakes(t) ==
  /\ status[t] = "BLOCKED" /\ t # IdleThread
  /\ UNCHANGED <<priority, wake_up_time>>
  /\ Dispatched(UnblockedList(t), UnblockedStatus(t))
  /\ \/ /\ sleep_list' = sleep_list
        /\ \E s \in Sema :
             /\ waiters[s] # <<>> /\ t = Head(waiters[s])
             /\ waiters' = [waiters EXCEPT ![s] = Tail(@)]
     \/ /\ waiters' = waiters
        /\ sleep_list # <<>> /\ t = Head(sleep_list) /\ sleep_list' = Tail(sleep_list)
     \/ t = new[cur] /\ UNCHANGED <<sleep_list, waiters>>

(* thread_block: the running thread is linked, or is the idle thread. *)
Blocks ==
  /\ priority' = priority
  /\ Schedule(ready_list, [status EXCEPT ![cur] = "BLOCKED"])
  /\ \/ /\ UNCHANGED <<sleep_list, wake_up_time>>
        /\ \E s \in Sema :
             waiters' = [waiters EXCEPT ![s] =
                           ListInsertOrdered(@, cur, CmpPriority(priority))]
     \/ /\ waiters' = waiters /\ wake_up_time' \in [Thread -> Nat]
        /\ \A t \in Thread \ {cur} : wake_up_time'[t] = wake_up_time[t]
        /\ sleep_list' = ListInsertOrdered(sleep_list, cur, wake_up_time')
     \/ cur = IdleThread /\ UNCHANGED <<sleep_list, wake_up_time, waiters>>

(* thread_exit. *)
Exits ==
  /\ pc[cur] = "run" /\ UNCHANGED <<pc, sleep_list, waiters>>
  /\ Schedule(ready_list, [status EXCEPT ![cur] =
                             IF cur = InitialThread THEN "DYING" ELSE "UNUSED"])
  /\ \A t \in Thread \ {cur} :
       priority'[t] = priority[t] /\ wake_up_time'[t] = wake_up_time[t]

(* init_thread, of a page that is on no list. *)
Creates(t) ==
  /\ status[t] = "UNUSED" /\ status' = [status EXCEPT ![t] = "BLOCKED"]
  /\ UNCHANGED <<cur, ready_list, sleep_list, waiters, wake_up_time>>
  /\ \A u \in Thread \ {t} : priority'[u] = priority[u]
  /\ new'[cur] = t /\ pc'[cur] # "check"

Moves ==
  Remains \/ (\E t \in Thread : Wakes(t)) \/ Blocks \/ Exits \/ (\E t \in Thread : Creates(t))

(* sema_down's loop body and sema_up are two of the five. *)
LEMMA DownMoves ==
  ASSUME TypeOK, NEW s \in Sema, SemaDownStep(s),
         UNCHANGED <<priority, sleep_list, wake_up_time>>
  PROVE  Moves
<1>1. CASE value[s] = 0
  BY <1>1, Zenon DEF SemaDownStep, ThreadBlock, Moves, Blocks
<1>2. CASE value[s] # 0
  BY <1>2, Zenon DEF SemaDownStep, sched, Moves, Remains, Dispatched
<1> QED
  BY <1>1, <1>2, Zenon

(* test_max_priority dispatches a thread or does nothing. *)
LEMMA TestMaxDispatched ==
  ASSUME NEW l, NEW stat, priority' = priority, TestMaxPriority(l, stat, priority)
  PROVE  Dispatched(l, stat)
  BY Zenon DEF TestMaxPriority, Dispatched

(* sema_up wakes at most the thread that it takes off the waiters. *)
LEMMA UpMoves ==
  ASSUME TypeOK, Lists, NEW s \in Sema, SemaUpStep(s),
         UNCHANGED <<priority, sleep_list, wake_up_time>>
  PROVE  Moves
<1>1. CASE waiters[s] = <<>>
  <2>1. TestMaxPriority(ready_list, status, priority) /\ waiters' = waiters
    BY <1>1, Zenon DEF SemaUpStep
  <2> QED
    BY <2>1, TestMaxDispatched, Zenon DEF Moves, Remains
<1>2. CASE waiters[s] # <<>>
  <2> DEFINE t == Head(waiters[s])
  <2>1. /\ TestMaxPriority(UnblockedList(t), UnblockedStatus(t), priority)
        /\ waiters' = [waiters EXCEPT ![s] = Tail(@)]
    BY <1>2, Zenon DEF SemaUpStep
  <2>2. IdleOK(pc)
    BY ThreadsAssumption, Zenon DEF Lists, IdleLoops, IdleOK
  <2>3. t \in Thread /\ t # IdleThread /\ status[t] = "BLOCKED"
    BY <1>2, <2>2, PopWaiter, Zenon DEF Lists
  <2>4. Dispatched(UnblockedList(t), UnblockedStatus(t))
    BY <2>1, TestMaxDispatched, Zenon
  <2>5. Wakes(t)
    BY <1>2, <2>1, <2>3, <2>4, Zenon DEF Wakes
  <2> QED
    BY <2>3, <2>5, Zenon DEF Moves
<1> QED
  BY <1>1, <1>2, Zenon

(* A step that leaves the lists, the priorities and the CPU alone. *)
LEMMA LocalMoves ==
  ASSUME UNCHANGED <<cur, status, ready_list, sleep_list, waiters, wake_up_time, priority>>
  PROVE  Moves
  BY Zenon DEF Moves, Remains, Dispatched

(* What any step does to the queues. *)
LEMMA NextMoves == TypeOK /\ Operands /\ Lists /\ [Next]_vars => Moves
<1> SUFFICES ASSUME TypeOK, Operands, Lists PROVE [Next]_vars => Moves
  BY Zenon
<1>a. /\ cur \in Thread /\ IdleThread \in Thread
      /\ status[cur] = "RUNNING" /\ (pc[cur] \in {"hlt", "loop"} <=> cur = IdleThread)
  BY ThreadsAssumption, Zenon DEF TypeOK, Lists, OneRunning, IdleLoops
<1>1. ASSUME NEW s \in Sema, SemaDown(s) PROVE Moves
  BY <1>1, DownMoves, Zenon DEF SemaDown, alarm
<1>2. ASSUME SemaDownWoken PROVE Moves
  <2>1. arg[cur] \in Sema
    BY <1>2, <1>a, Zenon DEF SemaDownWoken, At, Operands
  <2> QED
    BY <1>2, <2>1, DownMoves, Zenon DEF SemaDownWoken, alarm
<1>3. ASSUME NEW s \in Sema, SemaTryDown(s) PROVE Moves
  BY <1>3, LocalMoves, Zenon DEF SemaTryDown, sched, alarm
<1>4. ASSUME NEW s \in Sema, SemaUp(s) PROVE Moves
  BY <1>4, UpMoves, Zenon DEF SemaUp, alarm
<1>5. ASSUME NEW l \in Lock, LockAcquire(l) PROVE Moves
  <2>1. l \in Sema
    BY ThreadsAssumption, Zenon
  <2> QED
    BY <1>5, <2>1, DownMoves, Zenon DEF LockAcquire, alarm
<1>6. ASSUME NEW l \in Lock, LockTryAcquire(l) PROVE Moves
  BY <1>6, LocalMoves, Zenon DEF LockTryAcquire, sched, alarm
<1>7. ASSUME LockOwn PROVE Moves
  BY <1>7, LocalMoves, Zenon DEF LockOwn, sched, alarm
<1>8. ASSUME NEW l \in Lock, LockRelease(l) PROVE Moves
  BY <1>8, LocalMoves, Zenon DEF LockRelease, sched, alarm
<1>9. ASSUME LockReleaseUp PROVE Moves
  <2>1. arg[cur] \in Sema
    BY <1>9, <1>a, ThreadsAssumption, Zenon DEF LockReleaseUp, At, Operands
  <2> QED
    BY <1>9, <2>1, UpMoves, Zenon DEF LockReleaseUp, alarm
<1>10. ASSUME NEW t \in Thread, NEW q \in NewPriority, ThreadCreate(t, q) PROVE Moves
  <2>1. t # cur
    BY <1>10, <1>a, Zenon DEF ThreadCreate
  <2>2. new'[cur] = t /\ pc'[cur] = "alloc" /\ \A u \in Thread \ {t} : priority'[u] = priority[u]
    BY <1>10, <1>a, <2>1, Zenon DEF ThreadCreate, TypeOK
  <2>3. Creates(t)
    BY <1>10, <2>2, Zenon DEF ThreadCreate, Creates, alarm, synch
  <2> QED
    BY <2>3, Zenon DEF Moves
<1>11. ASSUME AllocateTidRead PROVE Moves
  BY <1>11, LocalMoves, Zenon DEF AllocateTidRead, sched, alarm, synch
<1>12. ASSUME AllocateTidWrite PROVE Moves
  BY <1>12, LocalMoves, Zenon DEF AllocateTidWrite, sched, alarm, synch
<1>13. ASSUME ThreadCreateUnblock PROVE Moves
  <2> DEFINE t == new[cur]
  <2>1. pc[cur] = "unblock" /\ t \in Thread
    BY <1>13, <1>a, Zenon DEF ThreadCreateUnblock, At, Operands, TypeOK
  <2>2. status[t] = "BLOCKED" /\ pc[t] = "run" /\ t # IdleThread
    BY <1>a, <2>1 DEF Lists, Newborn, IdleLoops
  <2>3. Wakes(t)
    BY <1>13, <2>2, Zenon DEF ThreadCreateUnblock, Wakes, Dispatched, alarm, synch
  <2> QED
    BY <2>1, <2>3, Zenon DEF Moves
<1>y. ASSUME ThreadYield(ready_list, status, priority) \/ UNCHANGED sched,
             UNCHANGED <<priority, sleep_list, wake_up_time, waiters>>
      PROVE  Moves
  BY <1>y, Zenon DEF Moves, Remains, Dispatched, sched
<1>14. ASSUME ThreadCreateCheck PROVE Moves
  <2>1. ThreadYield(ready_list, status, priority) \/ UNCHANGED sched
    BY <1>14, Zenon DEF ThreadCreateCheck
  <2> QED
    BY <1>14, <1>y, <2>1, Zenon DEF ThreadCreateCheck, alarm, synch
<1>15. ASSUME ThreadExit PROVE Moves
  <2>1. \A t \in Thread \ {cur} :
          priority'[t] = priority[t] /\ wake_up_time'[t] = wake_up_time[t]
    BY <1>15, <1>a, Zenon DEF ThreadExit, TypeOK
  <2> QED
    BY <1>15, <2>1, Zenon DEF ThreadExit, At, Moves, Exits, synch, control
<1>16. ASSUME Yield PROVE Moves
  BY <1>16, <1>y, Zenon DEF Yield, alarm, synch
<1>17. ASSUME NEW q \in NewPriority, ThreadSetPriority(q) PROVE Moves
  <2>1. TestMaxPriority(ready_list, status, priority') \/ UNCHANGED sched
    BY <1>17, Zenon DEF ThreadSetPriority
  <2>2. Dispatched(ready_list, status)
    BY <2>1, Zenon DEF TestMaxPriority, Dispatched, sched
  <2>3. \A t \in Thread \ {cur} : priority'[t] = priority[t]
    BY <1>17, <1>a, Zenon DEF ThreadSetPriority, TypeOK
  <2> QED
    BY <1>17, <2>2, <2>3, Zenon DEF ThreadSetPriority, Moves, Remains, alarm, synch
<1>18. ASSUME NEW n \in SleepTicks, TimerSleep(n) PROVE Moves
  BY <1>18, LocalMoves, Zenon DEF TimerSleep, sched, alarm, synch
<1>19. ASSUME ThreadSleep PROVE Moves
  <2>1. UNCHANGED <<priority, waiters>>
    BY <1>19, Zenon DEF ThreadSleep, synch
  <2>2. CASE tmp[cur] <= 0
    BY <1>19, <2>1, <2>2, LocalMoves, Zenon DEF ThreadSleep, sched
  <2>3. CASE ~(tmp[cur] <= 0)
    <3>1. /\ ThreadBlock
          /\ wake_up_time' = [wake_up_time EXCEPT ![cur] = tmp[cur]]
          /\ sleep_list' = ListInsertOrdered(sleep_list, cur, wake_up_time')
      BY <1>19, <2>3, Zenon DEF ThreadSleep
    <3>2. tmp[cur] \in Nat
      BY <1>a, <2>3 DEF TypeOK
    <3>3. /\ wake_up_time' \in [Thread -> Nat]
          /\ \A t \in Thread \ {cur} : wake_up_time'[t] = wake_up_time[t]
      BY <1>a, <3>1, <3>2, Zenon DEF TypeOK
    <3> QED
      BY <2>1, <3>1, <3>3, Zenon DEF ThreadBlock, Moves, Blocks
  <2> QED
    BY <2>2, <2>3, Zenon
<1>20. ASSUME IdleLoop PROVE Moves
  BY <1>20, <1>a, Zenon DEF IdleLoop, At, ThreadBlock, Moves, Blocks, alarm, synch
<1>21. ASSUME TimerInterrupt PROVE Moves
  BY <1>21, Zenon DEF TimerInterrupt, Moves, Remains, Dispatched, synch
<1>22. ASSUME ThreadAwake PROVE Moves
  <2> DEFINE t == Head(sleep_list)
  <2>1. sleep_list # <<>> /\ sleep_list \in Seq(Thread)
    BY <1>22, Zenon DEF ThreadAwake, SleeperDue, TypeOK
  <2>2. t \in Thread /\ On(t, sleep_list)
    BY <2>1, PopFront, Zenon
  <2>3. status[t] = "BLOCKED" /\ t # IdleThread
    BY <1>a, <2>2, Zenon DEF Lists, Linked, IdleLoops
  <2>4. Wakes(t)
    BY <1>22, <2>1, <2>3, Zenon DEF ThreadAwake, Wakes, Dispatched, synch
  <2> QED
    BY <2>2, <2>4, Zenon DEF Moves
<1>23. ASSUME IntrReturn PROVE Moves
  <2>1. ThreadYield(ready_list, status, priority) \/ UNCHANGED sched
    BY <1>23, Zenon DEF IntrReturn
  <2> QED
    BY <1>23, <1>y, <2>1, Zenon DEF IntrReturn, alarm, synch
<1>24. ASSUME NEW s \in IntrSema, DeviceInterrupt(s) PROVE Moves
  <2>1. s \in Sema
    BY ThreadsAssumption, Zenon
  <2>2. UNCHANGED <<cur, priority, sleep_list, wake_up_time>>
    BY <1>24, Zenon DEF DeviceInterrupt, alarm
  <2>3. CASE waiters[s] = <<>>
    <3>1. UNCHANGED <<status, ready_list, waiters>>
      BY <1>24, <2>3, Zenon DEF DeviceInterrupt
    <3> QED
      BY <2>2, <3>1, LocalMoves, Zenon
  <2>4. CASE waiters[s] # <<>>
    <3> DEFINE t == Head(waiters[s])
    <3>1. /\ waiters' = [waiters EXCEPT ![s] = Tail(@)]
          /\ ready_list' = UnblockedList(t) /\ status' = UnblockedStatus(t)
      BY <1>24, <2>4, Zenon DEF DeviceInterrupt
    <3>2. IdleOK(pc)
      BY <1>a, Zenon DEF Lists, IdleLoops, IdleOK
    <3>3. t \in Thread /\ t # IdleThread /\ status[t] = "BLOCKED"
      BY <2>1, <2>4, <3>2, PopWaiter, Zenon DEF Lists
    <3>4. Wakes(t)
      BY <2>1, <2>2, <2>4, <3>1, <3>3, Zenon DEF Wakes, Dispatched
    <3> QED
      BY <3>3, <3>4, Zenon DEF Moves
  <2> QED
    BY <2>3, <2>4, Zenon
<1>25. ASSUME UNCHANGED vars PROVE Moves
  BY <1>25, LocalMoves, Zenon DEF vars, sched, alarm, synch
<1> QED
  BY <1>1, <1>2, <1>3, <1>4, <1>5, <1>6, <1>7, <1>8, <1>9, <1>10, <1>11, <1>12,
     <1>13, <1>14, <1>15, <1>16, <1>17, <1>18, <1>19, <1>20, <1>21, <1>22, <1>23,
     <1>24, <1>25, Zenon
     DEF Next, ThreadStep, Interrupt, Halted
----------------------------------------------------------------------------
(* What schedule() leaves of ready list l and statuses stat, when l is     *)
(* ordered by the priorities pri.                                          *)
Outcome(l, stat, pri) ==
  /\ cur' \in Thread
  /\ Sorted(ready_list', CmpPriority(pri))
  /\ \A u \in Thread : On(u, ready_list') => On(u, l) /\ pri[u] <= pri[cur']
  /\ \A u \in Thread : On(u, l) => u = cur' \/ On(u, ready_list')
  /\ status'[cur'] = "RUNNING"
  /\ \A u \in Thread : u # cur' => status'[u] = stat[u]
  /\ cur' = IdleThread => On(IdleThread, l) \/ ready_list' = <<>>

(* What is on a list of S is of S. *)
LEMMA OnType ==
  ASSUME NEW S, NEW l \in Seq(S), NEW u, On(u, l)
  PROVE  u \in S
  BY DEF On

(* cmp_priority puts the greater priority first. *)
LEMMA CmpPriorityOrder ==
  ASSUME NEW pri \in [Thread -> Priority], NEW t \in Thread, NEW u \in Thread
  PROVE  CmpPriority(pri)[t] <= CmpPriority(pri)[u] <=> pri[u] <= pri[t]
<1>1. pri[t] \in Nat /\ pri[u] \in Nat /\ PriMax \in Nat
  BY ThreadsAssumption DEF Priority
<1> QED
  BY <1>1 DEF CmpPriority

(* schedule runs a thread of the ready list, or idle. *)
LEMMA ScheduleOutcome ==
  ASSUME NEW l \in Seq(Thread), NEW stat \in [Thread -> Status],
         NEW pri \in [Thread -> Priority], Sorted(l, CmpPriority(pri)),
         Schedule(l, stat)
  PROVE  Outcome(l, stat, pri)
<1>1. CASE l = <<>>
  <2>1. /\ cur' = IdleThread /\ ready_list' = <<>>
        /\ status' = [stat EXCEPT ![IdleThread] = "RUNNING"]
    BY <1>1, Zenon DEF Schedule
  <2>2. IdleThread \in Thread
    BY ThreadsAssumption, Zenon
  <2> QED
    BY <1>1, <2>1, <2>2, EmptyList, Zenon DEF Outcome
<1>2. CASE l # <<>>
  <2>1. /\ cur' = Head(l) /\ ready_list' = Tail(l)
        /\ status' = [stat EXCEPT ![Head(l)] = "RUNNING"]
    BY <1>2, Zenon DEF Schedule
  <2>2. /\ Head(l) \in Thread /\ On(Head(l), l)
        /\ \A u : On(u, Tail(l)) => On(u, l)
        /\ \A u : On(u, l) => u = Head(l) \/ On(u, Tail(l))
    BY <1>2, PopFront, Zenon
  <2>3. /\ Sorted(Tail(l), CmpPriority(pri))
        /\ \A u : On(u, l) => CmpPriority(pri)[Head(l)] <= CmpPriority(pri)[u]
    BY <1>2, CmpPriorityType, PopSorted, Zenon
  <2>4. \A u \in Thread : On(u, Tail(l)) => pri[u] <= pri[Head(l)]
    BY <2>2, <2>3, CmpPriorityOrder, Zenon
  <2>5. /\ status'[cur'] = "RUNNING"
        /\ \A u \in Thread : u # cur' => status'[u] = stat[u]
    BY <2>1, <2>2, Zenon
  <2> QED
    BY <2>1, <2>2, <2>3, <2>4, <2>5, Zenon DEF Outcome
<1> QED
  BY <1>1, <1>2, Zenon

(* thread_yield: the running thread goes among the ready ones, idle not.   *)
LEMMA YieldOutcome ==
  ASSUME LeastNat, cur \in Thread, NEW l \in Seq(Thread), NEW stat \in [Thread -> Status],
         NEW pri \in [Thread -> Priority], Sorted(l, CmpPriority(pri)),
         ThreadYield(l, stat, pri)
  PROVE  \E m \in Seq(Thread) :
           /\ Outcome(m, [stat EXCEPT ![cur] = "READY"], pri)
           /\ \A u : On(u, m) <=> On(u, l) \/ (u = cur /\ cur # IdleThread)
<1> DEFINE m == IF cur = IdleThread THEN l
                                    ELSE ListInsertOrdered(l, cur, CmpPriority(pri))
           st == [stat EXCEPT ![cur] = "READY"]
<1>1. /\ m \in Seq(Thread) /\ Sorted(m, CmpPriority(pri))
      /\ \A u : On(u, m) <=> On(u, l) \/ (u = cur /\ cur # IdleThread)
  <2>1. CASE cur = IdleThread
    BY <2>1, Zenon
  <2>2. CASE cur # IdleThread
    BY <2>2, CmpPriorityType, InsertOn, InsertSorted, Zenon
  <2> QED
    BY <2>1, <2>2, Zenon
<1>2. Schedule(m, st)
  BY Zenon DEF ThreadYield
<1>3. st \in [Thread -> Status]
  BY Zenon DEF Status
<1> HIDE DEF m, st
<1>4. Outcome(m, st, pri)
  BY <1>1, <1>2, <1>3, ScheduleOutcome, Zenon
<1> QED
  BY <1>1, <1>4, Zenon DEF st

(* What the scheduler leaves of ready list l and statuses stat. *)
ReadyOn(l, stat) ==
  \A u \in Thread \ {IdleThread} : stat[u] = "READY" => On(u, l)

Settled(l, stat) ==
  /\ cur' \in Thread
  /\ Sorted(ready_list', CmpPriority(priority'))
  /\ ReadyOn(l, stat) => ReadyOn(ready_list', status')
  /\ \A u \in Thread : status'[u] = "BLOCKED" => stat[u] = "BLOCKED"
  /\ \A u \in Thread : status'[u] = "UNUSED" => stat[u] = "UNUSED"
  /\ \/ cur' = cur /\ ready_list' = l
     \/ /\ \A u \in Thread : On(u, ready_list') => priority'[u] <= priority'[cur']
        /\ cur' = IdleThread /\ ~On(IdleThread, l) => ready_list' = <<>>

(* It leaves every thread where its status says, *)
LEMMA ScheduleSettled ==
  ASSUME NEW l \in Seq(Thread), NEW stat \in [Thread -> Status],
         priority' \in [Thread -> Priority], Sorted(l, CmpPriority(priority')),
         Schedule(l, stat)
  PROVE  Settled(l, stat)
<1>1. Outcome(l, stat, priority')
  BY ScheduleOutcome, Zenon
<1>2. ReadyOn(l, stat) => ReadyOn(ready_list', status')
  BY <1>1, Zenon DEF Outcome, ReadyOn
<1>3. /\ \A u \in Thread : status'[u] = "BLOCKED" => stat[u] = "BLOCKED"
      /\ \A u \in Thread : status'[u] = "UNUSED" => stat[u] = "UNUSED"
  BY <1>1, Zenon DEF Outcome
<1> QED
  BY <1>1, <1>2, <1>3, Zenon DEF Outcome, Settled

(* as do its callers. *)
LEMMA DispatchedSettled ==
  ASSUME LeastNat, cur \in Thread, NEW l \in Seq(Thread), NEW stat \in [Thread -> Status],
         priority' \in [Thread -> Priority], Sorted(l, CmpPriority(priority')),
         Dispatched(l, stat)
  PROVE  Settled(l, stat)
<1>1. CASE cur' = cur /\ ready_list' = l /\ status' = stat
  BY <1>1, Zenon DEF Settled, ReadyOn
<1>2. CASE ThreadYield(l, stat, priority')
  <2> DEFINE st == [stat EXCEPT ![cur] = "READY"]
  <2>1. PICK m \in Seq(Thread) :
          /\ Outcome(m, st, priority')
          /\ \A u : On(u, m) <=> On(u, l) \/ (u = cur /\ cur # IdleThread)
    BY <1>2, YieldOutcome, Zenon
  <2>2. st[cur] = "READY" /\ \A u \in Thread : u # cur => st[u] = stat[u]
    BY Zenon
  <2> HIDE DEF st
  <2>3. ASSUME ReadyOn(l, stat) PROVE ReadyOn(m, st)
    BY <2>1, <2>2, <2>3, Zenon DEF ReadyOn
  <2>4. ReadyOn(m, st) => ReadyOn(ready_list', status')
    BY <2>1, Zenon DEF Outcome, ReadyOn
  <2>5. /\ \A u \in Thread : status'[u] = "BLOCKED" => stat[u] = "BLOCKED"
        /\ \A u \in Thread : status'[u] = "UNUSED" => stat[u] = "UNUSED"
    BY <2>1, <2>2, Zenon DEF Outcome
  <2>6. cur' = IdleThread /\ ~On(IdleThread, l) => ready_list' = <<>>
    BY <2>1, Zenon DEF Outcome
  <2> QED
    BY <2>1, <2>3, <2>4, <2>5, <2>6, Zenon DEF Outcome, Settled
<1> QED
  BY <1>1, <1>2, Zenon DEF Dispatched

(* The lists as they are stay in order under the keys of the next state:   *)
(* the running thread and a free page are on no list, and thread_aging     *)
(* raises every ready thread by one, up to PRI_MAX.                        *)
LEMMA KeysKept ==
  ASSUME TypeOK, TypeOK', Lists, QueuesSorted, Moves
  PROVE  /\ Sorted(ready_list, CmpPriority(priority'))
         /\ \A s \in Sema : Sorted(waiters[s], CmpPriority(priority'))
         /\ Sorted(sleep_list, wake_up_time')
<1>0. /\ cur \in Thread /\ status[cur] = "RUNNING"
      /\ ready_list \in Seq(Thread) /\ sleep_list \in Seq(Thread)
      /\ waiters \in [Sema -> Seq(Thread)]
      /\ priority \in [Thread -> Priority] /\ priority' \in [Thread -> Priority]
  BY Zenon DEF TypeOK, Lists, OneRunning
<1>1. \A u : On(u, ready_list) => u \in Thread /\ status[u] = "READY"
  BY <1>0, OnType, Zenon DEF Lists, Linked
<1>2. \A u : On(u, sleep_list) => u \in Thread /\ status[u] = "BLOCKED"
  BY <1>0, OnType, Zenon DEF Lists, Linked
<1>3. ASSUME NEW s \in Sema
      PROVE  \A u : On(u, waiters[s]) => u \in Thread /\ status[u] = "BLOCKED"
  BY <1>0, OnType, Zenon DEF Lists, Linked
<1>4. \/ priority' = ThreadAging
      \/ \A t \in Thread : status[t] \in {"READY", "BLOCKED"} => priority'[t] = priority[t]
  BY <1>0, Zenon DEF Moves, Remains, Wakes, Blocks, Exits, Creates
<1>5. \A t \in Thread : status[t] = "BLOCKED" => wake_up_time'[t] = wake_up_time[t]
  BY <1>0, Zenon DEF Moves, Remains, Wakes, Blocks, Exits, Creates
<1>6. Sorted(sleep_list, wake_up_time')
  BY <1>2, <1>5, SortedFrame DEF QueuesSorted
<1>7. \A t \in Thread : status[t] = "BLOCKED" => priority'[t] = priority[t]
  <2>1. \A t \in Thread : t \in Elems(ready_list) => status[t] = "READY"
    BY <1>1, Zenon DEF Elems, On
  <2>2. CASE priority' = ThreadAging
    BY <2>1, <2>2, Zenon DEF ThreadAging
  <2> QED
    BY <1>4, <2>2, Zenon
<1>8. ASSUME NEW s \in Sema PROVE Sorted(waiters[s], CmpPriority(priority'))
  <2>1. \A t \in Thread : status[t] = "BLOCKED" =>
          CmpPriority(priority')[t] = CmpPriority(priority)[t]
    BY <1>7, Zenon DEF CmpPriority
  <2>2. Sorted(waiters[s], CmpPriority(priority))
    BY Zenon DEF QueuesSorted
  <2> QED
    BY <1>3, <2>1, <2>2, SortedFrame
<1>9. ASSUME NEW a \in Thread, NEW b \in Thread, On(a, ready_list), On(b, ready_list),
             priority[a] >= priority[b]
      PROVE  priority'[a] >= priority'[b]
  <2>1. a \in Elems(ready_list) /\ b \in Elems(ready_list)
    BY <1>9, Zenon DEF Elems, On
  <2>2. priority[a] \in 0..PriMax /\ priority[b] \in 0..PriMax /\ PriMax \in Nat
    BY <1>0, ThreadsAssumption, Zenon DEF Priority
  <2>3. CASE priority' = ThreadAging
    <3>1. /\ priority'[a] = IF priority[a] < PriMax THEN priority[a] + 1 ELSE priority[a]
          /\ priority'[b] = IF priority[b] < PriMax THEN priority[b] + 1 ELSE priority[b]
      BY <2>1, <2>3, Zenon DEF ThreadAging
    <3> QED
      BY <1>9, <2>2, <3>1
  <2>4. CASE \A t \in Thread : status[t] \in {"READY", "BLOCKED"} => priority'[t] = priority[t]
    BY <1>1, <1>9, <2>4, Zenon
  <2> QED
    BY <1>4, <2>3, <2>4, Zenon
<1>10. ASSUME NEW a \in Thread, NEW b \in Thread, On(a, ready_list), On(b, ready_list),
              CmpPriority(priority)[a] <= CmpPriority(priority)[b]
       PROVE  CmpPriority(priority')[a] <= CmpPriority(priority')[b]
  <2>1. priority[b] <= priority[a]
    BY <1>0, <1>10, CmpPriorityOrder, Zenon
  <2>2. priority[a] \in Int /\ priority[b] \in Int /\ priority'[a] \in Int /\ priority'[b] \in Int
    BY <1>0, ThreadsAssumption DEF Priority
  <2>3. priority'[b] <= priority'[a]
    BY <1>9, <1>10, <2>1, <2>2, Zenon
  <2> QED
    BY <1>0, <2>3, CmpPriorityOrder, Zenon
<1>11. Sorted(ready_list, CmpPriority(priority'))
  BY <1>1, <1>10, SortedFrame, Zenon DEF QueuesSorted
<1> QED
  BY <1>6, <1>8, <1>11, Zenon

(* The scheduler gets a ready list in order, whatever the step. *)
LEMMA MovesSettled ==
  ASSUME LeastNat, TypeOK, TypeOK', Lists, QueuesSorted, Moves
  PROVE  \E l \in Seq(Thread), stat \in [Thread -> Status] :
           /\ Settled(l, stat)
           /\ \/ Remains /\ l = ready_list /\ stat = status
              \/ \E t \in Thread : Wakes(t) /\ l = UnblockedList(t) /\ stat = UnblockedStatus(t)
              \/ Blocks /\ l = ready_list /\ stat = [status EXCEPT ![cur] = "BLOCKED"]
              \/ /\ Exits /\ l = ready_list
                 /\ stat = [status EXCEPT ![cur] =
                              IF cur = InitialThread THEN "DYING" ELSE "UNUSED"]
              \/ \E t \in Thread : Creates(t) /\ l = ready_list /\ stat = status'
<1>0. /\ cur \in Thread /\ status \in [Thread -> Status] /\ status' \in [Thread -> Status]
      /\ ready_list \in Seq(Thread)
      /\ priority \in [Thread -> Priority] /\ priority' \in [Thread -> Priority]
  BY Zenon DEF TypeOK
<1>1. Sorted(ready_list, CmpPriority(priority'))
  BY KeysKept, Zenon
<1>2. CASE Remains
  <2>1. Settled(ready_list, status)
    BY <1>0, <1>1, <1>2, DispatchedSettled, Zenon DEF Remains
  <2> QED
    BY <1>0, <1>2, <2>1, Zenon
<1>3. ASSUME NEW t \in Thread, Wakes(t)
      PROVE  /\ UnblockedList(t) \in Seq(Thread) /\ UnblockedStatus(t) \in [Thread -> Status]
             /\ Settled(UnblockedList(t), UnblockedStatus(t))
  <2>1. UnblockedList(t) \in Seq(Thread) /\ UnblockedStatus(t) \in [Thread -> Status]
    BY UnblockType, Zenon
  <2>2. priority' = priority /\ Dispatched(UnblockedList(t), UnblockedStatus(t))
    BY <1>3, Zenon DEF Wakes
  <2>3. Sorted(UnblockedList(t), CmpPriority(priority'))
    BY <1>0, <1>1, <2>2, CmpPriorityType, InsertSorted, Zenon DEF UnblockedList
  <2> QED
    BY <1>0, <2>1, <2>2, <2>3, DispatchedSettled, Zenon
<1>4. CASE Blocks
  <2> DEFINE st == [status EXCEPT ![cur] = "BLOCKED"]
  <2>1. st \in [Thread -> Status] /\ Schedule(ready_list, st)
    BY <1>0, <1>4, Zenon DEF Blocks, Status
  <2> HIDE DEF st
  <2>2. Settled(ready_list, st)
    BY <1>0, <1>1, <2>1, ScheduleSettled, Zenon
  <2> QED
    BY <1>0, <1>4, <2>1, <2>2, Zenon DEF st
<1>5. CASE Exits
  <2> DEFINE st == [status EXCEPT ![cur] =
                      IF cur = InitialThread THEN "DYING" ELSE "UNUSED"]
  <2>1. st \in [Thread -> Status] /\ Schedule(ready_list, st)
    BY <1>0, <1>5, Zenon DEF Exits, Status
  <2> HIDE DEF st
  <2>2. Settled(ready_list, st)
    BY <1>0, <1>1, <2>1, ScheduleSettled, Zenon
  <2> QED
    BY <1>0, <1>5, <2>1, <2>2, Zenon DEF st
<1>6. ASSUME NEW t \in Thread, Creates(t) PROVE Settled(ready_list, status')
  BY <1>0, <1>1, <1>6, Zenon DEF Creates, Settled, ReadyOn
<1> QED
  BY <1>0, <1>2, <1>3, <1>4, <1>5, <1>6, Zenon DEF Moves

(* Every step keeps the lists in order. *)
LEMMA SortedNext ==
  ASSUME LeastNat, TypeOK, TypeOK', Lists, QueuesSorted, Moves
  PROVE  QueuesSorted'
<1>0. /\ cur \in Thread /\ waiters \in [Sema -> Seq(Thread)] /\ sleep_list \in Seq(Thread)
      /\ priority \in [Thread -> Priority] /\ priority' \in [Thread -> Priority]
      /\ wake_up_time' \in [Thread -> Int]
  <2>1. /\ cur \in Thread /\ waiters \in [Sema -> Seq(Thread)] /\ sleep_list \in Seq(Thread)
        /\ priority \in [Thread -> Priority]
    BY Zenon DEF TypeOK
  <2>2. priority' \in [Thread -> Priority] /\ wake_up_time' \in [Thread -> Nat]
    BY Zenon DEF TypeOK
  <2>3. wake_up_time' \in [Thread -> Int]
    BY <2>2
  <2> QED
    BY <2>1, <2>2, <2>3, Zenon
<1>1. Sorted(ready_list', CmpPriority(priority'))
  BY MovesSettled, Zenon DEF Settled
<1>2. /\ \A s \in Sema : Sorted(waiters[s], CmpPriority(priority'))
      /\ Sorted(sleep_list, wake_up_time')
  BY KeysKept, Zenon
<1>3. Sorted(sleep_list', wake_up_time')
  <2>1. CASE sleep_list' = sleep_list
    BY <1>2, <2>1, Zenon
  <2>2. CASE sleep_list # <<>> /\ sleep_list' = Tail(sleep_list)
    BY <1>0, <1>2, <2>2, PopSorted, Zenon
  <2>3. CASE sleep_list' = ListInsertOrdered(sleep_list, cur, wake_up_time')
    BY <1>0, <1>2, <2>3, InsertSorted, Zenon
  <2> QED
    BY <2>1, <2>2, <2>3, Zenon DEF Moves, Remains, Wakes, Blocks, Exits, Creates
<1>4. ASSUME NEW r \in Sema PROVE Sorted(waiters'[r], CmpPriority(priority'))
  <2>1. CASE waiters' = waiters
    BY <1>2, <2>1, Zenon
  <2>2. ASSUME NEW s \in Sema, waiters[s] # <<>>,
               waiters' = [waiters EXCEPT ![s] = Tail(waiters[s])]
        PROVE  Sorted(waiters'[r], CmpPriority(priority'))
    <3>1. CASE r = s
      <4>1. waiters'[r] = Tail(waiters[s]) /\ waiters[s] \in Seq(Thread)
        BY <1>0, <2>2, <3>1, Zenon
      <4>2. CmpPriority(priority') \in [Thread -> Int]
        BY <1>0, CmpPriorityType, Zenon
      <4> QED
        BY <1>2, <2>2, <4>1, <4>2, PopSorted, Zenon
    <3>2. CASE r # s
      BY <1>0, <1>2, <2>2, <3>2, Zenon
    <3> QED
      BY <3>1, <3>2, Zenon
  <2>3. ASSUME NEW s \in Sema, priority' = priority,
               waiters' = [waiters EXCEPT ![s] =
                             ListInsertOrdered(waiters[s], cur, CmpPriority(priority))]
        PROVE  Sorted(waiters'[r], CmpPriority(priority'))
    <3>1. CASE r = s
      <4>1. /\ waiters'[r] = ListInsertOrdered(waiters[s], cur, CmpPriority(priority))
            /\ waiters[s] \in Seq(Thread)
        BY <1>0, <2>3, <3>1, Zenon
      <4>2. CmpPriority(priority) \in [Thread -> Int]
        BY <1>0, CmpPriorityType, Zenon
      <4> QED
        BY <1>0, <1>2, <2>3, <4>1, <4>2, InsertSorted, Zenon
    <3>2. CASE r # s
      BY <1>0, <1>2, <2>3, <3>2, Zenon
    <3> QED
      BY <3>1, <3>2, Zenon
  <2> QED
    BY <2>1, <2>2, <2>3, Zenon DEF Moves, Remains, Wakes, Blocks, Exits, Creates
<1> QED
  BY <1>1, <1>3, <1>4, Zenon DEF QueuesSorted
----------------------------------------------------------------------------
(* Where a thread can be while it creates another; a free page is nowhere. *)
Creating == {"alloc", "down", "own", "read", "write", "release", "up",
             "unblock", "check"}

Calls ==
  \A t \in Thread :
    /\ status[t] = "UNUSED" => pc[t] = "run"
    /\ new[t] # NULL => pc[t] \in Creating
    /\ new[t] # NULL /\ pc[t] \in {"down", "own", "up"} => arg[t] = TidLock
    /\ pc[t] \in {"alloc", "read", "write", "release"} => new[t] # NULL

(* A thread being created and still BLOCKED keeps its creator. *)
BirthsKept ==
  \A c, t \in Thread :
    new[c] = t /\ pc[c] # "check" /\ status'[t] = "BLOCKED" =>
      new'[c] = t /\ pc'[c] # "check"

(* Only thread_exit frees a page. *)
PagesKept ==
  \A t \in Thread : status'[t] = "UNUSED" =>
    IF t = cur THEN pc'[t] = "run" ELSE status[t] = "UNUSED"

(* No move frees a page but that of the thread that runs. *)
LEMMA MovesPages ==
  ASSUME LeastNat, TypeOK, TypeOK', Lists, QueuesSorted, Moves
  PROVE  PagesKept
<1>0. cur \in Thread /\ status \in [Thread -> Status] /\ status[cur] = "RUNNING"
  BY Zenon DEF TypeOK, Lists, OneRunning
<1>1. PICK l \in Seq(Thread), stat \in [Thread -> Status] :
        /\ Settled(l, stat)
        /\ \/ stat = status
           \/ \E t \in Thread : stat = UnblockedStatus(t)
           \/ stat = [status EXCEPT ![cur] = "BLOCKED"]
           \/ /\ stat = [status EXCEPT ![cur] =
                           IF cur = InitialThread THEN "DYING" ELSE "UNUSED"]
              /\ pc[cur] = "run" /\ pc' = pc
           \/ \E t \in Thread : Creates(t) /\ stat = status'
  BY MovesSettled, Zenon DEF Exits
<1>2. \A t \in Thread : status'[t] = "UNUSED" => stat[t] = "UNUSED"
  BY <1>1, Zenon DEF Settled
<1>3. \A t \in Thread : stat[t] = "UNUSED" =>
        status[t] = "UNUSED" \/ (t = cur /\ pc'[t] = "run")
  BY <1>0, <1>1, Zenon DEF UnblockedStatus, Creates
<1> QED
  BY <1>0, <1>2, <1>3, Zenon DEF PagesKept

(* A step of the running thread that neither begins nor ends thread_create. *)
LEMMA CallsStep ==
  ASSUME TypeOK, Calls, PagesKept, new' = new,
         \A t \in Thread : t # cur => pc'[t] = pc[t] /\ arg'[t] = arg[t],
         pc'[cur] = "check" => pc[cur] = "check",
         new[cur] # NULL =>
           /\ pc'[cur] \in Creating
           /\ pc'[cur] \in {"down", "own", "up"} => arg'[cur] = TidLock,
         pc'[cur] \in {"alloc", "read", "write", "release"} => new[cur] # NULL
  PROVE  Calls' /\ BirthsKept
<1>0. cur \in Thread
  BY Zenon DEF TypeOK
<1>1. ASSUME NEW t \in Thread
      PROVE  /\ status'[t] = "UNUSED" => pc'[t] = "run"
             /\ new'[t] # NULL => pc'[t] \in Creating
             /\ new'[t] # NULL /\ pc'[t] \in {"down", "own", "up"} => arg'[t] = TidLock
             /\ pc'[t] \in {"alloc", "read", "write", "release"} => new'[t] # NULL
  BY <1>0, Zenon DEF Calls, PagesKept
<1>2. Calls'
  BY <1>1, Zenon DEF Calls
<1>3. BirthsKept
  BY <1>0, Zenon DEF BirthsKept
<1> QED
  BY <1>2, <1>3, Zenon

(* Who is where in which call is kept by every step. *)
LEMMA CallsNext ==
  TypeOK /\ Operands /\ Lists /\ Calls /\ PagesKept /\ [Next]_vars => Calls' /\ BirthsKept
<1> SUFFICES ASSUME TypeOK, Operands, Lists, Calls, PagesKept
             PROVE  [Next]_vars => Calls' /\ BirthsKept
  BY Zenon
<1>a. /\ cur \in Thread /\ TidLock \in Lock
      /\ status[cur] = "RUNNING" /\ (pc[cur] \in {"hlt", "loop"} <=> cur = IdleThread)
      /\ pc \in [Thread -> PC] /\ arg \in [Thread -> Sema \cup {NULL}]
  BY ThreadsAssumption, Zenon DEF TypeOK, Lists, OneRunning, IdleLoops
<1>b. /\ new[cur] # NULL => pc[cur] \in Creating
      /\ new[cur] # NULL /\ pc[cur] \in {"down", "own", "up"} => arg[cur] = TidLock
      /\ pc[cur] \in {"alloc", "read", "write", "release"} => new[cur] # NULL
  BY <1>a, Zenon DEF Calls
<1>c. new[cur] # NULL => pc[cur] \notin {"run", "sleep", "hlt", "loop"}
  BY <1>b, Zenon DEF Creating
<1>d. ASSUME NEW s \in Sema, SemaDownStep(s), new' = new, new[cur] # NULL => s = TidLock
      PROVE  Calls' /\ BirthsKept
  <2>1. /\ pc'[cur] \in {"down", "own", "run"}
        /\ \A t \in Thread : t # cur => pc'[t] = pc[t] /\ arg'[t] = arg[t]
        /\ s \in Lock => pc'[cur] # "run" /\ arg'[cur] = s
    BY <1>a, <1>d, Zenon DEF SemaDownStep, Goto, AfterDown
  <2> QED
    BY <1>a, <1>b, <1>d, <2>1, CallsStep, Zenon DEF Creating
<1>l. ASSUME new' = new, pc' = pc, arg' = arg PROVE Calls' /\ BirthsKept
  BY <1>b, <1>l, CallsStep, Zenon
<1>1. ASSUME NEW s \in Sema, SemaDown(s) PROVE Calls' /\ BirthsKept
  BY <1>1, <1>c, <1>d, Zenon DEF SemaDown, At, tids
<1>2. ASSUME SemaDownWoken PROVE Calls' /\ BirthsKept
  <2>1. arg[cur] \in Sema /\ pc[cur] = "down"
    BY <1>2, <1>a, Zenon DEF SemaDownWoken, At, Operands
  <2> QED
    BY <1>2, <1>b, <1>d, <2>1, Zenon DEF SemaDownWoken, tids
<1>3. ASSUME NEW s \in Sema, SemaTryDown(s) PROVE Calls' /\ BirthsKept
  BY <1>3, <1>l, Zenon DEF SemaTryDown, tids, control
<1>4. ASSUME NEW s \in Sema, SemaUp(s) PROVE Calls' /\ BirthsKept
  BY <1>4, <1>l, Zenon DEF SemaUp, tids, control
<1>5. ASSUME NEW l \in Lock, LockAcquire(l) PROVE Calls' /\ BirthsKept
  <2>1. l \in Sema /\ SemaDownStep(l) /\ new' = new /\ (new[cur] # NULL => l = TidLock)
    BY <1>5, <1>c, ThreadsAssumption, Zenon DEF LockAcquire, At, tids
  <2> QED
    BY <1>d, <2>1, Zenon
<1>6. ASSUME NEW l \in Lock, LockTryAcquire(l) PROVE Calls' /\ BirthsKept
  <2>1. /\ pc[cur] = "run" /\ pc'[cur] = "own" /\ new' = new
        /\ \A t \in Thread : t # cur => pc'[t] = pc[t] /\ arg'[t] = arg[t]
    BY <1>a, <1>6, Zenon DEF LockTryAcquire, At, Goto, tids
  <2> QED
    BY <1>c, <2>1, CallsStep, Zenon
<1>7. ASSUME LockOwn PROVE Calls' /\ BirthsKept
  <2>1. /\ pc[cur] = "own" /\ pc'[cur] = (IF new[cur] # NULL THEN "read" ELSE "run")
        /\ new' = new
        /\ \A t \in Thread : t # cur => pc'[t] = pc[t] /\ arg'[t] = arg[t]
    BY <1>a, <1>7, Zenon DEF LockOwn, At, Goto, tids
  <2> QED
    BY <2>1, CallsStep, Zenon DEF Creating
<1>8. ASSUME NEW l \in Lock, LockRelease(l) PROVE Calls' /\ BirthsKept
  <2>1. /\ pc[cur] = "run" \/ l = TidLock
        /\ pc'[cur] = "up" /\ new' = new /\ arg'[cur] = l
        /\ \A t \in Thread : t # cur => pc'[t] = pc[t] /\ arg'[t] = arg[t]
    BY <1>a, <1>8, Zenon DEF LockRelease, At, Goto, tids
  <2> QED
    BY <1>c, <2>1, CallsStep, Zenon DEF Creating
<1>9. ASSUME LockReleaseUp PROVE Calls' /\ BirthsKept
  <2>1. /\ pc'[cur] = (IF new[cur] # NULL THEN "unblock" ELSE "run") /\ new' = new
        /\ \A t \in Thread : t # cur => pc'[t] = pc[t] /\ arg'[t] = arg[t]
    BY <1>a, <1>9, Zenon DEF LockReleaseUp, Goto, AfterUp, tids
  <2> QED
    BY <2>1, CallsStep, Zenon DEF Creating
<1>10. ASSUME NEW t \in Thread, NEW q \in NewPriority, ThreadCreate(t, q)
       PROVE  Calls' /\ BirthsKept
  <2>1. /\ status[t] = "UNUSED" /\ pc[cur] = "run" /\ t # cur
    BY <1>10, <1>a, Zenon DEF ThreadCreate, At
  <2>2. /\ pc'[t] = "run" /\ pc'[cur] = "alloc" /\ new'[cur] = t /\ new'[t] = NULL
        /\ \A u \in Thread : u \notin {t, cur} =>
             pc'[u] = pc[u] /\ new'[u] = new[u] /\ arg'[u] = arg[u]
        /\ status'[t] = "BLOCKED" /\ cur' = cur
    BY <1>10, <1>a, <2>1, Zenon DEF ThreadCreate, TypeOK
  <2>3. new[cur] = NULL /\ new[t] = NULL /\ t # NULL
    <3>1. pc[t] = "run"
      BY <2>1, Zenon DEF Calls
    <3> QED
      BY <1>c, <2>1, <3>1, ThreadsAssumption, Zenon DEF Calls, Creating
  <2>4. ASSUME NEW u \in Thread
        PROVE  /\ status'[u] = "UNUSED" => pc'[u] = "run"
               /\ new'[u] # NULL => pc'[u] \in Creating
               /\ new'[u] # NULL /\ pc'[u] \in {"down", "own", "up"} => arg'[u] = TidLock
               /\ pc'[u] \in {"alloc", "read", "write", "release"} => new'[u] # NULL
    <3>1. CASE u = t
      BY <2>1, <2>2, <3>1, Zenon
    <3>2. CASE u = cur
      BY <2>1, <2>2, <2>3, <3>2, Zenon DEF PagesKept, Creating
    <3>3. CASE u \notin {t, cur}
      BY <2>2, <3>3, Zenon DEF PagesKept, Calls
    <3> QED
      BY <3>1, <3>2, <3>3, Zenon
  <2>5. Calls'
    BY <2>4, Zenon DEF Calls
  <2>6. BirthsKept
    BY <2>2, <2>3, ThreadsAssumption, Zenon DEF BirthsKept
  <2> QED
    BY <2>5, <2>6, Zenon
<1>11. ASSUME AllocateTidRead PROVE Calls' /\ BirthsKept
  <2>1. /\ pc[cur] = "read" /\ pc'[cur] = "write" /\ new' = new /\ arg' = arg
        /\ \A t \in Thread : t # cur => pc'[t] = pc[t]
    BY <1>a, <1>11, Zenon DEF AllocateTidRead, At, Goto, tids
  <2> QED
    BY <1>b, <2>1, CallsStep, Zenon DEF Creating
<1>12. ASSUME AllocateTidWrite PROVE Calls' /\ BirthsKept
  <2>1. /\ pc[cur] = "write" /\ pc'[cur] = "release" /\ new' = new /\ arg' = arg
        /\ \A t \in Thread : t # cur => pc'[t] = pc[t]
    BY <1>a, <1>12, Zenon DEF AllocateTidWrite, At, Goto
  <2> QED
    BY <1>b, <2>1, CallsStep, Zenon DEF Creating
<1>13. ASSUME ThreadCreateUnblock PROVE Calls' /\ BirthsKept
  <2>1. /\ pc[cur] = "unblock" /\ pc'[cur] = "check" /\ new' = new /\ arg' = arg
        /\ new[cur] \in Thread
        /\ \A t \in Thread : t # cur => pc'[t] = pc[t]
        /\ status' = UnblockedStatus(new[cur])
    BY <1>a, <1>13, Zenon DEF ThreadCreateUnblock, At, Goto, Operands, TypeOK
  <2>2. status'[new[cur]] = "READY"
    BY <2>1, Zenon DEF UnblockedStatus, TypeOK
  <2>3. ASSUME NEW u \in Thread
        PROVE  /\ status'[u] = "UNUSED" => pc'[u] = "run"
               /\ new'[u] # NULL => pc'[u] \in Creating
               /\ new'[u] # NULL /\ pc'[u] \in {"down", "own", "up"} => arg'[u] = TidLock
               /\ pc'[u] \in {"alloc", "read", "write", "release"} => new'[u] # NULL
    <3>1. CASE u = cur
      BY <2>1, <3>1, Zenon DEF PagesKept, Creating
    <3>2. CASE u # cur
      BY <2>1, <3>2, Zenon DEF PagesKept, Calls
    <3> QED
      BY <3>1, <3>2, Zenon
  <2>4. Calls'
    BY <2>3, Zenon DEF Calls
  <2>5. BirthsKept
    BY <1>a, <2>1, <2>2, Zenon DEF BirthsKept
  <2> QED
    BY <2>4, <2>5, Zenon
<1>14. ASSUME ThreadCreateCheck PROVE Calls' /\ BirthsKept
  <2>1. /\ pc[cur] = "check" /\ pc'[cur] = "run" /\ new'[cur] = NULL /\ arg' = arg
        /\ \A t \in Thread : t # cur => pc'[t] = pc[t] /\ new'[t] = new[t]
    BY <1>a, <1>14, Zenon DEF ThreadCreateCheck, At, Goto, TypeOK
  <2>2. ASSUME NEW u \in Thread
        PROVE  /\ status'[u] = "UNUSED" => pc'[u] = "run"
               /\ new'[u] # NULL => pc'[u] \in Creating
               /\ new'[u] # NULL /\ pc'[u] \in {"down", "own", "up"} => arg'[u] = TidLock
               /\ pc'[u] \in {"alloc", "read", "write", "release"} => new'[u] # NULL
    <3>1. CASE u = cur
      BY <2>1, <3>1, Zenon DEF PagesKept, Creating
    <3>2. CASE u # cur
      BY <2>1, <3>2, Zenon DEF PagesKept, Calls
    <3> QED
      BY <3>1, <3>2, Zenon
  <2>3. Calls'
    BY <2>2, Zenon DEF Calls
  <2>4. BirthsKept
    BY <2>1, Zenon DEF BirthsKept
  <2> QED
    BY <2>3, <2>4, Zenon
<1>15. ASSUME ThreadExit PROVE Calls' /\ BirthsKept
  BY <1>15, <1>l, Zenon DEF ThreadExit, control
<1>16. ASSUME Yield PROVE Calls' /\ BirthsKept
  BY <1>16, <1>l, Zenon DEF Yield, tids, control
<1>17. ASSUME NEW q \in NewPriority, ThreadSetPriority(q) PROVE Calls' /\ BirthsKept
  BY <1>17, <1>l, Zenon DEF ThreadSetPriority, tids, control
<1>18. ASSUME NEW n \in SleepTicks, TimerSleep(n) PROVE Calls' /\ BirthsKept
  <2>1. /\ pc[cur] = "run" /\ pc'[cur] = "sleep" /\ new' = new /\ arg' = arg
        /\ \A t \in Thread : t # cur => pc'[t] = pc[t]
    BY <1>a, <1>18, Zenon DEF TimerSleep, At, Goto, tids
  <2> QED
    BY <1>c, <2>1, CallsStep, Zenon
<1>19. ASSUME ThreadSleep PROVE Calls' /\ BirthsKept
  <2>1. /\ pc[cur] = "sleep" /\ pc'[cur] = "run" /\ new' = new /\ arg' = arg
        /\ \A t \in Thread : t # cur => pc'[t] = pc[t]
    BY <1>a, <1>19, Zenon DEF ThreadSleep, At, Goto, tids
  <2> QED
    BY <1>c, <2>1, CallsStep, Zenon
<1>20. ASSUME IdleLoop PROVE Calls' /\ BirthsKept
  <2>1. /\ pc[cur] = "loop" /\ pc'[cur] = "hlt" /\ new' = new /\ arg' = arg
        /\ \A t \in Thread : t # cur => pc'[t] = pc[t]
    BY <1>a, <1>20, Zenon DEF IdleLoop, At, Goto, tids
  <2> QED
    BY <1>c, <2>1, CallsStep, Zenon
<1>21. ASSUME TimerInterrupt PROVE Calls' /\ BirthsKept
  BY <1>21, <1>l, Zenon DEF TimerInterrupt, tids, control
<1>22. ASSUME ThreadAwake PROVE Calls' /\ BirthsKept
  BY <1>22, <1>l, Zenon DEF ThreadAwake, tids, control
<1>w. ASSUME WakeIdle, new' = new, arg' = arg PROVE Calls' /\ BirthsKept
  <2>1. CASE cur = IdleThread
    <3>1. /\ pc[cur] \in {"hlt", "loop"} /\ pc'[cur] = "loop"
          /\ \A t \in Thread : t # cur => pc'[t] = pc[t]
      BY <1>a, <1>w, <2>1, Zenon DEF WakeIdle
    <3> QED
      BY <1>c, <1>w, <3>1, CallsStep, Zenon
  <2>2. CASE cur # IdleThread
    BY <1>l, <1>w, <2>2, Zenon DEF WakeIdle
  <2> QED
    BY <2>1, <2>2, Zenon
<1>23. ASSUME IntrReturn PROVE Calls' /\ BirthsKept
  BY <1>23, <1>w, Zenon DEF IntrReturn, tids
<1>24. ASSUME NEW s \in IntrSema, DeviceInterrupt(s) PROVE Calls' /\ BirthsKept
  BY <1>24, <1>w, Zenon DEF DeviceInterrupt, tids
<1>25. ASSUME UNCHANGED vars PROVE Calls' /\ BirthsKept
  BY <1>25, <1>l, Zenon DEF vars, tids, control
<1> QED
  BY <1>1, <1>2, <1>3, <1>4, <1>5, <1>6, <1>7, <1>8, <1>9, <1>10, <1>11, <1>12,
     <1>13, <1>14, <1>15, <1>16, <1>17, <1>18, <1>19, <1>20, <1>21, <1>22, <1>23,
     <1>24, <1>25, Zenon
     DEF Next, ThreadStep, Interrupt, Halted
----------------------------------------------------------------------------
(* thread_unblock adds one thread to the ready list. *)
LEMMA UnblockedOn ==
  ASSUME LeastNat, TypeOK, NEW t \in Thread
  PROVE  \A u : On(u, UnblockedList(t)) <=> u = t \/ On(u, ready_list)
<1>1. priority \in [Thread -> Priority] /\ ready_list \in Seq(Thread)
  BY Zenon DEF TypeOK
<1>2. CmpPriority(priority) \in [Thread -> Int]
  BY <1>1, CmpPriorityType, Zenon
<1> QED
  BY <1>1, <1>2, InsertOn, Zenon DEF UnblockedList

(* No step loses a thread. *)
LEMMA LostNext ==
  ASSUME LeastNat, TypeOK, TypeOK', Lists, QueuesSorted, NoThreadLost, Moves, BirthsKept
  PROVE  NoThreadLost'
<1>0. /\ cur \in Thread /\ status \in [Thread -> Status] /\ status[cur] = "RUNNING"
      /\ ready_list \in Seq(Thread) /\ sleep_list \in Seq(Thread)
      /\ waiters \in [Sema -> Seq(Thread)] /\ priority \in [Thread -> Priority]
  BY Zenon DEF TypeOK, Lists, OneRunning
<1>k. CmpPriority(priority) \in [Thread -> Int]
  BY <1>0, CmpPriorityType, Zenon
<1>1. ReadyOn(ready_list, status)
  BY Zenon DEF NoThreadLost, ReadyOn
<1> DEFINE Waits(t) == \/ On(t, sleep_list')
                       \/ \E s \in Sema : On(t, waiters'[s])
                       \/ \E c \in Thread : new'[c] = t /\ pc'[c] # "check"
<1>2. ASSUME NEW t \in Thread \ {IdleThread}, status[t] = "BLOCKED", status'[t] = "BLOCKED",
             On(t, sleep_list) => On(t, sleep_list'),
             \A s \in Sema : On(t, waiters[s]) => On(t, waiters'[s])
      PROVE  Waits(t)
  <2>1. \/ On(t, sleep_list) \/ \E s \in Sema : On(t, waiters[s])
        \/ \E c \in Thread : new[c] = t /\ pc[c] # "check"
    BY <1>2, Zenon DEF NoThreadLost
  <2>2. CASE On(t, sleep_list)
    BY <1>2, <2>2, Zenon
  <2>3. CASE \E s \in Sema : On(t, waiters[s])
    BY <1>2, <2>3, Zenon
  <2>4. CASE \E c \in Thread : new[c] = t /\ pc[c] # "check"
    BY <1>2, <2>4, Zenon DEF BirthsKept
  <2> QED
    BY <2>1, <2>2, <2>3, <2>4, Zenon
<1> SUFFICES /\ ReadyOn(ready_list', status')
             /\ \A t \in Thread \ {IdleThread} : status'[t] = "BLOCKED" => Waits(t)
  BY Zenon DEF NoThreadLost, ReadyOn
<1>3. PICK l \in Seq(Thread), stat \in [Thread -> Status] :
        /\ Settled(l, stat)
        /\ \/ Remains /\ l = ready_list /\ stat = status
           \/ \E t \in Thread : Wakes(t) /\ l = UnblockedList(t) /\ stat = UnblockedStatus(t)
           \/ Blocks /\ l = ready_list /\ stat = [status EXCEPT ![cur] = "BLOCKED"]
           \/ /\ Exits /\ l = ready_list
              /\ stat = [status EXCEPT ![cur] =
                           IF cur = InitialThread THEN "DYING" ELSE "UNUSED"]
           \/ \E t \in Thread : Creates(t) /\ l = ready_list /\ stat = status'
  BY MovesSettled, Zenon
<1>4. /\ ReadyOn(l, stat) => ReadyOn(ready_list', status')
      /\ \A t \in Thread : status'[t] = "BLOCKED" => stat[t] = "BLOCKED"
  BY <1>3, Zenon DEF Settled
<1> HIDE DEF Waits
<1>5. CASE Remains /\ l = ready_list /\ stat = status
  <2>1. UNCHANGED <<sleep_list, waiters>>
    BY <1>5, Zenon DEF Remains
  <2> QED
    BY <1>1, <1>2, <1>4, <1>5, <2>1, Zenon
<1>6. ASSUME NEW t \in Thread, Wakes(t), l = UnblockedList(t), stat = UnblockedStatus(t)
      PROVE  /\ ReadyOn(ready_list', status')
             /\ \A u \in Thread \ {IdleThread} : status'[u] = "BLOCKED" => Waits(u)
  <2>1. stat[t] = "READY" /\ \A u \in Thread : u # t => stat[u] = status[u]
    BY <1>0, <1>6, Zenon DEF UnblockedStatus
  <2>2. \A u : On(u, l) <=> u = t \/ On(u, ready_list)
    BY <1>6, UnblockedOn, Zenon
  <2>3. ReadyOn(l, stat)
    BY <1>1, <2>1, <2>2, Zenon DEF ReadyOn
  <2>4. ASSUME NEW u \in Thread \ {IdleThread}, status'[u] = "BLOCKED" PROVE Waits(u)
    <3>1. u # t /\ status[u] = "BLOCKED"
      BY <1>4, <2>1, <2>4, Zenon
    <3>2. CASE sleep_list' = sleep_list /\ waiters' = waiters
      BY <1>2, <2>4, <3>1, <3>2, Zenon
    <3>3. CASE /\ waiters' = waiters
               /\ sleep_list # <<>> /\ t = Head(sleep_list) /\ sleep_list' = Tail(sleep_list)
      <4>1. On(u, sleep_list) => On(u, sleep_list')
        BY <1>0, <3>1, <3>3, PopFront, Zenon
      <4> QED
        BY <1>2, <2>4, <3>1, <3>3, <4>1, Zenon
    <3>4. ASSUME NEW s \in Sema, waiters[s] # <<>>, t = Head(waiters[s]),
                 waiters' = [waiters EXCEPT ![s] = Tail(waiters[s])], sleep_list' = sleep_list
          PROVE  Waits(u)
      <4>1. waiters[s] \in Seq(Thread) /\ waiters'[s] = Tail(waiters[s])
        BY <1>0, <3>4, Zenon
      <4>2. On(u, waiters[s]) => On(u, waiters'[s])
        BY <3>1, <3>4, <4>1, PopFront
      <4>3. \A r \in Sema : r # s => waiters'[r] = waiters[r]
        BY <1>0, <3>4, Zenon
      <4>4. \A r \in Sema : On(u, waiters[r]) => On(u, waiters'[r])
        BY <4>2, <4>3, Zenon
      <4> QED
        BY <1>2, <2>4, <3>1, <3>4, <4>4, Zenon
    <3> QED
      BY <1>6, <3>2, <3>3, <3>4, Zenon DEF Wakes
  <2> QED
    BY <1>4, <2>3, <2>4, Zenon
<1>7. CASE Blocks /\ l = ready_list /\ stat = [status EXCEPT ![cur] = "BLOCKED"]
  <2>1. stat[cur] = "BLOCKED" /\ \A u \in Thread : u # cur => stat[u] = status[u]
    BY <1>0, <1>7, Zenon
  <2>2. ReadyOn(l, stat)
    BY <1>1, <1>7, <2>1, Zenon DEF ReadyOn
  <2>3. ASSUME NEW u \in Thread \ {IdleThread}, status'[u] = "BLOCKED" PROVE Waits(u)
    <3>0. u = cur \/ status[u] = "BLOCKED"
      BY <1>4, <2>1, <2>3, Zenon
    <3>1. CASE cur = IdleThread /\ UNCHANGED <<sleep_list, waiters>>
      BY <1>2, <2>3, <3>0, <3>1, Zenon
    <3>2. CASE /\ waiters' = waiters /\ wake_up_time' \in [Thread -> Nat]
               /\ sleep_list' = ListInsertOrdered(sleep_list, cur, wake_up_time')
      <4>1. wake_up_time' \in [Thread -> Int]
        BY <3>2
      <4>2. \A v : On(v, sleep_list') <=> v = cur \/ On(v, sleep_list)
        BY <1>0, <3>2, <4>1, InsertOn, Zenon
      <4> QED
        BY <1>2, <2>3, <3>0, <3>2, <4>2, Zenon DEF Waits
    <3>3. ASSUME NEW s \in Sema, sleep_list' = sleep_list,
                 waiters' = [waiters EXCEPT ![s] =
                               ListInsertOrdered(waiters[s], cur, CmpPriority(priority))]
          PROVE  Waits(u)
      <4>1. /\ waiters'[s] = ListInsertOrdered(waiters[s], cur, CmpPriority(priority))
            /\ waiters[s] \in Seq(Thread)
            /\ \A r \in Sema : r # s => waiters'[r] = waiters[r]
        BY <1>0, <3>3, Zenon
      <4> DEFINE w == ListInsertOrdered(waiters[s], cur, CmpPriority(priority))
      <4>a. \A v : On(v, w) <=> v = cur \/ On(v, waiters[s])
        <5>1. waiters[s] \in Seq(Thread) /\ cur \in Thread
          BY <1>0, Zenon
        <5> QED
          BY <1>k, <5>1, InsertOn, Zenon
      <4>2. \A v : On(v, waiters'[s]) <=> v = cur \/ On(v, waiters[s])
        BY <4>1, <4>a, Zenon
      <4>3. \A r \in Sema : On(u, waiters[r]) => On(u, waiters'[r])
        BY <4>1, <4>2, Zenon
      <4> QED
        BY <1>2, <2>3, <3>0, <3>3, <4>2, <4>3, Zenon DEF Waits
    <3> QED
      BY <1>7, <3>1, <3>2, <3>3, Zenon DEF Blocks
  <2> QED
    BY <1>4, <2>2, <2>3, Zenon
<1>8. CASE /\ Exits /\ l = ready_list
           /\ stat = [status EXCEPT ![cur] =
                        IF cur = InitialThread THEN "DYING" ELSE "UNUSED"]
  <2>1. /\ stat[cur] \in {"DYING", "UNUSED"}
        /\ \A u \in Thread : u # cur => stat[u] = status[u]
    BY <1>0, <1>8, Zenon
  <2>2. ReadyOn(l, stat) /\ UNCHANGED <<sleep_list, waiters>>
    BY <1>1, <1>8, <2>1, Zenon DEF ReadyOn, Exits
  <2> QED
    BY <1>2, <1>4, <2>1, <2>2, Zenon
<1>9. ASSUME NEW t \in Thread, Creates(t), l = ready_list, stat = status'
      PROVE  /\ ReadyOn(ready_list', status')
             /\ \A u \in Thread \ {IdleThread} : status'[u] = "BLOCKED" => Waits(u)
  <2>1. /\ status'[t] = "BLOCKED" /\ \A u \in Thread : u # t => status'[u] = status[u]
        /\ new'[cur] = t /\ pc'[cur] # "check"
        /\ UNCHANGED <<ready_list, sleep_list, waiters>>
    BY <1>0, <1>9, Zenon DEF Creates
  <2>2. Waits(t)
    BY <1>0, <2>1, Zenon DEF Waits
  <2>3. ReadyOn(ready_list', status')
    BY <1>1, <2>1, Zenon DEF ReadyOn
  <2> QED
    BY <1>2, <2>1, <2>2, <2>3, Zenon
<1> QED
  BY <1>3, <1>5, <1>6, <1>7, <1>8, <1>9, Zenon

(* The idle thread takes few steps of its own. *)
LEMMA IdleSteps ==
  ASSUME TypeOK, Lists, cur = IdleThread, Next
  PROVE  \/ IdleLoop \/ TimerInterrupt \/ ThreadAwake \/ IntrReturn
         \/ (\E s \in IntrSema : DeviceInterrupt(s)) \/ Halted
<1>1. pc[cur] \in {"hlt", "loop"}
  BY Zenon DEF TypeOK, Lists, IdleLoops
<1>2. \A p : At(p) => p \in {"hlt", "loop"}
  BY <1>1, Zenon DEF At
<1>3. ~At("run") /\ ~At("down") /\ ~At("alloc") /\ ~At("own") /\ ~At("release")
  BY <1>2
<1>4. ~At("up") /\ ~At("read") /\ ~At("write") /\ ~At("unblock") /\ ~At("check") /\ ~At("sleep")
  BY <1>2
<1>5. ASSUME ThreadStep PROVE IdleLoop
  BY <1>3, <1>4, <1>5, Zenon
     DEF ThreadStep, SemaDown, SemaTryDown, SemaUp, LockAcquire, LockTryAcquire, LockRelease,
         SemaDownWoken, LockOwn, LockReleaseUp, ThreadCreate, AllocateTidRead,
         AllocateTidWrite, ThreadCreateUnblock, ThreadCreateCheck, ThreadExit, Yield,
         ThreadSleep, ThreadSetPriority, TimerSleep
<1> QED
  BY <1>5, Zenon DEF Next, Interrupt

(* The idle thread halts only when nobody is ready, before and after a step. *)
LEMMA IdleNext ==
  ASSUME LeastNat, TypeOK, TypeOK', Lists, QueuesSorted, Moves, NeverIdleWithWork, [Next]_vars
  PROVE  NeverIdleWithWork'
<1> SUFFICES ASSUME cur' = IdleThread, pc'[cur'] = "hlt", ~in_external_intr'
             PROVE  ready_list' = <<>>
  BY Zenon DEF NeverIdleWithWork
<1>0. /\ cur \in Thread /\ ready_list \in Seq(Thread) /\ status \in [Thread -> Status]
      /\ priority \in [Thread -> Priority]
      /\ IdleThread \in Thread /\ pc \in [Thread -> PC]
  BY ThreadsAssumption, Zenon DEF TypeOK
<1>1. ~On(IdleThread, ready_list)
  BY <1>0, Zenon DEF Lists, Linked
<1>2. CASE cur # IdleThread
  <2>1. PICK l \in Seq(Thread), stat \in [Thread -> Status] :
          /\ Settled(l, stat)
          /\ l = ready_list \/ \E t \in Thread : Wakes(t) /\ l = UnblockedList(t)
    BY MovesSettled, Zenon
  <2>2. ~On(IdleThread, l)
    <3>1. ASSUME NEW t \in Thread, Wakes(t), l = UnblockedList(t) PROVE ~On(IdleThread, l)
      <4>1. t # IdleThread
        BY <3>1, Zenon DEF Wakes
      <4>2. \A u : On(u, UnblockedList(t)) <=> u = t \/ On(u, ready_list)
        BY UnblockedOn, Zenon
      <4> QED
        BY <1>1, <3>1, <4>1, <4>2, Zenon
    <3> QED
      BY <1>1, <2>1, <3>1, Zenon
  <2> QED
    BY <1>2, <2>1, <2>2, Zenon DEF Settled
<1>3. CASE cur = IdleThread
  <2>1. CASE IdleLoop
    <3> DEFINE st == [status EXCEPT ![cur] = "BLOCKED"]
    <3>1. Schedule(ready_list, st) /\ st \in [Thread -> Status]
      BY <1>0, <2>1, Zenon DEF IdleLoop, ThreadBlock, Status
    <3> HIDE DEF st
    <3>2. Outcome(ready_list, st, priority)
      BY <1>0, <3>1, ScheduleOutcome, Zenon DEF QueuesSorted
    <3> QED
      BY <1>1, <3>2, Zenon DEF Outcome
  <2>2. CASE TimerInterrupt \/ ThreadAwake
    BY <2>2 DEF TimerInterrupt, ThreadAwake, intr
  <2>3. CASE WakeIdle
    BY <1>0, <1>3, <2>3, Zenon DEF WakeIdle
  <2>4. CASE UNCHANGED vars
    BY <1>3, <2>4, Zenon DEF vars, sched, intr, control, NeverIdleWithWork
  <2> QED
    BY <1>3, <2>1, <2>2, <2>3, <2>4, IdleSteps, Zenon DEF IntrReturn, DeviceInterrupt, Halted
<1> QED
  BY <1>2, <1>3, Zenon
-----------------------------------------------------------------------------
(* The lists, their order and who is on them, in every reachable state. *)
SInv ==
  /\ TypeOK /\ Operands /\ Lists
  /\ Calls
  /\ QueuesSorted
  /\ NoThreadLost
  /\ NeverIdleWithWork

(* The invariant holds when the kernel starts. *)
LEMMA SInvInit == Init => SInv
<1> SUFFICES ASSUME Init PROVE SInv
  BY Zenon
<1>1. TypeOK /\ Operands
  BY TInvInit, Zenon DEF TInv
<1>2. Linked(ready_list, sleep_list, waiters, status, pc, arg)
  BY EmptyList, Zenon DEF Init, Linked
<1>3. OneRunning /\ IdleLoops /\ Newborn
  BY ThreadsAssumption, Zenon DEF Init, OneRunning, IdleLoops, Newborn
<1>4. Calls
  BY ThreadsAssumption, Zenon DEF Init, Calls
<1>5. QueuesSorted
  BY EmptyList, Zenon DEF Init, QueuesSorted
<1>6. NoThreadLost
  BY ThreadsAssumption, Zenon DEF Init, NoThreadLost
<1>7. NeverIdleWithWork
  BY ThreadsAssumption, Zenon DEF Init, NeverIdleWithWork
<1> QED
  BY <1>1, <1>2, <1>3, <1>4, <1>5, <1>6, <1>7, Zenon DEF SInv, Lists

(* It is inductive, and every step is one of the moves described above. *)
LEMMA SInvNext ==
  ASSUME LeastNat
  PROVE  SInv /\ [Next]_vars => SInv' /\ Moves /\ BirthsKept /\ PagesKept
<1> SUFFICES ASSUME SInv, [Next]_vars PROVE SInv' /\ Moves /\ BirthsKept /\ PagesKept
  BY Zenon
<1>0. TypeOK /\ Operands /\ Lists /\ Calls /\ QueuesSorted /\ NoThreadLost /\ NeverIdleWithWork
  BY Zenon DEF SInv
<1>1. TypeOK' /\ Operands' /\ Lists'
  BY <1>0, TInvNext, ListsNext, Zenon DEF TInv
<1>2. Moves
  BY <1>0, NextMoves, Zenon
<1>3. QueuesSorted'
  BY <1>0, <1>1, <1>2, SortedNext, Zenon
<1>4. PagesKept
  BY <1>0, <1>1, <1>2, MovesPages, Zenon
<1>5. Calls' /\ BirthsKept
  BY <1>0, <1>4, CallsNext, Zenon
<1>6. NoThreadLost'
  BY <1>0, <1>1, <1>2, <1>5, LostNext, Zenon
<1>7. NeverIdleWithWork'
  BY <1>0, <1>1, <1>2, IdleNext, Zenon
<1> QED
  BY <1>1, <1>2, <1>3, <1>4, <1>5, <1>6, <1>7, Zenon DEF SInv
----------------------------------------------------------------------------
(* schedule switches to a thread that no ready thread outranks. *)
LEMMA HighestNext ==
  ASSUME LeastNat
  PROVE  SInv /\ [Next]_vars =>
        [cur' # cur => \A i \in 1..Len(ready_list') :
           priority'[ready_list'[i]] <= priority'[cur']]_vars
<1> SUFFICES ASSUME SInv, [Next]_vars, cur' # cur, NEW i \in 1..Len(ready_list')
             PROVE  priority'[ready_list'[i]] <= priority'[cur']
  BY Zenon
<1>1. TypeOK /\ Lists /\ QueuesSorted /\ TypeOK' /\ Moves
  BY SInvNext, Zenon DEF SInv
<1>2. \E l \in Seq(Thread), stat \in [Thread -> Status] : Settled(l, stat)
  BY <1>1, MovesSettled, Zenon
<1>3. \A u \in Thread : On(u, ready_list') => priority'[u] <= priority'[cur']
  BY <1>2, Zenon DEF Settled
<1>4. ready_list' \in Seq(Thread)
  BY <1>1, Zenon DEF TypeOK
<1>5. On(ready_list'[i], ready_list')
  BY Zenon DEF On
<1> QED
  BY <1>3, <1>4, <1>5, OnType, Zenon

(* The tick ends with nobody due on sleep_list: looking at the front is    *)
(* enough.                                                                 *)
LEMMA AwakeNext ==
  SInv /\ [Next]_vars =>
        [in_external_intr /\ ~in_external_intr' =>
           \A i \in 1..Len(sleep_list') : wake_up_time'[sleep_list'[i]] > ticks']_vars
<1> SUFFICES ASSUME SInv, Next, in_external_intr, ~in_external_intr',
                    NEW i \in 1..Len(sleep_list')
             PROVE  wake_up_time'[sleep_list'[i]] > ticks'
  BY Zenon
<1>1. IntrReturn
  <2>1. \A p : ~At(p)
    BY Zenon DEF At
  <2>2. ~ThreadStep
    BY <2>1, Zenon
       DEF ThreadStep, SemaDown, SemaTryDown, SemaUp, LockAcquire, LockTryAcquire,
           LockRelease, SemaDownWoken, LockOwn, LockReleaseUp, ThreadCreate,
           AllocateTidRead, AllocateTidWrite, ThreadCreateUnblock, ThreadCreateCheck,
           ThreadExit, Yield, IdleLoop, ThreadSleep, ThreadSetPriority, TimerSleep
  <2>3. Interrupt \/ UNCHANGED vars
    BY <2>2, Zenon DEF Next, Halted
  <2>4. ~TimerInterrupt /\ ~(\E s \in IntrSema : DeviceInterrupt(s))
    BY Zenon DEF TimerInterrupt, DeviceInterrupt, InterruptsOn
  <2>5. ~ThreadAwake /\ ~(UNCHANGED vars)
    <3>1. ThreadAwake \/ UNCHANGED vars => intr' = intr
      BY Zenon DEF ThreadAwake, vars
    <3>2. intr' = intr => in_external_intr' = in_external_intr
      BY Zenon DEF intr
    <3> QED
      BY <3>1, <3>2, Zenon
  <2> QED
    BY <2>3, <2>4, <2>5, Zenon DEF Interrupt
<1>2. UNCHANGED <<sleep_list, wake_up_time, ticks>> /\ ~SleeperDue
  BY <1>1, Zenon DEF IntrReturn, alarm
<1>3. /\ sleep_list \in Seq(Thread) /\ ticks \in Nat
      /\ wake_up_time \in [Thread -> Nat] /\ wake_up_time \in [Thread -> Int]
      /\ Sorted(sleep_list, wake_up_time)
  BY DEF SInv, TypeOK, QueuesSorted
<1>4. On(sleep_list[i], sleep_list) /\ sleep_list # <<>> /\ sleep_list[i] \in Thread
  BY <1>2, <1>3 DEF On
<1>5. wake_up_time[Head(sleep_list)] <= wake_up_time[sleep_list[i]]
  BY <1>3, <1>4, PopSorted, Zenon
<1>6. wake_up_time[Head(sleep_list)] \in Nat /\ wake_up_time[sleep_list[i]] \in Nat
  BY <1>3, <1>4
<1>7. ~(wake_up_time[Head(sleep_list)] <= ticks)
  BY <1>2, <1>4, Zenon DEF SleeperDue
<1>8. wake_up_time[sleep_list[i]] > ticks
  BY <1>3, <1>5, <1>6, <1>7
<1> QED
  BY <1>2, <1>8, Zenon
----------------------------------------------------------------------------
(* Preemption.  thread_awake and thread_aging make a thread ready, or      *)
(* raise it, without a look at the running thread, which goes on until its *)
(* time slice ends; without sleepers and without aging the running thread  *)
(* is never outranked, save by the thread it has just created.             *)
NobodySleeps == sleep_list = <<>> /\ \A t \in Thread : pc[t] # "sleep"

Ranked ==
  ~panic /\ cur # IdleThread =>
    \A u \in Thread : On(u, ready_list) =>
      priority[u] <= priority[cur] \/ (pc[cur] = "check" /\ u = new[cur])

(* Steps that change neither queue nor priorities keep the ranking, *)
LEMMA RankedStays ==
  ASSUME Ranked, UNCHANGED <<cur, ready_list, priority, panic>>,
         pc[cur] = "check" => pc'[cur] = "check" /\ new'[cur] = new[cur]
  PROVE  Ranked'
  BY Zenon DEF Ranked

(* as does dispatching the best thread, *)
LEMMA RankedSwitch ==
  ASSUME LeastNat, cur \in Thread, NEW l \in Seq(Thread), NEW stat \in [Thread -> Status],
         priority' \in [Thread -> Priority], Sorted(l, CmpPriority(priority')),
         Schedule(l, stat) \/ ThreadYield(l, stat, priority')
  PROVE  Ranked'
<1>1. CASE Schedule(l, stat)
  <2>1. Outcome(l, stat, priority')
    BY <1>1, ScheduleOutcome, Zenon
  <2> QED
    BY <2>1, Zenon DEF Outcome, Ranked
<1>2. CASE ThreadYield(l, stat, priority')
  <2>1. \E m \in Seq(Thread) : Outcome(m, [stat EXCEPT ![cur] = "READY"], priority')
    BY <1>2, YieldOutcome, Zenon
  <2> QED
    BY <2>1, Zenon DEF Outcome, Ranked
<1> QED
  BY <1>1, <1>2, Zenon

(* The front of an ordered ready list speaks for all of it. *)
LEMMA NotOutranked ==
  ASSUME cur \in Thread, NEW l \in Seq(Thread), NEW pri \in [Thread -> Priority],
         Sorted(l, CmpPriority(pri)), ~OutrankedBy(l, pri)
  PROVE  \A u \in Thread : On(u, l) => pri[u] <= pri[cur]
<1> SUFFICES ASSUME NEW u \in Thread, On(u, l) PROVE pri[u] <= pri[cur]
  BY Zenon
<1>1. l # <<>>
  BY EmptyList, Zenon
<1>2. Head(l) \in Thread
  BY <1>1, PopFront, Zenon
<1>3. CmpPriority(pri)[Head(l)] <= CmpPriority(pri)[u]
  BY <1>1, CmpPriorityType, PopSorted, Zenon
<1>4. pri[u] <= pri[Head(l)]
  BY <1>2, <1>3, CmpPriorityOrder, Zenon
<1>5. ~(pri[cur] < pri[Head(l)])
  BY <1>1, Zenon DEF OutrankedBy
<1>6. pri[u] \in Int /\ pri[Head(l)] \in Int /\ pri[cur] \in Int
  BY <1>2, ThreadsAssumption DEF Priority
<1> QED
  BY <1>4, <1>5, <1>6

(* and test_max_priority. *)
LEMMA RankedTest ==
  ASSUME LeastNat, cur \in Thread, NEW l \in Seq(Thread), NEW stat \in [Thread -> Status],
         priority' \in [Thread -> Priority], Sorted(l, CmpPriority(priority')),
         TestMaxPriority(l, stat, priority')
  PROVE  Ranked'
<1>1. CASE OutrankedBy(l, priority')
  <2>1. ThreadYield(l, stat, priority')
    BY <1>1, Zenon DEF TestMaxPriority
  <2> QED
    BY <2>1, RankedSwitch, Zenon
<1>2. CASE ~OutrankedBy(l, priority')
  <2>1. cur' = cur /\ ready_list' = l
    BY <1>2, Zenon DEF TestMaxPriority
  <2>2. \A u \in Thread : On(u, l) => priority'[u] <= priority'[cur]
    BY <1>2, NotOutranked, Zenon
  <2> QED
    BY <2>1, <2>2, Zenon DEF Ranked
<1> QED
  BY <1>1, <1>2, Zenon

(* The ranking is kept by every step. *)
LEMMA RankedNext ==
  ASSUME LeastNat, SInv, SInv', SleepTicks = {}, ~Aging, NobodySleeps, Ranked
  PROVE  [Next]_vars => NobodySleeps' /\ Ranked'
<1>a. /\ TypeOK /\ Operands /\ Lists /\ QueuesSorted /\ TypeOK'
      /\ Sorted(ready_list, CmpPriority(priority))
  BY Zenon DEF SInv, QueuesSorted
<1>b. /\ cur \in Thread /\ ready_list \in Seq(Thread) /\ status \in [Thread -> Status]
      /\ priority \in [Thread -> Priority] /\ priority' \in [Thread -> Priority]
      /\ pc \in [Thread -> PC] /\ waiters \in [Sema -> Seq(Thread)]
  <2>1. priority' \in [Thread -> Priority]
    BY <1>a, Zenon DEF TypeOK
  <2>2. TypeOK
    BY <1>a, Zenon
  <2> QED
    BY <2>1, <2>2, Zenon DEF TypeOK
<1>c. pc[cur] # "sleep" /\ sleep_list = <<>>
  BY <1>b, Zenon DEF NobodySleeps
<1>s. ASSUME sleep_list' = sleep_list, pc'[cur] # "sleep",
             \A t \in Thread : t # cur => pc'[t] = pc[t] \/ pc'[t] = "run"
      PROVE  NobodySleeps'
  BY <1>s, Zenon DEF NobodySleeps
<1>u. ASSUME NEW t \in Thread
      PROVE  /\ UnblockedList(t) \in Seq(Thread) /\ UnblockedStatus(t) \in [Thread -> Status]
             /\ Sorted(UnblockedList(t), CmpPriority(priority))
  <2>1. UnblockedList(t) \in Seq(Thread) /\ UnblockedStatus(t) \in [Thread -> Status]
    BY <1>a, UnblockType, Zenon
  <2>2. CmpPriority(priority) \in [Thread -> Int]
    BY <1>b, CmpPriorityType, Zenon
  <2>3. Sorted(UnblockedList(t), CmpPriority(priority))
    BY <1>a, <1>b, <2>2, InsertSorted, Zenon DEF UnblockedList
  <2> QED
    BY <2>1, <2>3, Zenon
<1>d. ASSUME NEW s \in Sema, SemaDownStep(s), UNCHANGED <<priority, sleep_list, panic, new>>,
             pc[cur] # "check"
      PROVE  NobodySleeps' /\ Ranked'
  <2>1. /\ pc'[cur] \in {"down", "own", "run"}
        /\ \A t \in Thread : t # cur => pc'[t] = pc[t]
    BY <1>b, <1>d, Zenon DEF SemaDownStep, Goto, AfterDown
  <2>2. NobodySleeps'
    BY <1>d, <1>s, <2>1, Zenon
  <2>3. CASE value[s] = 0
    <3> DEFINE st == [status EXCEPT ![cur] = "BLOCKED"]
    <3>1. Schedule(ready_list, st) /\ st \in [Thread -> Status]
      BY <1>b, <1>d, <2>3, Zenon DEF SemaDownStep, ThreadBlock, Status
    <3> HIDE DEF st
    <3>2. Sorted(ready_list, CmpPriority(priority'))
      BY <1>a, <1>d, Zenon
    <3>3. Ranked'
      BY <1>b, <3>1, <3>2, RankedSwitch, Zenon
    <3> QED
      BY <2>2, <3>3, Zenon
  <2>4. CASE value[s] # 0
    BY <1>d, <2>2, <2>4, RankedStays, Zenon DEF SemaDownStep, sched
  <2> QED
    BY <2>3, <2>4, Zenon
<1>p. ASSUME NEW s \in Sema, SemaUpStep(s), priority' = priority PROVE Ranked'
  <2>1. CASE waiters[s] = <<>>
    <3>1. TestMaxPriority(ready_list, status, priority')
      BY <1>p, <2>1, Zenon DEF SemaUpStep
    <3>2. Sorted(ready_list, CmpPriority(priority'))
      BY <1>a, <1>p, Zenon
    <3> QED
      BY <1>b, <3>1, <3>2, RankedTest, Zenon
  <2>2. CASE waiters[s] # <<>>
    <3> DEFINE t == Head(waiters[s])
    <3>1. waiters[s] \in Seq(Thread)
      BY <1>b, Zenon
    <3>2. t \in Thread
      BY <2>2, <3>1, PopFront, Zenon
    <3>3. TestMaxPriority(UnblockedList(t), UnblockedStatus(t), priority')
      BY <1>p, <2>2, Zenon DEF SemaUpStep
    <3> HIDE DEF t
    <3>4. /\ UnblockedList(t) \in Seq(Thread) /\ UnblockedStatus(t) \in [Thread -> Status]
          /\ Sorted(UnblockedList(t), CmpPriority(priority'))
      BY <1>p, <1>u, <3>2, Zenon
    <3> QED
      BY <1>b, <3>3, <3>4, RankedTest, Zenon
  <2> QED
    BY <2>1, <2>2, Zenon
<1>y. ASSUME ThreadYield(ready_list, status, priority), priority' = priority PROVE Ranked'
  <2>1. Sorted(ready_list, CmpPriority(priority')) /\ ThreadYield(ready_list, status, priority')
    BY <1>a, <1>y, Zenon
  <2> QED
    BY <1>b, <2>1, RankedSwitch, Zenon
<1>1. ASSUME NEW s \in Sema, SemaDown(s) PROVE NobodySleeps' /\ Ranked'
  BY <1>1, <1>d, Zenon DEF SemaDown, At, alarm, intr, tids
<1>2. ASSUME SemaDownWoken PROVE NobodySleeps' /\ Ranked'
  <2>1. arg[cur] \in Sema /\ pc[cur] = "down"
    BY <1>2, <1>a, <1>b, Zenon DEF SemaDownWoken, At, Operands
  <2> QED
    BY <1>2, <1>d, <2>1, Zenon DEF SemaDownWoken, alarm, intr, tids
<1>3. ASSUME NEW s \in Sema, SemaTryDown(s) PROVE NobodySleeps' /\ Ranked'
  BY <1>3, <1>c, <1>s, RankedStays, Zenon DEF SemaTryDown, sched, alarm, intr, tids, control
<1>4. ASSUME NEW s \in Sema, SemaUp(s) PROVE NobodySleeps' /\ Ranked'
  <2>1. NobodySleeps'
    BY <1>4, <1>c, <1>s, Zenon DEF SemaUp, alarm, control
  <2> QED
    BY <1>4, <1>p, <2>1, Zenon DEF SemaUp
<1>5. ASSUME NEW l \in Lock, LockAcquire(l) PROVE NobodySleeps' /\ Ranked'
  <2>1. l \in Sema /\ pc[cur] # "check"
    BY <1>5, ThreadsAssumption, Zenon DEF LockAcquire, At
  <2> QED
    BY <1>5, <1>d, <2>1, Zenon DEF LockAcquire, alarm, intr, tids
<1>6. ASSUME NEW l \in Lock, LockTryAcquire(l) PROVE NobodySleeps' /\ Ranked'
  BY <1>6, <1>b, <1>s, RankedStays, Zenon DEF LockTryAcquire, At, Goto, sched, alarm, intr, tids
<1>7. ASSUME LockOwn PROVE NobodySleeps' /\ Ranked'
  BY <1>7, <1>b, <1>s, RankedStays, Zenon DEF LockOwn, At, Goto, sched, alarm, intr, tids
<1>8. ASSUME NEW l \in Lock, LockRelease(l) PROVE NobodySleeps' /\ Ranked'
  BY <1>8, <1>b, <1>s, RankedStays, Zenon DEF LockRelease, At, Goto, sched, alarm, intr, tids
<1>9. ASSUME LockReleaseUp PROVE NobodySleeps' /\ Ranked'
  <2>1. arg[cur] \in Sema
    BY <1>9, <1>a, <1>b, ThreadsAssumption, Zenon DEF LockReleaseUp, At, Operands
  <2>2. NobodySleeps'
    BY <1>9, <1>b, <1>s, Zenon DEF LockReleaseUp, Goto, AfterUp, alarm
  <2> QED
    BY <1>9, <1>p, <2>1, <2>2, Zenon DEF LockReleaseUp
<1>10. ASSUME NEW t \in Thread, NEW q \in NewPriority, ThreadCreate(t, q)
       PROVE  NobodySleeps' /\ Ranked'
  <2>1. t # cur /\ ~On(t, ready_list)
    BY <1>10, <1>a, <1>b, Zenon DEF ThreadCreate, Lists, Linked, OneRunning
  <2>2. /\ UNCHANGED <<cur, ready_list, sleep_list, panic>> /\ pc[cur] = "run"
        /\ pc'[cur] = "alloc" /\ pc'[t] = "run"
        /\ \A u \in Thread : u \notin {t, cur} => pc'[u] = pc[u]
        /\ \A u \in Thread : u # t => priority'[u] = priority[u]
    BY <1>10, <1>b, <2>1, Zenon DEF ThreadCreate, At, alarm, intr
  <2>3. NobodySleeps'
    BY <1>s, <2>2, Zenon
  <2>4. Ranked'
    BY <1>b, <2>1, <2>2, Zenon DEF Ranked
  <2> QED
    BY <2>3, <2>4, Zenon
<1>11. ASSUME AllocateTidRead PROVE NobodySleeps' /\ Ranked'
  BY <1>11, <1>b, <1>s, RankedStays, Zenon DEF AllocateTidRead, At, Goto, sched, alarm, intr, tids
<1>12. ASSUME AllocateTidWrite PROVE NobodySleeps' /\ Ranked'
  BY <1>12, <1>b, <1>s, RankedStays, Zenon DEF AllocateTidWrite, At, Goto, sched, alarm, intr
<1>13. ASSUME ThreadCreateUnblock PROVE NobodySleeps' /\ Ranked'
  <2> DEFINE t == new[cur]
  <2>1. t \in Thread /\ pc[cur] = "unblock"
    BY <1>13, <1>a, <1>b, Zenon DEF ThreadCreateUnblock, At, Operands, TypeOK
  <2>2. /\ UNCHANGED <<cur, sleep_list, panic, priority, new>>
        /\ pc'[cur] = "check" /\ \A u \in Thread : u # cur => pc'[u] = pc[u]
        /\ ready_list' = UnblockedList(t)
    BY <1>13, <1>b, Zenon DEF ThreadCreateUnblock, Goto, alarm, intr
  <2>3. \A u : On(u, UnblockedList(t)) <=> u = t \/ On(u, ready_list)
    BY <1>a, <2>1, UnblockedOn, Zenon
  <2>4. NobodySleeps'
    BY <1>s, <2>2, Zenon
  <2>5. Ranked'
    BY <2>1, <2>2, <2>3, Zenon DEF Ranked
  <2> QED
    BY <2>4, <2>5, Zenon
<1>14. ASSUME ThreadCreateCheck PROVE NobodySleeps' /\ Ranked'
  <2>1. /\ UNCHANGED <<sleep_list, priority, panic>> /\ pc[cur] = "check" /\ pc'[cur] = "run"
        /\ \A u \in Thread : u # cur => pc'[u] = pc[u]
        /\ new[cur] \in Thread
    BY <1>14, <1>a, <1>b, Zenon DEF ThreadCreateCheck, At, Goto, alarm, intr, Operands, TypeOK
  <2>2. NobodySleeps'
    BY <1>s, <2>1, Zenon
  <2>3. \/ ThreadYield(ready_list, status, priority)
        \/ /\ UNCHANGED sched
           /\ status[new[cur]] = "UNUSED" \/ ~(priority[new[cur]] > priority[cur])
    <3>1. CASE status[new[cur]] = "UNUSED"
      BY <1>14, <3>1, Zenon DEF ThreadCreateCheck
    <3>2. CASE status[new[cur]] # "UNUSED"
      <4>1. IF priority[new[cur]] > priority[cur]
            THEN ThreadYield(ready_list, status, priority) ELSE UNCHANGED sched
        BY <1>14, <3>2, Zenon DEF ThreadCreateCheck
      <4> QED
        BY <4>1, Zenon
    <3> QED
      BY <3>1, <3>2, Zenon
  <2>4. CASE ThreadYield(ready_list, status, priority)
    BY <1>y, <2>1, <2>2, <2>4, Zenon
  <2>5. CASE /\ UNCHANGED sched
             /\ status[new[cur]] = "UNUSED" \/ ~(priority[new[cur]] > priority[cur])
    <3>1. On(new[cur], ready_list) => status[new[cur]] = "READY"
      BY <1>a, <2>1, Zenon DEF Lists, Linked
    <3>2. priority[new[cur]] \in Int /\ priority[cur] \in Int
      BY <1>b, <2>1, ThreadsAssumption DEF Priority
    <3>3. On(new[cur], ready_list) => priority[new[cur]] <= priority[cur]
      BY <2>5, <3>1, <3>2
    <3>4. UNCHANGED <<cur, ready_list>>
      BY <2>5, Zenon DEF sched
    <3>5. Ranked'
      BY <2>1, <3>3, <3>4, Zenon DEF Ranked
    <3> QED
      BY <2>2, <3>5, Zenon
  <2> QED
    BY <2>3, <2>4, <2>5, Zenon
<1>15. ASSUME ThreadExit PROVE NobodySleeps' /\ Ranked'
  <2> DEFINE st == [status EXCEPT ![cur] =
                      IF cur = InitialThread THEN "DYING" ELSE "UNUSED"]
  <2>1. Schedule(ready_list, st) /\ st \in [Thread -> Status]
    BY <1>15, <1>b, Zenon DEF ThreadExit, Status
  <2> HIDE DEF st
  <2>2. Sorted(ready_list, CmpPriority(priority'))
    BY <1>a, <1>15, NextMoves, KeysKept, Zenon DEF Next, ThreadStep
  <2>3. Ranked'
    BY <1>b, <2>1, <2>2, RankedSwitch, Zenon
  <2>4. NobodySleeps'
    BY <1>15, <1>c, <1>s, Zenon DEF ThreadExit, control
  <2> QED
    BY <2>3, <2>4, Zenon
<1>16. ASSUME Yield PROVE NobodySleeps' /\ Ranked'
  <2>1. NobodySleeps'
    BY <1>16, <1>c, <1>s, Zenon DEF Yield, alarm, control
  <2> QED
    BY <1>16, <1>y, <2>1, Zenon DEF Yield
<1>17. ASSUME NEW q \in NewPriority, ThreadSetPriority(q) PROVE NobodySleeps' /\ Ranked'
  <2>1. NobodySleeps'
    BY <1>17, <1>c, <1>s, Zenon DEF ThreadSetPriority, alarm, control
  <2>2. CASE q < priority[cur]
    <3>1. Sorted(ready_list, CmpPriority(priority'))
      BY <1>a, <1>17, NextMoves, KeysKept, Zenon DEF Next, ThreadStep
    <3>2. TestMaxPriority(ready_list, status, priority')
      BY <1>17, <2>2, Zenon DEF ThreadSetPriority
    <3> QED
      BY <1>b, <2>1, <3>1, <3>2, RankedTest, Zenon
  <2>3. CASE ~(q < priority[cur])
    <3>1. UNCHANGED <<cur, ready_list, panic, pc>> /\ priority' = [priority EXCEPT ![cur] = q]
      BY <1>17, <2>3, Zenon DEF ThreadSetPriority, sched, intr, control
    <3>2. /\ priority'[cur] = q
          /\ \A u \in Thread : u # cur => priority'[u] = priority[u]
      BY <1>b, <3>1, Zenon
    <3>3. /\ pc[cur] = "run" /\ q \in Int
          /\ \A u \in Thread : priority[u] \in Int
      BY <1>17, <1>b, ThreadsAssumption DEF ThreadSetPriority, At, Priority
    <3>4. ASSUME ~panic, cur # IdleThread, NEW u \in Thread, On(u, ready_list)
          PROVE  priority'[u] <= priority'[cur]
      <4>1. priority[u] <= priority[cur]
        BY <3>3, <3>4, Zenon DEF Ranked
      <4> QED
        BY <1>b, <2>3, <3>2, <3>3, <4>1
    <3>5. Ranked'
      BY <3>1, <3>4, Zenon DEF Ranked
    <3> QED
      BY <2>1, <3>5, Zenon
  <2> QED
    BY <2>2, <2>3, Zenon
<1>18. ASSUME NEW n \in SleepTicks, TimerSleep(n) PROVE NobodySleeps' /\ Ranked'
  BY Zenon
<1>19. ASSUME ThreadSleep PROVE NobodySleeps' /\ Ranked'
  BY <1>19, <1>c, Zenon DEF ThreadSleep, At
<1>20. ASSUME IdleLoop PROVE NobodySleeps' /\ Ranked'
  <2> DEFINE st == [status EXCEPT ![cur] = "BLOCKED"]
  <2>1. Schedule(ready_list, st) /\ st \in [Thread -> Status]
    BY <1>20, <1>b, Zenon DEF IdleLoop, ThreadBlock, Status
  <2> HIDE DEF st
  <2>2. Sorted(ready_list, CmpPriority(priority'))
    BY <1>a, <1>20, Zenon DEF IdleLoop
  <2>3. Ranked'
    BY <1>b, <2>1, <2>2, RankedSwitch, Zenon
  <2>4. NobodySleeps'
    BY <1>20, <1>b, <1>s, Zenon DEF IdleLoop, Goto, alarm
  <2> QED
    BY <2>3, <2>4, Zenon
<1>21. ASSUME TimerInterrupt PROVE NobodySleeps' /\ Ranked'
  BY <1>21, <1>c, <1>s, RankedStays, Zenon DEF TimerInterrupt, tids, control
<1>22. ASSUME ThreadAwake PROVE NobodySleeps' /\ Ranked'
  BY <1>22, <1>c, Zenon DEF ThreadAwake, SleeperDue
<1>w. ASSUME WakeIdle
      PROVE  /\ pc'[cur] # "sleep" /\ \A t \in Thread : t # cur => pc'[t] = pc[t]
             /\ cur = IdleThread \/ pc' = pc
  BY <1>w, <1>b, <1>c, Zenon DEF WakeIdle
<1>23. ASSUME IntrReturn PROVE NobodySleeps' /\ Ranked'
  <2>1. WakeIdle /\ UNCHANGED <<sleep_list, priority, panic, new>>
    BY <1>23, Zenon DEF IntrReturn, alarm, tids
  <2>2. NobodySleeps'
    BY <1>s, <1>w, <2>1, Zenon
  <2>3. CASE ThreadYield(ready_list, status, priority)
    BY <1>y, <2>1, <2>2, <2>3, Zenon
  <2>4. CASE UNCHANGED sched
    BY <1>w, <2>1, <2>2, <2>4, Zenon DEF sched, Ranked
  <2> QED
    BY <1>23, <2>3, <2>4, Zenon DEF IntrReturn
<1>24. ASSUME NEW s \in IntrSema, DeviceInterrupt(s) PROVE NobodySleeps' /\ Ranked'
  <2> DEFINE l == IF waiters[s] # <<>> THEN UnblockedList(Head(waiters[s])) ELSE ready_list
  <2>1. /\ WakeIdle /\ UNCHANGED <<cur, sleep_list, priority>>
        /\ ready_list' = l /\ panic' = OutrankedBy(l, priority)
    BY <1>24, Zenon DEF DeviceInterrupt, alarm
  <2>2. l \in Seq(Thread) /\ Sorted(l, CmpPriority(priority))
    <3>1. CASE waiters[s] = <<>>
      BY <1>a, <1>b, <3>1, Zenon
    <3>2. CASE waiters[s] # <<>>
      <4>1. waiters[s] \in Seq(Thread)
        BY <1>b, ThreadsAssumption, Zenon
      <4>2. Head(waiters[s]) \in Thread
        BY <3>2, <4>1, PopFront, Zenon
      <4> QED
        BY <1>u, <3>2, <4>2, Zenon
    <3> QED
      BY <3>1, <3>2, Zenon
  <2> HIDE DEF l
  <2>3. NobodySleeps'
    BY <1>s, <1>w, <2>1, Zenon
  <2>4. ~panic' => \A u \in Thread : On(u, l) => priority[u] <= priority[cur]
    <3>1. ~OutrankedBy(l, priority) => \A u \in Thread : On(u, l) => priority[u] <= priority[cur]
      BY <1>b, <2>2, NotOutranked, Zenon
    <3> QED
      BY <2>1, <3>1, Zenon
  <2>5. Ranked'
    BY <2>1, <2>4, Zenon DEF Ranked
  <2> QED
    BY <2>3, <2>5, Zenon
<1>25. ASSUME UNCHANGED vars PROVE NobodySleeps' /\ Ranked'
  BY <1>25, <1>c, <1>s, RankedStays, Zenon DEF vars, sched, alarm, intr, tids, control
<1> QED
  BY <1>1, <1>2, <1>3, <1>4, <1>5, <1>6, <1>7, <1>8, <1>9, <1>10, <1>11, <1>12,
     <1>13, <1>14, <1>15, <1>16, <1>17, <1>18, <1>19, <1>20, <1>21, <1>22, <1>23,
     <1>24, <1>25, Zenon
     DEF Next, ThreadStep, Interrupt, Halted

(* What Ranked says of a running thread that can be interrupted. *)
LEMMA RankedHighest ==
  SInv /\ Ranked => RunningIsHighest
<1> SUFFICES ASSUME SInv, Ranked, InterruptsOn, cur # IdleThread, pc[cur] # "check", Outranked
             PROVE  FALSE
  BY Zenon DEF RunningIsHighest
<1>1. ready_list \in Seq(Thread) /\ ready_list # <<>> /\ cur \in Thread
  BY Zenon DEF SInv, TypeOK, Outranked, OutrankedBy
<1>2. Head(ready_list) \in Thread /\ On(Head(ready_list), ready_list)
  BY <1>1, PopFront, Zenon
<1>3. priority[Head(ready_list)] <= priority[cur]
  BY <1>2, Zenon DEF Ranked, InterruptsOn
<1>4. priority[Head(ready_list)] \in Int /\ priority[cur] \in Int
  BY <1>1, <1>2, ThreadsAssumption DEF SInv, TypeOK, Priority
<1> QED
  BY <1>3, <1>4 DEF Outranked, OutrankedBy
============================================================================
