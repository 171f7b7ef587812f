------------------------------ MODULE Threads ------------------------------
(***************************************************************************)
(* The kernel's priority scheduler, its semaphores and locks, and the      *)
(* alarm clock: threads/thread.c, threads/synch.c, devices/timer.c and the *)
(* interrupt entry of threads/interrupt.c, in SCHEDULING_PRIORITY mode.    *)
(*                                                                         *)
(* There is one CPU.  An action is a stretch of code that no interrupt can *)
(* split: a critical section between intr_disable and intr_set_level, or a *)
(* single access made with interrupts on.  pc[t] is the place inside a     *)
(* kernel function where thread t was left; only "down" (woken inside      *)
(* sema_down) has interrupts off.                                          *)
(***************************************************************************)
EXTENDS FiniteSets, KernelList

CONSTANTS
  Thread,         \* the pages that can hold a struct thread
  InitialThread,  \* "main", the only thread whose page is never freed
  IdleThread,
  Sema,           \* semaphores; a lock is a semaphore with a holder
  Lock,
  TidLock,        \* tid_lock
  IntrSema,       \* semaphores that a device interrupt handler ups
  PriMax,         \* PRI_MAX; PRI_MIN is 0
  PriDefault,     \* PRI_DEFAULT, the priority of main
  TimeSlice,      \* TIME_SLICE
  SleepTicks,     \* the arguments threads give timer_sleep
  IntMax,         \* INT_MAX
  NewPriority,    \* the priorities given to thread_create, thread_set_priority
  Aging,          \* thread_prior_aging
  NULL

ASSUME ThreadsAssumption ==
  /\ {InitialThread, IdleThread} \subseteq Thread
  /\ InitialThread # IdleThread
  /\ NULL \notin Thread
  /\ NULL \notin Sema
  /\ Lock \subseteq Sema
  /\ TidLock \in Lock
  /\ IntrSema \subseteq Sema \ Lock
  /\ PriMax \in Nat
  /\ PriDefault \in 1..PriMax
  /\ TimeSlice \in Nat \ {0}
  /\ SleepTicks \subseteq Nat \ {0}
  /\ IntMax \in Nat
  /\ NewPriority \subseteq 0..PriMax
  /\ Aging \in BOOLEAN

VARIABLES
  cur,               \* the thread on the CPU
  status,            \* t->status; "UNUSED" is a page that is free
  priority,          \* t->priority
  ready_list,
  sleep_list,
  wake_up_time,      \* t->wake_up_time
  value,             \* sema->value
  waiters,           \* sema->waiters
  holder,            \* lock->holder
  tid,               \* t->tid, 0 until allocate_tid
  next_tid,
  ticks,
  thread_ticks,
  in_external_intr,
  yield_on_return,
  pc,                \* where t is inside a kernel function
  arg,               \* the semaphore that function works on
  new,               \* the thread t is creating in thread_create
  tmp,               \* a local: next_tid as read, or the wake-up time
  panic              \* an assertion failed and the kernel stopped

sched == <<cur, status, ready_list, thread_ticks>>
alarm == <<sleep_list, wake_up_time, ticks>>
synch == <<value, waiters, holder>>
tids == <<tid, next_tid, new>>
intr == <<in_external_intr, yield_on_return, panic>>
control == <<pc, arg, tmp>>
vars == <<sched, priority, alarm, synch, tids, intr, control>>

Priority == 0..PriMax
PC == {"run", "down", "own", "up", "sleep", "alloc", "read", "write",
       "release", "unblock", "check", "hlt", "loop"}
Status == {"RUNNING", "READY", "BLOCKED", "DYING", "UNUSED"}
----------------------------------------------------------------------------
(* cmp_priority: greater priority first. *)
CmpPriority(pri) == [t \in Thread |-> PriMax - pri[t]]

(* schedule, next_thread_to_run and thread_schedule_tail: switch to the    *)
(* front of ready_list, here l, or to idle.  stat is the status of every   *)
(* thread once the caller has taken the CPU from cur.                      *)
Schedule(l, stat) ==
  LET next == IF l = <<>> THEN IdleThread ELSE Head(l)
  IN  /\ cur' = next
      /\ ready_list' = IF l = <<>> THEN l ELSE Tail(l)
      /\ status' = [stat EXCEPT ![next] = "RUNNING"]
      /\ thread_ticks' = 0

ThreadBlock == Schedule(ready_list, [status EXCEPT ![cur] = "BLOCKED"])

(* Mutant: list_push_back instead of list_insert_ordered. *)
ThreadYieldPushBack(l, stat, pri) ==
  Schedule(IF cur = IdleThread THEN l ELSE Append(l, cur),
           [stat EXCEPT ![cur] = "READY"])

ThreadYield(l, stat, pri) ==
  Schedule(IF cur = IdleThread THEN l
                               ELSE ListInsertOrdered(l, cur, CmpPriority(pri)),
           [stat EXCEPT ![cur] = "READY"])

OutrankedBy(l, pri) == l # <<>> /\ pri[cur] < pri[Head(l)]

(* test_max_priority, with ready_list l and the threads' status stat. *)
TestMaxPriority(l, stat, pri) ==
  IF OutrankedBy(l, pri)
  THEN ThreadYield(l, stat, pri)
  ELSE ready_list' = l /\ status' = stat /\ UNCHANGED <<cur, thread_ticks>>

(* Mutant: list_push_back instead of list_insert_ordered. *)
UnblockedListPushBack(t) == Append(ready_list, t)

(* thread_unblock: the ready list and the status of threads after it. *)
UnblockedList(t) == ListInsertOrdered(ready_list, t, CmpPriority(priority))
UnblockedStatus(t) == [status EXCEPT ![t] = "READY"]

Goto(p) == pc' = [pc EXCEPT ![cur] = p]

(* The running thread is at p, with no interrupt being handled. *)
At(p) == ~in_external_intr /\ ~panic /\ pc[cur] = p
----------------------------------------------------------------------------
(* Where a thread goes on once its sema_down, or its sema_up, is done. *)
AfterDown(s) == IF s \in Lock THEN "own" ELSE "run"
AfterUp == IF new[cur] # NULL THEN "unblock" ELSE "run"

(* The body of sema_down's while loop and what follows it. *)
SemaDownStep(s) ==
  IF value[s] = 0
  THEN /\ waiters' = [waiters EXCEPT ![s] =
                        ListInsertOrdered(@, cur, CmpPriority(priority))]
       /\ ThreadBlock
       /\ Goto("down")
       /\ arg' = [arg EXCEPT ![cur] = s]
       /\ UNCHANGED value
  ELSE /\ value' = [value EXCEPT ![s] = @ - 1]
       /\ Goto(AfterDown(s))
       /\ arg' = [arg EXCEPT ![cur] = IF s \in Lock THEN s ELSE NULL]
       /\ UNCHANGED <<sched, waiters>>

SemaDown(s) ==
  /\ At("run")
  /\ s \in Sema \ Lock
  /\ SemaDownStep(s)
  /\ UNCHANGED <<priority, alarm, holder, tids, intr, tmp>>

(* sema_down goes on after thread_block, interrupts still off. *)
SemaDownWoken ==
  /\ At("down")
  /\ SemaDownStep(arg[cur])
  /\ UNCHANGED <<priority, alarm, holder, tids, intr, tmp>>

SemaTryDown(s) ==
  /\ At("run")
  /\ s \in Sema \ Lock
  /\ value[s] > 0
  /\ value' = [value EXCEPT ![s] = @ - 1]
  /\ UNCHANGED <<sched, priority, alarm, waiters, holder, tids, intr, control>>

(* Mutant: sema_up wakes a waiter only when the value was 0. *)
SemaUpStepOnlyFromZero(s) ==
  /\ value' = [value EXCEPT ![s] = @ + 1]
  /\ IF waiters[s] = <<>> \/ value[s] > 0
     THEN /\ TestMaxPriority(ready_list, status, priority)
          /\ UNCHANGED waiters
     ELSE LET t == Head(waiters[s])
          IN  /\ waiters' = [waiters EXCEPT ![s] = Tail(@)]
              /\ TestMaxPriority(UnblockedList(t), UnblockedStatus(t), priority)

(* Mutant: the popped waiter is not unblocked. *)
SemaUpStepNoUnblock(s) ==
  /\ value' = [value EXCEPT ![s] = @ + 1]
  /\ TestMaxPriority(ready_list, status, priority)
  /\ waiters' = [waiters EXCEPT ![s] = IF @ = <<>> THEN @ ELSE Tail(@)]

SemaUpStep(s) ==
  /\ value' = [value EXCEPT ![s] = @ + 1]
  /\ IF waiters[s] = <<>>
     THEN /\ TestMaxPriority(ready_list, status, priority)
          /\ UNCHANGED waiters
     ELSE LET t == Head(waiters[s])
          IN  /\ waiters' = [waiters EXCEPT ![s] = Tail(@)]
              /\ TestMaxPriority(UnblockedList(t), UnblockedStatus(t), priority)

SemaUp(s) ==
  /\ At("run")
  /\ s \in Sema \ Lock
  /\ SemaUpStep(s)
  /\ UNCHANGED <<priority, alarm, holder, tids, intr, control>>

(* lock_acquire up to the end of its sema_down.  thread_create calls it    *)
(* too, on tid_lock, from allocate_tid.                                    *)
LockAcquire(l) ==
  /\ \/ At("run") /\ l \in Lock \ {TidLock}
     \/ At("alloc") /\ l = TidLock
  /\ holder[l] # cur
  /\ SemaDownStep(l)
  /\ UNCHANGED <<priority, alarm, holder, tids, intr, tmp>>

(* Mutant: the result of sema_try_down is ignored. *)
LockTryAcquireUnchecked(l) ==
  /\ At("run")
  /\ l \in Lock \ {TidLock}
  /\ holder[l] # cur
  /\ value' = [value EXCEPT ![l] = IF @ > 0 THEN @ - 1 ELSE @]
  /\ Goto("own")
  /\ arg' = [arg EXCEPT ![cur] = l]
  /\ UNCHANGED <<sched, priority, alarm, waiters, holder, tids, intr, tmp>>

LockTryAcquire(l) ==
  /\ At("run")
  /\ l \in Lock \ {TidLock}
  /\ holder[l] # cur
  /\ value[l] > 0
  /\ value' = [value EXCEPT ![l] = @ - 1]
  /\ Goto("own")
  /\ arg' = [arg EXCEPT ![cur] = l]
  /\ UNCHANGED <<sched, priority, alarm, waiters, holder, tids, intr, tmp>>

(* lock->holder = thread_current (), with interrupts back on. *)
LockOwn ==
  /\ At("own")
  /\ holder' = [holder EXCEPT ![arg[cur]] = cur]
  /\ Goto(IF new[cur] # NULL THEN "read" ELSE "run")
  /\ arg' = [arg EXCEPT ![cur] = NULL]
  /\ UNCHANGED <<sched, priority, alarm, value, waiters, tids, intr, tmp>>

(* lock_release clears the holder first and then calls sema_up. *)
LockRelease(l) ==
  /\ \/ At("run") /\ l # TidLock
     \/ At("release") /\ l = TidLock
  /\ holder[l] = cur
  /\ holder' = [holder EXCEPT ![l] = NULL]
  /\ Goto("up")
  /\ arg' = [arg EXCEPT ![cur] = l]
  /\ UNCHANGED <<sched, priority, alarm, value, waiters, tids, intr, tmp>>

LockReleaseUp ==
  /\ At("up")
  /\ SemaUpStep(arg[cur])
  /\ Goto(AfterUp)
  /\ arg' = [arg EXCEPT ![cur] = NULL]
  /\ UNCHANGED <<priority, alarm, holder, tids, intr, tmp>>
----------------------------------------------------------------------------
(* thread_create: take a page and initialise it (init_thread). *)
ThreadCreate(t, p) ==
  /\ At("run")
  /\ status[t] = "UNUSED"
  /\ status' = [status EXCEPT ![t] = "BLOCKED"]
  /\ priority' = [priority EXCEPT ![t] = p]
  /\ tid' = [tid EXCEPT ![t] = 0]
  /\ new' = [new EXCEPT ![cur] = t, ![t] = NULL]
  /\ pc' = [pc EXCEPT ![cur] = "alloc", ![t] = "run"]
  /\ arg' = [arg EXCEPT ![t] = NULL]
  /\ tmp' = [tmp EXCEPT ![t] = 0]
  /\ UNCHANGED <<cur, ready_list, thread_ticks, alarm, synch, next_tid, intr>>

(* tid = next_tid++ inside allocate_tid: a read, then a write. *)
AllocateTidRead ==
  /\ At("read")
  /\ tmp' = [tmp EXCEPT ![cur] = next_tid]
  /\ Goto("write")
  /\ UNCHANGED <<sched, priority, alarm, synch, tids, intr, arg>>

AllocateTidWrite ==
  /\ At("write")
  /\ next_tid' = tmp[cur] + 1
  /\ Goto("release")
  /\ UNCHANGED <<sched, priority, alarm, synch, tid, new, intr, arg, tmp>>

(* Mutant: the tid is taken from next_tid again, after the lock's release. *)
ThreadCreateUnblockRereads ==
  /\ At("unblock")
  /\ tid' = [tid EXCEPT ![new[cur]] = next_tid - 1]
  /\ ready_list' = UnblockedList(new[cur])
  /\ status' = UnblockedStatus(new[cur])
  /\ Goto("check")
  /\ UNCHANGED <<cur, thread_ticks, priority, alarm, synch, next_tid, new,
                 intr, arg, tmp>>

(* The rest of thread_create: t->tid is stored and t joins ready_list. *)
ThreadCreateUnblock ==
  /\ At("unblock")
  /\ tid' = [tid EXCEPT ![new[cur]] = tmp[cur]]
  /\ ready_list' = UnblockedList(new[cur])
  /\ status' = UnblockedStatus(new[cur])
  /\ Goto("check")
  /\ UNCHANGED <<cur, thread_ticks, priority, alarm, synch, next_tid, new,
                 intr, arg, tmp>>

(* ... and the creator yields when t->priority is greater.  Interrupts are *)
(* on: t may have run and exited, and then its page holds anything.        *)
ThreadCreateCheck ==
  /\ At("check")
  /\ \E outranked \in IF status[new[cur]] = "UNUSED" THEN BOOLEAN
                      ELSE {priority[new[cur]] > priority[cur]} :
       IF outranked THEN ThreadYield(ready_list, status, priority)
                    ELSE UNCHANGED sched
  /\ new' = [new EXCEPT ![cur] = NULL]
  /\ tmp' = [tmp EXCEPT ![cur] = 0]
  /\ Goto("run")
  /\ UNCHANGED <<priority, alarm, synch, tid, next_tid, intr, arg>>

(* thread_exit, by a thread that holds no lock; the thread switched to     *)
(* frees the page, and what it held is gone.                               *)
ThreadExit ==
  /\ At("run")
  /\ \A l \in Lock : holder[l] # cur
  /\ Schedule(ready_list,
              [status EXCEPT ![cur] =
                 IF cur = InitialThread THEN "DYING" ELSE "UNUSED"])
  /\ priority' = [priority EXCEPT ![cur] = 0]
  /\ wake_up_time' = [wake_up_time EXCEPT ![cur] = 0]
  /\ tid' = [tid EXCEPT ![cur] = 0]
  /\ UNCHANGED <<sleep_list, ticks, synch, next_tid, new, intr, control>>

Yield ==
  /\ At("run")
  /\ ThreadYield(ready_list, status, priority)
  /\ UNCHANGED <<priority, alarm, synch, tids, intr, control>>

(* Mutant: no test_max_priority after a lowered priority. *)
ThreadSetPriorityNoTest(p) ==
  /\ At("run")
  /\ priority' = [priority EXCEPT ![cur] = p]
  /\ UNCHANGED <<sched, alarm, synch, tids, intr, control>>

ThreadSetPriority(p) ==
  /\ At("run")
  /\ priority' = [priority EXCEPT ![cur] = p]
  /\ IF p < priority[cur]
     THEN TestMaxPriority(ready_list, status, priority')
     ELSE UNCHANGED sched
  /\ UNCHANGED <<alarm, synch, tids, intr, control>>

(* A 64-bit value stored in an int. *)
ToInt(x) == ((x + IntMax + 1) % (2 * (IntMax + 1))) - (IntMax + 1)

(* timer_sleep reads the clock and computes an int abs_wake_up_time;       *)
(* thread_sleep turns interrupts off only later.                           *)
TimerSleep(n) ==
  /\ At("run")
  /\ tmp' = [tmp EXCEPT ![cur] = ToInt(ticks + n)]
  /\ Goto("sleep")
  /\ UNCHANGED <<sched, priority, alarm, synch, tids, intr, arg>>

ThreadSleep ==
  /\ At("sleep")
  /\ IF tmp[cur] <= 0
     THEN UNCHANGED <<sched, wake_up_time, sleep_list>>
     ELSE /\ wake_up_time' = [wake_up_time EXCEPT ![cur] = tmp[cur]]
          /\ sleep_list' = ListInsertOrdered(sleep_list, cur, wake_up_time')
          /\ ThreadBlock
  /\ tmp' = [tmp EXCEPT ![cur] = 0]
  /\ Goto("run")
  /\ UNCHANGED <<priority, ticks, synch, tids, intr, arg>>

(* The idle thread, woken from hlt by an interrupt, blocks again. *)
IdleLoop ==
  /\ At("loop")
  /\ ThreadBlock
  /\ Goto("hlt")
  /\ UNCHANGED <<priority, alarm, synch, tids, intr, arg, tmp>>
----------------------------------------------------------------------------
InterruptsOn == ~in_external_intr /\ ~panic /\ pc[cur] # "down"

(* Mutants: no cap at PRI_MAX; a cap at PRI_DEFAULT. *)
ThreadAgingNoCap ==
  [t \in Thread |-> IF t \in Elems(ready_list) THEN priority[t] + 1 ELSE priority[t]]
ThreadAgingToDefault ==
  [t \in Thread |-> IF t \in Elems(ready_list) /\ priority[t] < PriDefault
                    THEN priority[t] + 1 ELSE priority[t]]

(* thread_aging: every ready thread gains one, up to PRI_MAX. *)
ThreadAging ==
  [t \in Thread |-> IF t \in Elems(ready_list) /\ priority[t] < PriMax
                    THEN priority[t] + 1 ELSE priority[t]]

(* The timer interrupt: intr_handler enters timer_interrupt, which counts  *)
(* the tick and calls thread_tick.                                         *)
TimerInterrupt ==
  /\ InterruptsOn
  /\ in_external_intr' = TRUE
  /\ ticks' = ticks + 1
  /\ thread_ticks' = thread_ticks + 1
  /\ yield_on_return' = (thread_ticks + 1 >= TimeSlice)
  /\ priority' = IF Aging THEN ThreadAging ELSE priority
  /\ UNCHANGED <<cur, status, ready_list, sleep_list, wake_up_time, synch,
                 tids, panic, control>>

(* Mutants: < for <=, so a thread oversleeps; = for <=, so a thread whose  *)
(* time had passed when it was linked is never due.                        *)
SleeperDueLate == sleep_list # <<>> /\ wake_up_time[Head(sleep_list)] < ticks
SleeperDueExact == sleep_list # <<>> /\ wake_up_time[Head(sleep_list)] = ticks

SleeperDue == sleep_list # <<>> /\ wake_up_time[Head(sleep_list)] <= ticks

(* Mutant: the woken thread is not taken off sleep_list. *)
ThreadAwakeNoPop ==
  /\ in_external_intr
  /\ SleeperDue
  /\ ready_list' = UnblockedList(Head(sleep_list))
  /\ status' = UnblockedStatus(Head(sleep_list))
  /\ UNCHANGED <<cur, thread_ticks, priority, alarm, synch, tids, intr, control>>

(* One round of thread_awake's loop. *)
ThreadAwake ==
  /\ in_external_intr
  /\ SleeperDue
  /\ sleep_list' = Tail(sleep_list)
  /\ ready_list' = UnblockedList(Head(sleep_list))
  /\ status' = UnblockedStatus(Head(sleep_list))
  /\ UNCHANGED <<cur, thread_ticks, priority, wake_up_time, ticks, synch, tids,
                 intr, control>>

(* Mutant: idle does not go round its loop after an interrupt. *)
WakeIdleStaysHalted == UNCHANGED pc

(* thread_awake's loop ends and intr_handler returns, yielding if asked.   *)
(* An interrupt takes the idle thread out of its hlt.                      *)
WakeIdle == pc' = IF cur = IdleThread THEN [pc EXCEPT ![cur] = "loop"] ELSE pc

IntrReturn ==
  /\ in_external_intr
  /\ ~SleeperDue
  /\ in_external_intr' = FALSE
  /\ IF yield_on_return THEN ThreadYield(ready_list, status, priority)
                        ELSE UNCHANGED sched
  /\ WakeIdle
  /\ yield_on_return' = FALSE
  /\ UNCHANGED <<priority, alarm, synch, tids, panic, arg, tmp>>

(* A device's interrupt handler calls sema_up (interrupt_handler in        *)
(* devices/ide.c).  When sema_up goes on to thread_yield, the assertion    *)
(* that it is not in interrupt context fails.                              *)
DeviceInterrupt(s) ==
  /\ InterruptsOn
  /\ value' = [value EXCEPT ![s] = @ + 1]
  /\ LET woken == waiters[s] # <<>>
         t     == Head(waiters[s])
         l     == IF woken THEN UnblockedList(t) ELSE ready_list
     IN  /\ waiters' = IF woken THEN [waiters EXCEPT ![s] = Tail(@)] ELSE waiters
         /\ ready_list' = l
         /\ status' = IF woken THEN UnblockedStatus(t) ELSE status
         /\ panic' = OutrankedBy(l, priority)
  /\ WakeIdle
  /\ UNCHANGED <<cur, thread_ticks, priority, alarm, holder, tids,
                 in_external_intr, yield_on_return, arg, tmp>>

(* PANIC never returns. *)
Halted == panic /\ UNCHANGED vars
----------------------------------------------------------------------------
(* The state thread_start leaves behind: main runs with interrupts on.     *)
(* idle is READY but on no list: the sema_up that woke main yielded to it, *)
(* and thread_yield never links idle_thread.                               *)
Init ==
  /\ cur = InitialThread
  /\ status = [t \in Thread |-> CASE t = InitialThread -> "RUNNING"
                                  [] t = IdleThread -> "READY"
                                  [] OTHER -> "UNUSED"]
  /\ priority = [t \in Thread |-> IF t = InitialThread THEN PriDefault ELSE 0]
  /\ ready_list = <<>>
  /\ sleep_list = <<>>
  /\ wake_up_time = [t \in Thread |-> 0]
  /\ value = [s \in Sema |-> IF s \in Lock THEN 1 ELSE 0]
  /\ waiters = [s \in Sema |-> <<>>]
  /\ holder = [l \in Lock |-> NULL]
  /\ tid = [t \in Thread |-> CASE t = InitialThread -> 1
                               [] t = IdleThread -> 2
                               [] OTHER -> 0]
  /\ next_tid = 3
  /\ ticks = 0
  /\ thread_ticks = 0
  /\ in_external_intr = FALSE
  /\ yield_on_return = FALSE
  /\ pc = [t \in Thread |-> IF t = IdleThread THEN "loop" ELSE "run"]
  /\ arg = [t \in Thread |-> NULL]
  /\ new = [t \in Thread |-> NULL]
  /\ tmp = [t \in Thread |-> 0]
  /\ panic = FALSE

ThreadStep ==
  \/ \E s \in Sema : SemaDown(s) \/ SemaTryDown(s) \/ SemaUp(s)
  \/ \E l \in Lock : LockAcquire(l) \/ LockTryAcquire(l) \/ LockRelease(l)
  \/ SemaDownWoken \/ LockOwn \/ LockReleaseUp
  \/ \E t \in Thread, p \in NewPriority : ThreadCreate(t, p)
  \/ AllocateTidRead \/ AllocateTidWrite
  \/ ThreadCreateUnblock \/ ThreadCreateCheck
  \/ ThreadExit \/ Yield \/ IdleLoop \/ ThreadSleep
  \/ \E p \in NewPriority : ThreadSetPriority(p)
  \/ \E n \in SleepTicks : TimerSleep(n)

Interrupt ==
  \/ TimerInterrupt \/ ThreadAwake \/ IntrReturn
  \/ \E s \in IntrSema : DeviceInterrupt(s)

Next == ThreadStep \/ Interrupt \/ Halted

Spec == Init /\ [][Next]_vars

(* Steps of kernel code that its thread takes without asking anybody. *)
KernelStep ==
  \/ SemaDownWoken \/ LockOwn \/ LockReleaseUp \/ LockAcquire(TidLock)
  \/ AllocateTidRead \/ AllocateTidWrite \/ LockRelease(TidLock)
  \/ ThreadCreateUnblock \/ ThreadCreateCheck \/ ThreadSleep \/ IdleLoop
  \/ ThreadAwake \/ IntrReturn
----------------------------------------------------------------------------
(* The variables range over what their C types hold. *)
TypeOK ==
  /\ cur \in Thread
  /\ status \in [Thread -> Status]
  /\ priority \in [Thread -> Priority]
  /\ ready_list \in Seq(Thread)
  /\ sleep_list \in Seq(Thread)
  /\ wake_up_time \in [Thread -> Nat]
  /\ value \in [Sema -> Nat]
  /\ waiters \in [Sema -> Seq(Thread)]
  /\ holder \in [Lock -> Thread \cup {NULL}]
  /\ tid \in [Thread -> Nat]
  /\ next_tid \in Nat
  /\ ticks \in Nat
  /\ thread_ticks \in Nat
  /\ in_external_intr \in BOOLEAN
  /\ yield_on_return \in BOOLEAN
  /\ pc \in [Thread -> PC]
  /\ arg \in [Thread -> Sema \cup {NULL}]
  /\ new \in [Thread -> Thread \cup {NULL}]
  /\ tmp \in [Thread -> Int]
  /\ panic \in BOOLEAN

(* A thread's one list element, t->elem, is never linked into two of the   *)
(* kernel's lists, nor twice into one (thread.h: the run queue, a          *)
(* semaphore's waiters and, in this kernel, sleep_list share it), and the  *)
(* list it is on agrees with its status.                                   *)
ElemOnOneList ==
  /\ NoDuplicates(ready_list) /\ NoDuplicates(sleep_list)
  /\ \A s \in Sema : NoDuplicates(waiters[s])
  /\ \A t \in Thread :
       /\ On(t, ready_list) => status[t] = "READY"
       /\ On(t, sleep_list) => status[t] = "BLOCKED"
       /\ \A s \in Sema :
            On(t, waiters[s]) =>
              /\ status[t] = "BLOCKED"
              /\ ~On(t, sleep_list)
              /\ \A r \in Sema \ {s} : ~On(t, waiters[r])

(* What makes the two invariants above inductive.  A thread that stopped   *)
(* inside a kernel function has that function's operands.                  *)
Operands ==
  \A t \in Thread :
    /\ pc[t] = "down" => arg[t] \in Sema
    /\ pc[t] \in {"own", "up"} => arg[t] \in Lock
    /\ pc[t] \in {"unblock", "check"} => new[t] # NULL
    /\ pc[t] \notin {"sleep", "hlt", "loop"} => tmp[t] \in Nat

(* Ready list rl, sleep list sl and waiters ws agree with the status st,   *)
(* the place p and the semaphore a of every thread.                        *)
Linked(rl, sl, ws, st, p, a) ==
  /\ NoDuplicates(rl) /\ NoDuplicates(sl)
  /\ \A s \in Sema : NoDuplicates(ws[s])
  /\ \A t \in Thread :
       /\ On(t, rl) => st[t] = "READY" /\ t # IdleThread
       /\ On(t, sl) => st[t] = "BLOCKED" /\ p[t] = "run"
       /\ \A s \in Sema :
            On(t, ws[s]) => st[t] = "BLOCKED" /\ p[t] = "down" /\ a[t] = s

(* Exactly the thread on the CPU is RUNNING; idle stays in its loop. *)
OneRunning == \A t \in Thread : status[t] = "RUNNING" <=> t = cur
IdleLoops ==
  /\ status[IdleThread] # "UNUSED"
  /\ \A t \in Thread : pc[t] \in {"hlt", "loop"} <=> t = IdleThread

(* A thread that thread_create has not unblocked yet is on no list and has *)
(* one creator.                                                            *)
Newborn ==
  \A c, t \in Thread :
    new[c] = t /\ pc[c] # "check" =>
      /\ status[t] = "BLOCKED" /\ pc[t] = "run" /\ ~On(t, sleep_list)
      /\ \A d \in Thread : new[d] = t /\ pc[d] # "check" => d = c

(* The inductive invariant: where every thread is, on which list, and in   *)
(* which function, through every interleaving of threads and interrupts.   *)
IInv ==
  /\ Operands
  /\ Linked(ready_list, sleep_list, waiters, status, pc, arg)
  /\ OneRunning
  /\ IdleLoops
  /\ Newborn

(* No thread drops out of the kernel: a ready thread is on ready_list, and *)
(* a blocked one is on a list somebody will take it from, or is still      *)
(* being made by thread_create.                                            *)
NoThreadLost ==
  \A t \in Thread \ {IdleThread} :
    /\ status[t] = "READY" => On(t, ready_list)
    /\ status[t] = "BLOCKED" =>
         \/ On(t, sleep_list)
         \/ \E s \in Sema : On(t, waiters[s])
         \/ \E c \in Thread : new[c] = t /\ pc[c] # "check"

(* Taking the front of a list is taking the most urgent thread: every list *)
(* stays sorted although thread_aging changes priorities of linked threads *)
(* without sorting again.                                                  *)
QueuesSorted ==
  /\ Sorted(ready_list, CmpPriority(priority))
  /\ \A s \in Sema : Sorted(waiters[s], CmpPriority(priority))
  /\ Sorted(sleep_list, wake_up_time)

(* allocate_tid gives no tid twice: live threads differ in theirs. *)
TidsUnique ==
  \A t, u \in Thread : t # u /\ tid[t] = tid[u] => tid[t] = 0

(* The threads inside lock l: sema_down done, sema_up not yet done. *)
Inside(l) ==
  {t \in Thread : holder[l] = t \/ (arg[t] = l /\ pc[t] \in {"own", "up"})}

(* A lock has one thread inside exactly when its semaphore is 0, through   *)
(* the windows of lock_acquire and lock_release in which holder is unset.  *)
LockExclusion ==
  \A l \in Lock : Cardinality(Inside(l)) + value[l] = 1

(* The threads sema_up took from s that have not yet looked at its value. *)
Woken(s) == {t \in Thread : pc[t] = "down" /\ arg[t] = s /\ ~On(t, waiters[s])}

(* No wake-up is lost: while threads wait for s, every unit of its value   *)
(* has a woken thread on its way to it, whoever barges in.                 *)
NoLostWakeup ==
  \A s \in Sema : waiters[s] # <<>> => value[s] <= Cardinality(Woken(s))

(* The CPU never halts while a thread is ready: the idle thread is in hlt  *)
(* only with an empty run queue.                                           *)
NeverIdleWithWork ==
  cur = IdleThread /\ pc[cur] = "hlt" /\ ~in_external_intr => ready_list = <<>>

(* A switch always goes to a thread no ready thread outranks. *)
DispatchesHighest ==
  [][cur' # cur => \A i \in 1..Len(ready_list') :
       priority'[ready_list'[i]] <= priority'[cur']]_vars

Outranked == OutrankedBy(ready_list, priority)

(* timer_sleep wakes on time: when the timer interrupt returns, nobody is  *)
(* left on sleep_list whose wake_up_time has come.                         *)
AwakeOnTime ==
  [][in_external_intr /\ ~in_external_intr' =>
       \A i \in 1..Len(sleep_list') : wake_up_time'[sleep_list'[i]] > ticks']_vars

(* A sleeping thread is woken eventually: the timer never passes it by.    *)
SleeperWakes ==
  \A t \in Thread : On(t, sleep_list) ~> ~On(t, sleep_list)

(* Nobody starves: with aging, every ready thread gets the CPU, whatever   *)
(* priorities the others have (docs/threads.md:197).                       *)
ReadyThreadRuns ==
  \A t \in Thread \ {IdleThread} : status[t] = "READY" ~> status[t] = "RUNNING"

(* docs/threads.md:36: a thread that enters the ready list with a priority *)
(* above the running thread's preempts it.  thread_create is given the     *)
(* time to make its check.                                                 *)
RunningIsHighest ==
  InterruptsOn /\ cur # IdleThread /\ pc[cur] # "check" => ~Outranked

(* synch.c:112, of sema_up: "This function may be called from an interrupt *)
(* handler."                                                               *)
NoPanic == ~panic
============================================================================
