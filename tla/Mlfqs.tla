------------------------------- MODULE Mlfqs -------------------------------
(***************************************************************************)
(* The feedback-queue scheduler (threads/thread.c, option -mlfqs): what    *)
(* thread_tick, thread_set_nice, blocking and unblocking do to priorities  *)
(* and the ready list, in fixed point.  Interrupts are off in each of      *)
(* these, so each is one step; Threads has the steps in between.           *)
(***************************************************************************)
EXTENDS Kernel, SequencesExt, FiniteSetsExt

CONSTANTS
  FP_F,                         \* 1 in fixed point: 2^14 in the code
  PRI_MAX,                      \* 63 in the code
  TIMER_FREQ, TIME_SLICE,       \* 100 and 4 in the code
  NiceValue,                    \* values thread_set_nice is called with
  MaxCalls, MaxTicks,           \* bounds: calls of thread_set_nice and thread_block; the clock
  MaxWait                       \* ticks within which a ready thread must run

VARIABLES
  running,                      \* NULL: the idle thread
  ready_list, nice, recent_cpu, priority, load_avg,
  ticks, thread_ticks,
  calls,                        \* calls made so far
  waited                        \* history: ticks a thread has been ready without running
q_vars == <<running, ready_list, nice, recent_cpu, priority, load_avg, ticks, thread_ticks, calls, waited>>

ASSUME MlfqsAssumption ==
  {FP_F, PRI_MAX, TIMER_FREQ, TIME_SLICE} \subseteq Nat \ {0} /\ NiceValue \subseteq Int

(* fixed_point_operation: >> rounds down, / towards zero. *)
Quotient(a, b) == IF a >= 0 THEN a \div b ELSE -((-a) \div b)
FP_CONST(n) == n * FP_F
FP_INT_PART(a) == a \div FP_F
FP_MUL(a, c) == (a * c) \div FP_F
FP_DIV(a, c) == Quotient(a * FP_F, c)
FP_DIV_INT(a, b) == Quotient(a, b)

calculate_priority(n, recent) ==
  Max({0, Min({PRI_MAX, FP_INT_PART(FP_CONST(PRI_MAX) - FP_DIV_INT(recent, 4) - FP_CONST(n * 2))})})
calculate_recent_cpu(n, recent, load) ==
  FP_MUL(FP_DIV(2 * load, 2 * load + FP_CONST(1)), recent) + FP_CONST(n)
calculate_load_avg(load, ready) ==
  FP_MUL(FP_DIV_INT(FP_CONST(59), 60), load) + FP_DIV_INT(FP_CONST(1), 60) * ready

(* list_insert_ordered and list_sort, by cmp_priority. *)
InsertOrdered(list, t, pri) ==
  LET i == Cardinality({k \in DOMAIN list : \A j \in 1..k : pri[list[j]] >= pri[t]})
  IN  InsertAt(list, i + 1, t)
Sorted(list, pri) == FoldLeft(LAMBDA l, t : InsertOrdered(l, t, pri), <<>>, list)

(* schedule, with list for the ready list; the slice starts again. *)
Schedule(list) ==
  /\ running' = IF list = <<>> THEN NULL ELSE Head(list)
  /\ ready_list' = IF list = <<>> THEN <<>> ELSE Tail(list)
  /\ thread_ticks' = 0

(* thread_yield; the idle thread is on no list. *)
ThreadYield(list, pri) == Schedule(IF running = NULL THEN list ELSE InsertOrdered(list, running, pri))

Stay(list, slice_ticks) == running' = running /\ ready_list' = list /\ thread_ticks' = slice_ticks

(* thread_tick.  charge: what a tick costs the running thread. *)
TickCharging(charge) ==
  LET now == ticks + 1
      charged == [t \in Thread |-> recent_cpu[t] + (IF t = running THEN charge ELSE 0)]
      second == now % TIMER_FREQ = 0
      load == IF second THEN calculate_load_avg(load_avg, Len(ready_list) + (IF running = NULL THEN 0 ELSE 1))
              ELSE load_avg
      recent == [t \in Thread |-> IF second THEN calculate_recent_cpu(nice[t], charged[t], load) ELSE charged[t]]
      slice == now % TIME_SLICE = 0
      pri == [t \in Thread |-> IF slice THEN calculate_priority(nice[t], recent[t]) ELSE priority[t]]
      list == IF slice THEN Sorted(ready_list, pri) ELSE ready_list
      yield == \/ thread_ticks + 1 >= TIME_SLICE
               \/ running = NULL                           \* idle blocks again
               \/ slice /\ list # <<>> /\ pri[Head(list)] > pri[running]
  IN  /\ now <= MaxTicks
      /\ ticks' = now
      /\ load_avg' = load
      /\ recent_cpu' = recent
      /\ priority' = pri
      /\ IF yield THEN ThreadYield(list, pri) ELSE Stay(list, thread_ticks + 1)
      /\ waited' = [t \in Thread |-> IF Contains(ready_list', t) /\ t # running THEN waited[t] + 1 ELSE 0]
      /\ UNCHANGED <<nice, calls>>

(* Mutant: running costs a thread nothing. *)
ThreadTickUncharged == TickCharging(0)

ThreadTick == TickCharging(FP_CONST(1))

ThreadSetNice(n) ==
  LET pri == [priority EXCEPT ![running] = calculate_priority(n, recent_cpu[running])]
      list == Sorted(ready_list, pri)
  IN  /\ running # NULL
      /\ calls < MaxCalls
      /\ calls' = calls + 1
      /\ nice' = [nice EXCEPT ![running] = n]
      /\ priority' = pri
      /\ IF list # <<>> /\ pri[running] < pri[Head(list)]
         THEN ThreadYield(list, pri) ELSE Stay(list, thread_ticks)
      /\ waited' = [t \in Thread |-> IF t \in {running, running'} THEN 0 ELSE waited[t]]
      /\ UNCHANGED <<recent_cpu, load_avg, ticks>>

ThreadBlock ==
  /\ running # NULL
  /\ calls < MaxCalls
  /\ calls' = calls + 1
  /\ Schedule(ready_list)
  /\ waited' = [waited EXCEPT ![running] = 0]
  /\ UNCHANGED <<nice, recent_cpu, priority, load_avg, ticks>>

(* From an interrupt, after which the idle thread blocks again ... *)
ThreadUnblock(t) ==
  /\ t # running /\ ~Contains(ready_list, t)
  /\ IF running = NULL THEN Schedule(<<t>>) ELSE Stay(InsertOrdered(ready_list, t, priority), thread_ticks)
  /\ waited' = [waited EXCEPT ![t] = 0]
  /\ UNCHANGED <<nice, recent_cpu, priority, load_avg, ticks, calls>>

(* ... or from sema_up of the running thread, which then yields to a       *)
(* thread of higher priority (test_max_priority).                          *)
SemaUp(t) ==
  LET list == InsertOrdered(ready_list, t, priority)
  IN  /\ running # NULL /\ t # running /\ ~Contains(ready_list, t)
      /\ IF priority[running] < priority[Head(list)]
         THEN ThreadYield(list, priority) ELSE Stay(list, thread_ticks)
      /\ waited' = [u \in Thread |-> IF u \in {t, running'} THEN 0 ELSE waited[u]]
      /\ UNCHANGED <<nice, recent_cpu, priority, load_avg, ticks, calls>>

(* A thread has created the others, which took over its nice and           *)
(* recent_cpu of zero (init_thread).                                       *)
MlfqsInit ==
  /\ running = Head(SetToSeq(Thread))
  /\ ready_list = Tail(SetToSeq(Thread))
  /\ nice = [t \in Thread |-> 0] /\ recent_cpu = [t \in Thread |-> 0]
  /\ priority = [t \in Thread |-> calculate_priority(0, 0)]
  /\ load_avg = 0 /\ ticks = 0 /\ thread_ticks = 0 /\ calls = 0
  /\ waited = [t \in Thread |-> 0]

MlfqsNext ==
  \/ ThreadTick
  \/ \E n \in NiceValue : ThreadSetNice(n)
  \/ ThreadBlock
  \/ \E t \in Thread : ThreadUnblock(t) \/ SemaUp(t)

(* The ready list is always in order of priority, every priority is a      *)
(* priority, and nobody starves: with niceness that differs by little, a   *)
(* ready thread runs within MaxWait ticks, whoever slept or was nice       *)
(* before, as what a thread uses is charged to it.                         *)
FairShare ==
  /\ \A i \in 1 .. Len(ready_list) - 1 : priority[ready_list[i]] >= priority[ready_list[i + 1]]
  /\ \A t \in Thread : priority[t] \in 0..PRI_MAX /\ waited[t] <= MaxWait
=============================================================================
