----------------------------- MODULE MCThreads -----------------------------
(***************************************************************************)
(* Threads with bounds for TLC.  MaxTid bounds the threads ever created,   *)
(* MaxValue the value of a semaphore, MaxTicks the clock.  A run has       *)
(* workloads: "mixed", every call with MaxThreads threads, and "create",   *)
(* as many threads as there are pages that use no lock but tid_lock.       *)
(***************************************************************************)
EXTENDS Threads, FiniteSetsExt, TLC

CONSTANTS MaxTicks, MaxValue, MaxTid, MaxThreads, Workload

VARIABLE workload
mc_vars == <<vars, workload>>

Bounded ==
  /\ ticks' <= MaxTicks
  /\ (\E t \in Thread : status[t] = "UNUSED" /\ status'[t] # "UNUSED") =>
       next_tid + Cardinality({c \in Thread : new[c] # NULL}) < MaxTid
  /\ \A s \in Sema : value'[s] <= MaxValue
  /\ IF workload = "create"
     THEN \A s \in Sema \ {TidLock} : value'[s] = value[s] /\ waiters'[s] = waiters[s]
     ELSE Cardinality({t \in Thread : status'[t] # "UNUSED"}) <= MaxThreads

(* Only differences between times matter.  At its bound the clock is moved *)
(* down as far as the sleepers' wake-up times and those that threads are   *)
(* about to sleep with can follow it; a time that has passed stays passed. *)
Future == {wake_up_time[t] : t \in Elems(sleep_list)}
            \cup {tmp[t] - 1 : t \in {u \in Thread : pc[u] = "sleep" /\ tmp[u] > ticks}}
Rebase ==
  LET d == Min({ticks} \cup Future)
  IN  /\ ticks = MaxTicks
      /\ d > 0
      /\ ~in_external_intr
      /\ ticks' = ticks - d
      /\ wake_up_time' = [t \in Thread |-> IF On(t, sleep_list) THEN wake_up_time[t] - d
                                                               ELSE 0]
      /\ tmp' = [t \in Thread |-> IF pc[t] = "sleep" THEN Max({1, tmp[t] - d})
                                                     ELSE tmp[t]]
      /\ UNCHANGED <<sched, priority, sleep_list, synch, tids, intr, pc, arg>>

MCNext == ((Next /\ Bounded) \/ Rebase) /\ UNCHANGED workload
MCInit == Init /\ workload \in Workload
MCSpec == MCInit /\ [][MCNext]_mc_vars

(* The timer keeps interrupting whenever interrupts are on again and again *)
(* (the interrupt controller holds a pending interrupt), and kernel code   *)
(* goes on.  Nothing makes a thread call the kernel.                       *)
MCFairness ==
  /\ SF_vars((TimerInterrupt /\ Bounded) \/ Rebase)
  /\ WF_vars(KernelStep)
MCFairSpec == MCSpec /\ MCFairness

Symmetry == Permutations(Thread \ {InitialThread, IdleThread})
============================================================================
