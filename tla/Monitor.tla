------------------------------ MODULE Monitor ------------------------------
(***************************************************************************)
(* Condition variables (threads/synch.c) on a lock and semaphores, which   *)
(* Threads models: here a free lock goes to any thread that wants it.  A   *)
(* thread enters the monitor, may wait, signal or broadcast, and leaves.   *)
(***************************************************************************)
EXTENDS Kernel, SequencesExt

VARIABLES
  waiters,                      \* cond->waiters
  waiter_sema,                  \* the semaphore of each thread's semaphore_elem
  holder,                       \* the lock's
  mpc,                          \* what a thread does next
  asleep                        \* history: who gave the lock up to wait and was not signalled yet
mo_vars == <<waiters, waiter_sema, holder, mpc, asleep>>

MonitorInit ==
  /\ waiters = <<>> /\ asleep = {}
  /\ waiter_sema = [t \in Thread |-> 0]
  /\ holder = NULL
  /\ mpc = [t \in Thread |-> "outside"]

MGoto(t, l) == mpc' = [mpc EXCEPT ![t] = l]

(* lock_acquire, to enter or at the end of cond_wait. *)
Enter(t) ==
  /\ mpc[t] \in {"outside", "reacquire"}
  /\ holder = NULL
  /\ holder' = t
  /\ MGoto(t, "inside")
  /\ UNCHANGED <<waiters, waiter_sema, asleep>>

Leave(t) ==
  /\ mpc[t] = "inside"
  /\ holder' = NULL
  /\ MGoto(t, "outside")
  /\ UNCHANGED <<waiters, waiter_sema, asleep>>

(* cond_wait, up to lock_release or only to list_push_back. *)
Wait(t, push, release, next) ==
  /\ waiter_sema' = IF push THEN [waiter_sema EXCEPT ![t] = 0] ELSE waiter_sema
  /\ waiters' = IF push THEN Append(waiters, t) ELSE waiters
  /\ holder' = IF release THEN NULL ELSE holder
  /\ asleep' = IF release THEN asleep \cup {t} ELSE asleep
  /\ MGoto(t, next)

(* Mutant: the lock is released before the thread is listed as waiting. *)
WaitReleasesFirst(t) ==
  \/ mpc[t] = "inside" /\ Wait(t, FALSE, TRUE, "waiting")
  \/ mpc[t] = "waiting" /\ Wait(t, TRUE, FALSE, "down")

CondWait(t) ==
  \/ mpc[t] = "inside" /\ Wait(t, TRUE, FALSE, "waiting")
  \/ mpc[t] = "waiting" /\ Wait(t, FALSE, TRUE, "down")

(* sema_down on the thread's own semaphore, then back to the lock. *)
WaitDown(t) ==
  /\ mpc[t] = "down"
  /\ waiter_sema[t] > 0
  /\ waiter_sema' = [waiter_sema EXCEPT ![t] = @ - 1]
  /\ MGoto(t, "reacquire")
  /\ UNCHANGED <<waiters, holder, asleep>>

(* cond_signal, and the calls of it that cond_broadcast makes, n in all. *)
Signal(t, n) ==
  /\ mpc[t] = "inside"
  /\ waiter_sema' = [u \in Thread |-> waiter_sema[u] + (IF Contains(SubSeq(waiters, 1, n), u) THEN 1 ELSE 0)]
  /\ waiters' = SubSeq(waiters, n + 1, Len(waiters))
  /\ asleep' = {u \in asleep : waiter_sema'[u] = waiter_sema[u]}
  /\ UNCHANGED <<holder, mpc>>

CondSignal(t) == Signal(t, IF waiters = <<>> THEN 0 ELSE 1)
CondBroadcast(t) == Signal(t, Len(waiters))

MonitorNext ==
  \E t \in Thread : Enter(t) \/ Leave(t) \/ CondWait(t) \/ WaitDown(t) \/ CondSignal(t) \/ CondBroadcast(t)

MonitorSpec == MonitorInit /\ [][MonitorNext]_mo_vars

(* No signal is lost: a thread that has given up the lock to wait is on    *)
(* the list, once, until its semaphore is raised, so every signal raises   *)
(* one of those while there are any; and a thread taken off the list can   *)
(* pass its semaphore, once, even if it was signalled before it got there. *)
NoLostSignal ==
  /\ holder = NULL => ToSet(waiters) = asleep
  /\ \A i, j \in 1 .. Len(waiters) : waiters[i] = waiters[j] => i = j
  /\ \A t \in Thread :
       /\ waiter_sema[t] \in {0, 1}
       /\ mpc[t] = "down" => (t \in asleep <=> waiter_sema[t] = 0)
       /\ holder = t <=> mpc[t] \in {"inside", "waiting"}
=============================================================================
