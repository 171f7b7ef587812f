---------------------------- MODULE WakeupProofs ----------------------------
(***************************************************************************)
(* The two users of a lock and semaphores that a lost wakeup would stop.   *)
(* Condition variables lose no signal, whatever the number of threads.     *)
(* The disks, behind partitions, one channel and its interrupts, are the   *)
(* block devices that BlockDevice specifies, whatever the number of        *)
(* threads, devices, sectors and interrupts for no reason.                 *)
(***************************************************************************)
EXTENDS Monitor, Disk, TLAPS

MTypes ==
  /\ waiters \in Seq(Thread)
  /\ asleep \subseteq Thread
  /\ waiter_sema \in [Thread -> {0, 1}]
  /\ holder \in Thread \cup {NULL}
  /\ mpc \in [Thread -> {"outside", "inside", "waiting", "down", "reacquire"}]

(* The lock is held by the thread that is in the monitor, and by no other. *)
Inside == \A t \in Thread : holder = t <=> mpc[t] \in {"inside", "waiting"}

(* The list has the threads that wait for a signal and the one that        *)
(* cond_wait has listed and that has yet to release the lock ...           *)
Listed == \A t \in Thread : Contains(waiters, t) <=> t \in asleep \/ mpc[t] = "waiting"

(* ... each once.                                                          *)
OnceListed == \A i, j \in 1..Len(waiters) : waiters[i] = waiters[j] => i = j

(* A thread waits at its semaphore, which is down ...                      *)
AtSemaphore == \A t \in asleep : mpc[t] = "down" /\ waiter_sema[t] = 0

(* ... and up only for a thread that was signalled and comes to take it.   *)
UpOnce ==
  /\ \A t \in Thread : waiter_sema[t] = 1 => mpc[t] = "down"
  /\ \A t \in Thread : mpc[t] = "down" /\ waiter_sema[t] = 0 => t \in asleep

MInv == MTypes /\ Inside /\ Listed /\ OnceListed /\ AtSemaphore /\ UpOnce
-----------------------------------------------------------------------------
(* What is left of a list after its first n elements. *)
LEMMA DropFirst ==
  ASSUME NEW S, NEW s \in Seq(S), NEW n \in 0..Len(s)
  PROVE  LET r == SubSeq(s, n + 1, Len(s))
         IN  /\ r \in Seq(S)
             /\ Len(r) = Len(s) - n
             /\ \A i \in 1..Len(s) - n : r[i] = s[i + n]
<1>1. CASE n = Len(s) BY <1>1
<1>2. CASE n < Len(s) BY <1>2
<1> QED BY <1>1, <1>2

(* The first n elements of a list. *)
LEMMA TakeFirst ==
  ASSUME NEW S, NEW s \in Seq(S), NEW n \in 0..Len(s), NEW e
  PROVE  Contains(SubSeq(s, 1, n), e) <=> \E i \in 1..n : s[i] = e
<1> DEFINE r == SubSeq(s, 1, n)
<1>1. Len(r) = n /\ \A i \in 1..n : r[i] = s[i]
  <2>1. CASE n = 0 BY <2>1
  <2>2. CASE n > 0 BY <2>2
  <2> QED BY <2>1, <2>2
<1> HIDE DEF r
<1>2. Contains(r, e) <=> \E i \in 1..n : s[i] = e
  BY <1>1, Zenon DEF Contains
<1> QED BY <1>2, Zenon DEF r

(* A list with one more element. *)
LEMMA OneMore ==
  ASSUME NEW S, NEW s \in Seq(S), NEW e \in S
  PROVE  LET r == Append(s, e)
         IN  /\ r \in Seq(S)
             /\ Len(r) = Len(s) + 1
             /\ \A i \in 1..Len(s) : r[i] = s[i]
             /\ r[Len(s) + 1] = e
OBVIOUS

(* Nobody is in the monitor at the start. *)
LEMMA MInvInit == MonitorInit => MInv
<1> SUFFICES ASSUME MonitorInit PROVE MInv
  BY Zenon
<1> USE DEF MonitorInit
<1>1. MTypes BY DEF MTypes
<1>2. Inside BY KernelAssumption DEF Inside
<1>3. Listed
  <2>1. 1..Len(waiters) = {} /\ asleep = {} /\ \A t \in Thread : mpc[t] = "outside"
    OBVIOUS
  <2> QED BY <2>1, Zenon DEF Listed, Contains
<1>4. OnceListed /\ AtSemaphore /\ UpOnce BY DEF OnceListed, AtSemaphore, UpOnce
<1> QED BY <1>1, <1>2, <1>3, <1>4, Zenon DEF MInv

(* lock_acquire enters the monitor. *)
LEMMA EnterKeeps == ASSUME NEW t \in Thread, MInv, Enter(t) PROVE MInv'
<1> USE DEF MInv
<1>1. mpc[t] \in {"outside", "reacquire"} /\ holder = NULL /\ holder' = t
  BY Zenon DEF Enter
<1>2. mpc' = [mpc EXCEPT ![t] = "inside"]
  BY Zenon DEF Enter, MGoto
<1>3. waiters' = waiters /\ waiter_sema' = waiter_sema /\ asleep' = asleep
  BY Zenon DEF Enter
<1>4. MTypes'
  BY <1>1, <1>2, <1>3, Zenon DEF MTypes
<1>5. Inside'
  BY <1>1, <1>2, KernelAssumption, Zenon DEF Inside, MTypes
<1>6. Listed'
  BY <1>1, <1>2, <1>3, Zenon DEF Listed, MTypes
<1>7. OnceListed'
  BY <1>3, Zenon DEF OnceListed
<1>8. AtSemaphore'
  BY <1>1, <1>2, <1>3, Zenon DEF AtSemaphore, MTypes
<1>9. UpOnce'
  BY <1>1, <1>2, <1>3, Zenon DEF UpOnce, MTypes
<1> QED BY <1>4, <1>5, <1>6, <1>7, <1>8, <1>9, Zenon

(* lock_release leaves it. *)
LEMMA LeaveKeeps == ASSUME NEW t \in Thread, MInv, Leave(t) PROVE MInv'
<1> USE DEF MInv
<1>1. mpc[t] = "inside" /\ holder' = NULL
  BY Zenon DEF Leave
<1>2. mpc' = [mpc EXCEPT ![t] = "outside"]
  BY Zenon DEF Leave, MGoto
<1>3. waiters' = waiters /\ waiter_sema' = waiter_sema /\ asleep' = asleep
  BY Zenon DEF Leave
<1>4. MTypes'
  BY <1>1, <1>2, <1>3, Zenon DEF MTypes
<1>5. Inside'
  BY <1>1, <1>2, KernelAssumption, Zenon DEF Inside, MTypes
<1>6. Listed'
  BY <1>1, <1>2, <1>3, Zenon DEF Listed, MTypes
<1>7. OnceListed'
  BY <1>3, Zenon DEF OnceListed
<1>8. AtSemaphore'
  BY <1>1, <1>2, <1>3, Zenon DEF AtSemaphore, MTypes
<1>9. UpOnce'
  BY <1>1, <1>2, <1>3, Zenon DEF UpOnce, MTypes
<1> QED BY <1>4, <1>5, <1>6, <1>7, <1>8, <1>9, Zenon

(* cond_wait lists the thread ... *)
LEMMA ListKeeps ==
  ASSUME NEW t \in Thread, MInv, mpc[t] = "inside", Wait(t, TRUE, FALSE, "waiting")
  PROVE  MInv'
<1> USE DEF MInv
<1>1. waiters' = Append(waiters, t) /\ holder' = holder /\ asleep' = asleep
  BY Zenon DEF Wait
<1>2. mpc' = [mpc EXCEPT ![t] = "waiting"]
  BY Zenon DEF Wait, MGoto
<1>3. waiter_sema' = [waiter_sema EXCEPT ![t] = 0]
  BY Zenon DEF Wait
<1>4. /\ waiters' \in Seq(Thread)
      /\ Len(waiters') = Len(waiters) + 1
      /\ \A i \in 1..Len(waiters) : waiters'[i] = waiters[i]
      /\ waiters'[Len(waiters) + 1] = t
  BY <1>1, OneMore DEF MTypes
<1>5. waiter_sema[t] = 0
  BY Zenon DEF UpOnce, MTypes
<1>6. waiter_sema' = waiter_sema
  BY <1>3, <1>5, Zenon DEF MTypes
<1>7. Len(waiters) \in Nat /\ t \notin asleep /\ ~Contains(waiters, t)
  <2>1. Len(waiters) \in Nat BY DEF MTypes
  <2>2. t \notin asleep BY Zenon DEF AtSemaphore
  <2> QED BY <2>1, <2>2, Zenon DEF Listed
<1>8. MTypes'
  BY <1>1, <1>2, <1>4, <1>6, Zenon DEF MTypes
<1>9. Inside'
  BY <1>1, <1>2, Zenon DEF Inside, MTypes
<1>10. Listed'
  <2> SUFFICES ASSUME NEW u \in Thread
               PROVE  Contains(waiters', u) <=> u \in asleep' \/ mpc'[u] = "waiting"
    BY Zenon DEF Listed
  <2>1. Contains(waiters', u) <=> Contains(waiters, u) \/ u = t
    BY <1>4, <1>7 DEF Contains
  <2> QED BY <2>1, <1>1, <1>2, Zenon DEF Listed, MTypes
<1>11. OnceListed'
  BY <1>4, <1>7 DEF OnceListed, Contains
<1>12. AtSemaphore'
  BY <1>1, <1>2, <1>6, <1>7, Zenon DEF AtSemaphore, MTypes
<1>13. UpOnce'
  BY <1>1, <1>2, <1>6, Zenon DEF UpOnce, MTypes
<1> QED BY <1>8, <1>9, <1>10, <1>11, <1>12, <1>13, Zenon

(* ... and releases the lock. *)
LEMMA ReleaseKeeps ==
  ASSUME NEW t \in Thread, MInv, mpc[t] = "waiting", Wait(t, FALSE, TRUE, "down")
  PROVE  MInv'
<1> USE DEF MInv
<1>1. waiters' = waiters /\ holder' = NULL /\ asleep' = asleep \cup {t}
  BY Zenon DEF Wait
<1>2. mpc' = [mpc EXCEPT ![t] = "down"]
  BY Zenon DEF Wait, MGoto
<1>3. waiter_sema' = waiter_sema
  BY Zenon DEF Wait
<1>4. waiter_sema[t] = 0
  BY Zenon DEF UpOnce, MTypes
<1>5. MTypes'
  BY <1>1, <1>2, <1>3, Zenon DEF MTypes
<1>6. Inside'
  BY <1>1, <1>2, KernelAssumption, Zenon DEF Inside, MTypes
<1>7. Listed'
  BY <1>1, <1>2, Zenon DEF Listed, MTypes
<1>8. OnceListed'
  BY <1>1, Zenon DEF OnceListed
<1>9. AtSemaphore'
  BY <1>1, <1>2, <1>3, <1>4, Zenon DEF AtSemaphore, MTypes
<1>10. UpOnce'
  BY <1>1, <1>2, <1>3, Zenon DEF UpOnce, MTypes
<1> QED BY <1>5, <1>6, <1>7, <1>8, <1>9, <1>10, Zenon

(* The sema_down of cond_wait, on the semaphore of the waiter alone. *)
LEMMA WaitDownKeeps == ASSUME NEW t \in Thread, MInv, WaitDown(t) PROVE MInv'
<1> USE DEF MInv
<1>1. mpc[t] = "down" /\ waiters' = waiters /\ holder' = holder /\ asleep' = asleep
  BY Zenon DEF WaitDown
<1>2. mpc' = [mpc EXCEPT ![t] = "reacquire"]
  BY Zenon DEF WaitDown, MGoto
<1>3. waiter_sema[t] = 1
  BY DEF WaitDown, MTypes
<1>4. waiter_sema' = [waiter_sema EXCEPT ![t] = 0]
  BY <1>3 DEF WaitDown, MTypes
<1>5. t \notin asleep
  BY <1>3 DEF AtSemaphore
<1>6. MTypes'
  BY <1>1, <1>2, <1>4, Zenon DEF MTypes
<1>7. Inside'
  BY <1>1, <1>2, Zenon DEF Inside, MTypes
<1>8. Listed'
  BY <1>1, <1>2, Zenon DEF Listed, MTypes
<1>9. OnceListed'
  BY <1>1, Zenon DEF OnceListed
<1>10. AtSemaphore'
  BY <1>1, <1>2, <1>4, <1>5, Zenon DEF AtSemaphore, MTypes
<1>11. UpOnce'
  BY <1>1, <1>2, <1>3, <1>4 DEF UpOnce, MTypes
<1> QED BY <1>6, <1>7, <1>8, <1>9, <1>10, <1>11, Zenon

(* cond_signal and cond_broadcast: the first n threads of the list. *)
LEMMA SignalKeeps ==
  ASSUME NEW t \in Thread, NEW n \in 0..Len(waiters), MInv, Signal(t, n)
  PROVE  MInv'
<1> USE DEF MInv
<1> DEFINE First(u) == \E i \in 1..n : waiters[i] = u
<1>1. mpc[t] = "inside" /\ holder' = holder /\ mpc' = mpc
  BY Zenon DEF Signal
<1>2. \A u \in Thread : Contains(waiters, u) <=> u \in asleep
  BY <1>1, Zenon DEF Listed, Inside
<1>3. Len(waiters) \in Nat
  BY DEF MTypes
<1>4. /\ waiters' \in Seq(Thread)
      /\ Len(waiters') = Len(waiters) - n
      /\ \A i \in 1..Len(waiters) - n : waiters'[i] = waiters[i + n]
  <2>1. waiters' = SubSeq(waiters, n + 1, Len(waiters)) /\ waiters \in Seq(Thread)
    BY Zenon DEF Signal, MTypes
  <2> QED BY <2>1, <1>3, DropFirst, Zenon
<1>5. ASSUME NEW u \in Thread, First(u) PROVE u \in asleep
  <2>1. Contains(waiters, u)
    BY <1>3, <1>5 DEF Contains
  <2> QED BY <2>1, <1>2, Zenon
<1>6. \A u \in Thread : /\ waiter_sema'[u] = IF First(u) THEN 1 ELSE waiter_sema[u]
                        /\ waiter_sema'[u] = waiter_sema[u] <=> ~First(u)
  <2> SUFFICES ASSUME NEW u \in Thread
               PROVE  /\ waiter_sema'[u] = IF First(u) THEN 1 ELSE waiter_sema[u]
                      /\ waiter_sema'[u] = waiter_sema[u] <=> ~First(u)
    BY Zenon
  <2>1. waiter_sema'[u] = waiter_sema[u] + (IF Contains(SubSeq(waiters, 1, n), u) THEN 1 ELSE 0)
    BY Zenon DEF Signal
  <2>2. Contains(SubSeq(waiters, 1, n), u) <=> First(u)
    <3>1. waiters \in Seq(Thread) BY DEF MTypes
    <3> QED BY <3>1, TakeFirst, Zenon
  <2>3. First(u) => waiter_sema[u] = 0
    BY <1>5, Zenon DEF AtSemaphore
  <2>4. waiter_sema[u] \in {0, 1}
    BY Zenon DEF MTypes
  <2> HIDE DEF First
  <2> QED BY <2>1, <2>2, <2>3, <2>4
<1>7. asleep' = {u \in asleep : ~First(u)}
  <2>1. asleep' = {u \in asleep : waiter_sema'[u] = waiter_sema[u]} /\ asleep \subseteq Thread
    BY Zenon DEF Signal, MTypes
  <2> HIDE DEF First
  <2> QED BY <2>1, <1>6, Zenon
<1>8. waiter_sema' \in [Thread -> {0, 1}]
  <2>1. waiter_sema' = [u \in Thread |-> waiter_sema'[u]]
    BY Zenon DEF Signal
  <2> HIDE DEF First
  <2>2. \A u \in Thread : waiter_sema'[u] \in {0, 1}
    BY <1>6, Zenon DEF MTypes
  <2> QED BY <2>1, <2>2, Zenon
<1>9. MTypes'
  <2> HIDE DEF First
  <2> QED BY <1>1, <1>4, <1>7, <1>8, Zenon DEF MTypes
<1>10. Inside'
  BY <1>1, Zenon DEF Inside
<1>11. Listed'
  <2> SUFFICES ASSUME NEW u \in Thread
               PROVE  Contains(waiters', u) <=> u \in asleep' \/ mpc'[u] = "waiting"
    BY Zenon DEF Listed
  <2>1. mpc'[u] # "waiting"
    BY <1>1, Zenon DEF Inside
  <2>2. Contains(waiters', u) <=> Contains(waiters, u) /\ ~First(u)
    <3>1. ASSUME NEW i \in 1..Len(waiters'), waiters'[i] = u PROVE Contains(waiters, u) /\ ~First(u)
      <4>1. i + n \in 1..Len(waiters) /\ waiters[i + n] = u /\ i + n \notin 1..n
        BY <3>1, <1>3, <1>4
      <4>2. ASSUME NEW j \in 1..n, waiters[j] = u PROVE FALSE
        BY <4>1, <4>2, <1>3 DEF OnceListed
      <4> QED BY <4>1, <4>2, Zenon DEF Contains
    <3>2. ASSUME Contains(waiters, u), ~First(u) PROVE Contains(waiters', u)
      <4>1. PICK i \in 1..Len(waiters) : waiters[i] = u
        BY <3>2, Zenon DEF Contains
      <4>2. i - n \in 1..Len(waiters') /\ waiters'[i - n] = u
        BY <4>1, <3>2, <1>3, <1>4
      <4> QED BY <4>2, Zenon DEF Contains
    <3> HIDE DEF First
    <3> QED BY <3>1, <3>2, Zenon DEF Contains
  <2> HIDE DEF First
  <2> QED BY <2>1, <2>2, <1>2, <1>7, Zenon
<1>12. OnceListed'
  BY <1>3, <1>4 DEF OnceListed
<1> HIDE DEF First
<1>13. AtSemaphore'
  BY <1>1, <1>6, <1>7, Zenon DEF AtSemaphore, MTypes
<1>14. UpOnce'
  <2>1. ASSUME NEW u \in Thread, waiter_sema'[u] = 1 PROVE mpc'[u] = "down"
    <3>1. CASE First(u)
      BY <3>1, <1>1, <1>5, Zenon DEF AtSemaphore
    <3>2. CASE ~First(u)
      BY <3>2, <2>1, <1>1, <1>6, Zenon DEF UpOnce
    <3> QED BY <3>1, <3>2, Zenon
  <2>2. ASSUME NEW u \in Thread, mpc'[u] = "down", waiter_sema'[u] = 0 PROVE u \in asleep'
    <3>1. ~First(u) /\ waiter_sema[u] = 0
      BY <2>2, <1>6
    <3> QED BY <2>2, <3>1, <1>1, <1>7, Zenon DEF UpOnce
  <2> QED BY <2>1, <2>2, Zenon DEF UpOnce
<1> QED BY <1>9, <1>10, <1>11, <1>12, <1>13, <1>14, Zenon

(* Every step keeps MInv. *)
LEMMA MInvNext == MInv /\ [MonitorNext]_mo_vars => MInv'
<1> SUFFICES ASSUME MInv, [MonitorNext]_mo_vars PROVE MInv'
  BY Zenon
<1>1. CASE UNCHANGED mo_vars
  BY <1>1 DEF mo_vars, MInv, MTypes, Inside, Listed, OnceListed, AtSemaphore, UpOnce, Contains
<1>2. ASSUME NEW t \in Thread, Enter(t) PROVE MInv'
  BY <1>2, EnterKeeps, Zenon
<1>3. ASSUME NEW t \in Thread, Leave(t) PROVE MInv'
  BY <1>3, LeaveKeeps, Zenon
<1>4. ASSUME NEW t \in Thread, CondWait(t) PROVE MInv'
  BY <1>4, ListKeeps, ReleaseKeeps, Zenon DEF CondWait
<1>5. ASSUME NEW t \in Thread, WaitDown(t) PROVE MInv'
  BY <1>5, WaitDownKeeps, Zenon
<1>6. ASSUME NEW t \in Thread, CondSignal(t) PROVE MInv'
  <2>1. (IF waiters = <<>> THEN 0 ELSE 1) \in 0..Len(waiters)
    BY DEF MInv, MTypes
  <2> QED BY <1>6, <2>1, SignalKeeps, Zenon DEF CondSignal
<1>7. ASSUME NEW t \in Thread, CondBroadcast(t) PROVE MInv'
  <2>1. Len(waiters) \in 0..Len(waiters)
    BY DEF MInv, MTypes
  <2> QED BY <1>7, <2>1, SignalKeeps, Zenon DEF CondBroadcast
<1> QED BY <1>1, <1>2, <1>3, <1>4, <1>5, <1>6, <1>7, Zenon DEF MonitorNext

(* The inductive invariant of condition variables (threads/synch.c): the   *)
(* list is the threads that wait, each once, at a semaphore that is up     *)
(* only for a thread that was signalled.                                   *)
THEOREM MInvHolds == MonitorSpec => []MInv
<1> QED BY MInvInit, MInvNext, PTL DEF MonitorSpec

(* No signal is lost, for any number of threads: between cond_wait's       *)
(* list_push_back, lock_release and sema_down the other threads may signal *)
(* and broadcast as they like.                                             *)
THEOREM NoLostSignalHolds == MonitorSpec => []NoLostSignal
<1>1. MInv => NoLostSignal
  <2> SUFFICES ASSUME MInv PROVE NoLostSignal
    BY Zenon
  <2> USE DEF MInv
  <2>1. ASSUME holder = NULL PROVE ToSet(waiters) = asleep
    <3>1. waiters \in Seq(Thread) /\ asleep \subseteq Thread
      BY Zenon DEF MTypes
    <3>2. \A t \in Thread : Contains(waiters, t) <=> t \in asleep
      BY <2>1, KernelAssumption, Zenon DEF Listed, Inside
    <3>3. DOMAIN waiters = 1..Len(waiters) /\ \A i \in 1..Len(waiters) : waiters[i] \in Thread
      BY <3>1
    <3> QED BY <3>1, <3>2, <3>3, Zenon DEF ToSet, Contains
  <2>2. ASSUME NEW t \in Thread PROVE waiter_sema[t] \in {0, 1}
    BY Zenon DEF MTypes
  <2>3. ASSUME NEW t \in Thread, mpc[t] = "down" PROVE t \in asleep <=> waiter_sema[t] = 0
    BY <2>3, Zenon DEF AtSemaphore, UpOnce, MTypes
  <2>4. ASSUME NEW t \in Thread PROVE holder = t <=> mpc[t] \in {"inside", "waiting"}
    BY Zenon DEF Inside
  <2>5. \A i, j \in 1..Len(waiters) : waiters[i] = waiters[j] => i = j
    BY Zenon DEF OnceListed
  <2> QED BY <2>1, <2>2, <2>3, <2>4, <2>5, Zenon DEF NoLostSignal
<1> QED BY <1>1, MInvHolds, PTL
-----------------------------------------------------------------------------
(* No sector is two devices'.  Neither the block layer nor partition.c     *)
(* checks this: a write to a partition is seen through another that        *)
(* overlaps it, or through the whole disk.                                 *)
DevicesApart ==
  \A d, e \in Device : \A i \in Sectors(d), j \in Sectors(e) :
    d.disk = e.disk /\ d.start + i = e.start + j => d = e /\ i = j

States == {"idle", "reading", "starting", "drq", "writing"}
Places == {"idle", "lock", "select", "issue", "down", "busy", "return"}
Working(t) == dpc[t] \in {"select", "issue", "down", "busy"}
Told(t) == dpc[t] \in {"down", "busy"}

DTypes ==
  /\ channel \in [lock : SUBSET Client, expecting_interrupt : BOOLEAN, completion_wait : Nat]
  /\ ctl \in [state : States, dev : {0, 1}, sec : Nat, buffer : Data]
  /\ disk \in [{0, 1} -> [DiskSectors -> Data]]
  /\ dpc \in [Client -> Places]
  /\ dreq \in [Client -> [dev : Device, sec : Nat, data : Data \cup {"read"}, result : Data]]

(* The channel's lock is held by the thread that works with it. *)
Locked == \A t \in Client : Working(t) => channel.lock = {t}

(* A request is for a sector of its device. *)
InRange == \A t \in Client : dpc[t] # "idle" => dreq[t].sec \in Sectors(dreq[t].dev)

(* The controller was told the request's sector, and is where the request  *)
(* needs it, though the semaphore may be up from an interrupt for no       *)
(* reason.                                                                 *)
Follows(t) ==
  /\ dpc[t] = "issue" => ctl.state = "idle"
  /\ Told(t) \/ dpc[t] = "issue" =>
       ctl.dev = dreq[t].dev.disk /\ ctl.sec = dreq[t].dev.start + dreq[t].sec
  /\ Told(t) /\ ~IsWrite(t) =>
       \/ ctl.state = "reading"
       \/ ctl.state = "drq" /\ ctl.buffer = disk[ctl.dev][ctl.sec]
  /\ dpc[t] = "busy" /\ IsWrite(t) => ctl.state \in {"starting", "drq"}
  /\ dpc[t] = "down" /\ IsWrite(t) => ctl.state \in {"writing", "idle"}

(* A sector that is being read or, perhaps after its request has returned, *)
(* written is on the disk.                                                 *)
SectorThere == ctl.state \in {"reading", "writing"} => ctl.sec \in DiskSectors

DInv == DTypes /\ Locked /\ InRange /\ (\A t \in Client : Follows(t)) /\ SectorThere
-----------------------------------------------------------------------------
(* The empty block is a block of data. *)
LEMMA BlankData == Blank \in Data
BY DiskAssumption, Zenon DEF Blank

(* The empty request is a request. *)
LEMMA NoDreqType ==
  /\ NoDreq \in [dev : Device, sec : Nat, data : Data \cup {"read"}, result : Data]
  /\ NoDreq.data = "read"
BY DiskAssumption, BlankData, Zenon DEF NoDreq

(* The sectors of a device are sectors of its disk. *)
LEMMA OnDisk ==
  ASSUME NEW dev \in Device, NEW sec \in Sectors(dev)
  PROVE  dev.disk \in {0, 1} /\ dev.start \in Nat /\ sec \in Nat /\ dev.start + sec \in DiskSectors
<1>1. dev.disk \in {0, 1} /\ dev.start \in Nat /\ dev.size \in Nat
  BY DiskAssumption, Zenon
<1>2. sec \in Nat /\ sec <= dev.size - 1
  BY <1>1 DEF Sectors
<1>3. dev.start + sec \in dev.start .. dev.start + dev.size - 1
  BY <1>1, <1>2
<1> QED BY <1>1, <1>2, <1>3, Zenon DEF DiskSectors

(* At most one thread works with the channel. *)
LEMMA OneWorks ==
  ASSUME Locked, NEW t \in Client, NEW u \in Client, Working(t), Working(u)
  PROVE  t = u
BY Zenon DEF Locked

(* At boot no channel is in use. *)
LEMMA DInvInit == DiskInit => DInv
<1> SUFFICES ASSUME DiskInit PROVE DInv
  BY Zenon
<1>1. DTypes
  <2>1. channel \in [lock : SUBSET Client, expecting_interrupt : BOOLEAN, completion_wait : Nat]
    BY Zenon DEF DiskInit
  <2>2. ctl \in [state : States, dev : {0, 1}, sec : Nat, buffer : Data]
    BY BlankData, Zenon DEF DiskInit, States
  <2>3. disk \in [{0, 1} -> [DiskSectors -> Data]]
    BY BlankData, Zenon DEF DiskInit
  <2>4. dpc \in [Client -> Places]
    BY Zenon DEF DiskInit, Places
  <2>5. dreq \in [Client -> [dev : Device, sec : Nat, data : Data \cup {"read"}, result : Data]]
    BY NoDreqType, Zenon DEF DiskInit
  <2> QED BY <2>1, <2>2, <2>3, <2>4, <2>5, Zenon DEF DTypes
<1>2. \A t \in Client : dpc[t] = "idle"
  BY Zenon DEF DiskInit
<1>3. ctl.state = "idle"
  BY Zenon DEF DiskInit
<1>4. Locked /\ InRange
  BY <1>2, Zenon DEF Locked, Working, InRange
<1>5. \A t \in Client : Follows(t)
  BY <1>2, Zenon DEF Follows, Told
<1>6. SectorThere
  BY <1>3, Zenon DEF SectorThere
<1> QED BY <1>1, <1>4, <1>5, <1>6, Zenon DEF DInv
-----------------------------------------------------------------------------
(* What a request looks like to its caller depends on the controller only  *)
(* while the thread reads with it.                                         *)
LEMMA AskedFrame ==
  ASSUME NEW t \in Client, dpc'[t] = dpc[t], dreq'[t] = dreq[t],
         Told(t) /\ ~IsWrite(t) =>
           (ctl'.state = "drq" <=> ctl.state = "drq") /\ (ctl.state = "drq" => ctl'.buffer = ctl.buffer)
  PROVE  Asked(t)' = Asked(t)
<1>1. IsWrite(t)' = IsWrite(t)
  BY Zenon DEF IsWrite
<1>2. Served(t)' = Served(t)
  BY <1>1, Zenon DEF Served, Told
<1>3. CASE Served(t) /\ ~IsWrite(t) /\ dpc[t] # "return"
  BY <1>1, <1>2, <1>3, Zenon DEF Asked, Served, Told
<1>4. CASE ~(Served(t) /\ ~IsWrite(t) /\ dpc[t] # "return")
  BY <1>1, <1>2, <1>4, Zenon DEF Asked
<1> QED BY <1>3, <1>4, Zenon

(* Nothing changes for the callers. *)
Same == Stored' = Stored /\ \A t \in Client : Asked(t)' = Asked(t)

(* One request is served: only its sector changes, to what it writes, and  *)
(* only its caller's request.                                              *)
ServesOne(t) ==
  /\ dpc[t] # "idle" /\ ~Served(t)
  /\ dreq[t].sec \in Sectors(dreq[t].dev) /\ dreq[t].dev \in Device
  /\ Stored' = IF IsWrite(t)
               THEN [Stored EXCEPT ![dreq[t].dev.disk][dreq[t].dev.start + dreq[t].sec] = dreq[t].data]
               ELSE Stored
  /\ Asked(t)' = [kind |-> "done", data |-> Stored'[dreq[t].dev.disk][dreq[t].dev.start + dreq[t].sec]]
  /\ \A u \in Client \ {t} : Asked(u)' = Asked(u)

(* A step that writes no sector leaves what the devices hold. *)
LEMMA StoredSame ==
  ASSUME disk' = disk, ctl'.state = ctl.state,
         ctl.state = "writing" => ctl' = ctl
  PROVE  Stored' = Stored
BY Zenon DEF Stored

(* block_read and block_write make a request. *)
LEMMA RequestKeeps ==
  ASSUME DInv, NEW t \in Client, NEW dev \in Device, NEW sec \in Sectors(dev),
         NEW data \in Data \cup {"read"}, Request(t, dev, sec, data)
  PROVE  /\ DInv'
         /\ Stored' = Stored
         /\ Asked(t) = [kind |-> "none"]
         /\ Asked(t)' = [kind |-> "waiting", dev |-> dev, sec |-> sec, data |-> data]
         /\ \A u \in Client \ {t} : Asked(u)' = Asked(u)
<1> DEFINE r == [NoDreq EXCEPT !.dev = dev, !.sec = sec, !.data = data]
<1>1. /\ dpc[t] = "idle" /\ dpc' = [dpc EXCEPT ![t] = "lock"]
      /\ channel' = channel /\ ctl' = ctl /\ disk' = disk
  BY Zenon DEF Request, DGoto
<1>2. dreq' = [dreq EXCEPT ![t] = r]
  BY Zenon DEF Request
<1>3. /\ r \in [dev : Device, sec : Nat, data : Data \cup {"read"}, result : Data]
      /\ r.dev = dev /\ r.sec = sec /\ r.data = data
  BY NoDreqType, OnDisk, Zenon
<1> HIDE DEF r
<1>4. DTypes'
  BY <1>1, <1>2, <1>3, Zenon DEF DInv, DTypes, Places
<1>5. dreq'[t] = r /\ dpc'[t] = "lock"
  BY <1>1, <1>2, Zenon DEF DInv, DTypes
<1>6. \A u \in Client \ {t} : dreq'[u] = dreq[u] /\ dpc'[u] = dpc[u]
  BY <1>1, <1>2, Zenon DEF DInv, DTypes
<1>7. Locked'
  BY <1>1, <1>5, <1>6, Zenon DEF DInv, Locked, Working
<1>8. InRange'
  BY <1>3, <1>5, <1>6, Zenon DEF DInv, InRange
<1>9. \A u \in Client : Follows(u)'
  BY <1>1, <1>5, <1>6, Zenon DEF DInv, Follows, Told, IsWrite
<1>10. SectorThere'
  BY <1>1, Zenon DEF DInv, SectorThere
<1>11. DInv'
  BY <1>4, <1>7, <1>8, <1>9, <1>10, Zenon DEF DInv
<1>12. Stored' = Stored
  BY <1>1, StoredSame, Zenon
<1>13. Asked(t) = [kind |-> "none"]
  BY <1>1, Zenon DEF Asked
<1>14. Asked(t)' = [kind |-> "waiting", dev |-> dev, sec |-> sec, data |-> data]
  BY <1>3, <1>5, Zenon DEF Asked, Served
<1>15. ASSUME NEW u \in Client \ {t} PROVE Asked(u)' = Asked(u)
  BY <1>1, <1>6, AskedFrame, Zenon
<1> QED BY <1>11, <1>12, <1>13, <1>14, <1>15, Zenon

(* lock_acquire on the channel. *)
LEMMA AcquireKeeps ==
  ASSUME DInv, NEW t \in Client, Acquire(t) PROVE DInv' /\ Same
<1>1. /\ dpc[t] = "lock" /\ dpc' = [dpc EXCEPT ![t] = "select"] /\ channel.lock = {}
      /\ channel' = [channel EXCEPT !.lock = {t}] /\ ctl' = ctl /\ disk' = disk /\ dreq' = dreq
  BY Zenon DEF Acquire, DGoto
<1>2. dpc'[t] = "select" /\ \A u \in Client \ {t} : dpc'[u] = dpc[u]
  BY <1>1, Zenon DEF DInv, DTypes
<1>3. DTypes'
  BY <1>1, Zenon DEF DInv, DTypes, Places
<1>4. \A u \in Client : ~Working(u)
  BY <1>1, Zenon DEF DInv, Locked
<1>5. channel'.lock = {t}
  BY <1>1, Zenon DEF DInv, DTypes
<1>6. Locked'
  BY <1>2, <1>4, <1>5, Zenon DEF Locked, Working
<1>7. InRange'
  BY <1>1, <1>2, Zenon DEF DInv, InRange
<1>8. \A u \in Client : Follows(u)'
  BY <1>1, <1>2, <1>4, Zenon DEF Follows, Told, IsWrite, Working
<1>9. SectorThere'
  BY <1>1, Zenon DEF DInv, SectorThere
<1>10. Stored' = Stored
  BY <1>1, StoredSame, Zenon
<1>11. ASSUME NEW u \in Client \ {t} PROVE Asked(u)' = Asked(u)
  BY <1>1, <1>2, AskedFrame, Zenon
<1>12. Asked(t)' = Asked(t)
  BY <1>1, <1>2, Zenon DEF Asked, Served, IsWrite
<1> QED BY <1>3, <1>6, <1>7, <1>8, <1>9, <1>10, <1>11, <1>12, Zenon DEF DInv, Same

(* select_sector chooses the device and the sector. *)
LEMMA SelectKeeps ==
  ASSUME DInv, NEW t \in Client, Select(t) PROVE DInv' /\ Same
<1>1. /\ dpc[t] = "select" /\ dpc' = [dpc EXCEPT ![t] = "issue"] /\ ctl.state = "idle"
      /\ ctl' = [ctl EXCEPT !.dev = dreq[t].dev.disk, !.sec = dreq[t].dev.start + dreq[t].sec]
      /\ channel' = channel /\ disk' = disk /\ dreq' = dreq
  BY Zenon DEF Select, DGoto
<1>2. dpc'[t] = "issue" /\ \A u \in Client \ {t} : dpc'[u] = dpc[u]
  BY <1>1, Zenon DEF DInv, DTypes
<1>3. dreq[t].dev \in Device /\ dreq[t].sec \in Sectors(dreq[t].dev)
  BY <1>1, Zenon DEF DInv, DTypes, InRange
<1>4. dreq[t].dev.disk \in {0, 1} /\ dreq[t].dev.start + dreq[t].sec \in Nat
  BY <1>3, OnDisk
<1>5. /\ ctl' \in [state : States, dev : {0, 1}, sec : Nat, buffer : Data]
      /\ ctl'.state = "idle"
      /\ ctl'.dev = dreq[t].dev.disk /\ ctl'.sec = dreq[t].dev.start + dreq[t].sec
  BY <1>1, <1>4, Zenon DEF DInv, DTypes
<1>6. DTypes'
  BY <1>1, <1>5, Zenon DEF DInv, DTypes, Places
<1>7. \A u \in Client \ {t} : ~Working(u)
  BY <1>1, OneWorks, Zenon DEF DInv, Working
<1>8. Locked'
  BY <1>1, <1>2, <1>7, Zenon DEF DInv, Locked, Working
<1>9. InRange'
  BY <1>1, <1>2, Zenon DEF DInv, InRange
<1>10. \A u \in Client : Follows(u)'
  BY <1>1, <1>2, <1>5, <1>7 DEF Follows, Told, IsWrite, Working
<1>11. SectorThere'
  BY <1>5, Zenon DEF SectorThere
<1>12. Stored' = Stored
  BY <1>1, <1>5, StoredSame, Zenon
<1>13. ASSUME NEW u \in Client \ {t} PROVE Asked(u)' = Asked(u)
  BY <1>1, <1>2, <1>7, AskedFrame, Zenon DEF Working, Told
<1>14. Asked(t)' = Asked(t)
  BY <1>1, <1>2, Zenon DEF Asked, Served, IsWrite
<1> QED BY <1>6, <1>8, <1>9, <1>10, <1>11, <1>12, <1>13, <1>14, Zenon DEF DInv, Same

(* issue_pio_command starts the device, expecting its interrupt. *)
LEMMA IssueKeeps ==
  ASSUME DInv, NEW t \in Client, Issue(t) PROVE DInv' /\ Same
<1>1. /\ dpc[t] = "issue" /\ dpc' = [dpc EXCEPT ![t] = IF IsWrite(t) THEN "busy" ELSE "down"]
      /\ ctl' = [ctl EXCEPT !.state = IF IsWrite(t) THEN "starting" ELSE "reading"]
      /\ channel' = [channel EXCEPT !.expecting_interrupt = TRUE] /\ disk' = disk /\ dreq' = dreq
  BY Zenon DEF Issue, IssueExpecting, DGoto
<1>2. /\ dpc'[t] = IF IsWrite(t) THEN "busy" ELSE "down"
      /\ \A u \in Client \ {t} : dpc'[u] = dpc[u]
  BY <1>1, Zenon DEF DInv, DTypes
<1>3. /\ ctl' \in [state : States, dev : {0, 1}, sec : Nat, buffer : Data]
      /\ ctl'.state = IF IsWrite(t) THEN "starting" ELSE "reading"
      /\ ctl'.dev = ctl.dev /\ ctl'.sec = ctl.sec
  BY <1>1, Zenon DEF DInv, DTypes, States
<1>4. channel'.lock = channel.lock
  BY <1>1, Zenon DEF DInv, DTypes
<1>5. DTypes'
  BY <1>1, <1>3, Zenon DEF DInv, DTypes, Places
<1>6. \A u \in Client \ {t} : ~Working(u)
  BY <1>1, OneWorks, Zenon DEF DInv, Working
<1>7. Locked'
  BY <1>1, <1>2, <1>4, <1>6, Zenon DEF DInv, Locked, Working
<1>8. InRange'
  BY <1>1, <1>2, Zenon DEF DInv, InRange
<1>9. \A u \in Client : Follows(u)'
  <2>1. Follows(t)'
    BY <1>1, <1>2, <1>3 DEF DInv, Follows, Told, IsWrite
  <2>2. ASSUME NEW u \in Client \ {t} PROVE Follows(u)'
    BY <1>2, <1>6, Zenon DEF Follows, Told, IsWrite, Working
  <2> QED BY <2>1, <2>2, Zenon
<1>10. SectorThere'
  <2>1. dreq[t].dev \in Device /\ dreq[t].sec \in Sectors(dreq[t].dev)
    BY <1>1, Zenon DEF DInv, DTypes, InRange
  <2>2. ctl.sec = dreq[t].dev.start + dreq[t].sec
    BY <1>1, Zenon DEF DInv, Follows
  <2> QED BY <1>3, <2>1, <2>2, OnDisk, Zenon DEF SectorThere
<1>11. Stored' = Stored
  <2>1. ctl.state = "idle"
    BY <1>1, Zenon DEF DInv, Follows
  <2> QED BY <1>1, <1>3, <2>1, Zenon DEF Stored
<1>12. ASSUME NEW u \in Client \ {t} PROVE Asked(u)' = Asked(u)
  BY <1>1, <1>2, <1>6, AskedFrame, Zenon DEF Working, Told
<1>13. Asked(t)' = Asked(t)
  <2>1. IsWrite(t)' = IsWrite(t)
    BY <1>1, Zenon DEF IsWrite
  <2>2. ~Served(t) /\ ~Served(t)'
    BY <1>1, <1>2, <1>3, <2>1 DEF Served
  <2> QED BY <1>1, <1>2, <2>2 DEF Asked
<1> QED BY <1>5, <1>7, <1>8, <1>9, <1>10, <1>11, <1>12, <1>13, Zenon DEF DInv, Same

(* sema_down returns once interrupt_handler has signalled the channel. *)
LEMMA DownKeeps ==
  ASSUME DInv, NEW t \in Client, Down(t) PROVE DInv' /\ Same
<1>1. /\ dpc[t] = "down" /\ dpc' = [dpc EXCEPT ![t] = IF IsWrite(t) THEN "return" ELSE "busy"]
      /\ channel.completion_wait > 0
      /\ channel' = [channel EXCEPT !.completion_wait = @ - 1, !.lock = IF IsWrite(t) THEN {} ELSE @]
      /\ ctl' = ctl /\ disk' = disk /\ dreq' = dreq
  BY Zenon DEF Down, DGoto
<1>2. /\ dpc'[t] = IF IsWrite(t) THEN "return" ELSE "busy"
      /\ \A u \in Client \ {t} : dpc'[u] = dpc[u]
  BY <1>1, Zenon DEF DInv, DTypes
<1>3. /\ channel' \in [lock : SUBSET Client, expecting_interrupt : BOOLEAN, completion_wait : Nat]
      /\ ~IsWrite(t) => channel'.lock = channel.lock
  <2>1. channel.completion_wait \in Nat \ {0} /\ channel.lock \in SUBSET Client
    BY <1>1 DEF DInv, DTypes
  <2>2. channel.expecting_interrupt \in BOOLEAN
    BY Zenon DEF DInv, DTypes
  <2>3. channel' = [lock |-> IF IsWrite(t) THEN {} ELSE channel.lock,
                    expecting_interrupt |-> channel.expecting_interrupt,
                    completion_wait |-> channel.completion_wait - 1]
    BY <1>1, Zenon DEF DInv, DTypes
  <2> QED BY <2>1, <2>2, <2>3
<1>4. DTypes'
  BY <1>1, <1>3, Zenon DEF DInv, DTypes, Places
<1>5. \A u \in Client \ {t} : ~Working(u)
  BY <1>1, OneWorks, Zenon DEF DInv, Working
<1>6. Locked'
  BY <1>1, <1>2, <1>3, <1>5 DEF DInv, Locked, Working
<1>7. InRange'
  BY <1>1, <1>2, Zenon DEF DInv, InRange
<1>8. \A u \in Client : Follows(u)'
  <2>1. Follows(t)'
    BY <1>1, <1>2 DEF DInv, Follows, Told, IsWrite
  <2>2. ASSUME NEW u \in Client \ {t} PROVE Follows(u)'
    BY <1>2, <1>5, Zenon DEF Follows, Told, IsWrite, Working
  <2> QED BY <2>1, <2>2, Zenon
<1>9. SectorThere'
  BY <1>1, Zenon DEF DInv, SectorThere
<1>10. Stored' = Stored
  BY <1>1, StoredSame, Zenon
<1>11. ASSUME NEW u \in Client \ {t} PROVE Asked(u)' = Asked(u)
  BY <1>1, <1>2, AskedFrame, Zenon
<1>12. Asked(t)' = Asked(t)
  <2>1. IsWrite(t)' = IsWrite(t)
    BY <1>1, Zenon DEF IsWrite
  <2>2. Served(t)' = Served(t)
    BY <1>1, <1>2, <2>1 DEF Served
  <2> QED BY <1>1, <1>2, <2>1, <2>2 DEF Asked
<1> QED BY <1>4, <1>6, <1>7, <1>8, <1>9, <1>10, <1>11, <1>12, Zenon DEF DInv, Same

(* A write's data goes to the controller: the write is served. *)
LEMMA OutputKeeps ==
  ASSUME DInv, NEW t \in Client, Transfer(t), IsWrite(t) PROVE DInv' /\ ServesOne(t)
<1>1. /\ dpc[t] = "busy" /\ dpc' = [dpc EXCEPT ![t] = "down"] /\ ctl.state = "drq"
      /\ ctl' = [ctl EXCEPT !.state = "writing", !.buffer = dreq[t].data]
      /\ channel' = channel /\ disk' = disk /\ dreq' = dreq
  BY Zenon DEF Transfer, TransferWhen, DGoto
<1>2. dpc'[t] = "down" /\ \A u \in Client \ {t} : dpc'[u] = dpc[u]
  BY <1>1, Zenon DEF DInv, DTypes
<1>3. /\ ctl' \in [state : States, dev : {0, 1}, sec : Nat, buffer : Data]
      /\ ctl'.state = "writing" /\ ctl'.buffer = dreq[t].data
      /\ ctl'.dev = ctl.dev /\ ctl'.sec = ctl.sec
  BY <1>1, Zenon DEF DInv, DTypes, States, IsWrite
<1>4. DTypes'
  BY <1>1, <1>3, Zenon DEF DInv, DTypes, Places
<1>5. \A u \in Client \ {t} : ~Working(u)
  BY <1>1, OneWorks, Zenon DEF DInv, Working
<1>6. Locked'
  BY <1>1, <1>2, Zenon DEF DInv, Locked, Working
<1>7. InRange'
  BY <1>1, <1>2, Zenon DEF DInv, InRange
<1>8. \A u \in Client : Follows(u)'
  <2>1. Follows(t)'
    BY <1>1, <1>2, <1>3, Zenon DEF DInv, Follows, Told, IsWrite
  <2>2. ASSUME NEW u \in Client \ {t} PROVE Follows(u)'
    BY <1>2, <1>5, Zenon DEF Follows, Told, IsWrite, Working
  <2> QED BY <2>1, <2>2, Zenon
<1>9. dreq[t].dev \in Device /\ dreq[t].sec \in Sectors(dreq[t].dev)
  BY <1>1, Zenon DEF DInv, DTypes, InRange
<1>10. /\ dreq[t].dev.disk \in {0, 1} /\ dreq[t].dev.start + dreq[t].sec \in DiskSectors
       /\ ctl.dev = dreq[t].dev.disk /\ ctl.sec = dreq[t].dev.start + dreq[t].sec
  <2>1. ctl.dev = dreq[t].dev.disk /\ ctl.sec = dreq[t].dev.start + dreq[t].sec
    BY <1>1, Zenon DEF DInv, Follows, Told
  <2> QED BY <2>1, <1>9, OnDisk, Zenon
<1>11. SectorThere'
  BY <1>3, <1>10, Zenon DEF SectorThere
<1>12. Stored = disk
  BY <1>1, Zenon DEF Stored
<1>13. Stored' = [Stored EXCEPT ![dreq[t].dev.disk][dreq[t].dev.start + dreq[t].sec] = dreq[t].data]
  BY <1>1, <1>3, <1>10, <1>12, Zenon DEF Stored
<1>14. Stored'[dreq[t].dev.disk][dreq[t].dev.start + dreq[t].sec] = dreq[t].data
  BY <1>10, <1>12, <1>13, Zenon DEF DInv, DTypes
<1>15. ASSUME NEW u \in Client \ {t} PROVE Asked(u)' = Asked(u)
  BY <1>1, <1>2, <1>5, AskedFrame, Zenon DEF Working, Told
<1>16. ~Served(t) /\ Asked(t)' = [kind |-> "done", data |-> dreq[t].data]
  <2>1. IsWrite(t)'
    BY <1>1, Zenon DEF IsWrite
  <2>2. ~Served(t) /\ Served(t)'
    BY <1>1, <1>2, <2>1, Zenon DEF Served
  <2> QED BY <1>1, <1>2, <2>1, <2>2, Zenon DEF Asked
<1>17. DInv'
  BY <1>4, <1>6, <1>7, <1>8, <1>11, Zenon DEF DInv
<1> QED BY <1>1, <1>9, <1>13, <1>14, <1>15, <1>16, <1>17, Zenon DEF ServesOne

(* A read's data comes from the controller. *)
LEMMA InputKeeps ==
  ASSUME DInv, NEW t \in Client, Transfer(t), ~IsWrite(t) PROVE DInv' /\ Same
<1>1. /\ dpc[t] = "busy" /\ dpc' = [dpc EXCEPT ![t] = "return"] /\ ctl.state = "drq"
      /\ ctl' = [ctl EXCEPT !.state = "idle"]
      /\ channel' = [channel EXCEPT !.lock = {}] /\ disk' = disk
      /\ dreq' = [dreq EXCEPT ![t].result = ctl.buffer]
  BY Zenon DEF Transfer, TransferWhen, DGoto
<1>2. dpc'[t] = "return" /\ \A u \in Client \ {t} : dpc'[u] = dpc[u]
  BY <1>1, Zenon DEF DInv, DTypes
<1>3. /\ ctl' \in [state : States, dev : {0, 1}, sec : Nat, buffer : Data]
      /\ ctl'.state = "idle"
  BY <1>1, Zenon DEF DInv, DTypes, States
<1>4. channel' \in [lock : SUBSET Client, expecting_interrupt : BOOLEAN, completion_wait : Nat]
  BY <1>1, Zenon DEF DInv, DTypes
<1>5. /\ dreq' \in [Client -> [dev : Device, sec : Nat, data : Data \cup {"read"}, result : Data]]
      /\ \A u \in Client \ {t} : dreq'[u] = dreq[u]
      /\ dreq'[t].dev = dreq[t].dev /\ dreq'[t].sec = dreq[t].sec
      /\ dreq'[t].data = dreq[t].data /\ dreq'[t].result = ctl.buffer
  BY <1>1, Zenon DEF DInv, DTypes
<1>6. DTypes'
  BY <1>1, <1>3, <1>4, <1>5, Zenon DEF DInv, DTypes, Places
<1>7. \A u \in Client \ {t} : ~Working(u)
  BY <1>1, OneWorks, Zenon DEF DInv, Working
<1>8. Locked'
  BY <1>2, <1>7, Zenon DEF Locked, Working
<1>9. InRange'
  BY <1>1, <1>2, <1>5, Zenon DEF DInv, InRange
<1>10. \A u \in Client : Follows(u)'
  BY <1>2, <1>7, Zenon DEF Follows, Told, IsWrite, Working
<1>11. SectorThere'
  BY <1>3, Zenon DEF SectorThere
<1>12. Stored' = Stored
  BY <1>1, <1>3, Zenon DEF Stored
<1>13. ASSUME NEW u \in Client \ {t} PROVE Asked(u)' = Asked(u)
  BY <1>2, <1>5, <1>7, AskedFrame, Zenon DEF Working, Told
<1>14. Asked(t)' = Asked(t)
  <2>1. ~IsWrite(t)'
    BY <1>5, Zenon DEF IsWrite
  <2>2. Served(t) /\ Served(t)'
    BY <1>1, <1>2, Zenon DEF Served
  <2>3. Asked(t) = [kind |-> "done", data |-> ctl.buffer]
    BY <1>1, <2>2, Zenon DEF Asked
  <2>4. Asked(t)' = [kind |-> "done", data |-> ctl.buffer]
    BY <1>2, <1>5, <2>1, <2>2, Zenon DEF Asked
  <2> QED BY <2>3, <2>4, Zenon
<1>15. DInv'
  BY <1>6, <1>8, <1>9, <1>10, <1>11, Zenon DEF DInv
<1> QED BY <1>12, <1>13, <1>14, <1>15, Zenon DEF Same

(* lock_release, and the call returns. *)
LEMMA ReturnKeeps ==
  ASSUME DInv, NEW t \in Client, Return(t)
  PROVE  /\ DInv'
         /\ Stored' = Stored
         /\ Asked(t).kind = "done"
         /\ Asked(t)' = [kind |-> "none"]
         /\ \A u \in Client \ {t} : Asked(u)' = Asked(u)
<1>1. /\ dpc[t] = "return" /\ dpc' = [dpc EXCEPT ![t] = "idle"]
      /\ dreq' = [dreq EXCEPT ![t] = NoDreq]
      /\ channel' = channel /\ ctl' = ctl /\ disk' = disk
  BY Zenon DEF Return, DGoto
<1>2. dpc'[t] = "idle" /\ \A u \in Client \ {t} : dpc'[u] = dpc[u] /\ dreq'[u] = dreq[u]
  BY <1>1, Zenon DEF DInv, DTypes
<1>3. DTypes'
  BY <1>1, NoDreqType, Zenon DEF DInv, DTypes, Places
<1>4. Locked'
  BY <1>1, <1>2, Zenon DEF DInv, Locked, Working
<1>5. InRange'
  BY <1>2, Zenon DEF DInv, InRange
<1>6. \A u \in Client : Follows(u)'
  BY <1>1, <1>2, Zenon DEF DInv, Follows, Told, IsWrite
<1>7. SectorThere'
  BY <1>1, Zenon DEF DInv, SectorThere
<1>8. Stored' = Stored
  BY <1>1, StoredSame, Zenon
<1>9. ASSUME NEW u \in Client \ {t} PROVE Asked(u)' = Asked(u)
  BY <1>1, <1>2, AskedFrame, Zenon
<1>10. Asked(t).kind = "done" /\ Asked(t)' = [kind |-> "none"]
  BY <1>1, <1>2, Zenon DEF Asked, Served
<1>11. DInv'
  BY <1>3, <1>4, <1>5, <1>6, <1>7, Zenon DEF DInv
<1> QED BY <1>8, <1>9, <1>10, <1>11, Zenon

(* interrupt_handler signals the channel that expects it, and no other. *)
LEMMA InterruptKeeps == ASSUME DInv, Interrupt PROVE DInv' /\ Same
<1>1. ctl' = ctl /\ disk' = disk /\ dpc' = dpc /\ dreq' = dreq
  BY Zenon DEF Interrupt
<1>2. /\ channel' \in [lock : SUBSET Client, expecting_interrupt : BOOLEAN, completion_wait : Nat]
      /\ channel'.lock = channel.lock
  BY DEF Interrupt, DInv, DTypes
<1>3. DTypes'
  BY <1>1, <1>2, Zenon DEF DInv, DTypes
<1>4. Locked'
  BY <1>1, <1>2, Zenon DEF DInv, Locked, Working
<1>5. InRange' /\ SectorThere'
  BY <1>1, Zenon DEF DInv, InRange, SectorThere
<1>6. \A u \in Client : Follows(u)'
  BY <1>1, Zenon DEF DInv, Follows, Told, IsWrite
<1>7. Stored' = Stored
  BY <1>1, StoredSame, Zenon
<1>8. ASSUME NEW u \in Client PROVE Asked(u)' = Asked(u)
  BY <1>1, AskedFrame, Zenon
<1> QED BY <1>3, <1>4, <1>5, <1>6, <1>7, <1>8, Zenon DEF DInv, Same

(* The controller has read a sector: the thread's read, if there is one    *)
(* that waits, is served.                                                  *)
LEMMA ReadingKeeps ==
  ASSUME DInv, Controller, ctl.state = "reading"
  PROVE  DInv' /\ (Same \/ \E t \in Client : ServesOne(t))
<1>1. /\ ctl' = [ctl EXCEPT !.state = "drq", !.buffer = disk[ctl.dev][ctl.sec]]
      /\ channel' = channel /\ disk' = disk /\ dpc' = dpc /\ dreq' = dreq
  BY Zenon DEF Controller
<1>2. ctl'.state = "drq" /\ ctl'.dev = ctl.dev /\ ctl'.sec = ctl.sec /\ ctl'.buffer = disk[ctl.dev][ctl.sec]
  BY <1>1, Zenon DEF DInv, DTypes
<1>3. disk[ctl.dev][ctl.sec] \in Data
  BY Zenon DEF DInv, DTypes, SectorThere
<1>4. ctl' \in [state : States, dev : {0, 1}, sec : Nat, buffer : Data]
  BY <1>1, <1>3, Zenon DEF DInv, DTypes, States
<1>5. DTypes'
  BY <1>1, <1>4, Zenon DEF DInv, DTypes
<1>6. Locked' /\ InRange' /\ SectorThere'
  BY <1>1, <1>2, Zenon DEF DInv, Locked, Working, InRange, SectorThere
<1>7. ASSUME NEW u \in Client PROVE Follows(u)'
  BY <1>1, <1>2, Zenon DEF DInv, Follows, Told, IsWrite
<1>8. DInv'
  BY <1>5, <1>6, <1>7, Zenon DEF DInv
<1>9. Stored = disk /\ Stored' = disk
  BY <1>1, <1>2, Zenon DEF Stored
<1>10. CASE \E t \in Client : Told(t) /\ ~IsWrite(t)
  <2>1. PICK t \in Client : Told(t) /\ ~IsWrite(t)
    BY <1>10, Zenon
  <2>2. ASSUME NEW u \in Client \ {t} PROVE Asked(u)' = Asked(u)
    <3>1. ~Told(u)
      BY <2>1, OneWorks, Zenon DEF DInv, Working, Told
    <3> QED BY <3>1, <1>1, AskedFrame, Zenon
  <2>3. ctl.dev = dreq[t].dev.disk /\ ctl.sec = dreq[t].dev.start + dreq[t].sec
    BY <2>1, Zenon DEF DInv, Follows
  <2>4. dreq[t].dev \in Device /\ dreq[t].sec \in Sectors(dreq[t].dev)
    BY <2>1, Zenon DEF DInv, DTypes, InRange, Told
  <2>5. ~IsWrite(t)'
    BY <1>1, <2>1, Zenon DEF IsWrite
  <2>6. dpc[t] # "idle" /\ ~Served(t) /\ Served(t)'
    BY <1>1, <1>2, <2>1, <2>5, Zenon DEF Served, Told
  <2>7. Asked(t)' = [kind |-> "done", data |-> ctl'.buffer]
    BY <1>1, <2>1, <2>5, <2>6, Zenon DEF Asked, Told
  <2>8. Asked(t)' = [kind |-> "done", data |-> Stored'[dreq[t].dev.disk][dreq[t].dev.start + dreq[t].sec]]
    BY <1>2, <1>9, <2>3, <2>7, Zenon
  <2>9. ServesOne(t)
    BY <1>9, <2>1, <2>2, <2>4, <2>6, <2>8, Zenon DEF ServesOne
  <2> QED BY <1>8, <2>9, Zenon
<1>11. CASE ~ \E t \in Client : Told(t) /\ ~IsWrite(t)
  <2>1. ASSUME NEW u \in Client PROVE Asked(u)' = Asked(u)
    BY <1>1, <1>11, AskedFrame, Zenon
  <2> QED BY <1>8, <1>9, <2>1, Zenon DEF Same
<1> QED BY <1>10, <1>11, Zenon

(* The controller is ready for a write's data. *)
LEMMA StartingKeeps ==
  ASSUME DInv, Controller, ctl.state = "starting" PROVE DInv' /\ Same
<1>1. /\ ctl' = [ctl EXCEPT !.state = "drq"]
      /\ channel' = channel /\ disk' = disk /\ dpc' = dpc /\ dreq' = dreq
  BY Zenon DEF Controller
<1>2. /\ ctl'.state = "drq" /\ ctl'.dev = ctl.dev /\ ctl'.sec = ctl.sec
      /\ ctl' \in [state : States, dev : {0, 1}, sec : Nat, buffer : Data]
  BY <1>1, Zenon DEF DInv, DTypes, States
<1>3. DTypes'
  BY <1>1, <1>2, Zenon DEF DInv, DTypes
<1>4. Locked' /\ InRange' /\ SectorThere'
  BY <1>1, <1>2, Zenon DEF DInv, Locked, Working, InRange, SectorThere
<1>5. ASSUME NEW u \in Client PROVE Follows(u)' /\ ~(Told(u) /\ ~IsWrite(u))
  BY <1>1, <1>2, Zenon DEF DInv, Follows, Told, IsWrite
<1>6. Stored' = Stored
  BY <1>1, <1>2, Zenon DEF Stored
<1>7. ASSUME NEW u \in Client PROVE Asked(u)' = Asked(u)
  BY <1>1, <1>5, AskedFrame, Zenon
<1> QED BY <1>3, <1>4, <1>5, <1>6, <1>7, Zenon DEF DInv, Same

(* The controller has written a sector. *)
LEMMA WritingKeeps ==
  ASSUME DInv, Controller, ctl.state = "writing" PROVE DInv' /\ Same
<1>1. /\ ctl' = [ctl EXCEPT !.state = "idle"]
      /\ disk' = [disk EXCEPT ![ctl.dev][ctl.sec] = ctl.buffer]
      /\ channel' = channel /\ dpc' = dpc /\ dreq' = dreq
  BY Zenon DEF Controller
<1>2. /\ ctl'.state = "idle" /\ ctl'.dev = ctl.dev /\ ctl'.sec = ctl.sec
      /\ ctl' \in [state : States, dev : {0, 1}, sec : Nat, buffer : Data]
  BY <1>1, Zenon DEF DInv, DTypes, States
<1>3. disk' \in [{0, 1} -> [DiskSectors -> Data]]
  BY <1>1, Zenon DEF DInv, DTypes
<1>4. DTypes'
  BY <1>1, <1>2, <1>3, Zenon DEF DInv, DTypes
<1>5. Locked' /\ InRange' /\ SectorThere'
  BY <1>1, <1>2, Zenon DEF DInv, Locked, Working, InRange, SectorThere
<1>6. ASSUME NEW u \in Client PROVE Follows(u)' /\ ~(Told(u) /\ ~IsWrite(u))
  BY <1>1, <1>2, Zenon DEF DInv, Follows, Told, IsWrite
<1>7. Stored' = Stored
  BY <1>1, <1>2, Zenon DEF Stored
<1>8. ASSUME NEW u \in Client PROVE Asked(u)' = Asked(u)
  BY <1>1, <1>6, AskedFrame, Zenon
<1> QED BY <1>4, <1>5, <1>6, <1>7, <1>8, Zenon DEF DInv, Same
-----------------------------------------------------------------------------
(* The same to a caller of the block layer. *)
LEMMA SameBlocks ==
  ASSUME Same
  PROVE  UNCHANGED <<[dev \in Device |-> [sec \in UNION {Sectors(d) : d \in Device} |-> Holds(dev, sec)]],
                     [t \in Client |-> Asked(t)]>>
<1>1. \A dev, sec : Holds(dev, sec)' = Holds(dev, sec)
  BY Zenon DEF Same, Holds
<1> QED BY <1>1, Zenon DEF Same

(* A request that is served reads or writes its sector, and no other       *)
(* device's.                                                               *)
LEMMA ServeBlocks ==
  ASSUME DevicesApart, DTypes, NEW t \in Client, ServesOne(t)
  PROVE  blocks!Serve(t)
<1> DEFINE r == dreq[t]
           n == r.dev.start + r.sec
           All == UNION {Sectors(d) : d \in Device}
           store == [dev \in Device |-> [sec \in All |-> Holds(dev, sec)]]
           after == [dev \in Device |-> [sec \in All |-> Holds(dev, sec)']]
<1>1. r.dev \in Device /\ r.sec \in Sectors(r.dev) /\ r.sec \in All
  BY Zenon DEF ServesOne
<1>2. r.dev.disk \in {0, 1} /\ n \in DiskSectors /\ r.sec < r.dev.size
  <2>1. r.dev.size \in Nat /\ r.sec < r.dev.size
    BY <1>1, DiskAssumption DEF Sectors
  <2> QED BY <1>1, <2>1, OnDisk, Zenon
<1>3. Stored \in [{0, 1} -> [DiskSectors -> Data]]
  BY Zenon DEF Stored, DTypes
<1>4. Asked(t) = [kind |-> "waiting", dev |-> r.dev, sec |-> r.sec, data |-> r.data]
  BY Zenon DEF ServesOne, Asked
<1>5. r.data \in Data <=> IsWrite(t)
  BY Zenon DEF IsWrite
<1>6. after = IF IsWrite(t) THEN [store EXCEPT ![r.dev][r.sec] = r.data] ELSE store
  <2>1. CASE ~IsWrite(t)
    <3>1. Stored' = Stored
      BY <2>1, Zenon DEF ServesOne
    <3>2. \A dev, sec : Holds(dev, sec)' = Holds(dev, sec)
      BY <3>1, Zenon DEF Holds
    <3> QED BY <2>1, <3>2, Zenon
  <2>2. CASE IsWrite(t)
    <3>1. Stored' = [Stored EXCEPT ![r.dev.disk][n] = r.data]
      BY <2>2, Zenon DEF ServesOne
    <3>2. ASSUME NEW dev \in Device, NEW sec \in All
          PROVE  Holds(dev, sec)' = IF dev = r.dev /\ sec = r.sec THEN r.data ELSE Holds(dev, sec)
      <4>1. sec \in Nat /\ dev.size \in Nat
        BY DiskAssumption DEF Sectors
      <4>2. CASE sec < dev.size
        <5>1. sec \in Sectors(dev)
          BY <4>1, <4>2 DEF Sectors
        <5>2. dev.disk \in {0, 1} /\ dev.start + sec \in DiskSectors
          BY <5>1, OnDisk, Zenon
        <5>3. dev.disk = r.dev.disk /\ dev.start + sec = n <=> dev = r.dev /\ sec = r.sec
          BY <1>1, <5>1 DEF DevicesApart
        <5>4. Stored'[dev.disk][dev.start + sec] =
                IF dev.disk = r.dev.disk /\ dev.start + sec = n THEN r.data
                ELSE Stored[dev.disk][dev.start + sec]
          BY <1>2, <1>3, <3>1, <5>2, Zenon
        <5> QED BY <4>2, <5>3, <5>4, Zenon DEF Holds
      <4>3. CASE ~(sec < dev.size)
        BY <1>2, <4>3, Zenon DEF Holds
      <4> QED BY <4>2, <4>3, Zenon
    <3> HIDE DEF All, r
    <3>3. after = [store EXCEPT ![r.dev][r.sec] = r.data]
      <4> DEFINE row(dev) == [sec \in All |-> Holds(dev, sec)]
                 new(dev) == [sec \in All |-> Holds(dev, sec)']
      <4>0. PICK d \in Device : d = r.dev
        BY <1>1, Zenon
      <4>1. ASSUME NEW dev \in Device, dev # d PROVE new(dev) = row(dev)
        BY <3>2, <4>0, <4>1, Zenon
      <4>2. new(d) = [row(d) EXCEPT ![r.sec] = r.data]
        <5>1. ASSUME NEW sec \in All
              PROVE  Holds(d, sec)' = IF sec = r.sec THEN r.data ELSE Holds(d, sec)
          BY <3>2, <4>0, Zenon
        <5> QED BY <1>1, <5>1, Zenon
      <4>3. after = [dev \in Device |-> new(dev)] /\ store = [dev \in Device |-> row(dev)]
        BY Zenon
      <4> HIDE DEF row, new, after, store
      <4>4. after = [store EXCEPT ![d] = [row(d) EXCEPT ![r.sec] = r.data]]
        BY <4>0, <4>1, <4>2, <4>3, Zenon
      <4>5. store[d] = row(d)
        BY <4>0, <4>3, Zenon
      <4> QED BY <4>0, <4>4, <4>5, Zenon
    <3> QED BY <2>2, <3>3, Zenon
  <2> QED BY <2>1, <2>2, Zenon
<1>7. after[r.dev][r.sec] = Stored'[r.dev.disk][n]
  BY <1>1, <1>2, Zenon DEF Holds
<1>8. Asked(t)' = [kind |-> "done", data |-> after[r.dev][r.sec]]
  BY <1>7, Zenon DEF ServesOne
<1>9. [u \in Client |-> Asked(u)'] =
        [[u \in Client |-> Asked(u)] EXCEPT ![t] = [kind |-> "done", data |-> after[r.dev][r.sec]]]
  <2> HIDE DEF after, r
  <2>1. ASSUME NEW u \in Client
        PROVE  Asked(u)' = IF u = t THEN [kind |-> "done", data |-> after[r.dev][r.sec]] ELSE Asked(u)
    BY <1>8, Zenon DEF ServesOne
  <2> QED BY <2>1, Zenon
<1> DEFINE o == [u \in Client |-> Asked(u)]
<1>10. o[t].kind = "waiting" /\ o[t].dev = r.dev /\ o[t].sec = r.sec /\ o[t].data = r.data
  BY <1>4
<1>11. after = IF o[t].data \in Data THEN [store EXCEPT ![o[t].dev][o[t].sec] = o[t].data] ELSE store
  BY <1>5, <1>6, <1>10, Zenon
<1>12. [u \in Client |-> Asked(u)'] = [o EXCEPT ![t] = [kind |-> "done", data |-> after[o[t].dev][o[t].sec]]]
  BY <1>9, <1>10, Zenon
<1> QED BY <1>10, <1>11, <1>12, Zenon DEF blocks!Serve

(* A step that leaves the devices leaves the abstract blocks. *)
LEMMA StoreSame ==
  ASSUME Stored' = Stored
  PROVE  UNCHANGED [dev \in Device |-> [sec \in UNION {Sectors(d) : d \in Device} |-> Holds(dev, sec)]]
<1>1. \A dev, sec : Holds(dev, sec)' = Holds(dev, sec)
  BY Zenon DEF Holds
<1> QED BY <1>1, Zenon

(* A call of ide_read or ide_write is a call of the block device. *)
LEMMA CallBlocks ==
  ASSUME Stored' = Stored, NEW t \in Client, NEW dev, NEW sec, NEW data,
         Asked(t) = [kind |-> "none"],
         Asked(t)' = [kind |-> "waiting", dev |-> dev, sec |-> sec, data |-> data],
         \A u \in Client \ {t} : Asked(u)' = Asked(u)
  PROVE  blocks!Call(t, dev, sec, data)
<1> DEFINE o == [u \in Client |-> Asked(u)]
           new == [kind |-> "waiting", dev |-> dev, sec |-> sec, data |-> data]
<1>1. o[t] = [kind |-> "none"]
  BY Zenon
<1>2. [u \in Client |-> Asked(u)'] = [o EXCEPT ![t] = new]
  <2> HIDE DEF new
  <2>1. ASSUME NEW u \in Client PROVE Asked(u)' = IF u = t THEN new ELSE Asked(u)
    BY Zenon DEF new
  <2> QED BY <2>1, Zenon
<1> QED BY <1>1, <1>2, StoreSame, Zenon DEF blocks!Call, blocks!None

(* And its return is a return of the block device. *)
LEMMA ReturnBlocks ==
  ASSUME Stored' = Stored, NEW t \in Client, Asked(t).kind = "done", Asked(t)' = [kind |-> "none"],
         \A u \in Client \ {t} : Asked(u)' = Asked(u)
  PROVE  blocks!Return(t)
<1> DEFINE o == [u \in Client |-> Asked(u)]
           new == [kind |-> "none"]
<1>1. o[t].kind = "done"
  BY Zenon
<1>2. [u \in Client |-> Asked(u)'] = [o EXCEPT ![t] = new]
  <2> HIDE DEF new
  <2>1. ASSUME NEW u \in Client PROVE Asked(u)' = IF u = t THEN new ELSE Asked(u)
    BY Zenon DEF new
  <2> QED BY <2>1, Zenon
<1> QED BY <1>1, <1>2, StoreSame, Zenon DEF blocks!Return, blocks!None

blocks_vars == <<[dev \in Device |-> [sec \in UNION {Sectors(d) : d \in Device} |-> Holds(dev, sec)]],
                 [t \in Client |-> Asked(t)]>>

(* A step keeps the invariant, and is a step of the block devices or none. *)
LEMMA DInvNext ==
  ASSUME DInv, [DiskNext]_d_vars
  PROVE  DInv' /\ (DevicesApart => blocks!Next \/ UNCHANGED blocks_vars)
<1> DEFINE Goal == DInv' /\ (DevicesApart => blocks!Next \/ UNCHANGED blocks_vars)
<1>1. ASSUME DInv', Same PROVE Goal
  BY <1>1, SameBlocks, Zenon DEF blocks_vars
<1>2. ASSUME DInv', NEW t \in Client, ServesOne(t) PROVE Goal
  <2>1. DTypes
    BY Zenon DEF DInv
  <2>2. DevicesApart => blocks!Serve(t)
    BY <1>2, <2>1, ServeBlocks, Zenon
  <2> QED BY <1>2, <2>2, Zenon DEF blocks!Next
<1>3. CASE UNCHANGED d_vars
  <2>1. channel' = channel /\ ctl' = ctl /\ disk' = disk /\ dpc' = dpc /\ dreq' = dreq
    BY <1>3, Zenon DEF d_vars
  <2>2. Stored' = Stored
    BY <2>1, StoredSame, Zenon
  <2>3. ASSUME NEW u \in Client PROVE Asked(u)' = Asked(u)
    BY <2>1, AskedFrame, Zenon
  <2>4. DInv'
    BY <2>1, Zenon DEF DInv, DTypes, Locked, Working, InRange, Follows, Told, IsWrite, SectorThere
  <2> QED BY <1>1, <2>2, <2>3, <2>4, Zenon DEF Same
<1>4. ASSUME NEW t \in Client, NEW dev \in Device, NEW sec \in Sectors(dev),
             NEW data \in Data \cup {"read"}, Request(t, dev, sec, data)
      PROVE  Goal
  <2>1. /\ DInv' /\ Stored' = Stored /\ Asked(t) = [kind |-> "none"]
        /\ Asked(t)' = [kind |-> "waiting", dev |-> dev, sec |-> sec, data |-> data]
        /\ \A u \in Client \ {t} : Asked(u)' = Asked(u)
    BY <1>4, RequestKeeps, Zenon
  <2>2. blocks!Call(t, dev, sec, data)
    BY <2>1, CallBlocks, Zenon
  <2> QED BY <2>1, <2>2, Zenon DEF blocks!Next
<1>5. ASSUME NEW t \in Client, Acquire(t) \/ Select(t) \/ Issue(t) \/ Down(t) PROVE Goal
  BY <1>1, <1>5, AcquireKeeps, SelectKeeps, IssueKeeps, DownKeeps, Zenon
<1>6. ASSUME NEW t \in Client, Transfer(t) PROVE Goal
  BY <1>1, <1>2, <1>6, OutputKeeps, InputKeeps, Zenon
<1>7. ASSUME NEW t \in Client, Return(t) PROVE Goal
  <2>1. /\ DInv' /\ Stored' = Stored /\ Asked(t).kind = "done" /\ Asked(t)' = [kind |-> "none"]
        /\ \A u \in Client \ {t} : Asked(u)' = Asked(u)
    BY <1>7, ReturnKeeps, Zenon
  <2>2. blocks!Return(t)
    BY <2>1, ReturnBlocks, Zenon
  <2> QED BY <2>1, <2>2, Zenon DEF blocks!Next
<1>8. CASE Interrupt
  BY <1>1, <1>8, InterruptKeeps, Zenon
<1>9. CASE Controller
  <2>1. ctl.state = "reading" \/ ctl.state = "starting" \/ ctl.state = "writing"
    BY <1>9, Zenon DEF Controller
  <2> QED BY <1>1, <1>2, <1>9, <2>1, ReadingKeeps, StartingKeeps, WritingKeeps, Zenon
<1>10. ASSUME NEW t \in Client, Serve(t) PROVE Goal
  BY <1>5, <1>6, <1>7, <1>10, Zenon DEF Serve
<1>11. ASSUME NEW t \in Client,
              \E dev \in Device : \E sec \in Sectors(dev), data \in Data \cup {"read"} : Request(t, dev, sec, data)
       PROVE  Goal
  BY <1>4, <1>11, Zenon
<1>12. CASE DiskNext
  BY <1>8, <1>9, <1>10, <1>11, <1>12, Zenon DEF DiskNext
<1> QED BY <1>3, <1>12, Zenon

(* The inductive invariant of disk access (devices/ide.c): one thread at a *)
(* time works with the channel, and from select_sector to its release the  *)
(* controller is where that thread's request needs it, also when the       *)
(* semaphore was upped by an interrupt for no reason.                      *)
THEOREM DInvHolds == DiskSpec => []DInv
<1> QED BY DInvInit, DInvNext, PTL DEF DiskSpec

(* block_read and block_write, through partition_read, ide_read and the    *)
(* interrupt handler, implement BlockDevice: every request is served in    *)
(* one step, between its call and its return, and touches its own device's *)
(* sector, provided that no sector is two devices'.                        *)
THEOREM BlockDeviceImplemented ==
  ASSUME DevicesApart
  PROVE  DiskSpec => ImplementsBlockDevice
<1>1. DiskInit => blocks!Init
  <2> SUFFICES ASSUME DiskInit PROVE blocks!Init
    BY Zenon
  <2>1. \A t \in Client : Asked(t) = [kind |-> "none"]
    BY Zenon DEF DiskInit, Asked
  <2>2. ASSUME NEW dev \in Device, NEW sec \in UNION {Sectors(d) : d \in Device}
        PROVE  Holds(dev, sec) \in Data
    <3>1. CASE sec < dev.size
      <4>1. sec \in Nat /\ dev.size \in Nat
        BY DiskAssumption DEF Sectors
      <4>2. sec \in Sectors(dev)
        BY <3>1, <4>1 DEF Sectors
      <4>3. dev.disk \in {0, 1} /\ dev.start + sec \in DiskSectors
        BY <4>2, OnDisk, Zenon
      <4>4. Stored = disk
        BY Zenon DEF DiskInit, Stored
      <4> QED BY <3>1, <4>3, <4>4, BlankData, Zenon DEF DiskInit, Holds
    <3>2. CASE ~(sec < dev.size)
      BY <3>2, BlankData, Zenon DEF Holds
    <3> QED BY <3>1, <3>2, Zenon
  <2>3. [t \in Client |-> Asked(t)] = [t \in Client |-> [kind |-> "none"]]
    BY <2>1, Zenon
  <2>4. [dev \in Device |-> [sec \in UNION {Sectors(d) : d \in Device} |-> Holds(dev, sec)]]
          \in [Device -> [UNION {Sectors(d) : d \in Device} -> Data]]
    BY <2>2, Zenon
  <2> QED BY <2>3, <2>4, Zenon DEF blocks!Init, blocks!None
<1>2. DInv /\ [DiskNext]_d_vars => [blocks!Next]_blocks_vars
  BY DInvNext, Zenon
<1> QED
  BY <1>1, <1>2, DInvHolds, PTL DEF DiskSpec, ImplementsBlockDevice, blocks!Spec, blocks_vars
=============================================================================
