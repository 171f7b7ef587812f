----------------------------- MODULE MCDevices -----------------------------
(***************************************************************************)
(* Devices for TLC: the terminal and the disks, which share nothing, side  *)
(* by side.                                                                *)
(***************************************************************************)
EXTENDS Terminal, Disk

VARIABLE part   \* the device explored

(* Two partitions of one disk. *)
Partitions == {[disk |-> 0, start |-> 0, size |-> 1], [disk |-> 0, start |-> 1, size |-> 1]}

Init == part \in {"terminal", "disk"} /\ TermInit /\ DiskInit

Next ==
  /\ \/ part = "terminal" /\ TermNext /\ UNCHANGED d_vars
     \/ part = "disk" /\ DiskNext /\ UNCHANGED t_vars
  /\ UNCHANGED part

vars == <<part, t_vars, d_vars>>

(* TermFairness and DiskFairness, each for the device explored. *)
Fairness ==
  \/ part = "terminal" /\ TermFairness
  \/ part = "disk" /\ DiskFairness

Spec == Init /\ [][Next]_vars /\ Fairness

(* Nothing is stuck between a device, its interrupts and its driver: what  *)
(* is printed is sent and what is typed is read (TrafficFlows), and disk   *)
(* requests return (RequestsReturn).                                       *)
DevicesAnswer == TrafficFlows /\ RequestsReturn
=============================================================================
