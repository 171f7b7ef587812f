---------------------------- MODULE BlockDevice ----------------------------
(***************************************************************************)
(* What the block layer promises (devices/block.c: "Internally             *)
(* synchronizes accesses to block devices"): sectors that any thread reads *)
(* and writes one at a time, each device's its own.                        *)
(***************************************************************************)
CONSTANTS Client, Device, Sector(_), Data

VARIABLES
  store,   \* what a device's sectors hold
  op       \* a thread's request: none, waiting, or done

None == [kind |-> "none"]

Call(t, dev, sec, data) ==
  /\ op[t] = None
  /\ op' = [op EXCEPT ![t] = [kind |-> "waiting", dev |-> dev, sec |-> sec, data |-> data]]
  /\ UNCHANGED store

(* A request without data is a read. *)
Serve(t) ==
  LET r == op[t]
      write == r.data \in Data
  IN  /\ r.kind = "waiting"
      /\ store' = IF write THEN [store EXCEPT ![r.dev][r.sec] = r.data] ELSE store
      /\ op' = [op EXCEPT ![t] = [kind |-> "done", data |-> store'[r.dev][r.sec]]]

Return(t) ==
  /\ op[t].kind = "done"
  /\ op' = [op EXCEPT ![t] = None]
  /\ UNCHANGED store

Init ==
  /\ op = [t \in Client |-> None]
  /\ store \in [Device -> [UNION {Sector(d) : d \in Device} -> Data]]

Next ==
  \E t \in Client :
    \/ \E dev \in Device : \E sec \in Sector(dev), data \in Data \cup {"read"} : Call(t, dev, sec, data)
    \/ Serve(t)
    \/ Return(t)

Spec == Init /\ [][Next]_<<store, op>>
=============================================================================
