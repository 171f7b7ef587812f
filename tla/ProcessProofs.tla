--------------------------- MODULE ProcessProofs ---------------------------
(***************************************************************************)
(* Safety of exec, wait and exit, for any number of processes: nobody      *)
(* waits in vain, wait gets its own child's status, the child lists are    *)
(* sound, and exec reports what load did.                                  *)
(***************************************************************************)
EXTENDS Process, TLAPS

(* Where a process is until load_sema goes up; where main can be; where a  *)
(* call works on a child; and where a program that runs can be.            *)
Loading == {"unborn", "start", "loaded", "failed", "failup"}
MainPC == {"user", "wait", "exit", "exit_blocked", "collect", "stuck"}
Busy == {"find", "load", "load_blocked", "status", "sleep", "wait", "exit",
         "exit_blocked", "collect"}
Ordinary == Busy \cup {"user", "stuck"}

Listed(c) == \E p \in Proc : c \in child_list[p]
Collected(c) == \E p \in Proc : pc[p] = "collect" /\ arg[p] = c
NoUnits(c) == exit_sema[c] = 0 /\ wait_sema[c] = 0

(* A process has not called exit, or is about to raise exit_sema, or is    *)
(* held until its parent collects it, or exit is behind it.  In a build    *)
(* whose exit returns it may then go on, but on nobody's child_list unless *)
(* the kernel killed it.                                                   *)
Running(c) ==
  /\ ~exited[c] /\ NoUnits(c)
  /\ pc[c] \notin {"notify", "reap", "leave", "returned"}
  /\ pc[c] = "dead" <=> c \in killed

Notifies(c) == exited[c] /\ c \notin killed /\ NoUnits(c) /\ pc[c] = "notify"

IsHeld(c) ==
  /\ exited[c] /\ c \notin killed /\ pc[c] = "reap"
  /\ \/ exit_sema[c] = 1 /\ wait_sema[c] = 0
     \/ NoUnits(c) /\ Collected(c)
     \/ exit_sema[c] = 0 /\ wait_sema[c] = 1 /\ ~Listed(c)

Over(c) ==
  /\ exited[c] /\ NoUnits(c)
  /\ pc[c] \notin Loading \cup {"quit", "notify", "reap"}
  /\ exit_returns \/ pc[c] \in {"leave", "dead"}
  /\ c \in killed \/ ~Listed(c)

Stage(c) == Running(c) \/ Notifies(c) \/ IsHeld(c) \/ Over(c)

(* A process has one parent, is linked into no other child_list, and a     *)
(* call works on a child its caller has linked.                            *)
Family ==
  /\ parent[Main] = NULL /\ pc[Main] \in MainPC
  /\ \A c \in Proc \ {Main} : parent[c] = NULL <=> pc[c] = "unborn"
  /\ \A p, c \in Proc : c \in child_list[p] => parent[c] = p
  /\ \A p \in Proc : pc[p] \in Busy => arg[p] \in child_list[p]

(* The child whose status is being read is held and has no unit left. *)
Collects(p) ==
  pc[p] = "collect" => pc[arg[p]] = "reap" /\ exited[arg[p]] /\ NoUnits(arg[p])

(* exit_status tells, from load_sema on, whether the load succeeded. *)
LoadTold(c) ==
  /\ pc[c] \in Loading => load_sema[c] = 0
  /\ pc[c] \in {"unborn", "start"} => exit_status[c] # Failed
  /\ pc[c] = "loaded" => success[c]
  /\ pc[c] \in {"unborn", "start", "failed", "failup", "quit"} => ~success[c]
  /\ success[c] /\ exit_status[c] = Failed => exited[c]
  /\ c # Main /\ ~success[c] /\ pc[c] \notin {"unborn", "start", "failed"} =>
       \/ c \in killed
       \/ exit_status[c] = Failed /\ (exited[c] \/ pc[c] \in {"failup", "quit"})

LoadSeen(p) == pc[p] = "status" => arg[p] \in killed \/ pc[arg[p]] \notin Loading

PInv ==
  /\ TypeOK
  /\ Family
  /\ \A c \in Proc : Stage(c) /\ Collects(c) /\ LoadTold(c) /\ LoadSeen(c)
----------------------------------------------------------------------------
(* The invariant holds when the kernel has started. *)
LEMMA PInvInit == Init => PInv
<1> SUFFICES ASSUME Init PROVE PInv
  BY Zenon
<1>1. TypeOK
  BY ProcessAssumption DEF Init, TypeOK, PC
<1>2. Family
  BY ProcessAssumption, Zenon DEF Init, Family, MainPC, Busy
<1>3. \A c \in Proc : Running(c)
  BY Zenon DEF Init, Running, NoUnits
<1>4. \A c \in Proc : Collects(c) /\ LoadSeen(c)
  BY Zenon DEF Init, Collects, LoadSeen
<1>5. \A c \in Proc : LoadTold(c)
  BY DEF Init, LoadTold, Loading, Failed
<1> QED
  BY <1>1, <1>2, <1>3, <1>4, <1>5, Zenon DEF PInv, Stage

(* A step that only changes what processes return. *)
LEMMA StillStep ==
  ASSUME PInv, UNCHANGED <<pc, tree, exit_status, exited, semas, success, arg,
                           exit_returns, killed>>, TypeOK'
  PROVE  PInv'
<1>1. Family'
  BY Zenon DEF PInv, Family, tree
<1>2. \A c \in Proc : Stage(c)' /\ Collects(c)'
  BY DEF PInv, Stage, Running, Notifies, IsHeld, Over, NoUnits, Listed, Collected,
         Collects, tree, semas
<1>3. \A c \in Proc : LoadTold(c)' /\ LoadSeen(c)'
  BY Zenon DEF PInv, LoadTold, LoadSeen, semas
<1> QED
  BY <1>1, <1>2, <1>3, Zenon DEF PInv

(* What a stage depends on. *)
LEMMA StageFrame ==
  ASSUME NEW c \in Proc, Stage(c), pc'[c] = pc[c], exited'[c] = exited[c],
         exit_sema'[c] = exit_sema[c], wait_sema'[c] = wait_sema[c],
         c \in killed' <=> c \in killed, exit_returns' = exit_returns,
         Listed(c)' => Listed(c), Collected(c) => Collected(c)'
  PROVE  Stage(c)'
  BY Zenon DEF Stage, Running, Notifies, IsHeld, Over, NoUnits

(* A step that changes no load status keeps its reports. *)
LEMMA LoadFrame ==
  ASSUME NEW c \in Proc, LoadTold(c), pc'[c] = pc[c], exited'[c] = exited[c],
         load_sema[c] = 0 => load_sema'[c] = 0, success'[c] = success[c],
         exit_status'[c] = exit_status[c], c \in killed => c \in killed'
  PROVE  LoadTold(c)'
  BY Zenon DEF LoadTold

(* A running program, or a call it makes, goes on to another place, and    *)
(* neither starts nor ends the collection of a child.                      *)
LEMMA CallStep ==
  ASSUME PInv, TypeOK', NEW p \in Proc, \A q \in Proc \ {p} : pc'[q] = pc[q],
         pc[p] \in Ordinary \ {"collect"}, pc'[p] \in Ordinary \ {"collect"},
         UNCHANGED <<tree, exit_status, exited, exit_sema, wait_sema, success,
                     exit_returns, killed>>,
         \A c \in Proc : load_sema[c] = 0 => load_sema'[c] = 0,
         \A q \in Proc \ {p} : arg'[q] = arg[q],
         pc'[p] \in Busy => arg'[p] \in child_list[p],
         pc'[p] = "status" => arg'[p] \in killed \/ pc[arg'[p]] \notin Loading,
         p = Main => pc'[p] \in MainPC
  PROVE  PInv'
<1>1. \A q \in Proc \ {p} : pc'[q] = pc[q]
  BY Zenon
<1>2. /\ child_list' = child_list /\ parent' = parent
      /\ \A q \in Proc : child_list[q] \subseteq Proc
  BY Zenon DEF tree, PInv, TypeOK
<1>3. Family'
  <2>1. parent'[Main] = NULL /\ pc'[Main] \in MainPC
    BY <1>1, <1>2, ProcessAssumption, Zenon DEF PInv, Family
  <2>2. \A c \in Proc \ {Main} : parent'[c] = NULL <=> pc'[c] = "unborn"
    BY <1>1, <1>2, Zenon DEF PInv, Family, Ordinary, Busy
  <2>3. \A q \in Proc : pc'[q] \in Busy => arg'[q] \in child_list'[q]
    BY <1>1, <1>2, Zenon DEF PInv, Family
  <2> QED
    BY <1>2, <2>1, <2>2, <2>3, Zenon DEF PInv, Family
<1>4. \A c \in Proc : (Listed(c)' => Listed(c)) /\ (Collected(c) => Collected(c)')
  BY <1>1, <1>2, Zenon DEF Listed, Collected
<1>5. \A c \in Proc : Stage(c)'
  <2>1. \A c \in Proc \ {p} : Stage(c)'
    BY <1>1, <1>4, StageFrame, Zenon DEF PInv
  <2>2. Running(p) \/ Over(p)
    BY Zenon DEF PInv, Stage, Notifies, IsHeld, Ordinary, Busy
  <2>3. ASSUME Running(p) PROVE Stage(p)'
    <3>1. Running(p)'
      BY <1>1, <2>3, Zenon DEF Running, NoUnits, Ordinary, Busy
    <3> QED
      BY <3>1, Zenon DEF Stage
  <2>4. ASSUME Over(p) PROVE Stage(p)'
    <3>1. exit_returns
      BY <2>4, Zenon DEF Over, Ordinary, Busy
    <3>2. Over(p)'
      BY <1>1, <1>4, <2>4, <3>1, Zenon DEF Over, NoUnits, Ordinary, Busy, Loading
    <3> QED
      BY <3>2, Zenon DEF Stage
  <2> QED
    BY <2>1, <2>2, <2>3, <2>4, Zenon
<1>6. \A q \in Proc : Collects(q)'
  <2> SUFFICES ASSUME NEW q \in Proc, pc'[q] = "collect"
               PROVE  pc'[arg'[q]] = "reap" /\ exited'[arg'[q]] /\ NoUnits(arg[q])'
                      /\ arg'[q] = arg[q]
    BY Zenon DEF Collects, NoUnits
  <2>1. q # p /\ pc[q] = "collect" /\ arg'[q] = arg[q]
    BY <1>1, Zenon
  <2>2. pc[arg[q]] = "reap" /\ exited[arg[q]] /\ NoUnits(arg[q])
    BY <2>1, Zenon DEF PInv, Collects
  <2>3. arg[q] \in Proc /\ arg[q] # p
    BY <1>2, <2>1, <2>2, Zenon DEF PInv, Family, Busy, Ordinary
  <2> QED
    BY <1>1, <2>1, <2>2, <2>3, Zenon DEF NoUnits
<1>7. \A c \in Proc : LoadTold(c)'
  <2>1. \A c \in Proc \ {p} : LoadTold(c)'
    BY <1>1, LoadFrame, Zenon DEF PInv
  <2>2. LoadTold(p)'
    BY <1>1, Zenon DEF PInv, LoadTold, Loading, Ordinary, Busy
  <2> QED
    BY <2>1, <2>2, Zenon
<1>8. \A q \in Proc : LoadSeen(q)'
  <2> SUFFICES ASSUME NEW q \in Proc, pc'[q] = "status"
               PROVE  arg'[q] \in killed \/ pc'[arg'[q]] \notin Loading
    BY Zenon DEF LoadSeen
  <2>1. arg'[q] \in killed \/ pc[arg'[q]] \notin Loading
    BY <1>1, Zenon DEF PInv, LoadSeen
  <2>2. arg'[q] \in Proc
    BY <1>2, <1>3, Zenon DEF Family, Busy
  <2>3. pc'[p] \notin Loading
    BY Zenon DEF Ordinary, Busy, Loading
  <2> QED
    BY <1>1, <2>1, <2>2, <2>3, Zenon
<1> QED
  BY <1>3, <1>5, <1>6, <1>7, <1>8, Zenon DEF PInv

(* A process starts, exits or dies: only its own state changes. *)
LEMMA OwnStep ==
  ASSUME PInv, TypeOK', NEW p \in Proc \ {Main}, \A q \in Proc \ {p} : pc'[q] = pc[q],
         pc[p] \notin Busy \cup {"unborn"}, pc'[p] \notin Busy \cup {"unborn"},
         UNCHANGED <<tree, arg, exit_returns>>,
         \A c \in Proc \ {p} :
           /\ exited'[c] = exited[c] /\ exit_status'[c] = exit_status[c]
           /\ load_sema'[c] = load_sema[c] /\ exit_sema'[c] = exit_sema[c]
           /\ wait_sema'[c] = wait_sema[c] /\ success'[c] = success[c]
           /\ c \in killed' <=> c \in killed,
         killed \subseteq killed', pc[p] \notin Loading => pc'[p] \notin Loading,
         pc[p] = "reap" => wait_sema[p] # 0,
         Stage(p)', LoadTold(p)'
  PROVE  PInv'
<1>1. \A q \in Proc \ {p} : pc'[q] = pc[q]
  BY Zenon
<1>2. /\ child_list' = child_list /\ parent' = parent
      /\ \A q \in Proc : child_list[q] \subseteq Proc
  BY Zenon DEF tree, PInv, TypeOK
<1>3. Family'
  <2>1. parent'[Main] = NULL /\ pc'[Main] \in MainPC
    BY <1>1, <1>2, ProcessAssumption, Zenon DEF PInv, Family
  <2>2. \A c \in Proc \ {Main} : parent'[c] = NULL <=> pc'[c] = "unborn"
    BY <1>1, <1>2 DEF PInv, Family
  <2>3. \A q \in Proc : pc'[q] \in Busy => arg'[q] \in child_list'[q]
    BY <1>1, <1>2, Zenon DEF PInv, Family
  <2> QED
    BY <1>2, <2>1, <2>2, <2>3, Zenon DEF PInv, Family
<1>4. \A c \in Proc : (Listed(c)' => Listed(c)) /\ (Collected(c) => Collected(c)')
  BY <1>1, <1>2, Zenon DEF Listed, Collected, Busy
<1>5. \A c \in Proc \ {p} : Stage(c)'
  BY <1>1, <1>4, StageFrame, Zenon DEF PInv
<1>6. \A q \in Proc : Collects(q)'
  <2> SUFFICES ASSUME NEW q \in Proc, pc'[q] = "collect"
               PROVE  pc'[arg[q]] = "reap" /\ exited'[arg[q]] /\ NoUnits(arg[q])'
    BY Zenon DEF Collects, NoUnits
  <2>1. q # p /\ pc[q] = "collect"
    BY <1>1, Zenon DEF Busy
  <2>2. pc[arg[q]] = "reap" /\ exited[arg[q]] /\ NoUnits(arg[q])
    BY <2>1, Zenon DEF PInv, Collects
  <2>3. arg[q] \in Proc /\ arg[q] # p
    BY <1>2, <2>1, <2>2, Zenon DEF PInv, Family, Busy, NoUnits
  <2> QED
    BY <1>1, <2>2, <2>3, Zenon DEF NoUnits
<1>7. \A c \in Proc \ {p} : LoadTold(c)'
  BY <1>1, LoadFrame, Zenon DEF PInv
<1>8. \A q \in Proc : LoadSeen(q)'
  <2> SUFFICES ASSUME NEW q \in Proc, pc'[q] = "status"
               PROVE  arg[q] \in killed' \/ pc'[arg[q]] \notin Loading
    BY Zenon DEF LoadSeen
  <2>1. pc[q] = "status"
    BY <1>1, Zenon DEF Busy
  <2>2. arg[q] \in killed \/ pc[arg[q]] \notin Loading
    BY <2>1, Zenon DEF PInv, LoadSeen
  <2>3. arg[q] \in Proc
    BY <1>2, <2>1, Zenon DEF PInv, Family, Busy
  <2> QED
    BY <1>1, <2>2, <2>3, Zenon
<1> QED
  BY <1>3, <1>5, <1>6, <1>7, <1>8, Zenon DEF PInv
----------------------------------------------------------------------------
(* Types. *)
LEMMA TypeNext == PInv /\ [Next]_vars => TypeOK'
<1> SUFFICES ASSUME PInv PROVE [Next]_vars => TypeOK'
  BY Zenon
<1>t. TypeOK /\ \A p \in Proc : pc[p] \in Busy => arg[p] \in Proc
  BY Zenon DEF PInv, Family, TypeOK
<1>g. ASSUME NEW p \in Proc, NEW l \in PC PROVE [pc EXCEPT ![p] = l] \in [Proc -> PC]
  BY <1>t, Zenon DEF TypeOK
<1>r. ASSUME NEW p \in Proc, NEW v \in Int, Return(p, v)
      PROVE  /\ pc' \in [Proc -> PC] /\ ret' \in [Proc -> Int]
             /\ arg' \in [Proc -> Proc \cup {NULL}]
  BY <1>r, <1>t, Zenon DEF Return, Goto, TypeOK, PC
<1>u. ASSUME NEW p \in Proc, Undefined(p)
      PROVE  /\ pc' \in [Proc -> PC] /\ ret' \in [Proc -> Int]
             /\ arg' \in [Proc -> Proc \cup {NULL}] /\ stopped' \in {"no", "off", "panic"}
  BY <1>u, <1>t, Zenon DEF Undefined, Goto, TypeOK, PC
<1>f. Failed \in Int /\ 1 \in Int
  BY DEF Failed
<1>1. ASSUME NEW p \in Proc, NEW c \in Proc, ProcessExecute(p, c) PROVE TypeOK'
  BY <1>1, <1>t DEF ProcessExecute, TypeOK, PC, semas
<1>2. ASSUME NEW p \in Proc, ProcessExecuteFails(p) PROVE TypeOK'
  BY <1>2, <1>t, <1>r, <1>u, <1>f, Zenon DEF ProcessExecuteFails, TypeOK, tree, semas
<1>3. ASSUME NEW p \in Proc, ExecFind(p) PROVE TypeOK'
  BY <1>3, <1>t, <1>g, <1>r, <1>u, <1>f DEF ExecFind, Goto, TypeOK, tree, semas, PC
<1>4. ASSUME NEW p \in Proc, ExecLoad(p) PROVE TypeOK'
  <2>1. arg[p] \in Proc /\ UNCHANGED <<tree, exit_status, exited, exit_sema, wait_sema, success,
                     arg, ret, exit_returns, killed, stopped>>
    BY <1>4, <1>t, Zenon DEF ExecLoad, At, Busy
  <2>2. pc' \in [Proc -> PC]
    BY <1>4, <1>t, Zenon DEF ExecLoad, Goto, PC, TypeOK
  <2>3. load_sema' \in [Proc -> Nat]
    BY <1>4, <1>t, <2>1 DEF ExecLoad, TypeOK
  <2> QED
    BY <1>t, <2>1, <2>2, <2>3, Zenon DEF TypeOK, tree
<1>5. ASSUME NEW p \in Proc, ExecStatus(p) PROVE TypeOK'
  BY <1>5, <1>t, <1>r, <1>f, Zenon DEF ExecStatus, TypeOK, tree, semas
<1>6. ASSUME NEW p \in Proc, Load(p) PROVE TypeOK'
  BY <1>6, <1>t DEF Load, Goto, TypeOK, tree, semas, PC
<1>7. ASSUME NEW p \in Proc, LoadSucceeded(p) PROVE TypeOK'
  BY <1>7, <1>t DEF LoadSucceeded, Goto, TypeOK, tree, PC
<1>8. ASSUME NEW p \in Proc, LoadFailed(p) PROVE TypeOK'
  BY <1>8, <1>t, <1>f, Zenon DEF LoadFailed, Goto, TypeOK, tree, semas, PC
<1>9. ASSUME NEW p \in Proc, LoadFailedUp(p) PROVE TypeOK'
  BY <1>9, <1>t DEF LoadFailedUp, Goto, TypeOK, tree, PC
<1>e. ASSUME NEW p \in Proc, NEW s \in Int, NEW e, ExitBody(p, s, e)
      PROVE  pc' \in [Proc -> PC] /\ exit_status' \in [Proc -> Int]
  BY <1>e, <1>t DEF ExitBody, Goto, TypeOK, PC
<1>10. ASSUME NEW p \in Proc, NEW s \in ExitCode, Exit(p, s) PROVE TypeOK'
  <2>1. pc' \in [Proc -> PC] /\ exit_status' \in [Proc -> Int]
    BY <1>10, <1>e, ProcessAssumption, Zenon DEF Exit
  <2>2. exited' \in [Proc -> BOOLEAN]
    BY <1>10, <1>t, Zenon DEF Exit, TypeOK
  <2> QED
    BY <1>10, <1>t, <2>1, <2>2, Zenon DEF Exit, TypeOK, tree, semas
<1>11. ASSUME NEW p \in Proc, LoadFailedExit(p) PROVE TypeOK'
  <2>1. pc' \in [Proc -> PC] /\ exit_status' \in [Proc -> Int]
    BY <1>11, <1>e, <1>f, Zenon DEF LoadFailedExit
  <2>2. exited' \in [Proc -> BOOLEAN]
    BY <1>11, <1>t, Zenon DEF LoadFailedExit, TypeOK
  <2> QED
    BY <1>11, <1>t, <2>1, <2>2, Zenon DEF LoadFailedExit, TypeOK, tree, semas
<1>12. ASSUME NEW p \in Proc, PageFault(p) PROVE TypeOK'
  <2>1. pc' \in [Proc -> PC] /\ exit_status' \in [Proc -> Int]
    <3>1. ExitBody(p, Failed, TRUE)
      BY <1>12, Zenon DEF PageFault
    <3> QED
      BY <1>e, <1>f, <3>1, Zenon
  <2>2. exited' \in [Proc -> BOOLEAN] /\ killed' \subseteq Proc
    BY <1>12, <1>t, Zenon DEF PageFault, TypeOK
  <2> QED
    BY <1>12, <1>t, <2>1, <2>2, Zenon DEF PageFault, TypeOK, tree, semas
<1>13. ASSUME NEW p \in Proc, ExitNotify(p) PROVE TypeOK'
  BY <1>13, <1>t DEF ExitNotify, Goto, TypeOK, tree, PC
<1>14. ASSUME NEW p \in Proc, ExitReaped(p) PROVE TypeOK'
  BY <1>14, <1>t DEF ExitReaped, Goto, TypeOK, tree, PC
<1>15. ASSUME NEW p \in Proc, ExitEnd(p) PROVE TypeOK'
  BY <1>15, <1>t, Zenon DEF ExitEnd, Goto, TypeOK, tree, semas, PC
<1>16. ASSUME NEW p \in Proc, ExitReturned(p) PROVE TypeOK'
  BY <1>16, <1>t, <1>g, <1>u DEF ExitReturned, Goto, TypeOK, tree, semas, PC
<1>17. ASSUME NEW p \in Proc, ThreadExit(p) PROVE TypeOK'
  BY <1>17, <1>t, Zenon DEF ThreadExit, Goto, TypeOK, tree, semas, PC
<1>18. ASSUME NEW p \in Proc, NEW c \in Proc, Wait(p, c) PROVE TypeOK'
  <2>1. UNCHANGED <<tree, exit_status, exited, semas, success, exit_returns, killed>>
    BY <1>18, Zenon DEF Wait
  <2>2. CASE Goto(p, "sleep") /\ arg' = [arg EXCEPT ![p] = c]
             /\ ret' = [ret EXCEPT ![p] = 0] /\ UNCHANGED stopped
    BY <1>t, <2>1, <2>2 DEF Goto, TypeOK, tree, semas, PC
  <2>3. CASE Return(p, Failed) /\ UNCHANGED stopped
    BY <1>t, <1>r, <1>f, <2>1, <2>3, Zenon DEF TypeOK, tree, semas
  <2>4. CASE Undefined(p)
    BY <1>t, <1>u, <2>1, <2>4, Zenon DEF TypeOK, tree, semas
  <2> QED
    BY <1>18, <2>2, <2>3, <2>4, Zenon DEF Wait
<1>19. ASSUME NEW p \in Proc, WaitSlept(p) PROVE TypeOK'
  BY <1>19, <1>t, Zenon DEF WaitSlept, Goto, TypeOK, tree, semas, PC
<1>20. ASSUME NEW p \in Proc, ProcessWait(p) PROVE TypeOK'
  BY <1>20, <1>t, <1>g, <1>r, <1>f DEF ProcessWait, Goto, TypeOK, tree, semas, PC
<1>21. ASSUME NEW p \in Proc, ProcessWaitExit(p) PROVE TypeOK'
  <2>1. arg[p] \in Proc /\ UNCHANGED <<tree, exit_status, exited, load_sema, wait_sema,
                                       success, exit_returns, killed>>
    BY <1>21, <1>t, Zenon DEF ProcessWaitExit, At, Busy
  <2>2. /\ pc' \in [Proc -> PC] /\ ret' \in [Proc -> Int]
        /\ arg' \in [Proc -> Proc \cup {NULL}] /\ stopped' \in {"no", "off", "panic"}
    <3>1. CASE Undefined(p)
      BY <1>u, <3>1, Zenon
    <3>2. CASE (Goto(p, "exit_blocked") \/ Goto(p, "collect")) /\ UNCHANGED <<ret, arg, stopped>>
      BY <1>t, <3>2, Zenon DEF Goto, TypeOK, PC
    <3> QED
      BY <1>21, <3>1, <3>2, Zenon DEF ProcessWaitExit
  <2>3. exit_sema' \in [Proc -> Nat]
    BY <1>21, <1>t, <2>1 DEF ProcessWaitExit, TypeOK
  <2> QED
    BY <1>t, <2>1, <2>2, <2>3, Zenon DEF TypeOK, tree
<1>22. ASSUME NEW p \in Proc, ProcessWaitCollect(p) PROVE TypeOK'
  <2>1. arg[p] \in Proc
    BY <1>22, <1>t, Zenon DEF ProcessWaitCollect, At, Busy
  <2>2. exit_status[arg[p]] \in Int
    BY <1>t, <2>1, Zenon DEF TypeOK
  <2>3. /\ pc' \in [Proc -> PC] /\ ret' \in [Proc -> Int]
        /\ arg' \in [Proc -> Proc \cup {NULL}]
    BY <1>22, <1>r, <2>2, Zenon DEF ProcessWaitCollect
  <2>4. child_list' \in [Proc -> SUBSET Proc] /\ wait_sema' \in [Proc -> Nat]
    BY <1>22, <1>t, <2>1 DEF ProcessWaitCollect, TypeOK
  <2> QED
    BY <1>22, <1>t, <2>3, <2>4, Zenon DEF ProcessWaitCollect, TypeOK
<1>23. ASSUME NEW p \in Proc, Halt(p) PROVE TypeOK'
  BY <1>23, <1>t, Zenon DEF Halt, TypeOK, tree, semas
<1>24. ASSUME UNCHANGED vars PROVE TypeOK'
  BY <1>24, <1>t, Zenon DEF vars, TypeOK, tree, semas
<1> QED
  BY <1>1, <1>2, <1>3, <1>4, <1>5, <1>6, <1>7, <1>8, <1>9, <1>10, <1>11, <1>12,
     <1>13, <1>14, <1>15, <1>16, <1>17, <1>18, <1>19, <1>20, <1>21, <1>22, <1>23,
     <1>24, Zenon
     DEF Next, Call, KernelStep, Stopped
----------------------------------------------------------------------------
(* exec and wait, up to the collection of a child. *)
LEMMA CallNext ==
  ASSUME PInv, TypeOK', NEW p \in Proc,
         \/ ProcessExecuteFails(p) \/ ExecFind(p) \/ ExecLoad(p) \/ ExecStatus(p)
         \/ (\E c \in Proc : Wait(p, c)) \/ WaitSlept(p) \/ ProcessWait(p)
  PROVE  PInv'
<1>a. /\ pc \in [Proc -> PC] /\ arg \in [Proc -> Proc \cup {NULL}]
      /\ ret \in [Proc -> Int] /\ load_sema \in [Proc -> Nat]
  BY Zenon DEF PInv, TypeOK
<1>b. /\ pc[p] \in Busy => arg[p] \in child_list[p] /\ arg[p] \in Proc
      /\ p = Main => pc[p] \in MainPC
  BY Zenon DEF PInv, Family, TypeOK
<1>g. ASSUME NEW l \in PC, Goto(p, l) PROVE pc'[p] = l /\ \A q \in Proc \ {p} : pc'[q] = pc[q]
  BY <1>a, <1>g, Zenon DEF Goto
<1>r. ASSUME NEW v, Return(p, v), pc[p] \in Ordinary \ {"collect"},
             UNCHANGED <<tree, exit_status, exited, semas, success, exit_returns, killed>>
      PROVE  PInv'
  <2>1. pc'[p] = "user" /\ \A q \in Proc \ {p} : pc'[q] = pc[q] /\ arg'[q] = arg[q]
    BY <1>a, <1>r, Zenon DEF Return, Goto
  <2>2. pc'[p] \notin Busy /\ pc'[p] \in MainPC /\ pc'[p] \in Ordinary \ {"collect"}
    BY <2>1, Zenon DEF Busy, MainPC, Ordinary
  <2> QED
    BY <1>r, <2>1, <2>2, CallStep, Zenon DEF semas
<1>u. ASSUME Undefined(p), pc[p] \in Ordinary \ {"collect"},
             UNCHANGED <<tree, exit_status, exited, semas, success, exit_returns, killed>>
      PROVE  PInv'
  <2>1. CASE pc' = pc
    BY <1>u, <2>1, StillStep, Zenon DEF Undefined
  <2>2. CASE Goto(p, "stuck")
    <3>1. pc'[p] = "stuck" /\ \A q \in Proc \ {p} : pc'[q] = pc[q]
      BY <1>a, <2>2, Zenon DEF Goto
    <3>2. pc'[p] \notin Busy /\ pc'[p] \in MainPC /\ pc'[p] \in Ordinary \ {"collect"}
      BY <3>1, Zenon DEF Busy, MainPC, Ordinary
    <3> QED
      BY <1>u, <3>1, <3>2, CallStep, Zenon DEF semas, Undefined
  <2> QED
    BY <1>u, <2>1, <2>2, Zenon DEF Undefined
<1>1. CASE ProcessExecuteFails(p)
  <2>1. /\ UNCHANGED <<tree, exit_status, exited, semas, success, exit_returns, killed>>
        /\ pc[p] = "user" /\ (Return(p, Failed) \/ Undefined(p))
    BY <1>1, Zenon DEF ProcessExecuteFails, At
  <2>2. pc[p] \in Ordinary \ {"collect"}
    BY <2>1, Zenon DEF Ordinary
  <2> QED
    BY <1>r, <1>u, <2>1, <2>2, Zenon
<1>2. CASE ExecFind(p)
  <2>1. /\ UNCHANGED <<tree, exit_status, exited, semas, success, exit_returns, killed>>
        /\ pc[p] = "find"
        /\ (Goto(p, "load") /\ arg' = arg) \/ Return(p, Failed) \/ Undefined(p)
    BY <1>2, Zenon DEF ExecFind, At
  <2>2. pc[p] \in Ordinary \ {"collect"}
    BY <2>1, Zenon DEF Ordinary, Busy
  <2>3. CASE Goto(p, "load") /\ arg' = arg
    <3>1. pc'[p] = "load" /\ \A q \in Proc \ {p} : pc'[q] = pc[q]
      BY <1>g, <2>3, Zenon DEF PC
    <3>2. /\ pc'[p] \in Ordinary \ {"collect"} /\ pc'[p] # "status" /\ p # Main
          /\ arg[p] \in child_list[p]
      BY <1>b, <2>1, <3>1, Zenon DEF Ordinary, Busy, MainPC
    <3> QED
      BY <2>1, <2>2, <2>3, <3>1, <3>2, CallStep, Zenon DEF semas
  <2> QED
    BY <1>r, <1>u, <2>1, <2>2, <2>3, Zenon
<1>3. CASE ExecLoad(p)
  <2>1. /\ UNCHANGED <<tree, exit_status, exited, exit_sema, wait_sema, success,
                       arg, exit_returns, killed>>
        /\ pc[p] \in {"load", "load_blocked"}
        /\ \/ load_sema' = load_sema
           \/ load_sema[arg[p]] > 0 /\ load_sema' = [load_sema EXCEPT ![arg[p]] = @ - 1]
        /\ Goto(p, "load_blocked") \/ Goto(p, "status") \/ Goto(p, "stuck")
        /\ Goto(p, "status") => ~Alive(arg[p]) \/ load_sema[arg[p]] > 0
    <3>1. Goto(p, "load_blocked") => ~Goto(p, "status")
      BY <1>a, Zenon DEF Goto
    <3> QED
      BY <1>3, <3>1, Zenon DEF ExecLoad, At
  <2>2. /\ pc[p] \in Ordinary \ {"collect"} /\ p # Main
        /\ arg[p] \in child_list[p] /\ arg[p] \in Proc
    BY <1>b, <2>1, Zenon DEF Ordinary, Busy, MainPC
  <2>3. \A c \in Proc : load_sema[c] = 0 => load_sema'[c] = 0
    BY <1>a, <2>1, <2>2
  <2>4. \A q \in Proc \ {p} : pc'[q] = pc[q]
    BY <1>a, <2>1, Zenon DEF Goto
  <2>5. /\ pc'[p] \in {"load_blocked", "status", "stuck"}
        /\ pc'[p] = "status" => ~Alive(arg[p]) \/ load_sema[arg[p]] > 0
    BY <1>a, <2>1, Zenon DEF Goto
  <2>6. ~Alive(arg[p]) => arg[p] \in killed
    <3> SUFFICES ASSUME ~Alive(arg[p]) PROVE arg[p] \in killed
      BY Zenon
    <3>1. parent[arg[p]] = p /\ parent[arg[p]] # NULL
      BY <2>2, ProcessAssumption, Zenon DEF PInv, Family
    <3>2. pc[arg[p]] = "dead"
      BY <2>2, <3>1, ProcessAssumption, Zenon DEF PInv, Family, Alive
    <3>3. Listed(arg[p]) /\ Stage(arg[p])
      BY <2>2, Zenon DEF PInv, Listed
    <3> QED
      BY <3>2, <3>3, Zenon DEF Stage, Running, Notifies, IsHeld, Over
  <2>7. load_sema[arg[p]] > 0 => pc[arg[p]] \notin Loading
    BY <2>2 DEF PInv, LoadTold
  <2>8. pc'[p] = "status" => arg[p] \in killed \/ pc[arg[p]] \notin Loading
    BY <2>5, <2>6, <2>7, Zenon
  <2>9. pc'[p] \in Ordinary \ {"collect"}
    BY <2>5, Zenon DEF Ordinary, Busy
  <2>10. UNCHANGED <<tree, exit_status, exited, exit_sema, wait_sema, success,
                     arg, exit_returns, killed>>
    BY <2>1, Zenon
  <2> QED
    BY <2>2, <2>3, <2>4, <2>8, <2>9, <2>10, CallStep, Zenon
<1>4. CASE ExecStatus(p)
  <2>1. /\ UNCHANGED <<tree, exit_status, exited, semas, success, exit_returns, killed>>
        /\ pc[p] = "status" /\ \E v : Return(p, v)
    BY <1>4, Zenon DEF ExecStatus, At
  <2>2. pc[p] \in Ordinary \ {"collect"}
    BY <2>1, Zenon DEF Ordinary, Busy
  <2> QED
    BY <1>r, <2>1, <2>2, Zenon
<1>5. ASSUME NEW c \in Proc, Wait(p, c) PROVE PInv'
  <2>1. /\ UNCHANGED <<tree, exit_status, exited, semas, success, exit_returns, killed>>
        /\ pc[p] = "user" /\ p # Main
        /\ \/ Linked(p, c) /\ Goto(p, "sleep") /\ arg' = [arg EXCEPT ![p] = c]
           \/ Return(p, Failed) \/ Undefined(p)
    BY <1>5, Zenon DEF Wait, At
  <2>2. pc[p] \in Ordinary \ {"collect"}
    BY <2>1, Zenon DEF Ordinary
  <2>3. CASE Linked(p, c) /\ Goto(p, "sleep") /\ arg' = [arg EXCEPT ![p] = c]
    <3>1. /\ pc'[p] = "sleep" /\ \A q \in Proc \ {p} : pc'[q] = pc[q] /\ arg'[q] = arg[q]
          /\ arg'[p] \in child_list[p]
      BY <1>a, <2>3, Zenon DEF Goto, Linked
    <3>2. pc'[p] \in Ordinary \ {"collect"} /\ pc'[p] # "status"
      BY <3>1, Zenon DEF Ordinary, Busy
    <3> QED
      BY <2>1, <2>2, <3>1, <3>2, CallStep, Zenon DEF semas
  <2> QED
    BY <1>r, <1>u, <2>1, <2>2, <2>3, Zenon
<1>6. CASE WaitSlept(p)
  <2>1. /\ UNCHANGED <<tree, exit_status, exited, semas, success, exit_returns, killed, arg>>
        /\ pc[p] = "sleep" /\ Goto(p, "wait")
    BY <1>6, Zenon DEF WaitSlept, At
  <2>2. pc'[p] = "wait" /\ \A q \in Proc \ {p} : pc'[q] = pc[q]
    BY <1>g, <2>1, Zenon DEF PC
  <2>3. /\ pc[p] \in Ordinary \ {"collect"} /\ pc'[p] \in Ordinary \ {"collect"}
        /\ pc'[p] # "status" /\ pc'[p] \in MainPC /\ arg[p] \in child_list[p]
    BY <1>b, <2>1, <2>2, Zenon DEF Ordinary, Busy, MainPC
  <2>4. /\ UNCHANGED <<tree, exit_status, exited, exit_sema, wait_sema, success,
                       exit_returns, killed, arg>>
        /\ load_sema' = load_sema
    BY <2>1, Zenon DEF semas
  <2> QED
    BY <2>2, <2>3, <2>4, CallStep, Zenon
<1>7. CASE ProcessWait(p)
  <2>1. /\ UNCHANGED <<tree, exit_status, exited, semas, success, exit_returns, killed>>
        /\ pc[p] = "wait"
        /\ (Goto(p, "exit") /\ arg' = arg) \/ Return(p, Failed)
    BY <1>7, Zenon DEF ProcessWait, At
  <2>2. pc[p] \in Ordinary \ {"collect"} /\ arg[p] \in child_list[p]
    BY <1>b, <2>1, Zenon DEF Ordinary, Busy
  <2>3. CASE Goto(p, "exit") /\ arg' = arg
    <3>1. pc'[p] = "exit" /\ \A q \in Proc \ {p} : pc'[q] = pc[q]
      BY <1>g, <2>3, Zenon DEF PC
    <3>2. pc'[p] \in Ordinary \ {"collect"} /\ pc'[p] # "status" /\ pc'[p] \in MainPC
      BY <3>1, Zenon DEF Ordinary, Busy, MainPC
    <3> QED
      BY <2>1, <2>2, <2>3, <3>1, <3>2, CallStep, Zenon DEF semas
  <2> QED
    BY <1>r, <2>1, <2>2, <2>3, Zenon
<1> QED
  BY <1>1, <1>2, <1>3, <1>4, <1>5, <1>6, <1>7, Zenon
----------------------------------------------------------------------------
(* start_process and exit, of process p. *)
LEMMA OwnNext ==
  ASSUME PInv, TypeOK', NEW p \in Proc,
         \/ Load(p) \/ LoadSucceeded(p) \/ LoadFailed(p) \/ LoadFailedUp(p)
         \/ LoadFailedExit(p) \/ (\E s \in ExitCode : Exit(p, s)) \/ PageFault(p)
         \/ ThreadExit(p) \/ ExitNotify(p) \/ ExitReaped(p) \/ ExitEnd(p)
         \/ ExitReturned(p)
  PROVE  PInv'
<1>a. /\ pc \in [Proc -> PC] /\ exit_status \in [Proc -> Int]
      /\ exited \in [Proc -> BOOLEAN] /\ load_sema \in [Proc -> Nat]
      /\ exit_sema \in [Proc -> Nat] /\ wait_sema \in [Proc -> Nat]
      /\ success \in [Proc -> BOOLEAN] /\ killed \subseteq Proc
  BY Zenon DEF PInv, TypeOK
<1>b. Stage(p) /\ LoadTold(p)
  BY Zenon DEF PInv
<1>m. p = Main => pc[p] \in MainPC
  BY Zenon DEF PInv, Family
<1>f. UNCHANGED child_list => (Listed(p)' <=> Listed(p))
  BY Zenon DEF Listed
<1>s. ASSUME pc[p] \notin {"notify", "reap", "leave", "returned", "dead"}, ~exited[p]
      PROVE  Running(p)
  BY <1>b, <1>s, Zenon DEF Stage, Notifies, IsHeld, Over
<1>e. pc[p] \in Loading \cup {"quit"} => ~exited[p]
  BY <1>b, Zenon DEF Stage, Running, Notifies, IsHeld, Over, Loading
(* A step of start_process that leaves exit alone. *)
<1>l. ASSUME pc[p] \in Loading, pc'[p] \in {"loaded", "failed", "failup", "quit", "user"},
             UNCHANGED <<exited, exit_sema, wait_sema, killed>>
      PROVE  Stage(p)'
  <2>1. Running(p)
    BY <1>e, <1>l, <1>s, Zenon DEF Loading
  <2>2. Running(p)'
    BY <1>l, <2>1, Zenon DEF Running, NoUnits, Loading
  <2> QED
    BY <2>2, Zenon DEF Stage
<1>1. CASE Load(p)
  <2>1. /\ pc[p] = "start" /\ UNCHANGED <<tree, exit_status, exited, semas, arg,
                                          exit_returns, killed>>
        /\ \E ok \in BOOLEAN : /\ success' = [success EXCEPT ![p] = ok]
                               /\ pc' = [pc EXCEPT ![p] = IF ok THEN "loaded" ELSE "failed"]
    BY <1>1, Zenon DEF Load, At, Goto
  <2>2. PICK ok \in BOOLEAN : /\ success' = [success EXCEPT ![p] = ok]
                              /\ pc' = [pc EXCEPT ![p] = IF ok THEN "loaded" ELSE "failed"]
    BY <2>1, Zenon
  <2>3. /\ success'[p] = ok /\ pc'[p] = IF ok THEN "loaded" ELSE "failed"
        /\ \A q \in Proc \ {p} : pc'[q] = pc[q] /\ success'[q] = success[q]
    BY <1>a, <2>2, Zenon
  <2>4. Stage(p)'
    BY <1>l, <2>1, <2>3, Zenon DEF Loading, semas
  <2>5. LoadTold(p)'
    <3>1. /\ load_sema[p] = 0 /\ ~success[p]
          /\ UNCHANGED <<exit_status, exited, load_sema, killed>>
      BY <1>b, <2>1, Zenon DEF LoadTold, Loading, semas
    <3>2. exit_status[p] # Failed
      BY <1>b, <2>1, Zenon DEF LoadTold
    <3>3. CASE ok = TRUE
      BY <2>3, <3>1, <3>2, <3>3, Zenon DEF LoadTold, Loading
    <3>4. CASE ok = FALSE
      BY <2>3, <3>1, <3>2, <3>4, Zenon DEF LoadTold, Loading
    <3> QED
      BY <2>2, <3>3, <3>4, Zenon
  <2>6. p # Main /\ pc[p] \notin Busy \cup {"unborn"} /\ pc'[p] \notin Busy \cup {"unborn"}
    BY <1>m, <2>1, <2>3, Zenon DEF MainPC, Busy
  <2> QED
    BY <2>1, <2>3, <2>4, <2>5, <2>6, OwnStep, Zenon DEF semas, Loading
<1>2. CASE LoadSucceeded(p)
  <2>1. /\ pc[p] = "loaded" /\ load_sema' = [load_sema EXCEPT ![p] = @ + 1]
        /\ pc' = [pc EXCEPT ![p] = "user"]
        /\ UNCHANGED <<tree, exit_status, exited, exit_sema, wait_sema, success,
                       arg, exit_returns, killed>>
    BY <1>2, Zenon DEF LoadSucceeded, At, Goto
  <2>2. pc'[p] = "user" /\ \A q \in Proc \ {p} : pc'[q] = pc[q] /\ load_sema'[q] = load_sema[q]
    BY <1>a, <2>1, Zenon
  <2>3. Stage(p)'
    BY <1>l, <2>1, <2>2, Zenon DEF Loading
  <2>4. LoadTold(p)'
    BY <1>b, <2>1, <2>2, Zenon DEF LoadTold, Loading
  <2>5. p # Main /\ pc[p] \notin Busy \cup {"unborn"} /\ pc'[p] \notin Busy \cup {"unborn"}
    BY <1>m, <2>1, <2>2, Zenon DEF MainPC, Busy
  <2> QED
    BY <2>1, <2>2, <2>3, <2>4, <2>5, OwnStep, Zenon DEF Loading
<1>3. CASE LoadFailed(p)
  <2>1. /\ pc[p] = "failed" /\ exit_status' = [exit_status EXCEPT ![p] = Failed]
        /\ pc' = [pc EXCEPT ![p] = "failup"]
        /\ UNCHANGED <<tree, exited, semas, success, arg, exit_returns, killed>>
    BY <1>3, Zenon DEF LoadFailed, At, Goto
  <2>2. /\ pc'[p] = "failup" /\ exit_status'[p] = Failed
        /\ \A q \in Proc \ {p} : pc'[q] = pc[q] /\ exit_status'[q] = exit_status[q]
    BY <1>a, <2>1, Zenon
  <2>3. Stage(p)'
    BY <1>l, <2>1, <2>2, Zenon DEF Loading, semas
  <2>4. LoadTold(p)'
    BY <1>b, <2>1, <2>2, Zenon DEF LoadTold, Loading, semas
  <2>5. p # Main /\ pc[p] \notin Busy \cup {"unborn"} /\ pc'[p] \notin Busy \cup {"unborn"}
    BY <1>m, <2>1, <2>2, Zenon DEF MainPC, Busy
  <2> QED
    BY <2>1, <2>2, <2>3, <2>4, <2>5, OwnStep, Zenon DEF Loading, semas
<1>4. CASE LoadFailedUp(p)
  <2>1. /\ pc[p] = "failup" /\ load_sema' = [load_sema EXCEPT ![p] = @ + 1]
        /\ pc' = [pc EXCEPT ![p] = "quit"]
        /\ UNCHANGED <<tree, exit_status, exited, exit_sema, wait_sema, success,
                       arg, exit_returns, killed>>
    BY <1>4, Zenon DEF LoadFailedUp, At, Goto
  <2>2. pc'[p] = "quit" /\ \A q \in Proc \ {p} : pc'[q] = pc[q] /\ load_sema'[q] = load_sema[q]
    BY <1>a, <2>1, Zenon
  <2>3. Stage(p)'
    BY <1>l, <2>1, <2>2, Zenon DEF Loading
  <2>4. LoadTold(p)'
    BY <1>b, <2>1, <2>2, Zenon DEF LoadTold, Loading
  <2>5. p # Main /\ pc[p] \notin Busy \cup {"unborn"} /\ pc'[p] \notin Busy \cup {"unborn"}
    BY <1>m, <2>1, <2>2, Zenon DEF MainPC, Busy
  <2> QED
    BY <2>1, <2>2, <2>3, <2>4, <2>5, OwnStep, Zenon DEF Loading
(* exit, entered with ~exited, or entered again. *)
<1>x. ASSUME NEW s \in Int, NEW e \in BOOLEAN, ExitBody(p, s, e), p # Main, exited[p] => e,
             pc[p] \in {"user", "quit"}, pc[p] = "quit" => s = Failed,
             exited' = [exited EXCEPT ![p] = TRUE],
             killed' = IF e /\ exit_returns /\ ~exited[p] THEN killed \cup {p} ELSE killed,
             UNCHANGED <<tree, semas, success, arg, exit_returns>>
      PROVE  PInv'
  <2>1. /\ exited'[p] = TRUE /\ \A q \in Proc \ {p} : exited'[q] = exited[q]
        /\ killed \subseteq killed' /\ \A q \in Proc \ {p} : q \in killed' <=> q \in killed
    BY <1>a, <1>x, Zenon
  <2>2. NoUnits(p) /\ (exited[p] => Over(p)) /\ (~exited[p] => Running(p))
    BY <1>b, <1>x, Zenon DEF Stage, Running, Notifies, IsHeld, Over
  <2>3. exited[p] => exit_returns /\ pc[p] = "user"
    BY <1>x, <2>2, Zenon DEF Over
  <2>u. /\ UNCHANGED <<tree, arg, exit_returns>>
        /\ \A q \in Proc \ {p} :
             /\ load_sema'[q] = load_sema[q] /\ exit_sema'[q] = exit_sema[q]
             /\ wait_sema'[q] = wait_sema[q] /\ success'[q] = success[q]
    BY <1>x, Zenon DEF semas
  <2>4. CASE e /\ exit_returns
    <3>1. pc' = [pc EXCEPT ![p] = "returned"] /\ exit_status' = exit_status
      BY <1>x, <2>4, Zenon DEF ExitBody, Goto
    <3>2. pc'[p] = "returned" /\ \A q \in Proc \ {p} : pc'[q] = pc[q]
      BY <1>a, <3>1, Zenon
    <3>3. p \in killed' \/ ~Listed(p)'
      BY <1>f, <1>x, <2>2, <2>4, Zenon DEF Over, tree
    <3>4. Over(p)'
      BY <1>x, <2>1, <2>2, <2>4, <3>2, <3>3, Zenon DEF Over, NoUnits, Loading, semas
    <3>5. LoadTold(p)'
      BY <1>b, <1>x, <2>1, <3>1, <3>2, Zenon DEF LoadTold, Loading
    <3>6. /\ pc[p] \notin Busy \cup {"unborn"} /\ pc'[p] \notin Busy \cup {"unborn"}
          /\ pc'[p] \notin Loading /\ pc[p] # "reap"
      BY <1>x, <3>2, Zenon DEF Busy, Loading
    <3>7. Stage(p)' /\ p \in Proc \ {Main}
      BY <1>x, <3>4, Zenon DEF Stage
    <3>8. \A q \in Proc \ {p} : exit_status'[q] = exit_status[q]
      BY <3>1, Zenon
    <3> QED
      BY <2>1, <2>u, <3>2, <3>5, <3>6, <3>7, <3>8, OwnStep, Zenon
  <2>5. CASE ~(e /\ exit_returns)
    <3>1. pc' = [pc EXCEPT ![p] = "notify"] /\ exit_status' = [exit_status EXCEPT ![p] = s]
      BY <1>x, <2>5, Zenon DEF ExitBody, Goto
    <3>2. /\ pc'[p] = "notify" /\ exit_status'[p] = s
          /\ \A q \in Proc \ {p} : pc'[q] = pc[q] /\ exit_status'[q] = exit_status[q]
      BY <1>a, <3>1, Zenon
    <3>3. ~exited[p] /\ killed' = killed
      BY <1>x, <2>3, <2>5, Zenon
    <3>4. p \notin killed
      BY <1>x, <2>2, <3>3, Zenon DEF Running
    <3>5. Notifies(p)'
      BY <1>x, <2>1, <2>2, <3>2, <3>3, <3>4, Zenon DEF Notifies, NoUnits, semas
    <3>6. LoadTold(p)'
      BY <1>b, <1>x, <2>1, <3>2, <3>3, <3>4, Zenon DEF LoadTold, Loading
    <3>7. /\ pc[p] \notin Busy \cup {"unborn"} /\ pc'[p] \notin Busy \cup {"unborn"}
          /\ pc'[p] \notin Loading /\ pc[p] # "reap"
      BY <1>x, <3>2, Zenon DEF Busy, Loading
    <3>8. Stage(p)' /\ p \in Proc \ {Main}
      BY <1>x, <3>5, Zenon DEF Stage
    <3> QED
      BY <2>1, <2>u, <3>2, <3>6, <3>7, <3>8, OwnStep, Zenon
  <2> QED
    BY <2>4, <2>5, Zenon
<1>5. CASE LoadFailedExit(p)
  <2>1. pc[p] = "quit" /\ p # Main /\ ~exited[p] /\ Failed \in Int
    BY <1>5, <1>e, <1>m DEF LoadFailedExit, At, MainPC, Failed
  <2>2. ExitBody(p, Failed, FALSE)
    BY <1>5, <1>a, <2>1, Zenon DEF LoadFailedExit, ExitBody
  <2>3. /\ exited' = [exited EXCEPT ![p] = TRUE] /\ killed' = killed
        /\ UNCHANGED <<tree, semas, success, arg, exit_returns>>
    BY <1>5, Zenon DEF LoadFailedExit
  <2>4. killed' = IF FALSE /\ exit_returns /\ ~exited[p] THEN killed \cup {p} ELSE killed
    BY <2>3, Zenon
  <2>5. FALSE \in BOOLEAN /\ pc[p] \in {"user", "quit"}
    BY <2>1, Zenon
  <2> QED
    BY <1>x, <2>1, <2>2, <2>3, <2>4, <2>5, Zenon
<1>6. ASSUME NEW s \in ExitCode, Exit(p, s) PROVE PInv'
  <2>1. pc[p] = "user" /\ p # Main /\ s \in Int /\ exited[p] \in BOOLEAN
    BY <1>6, <1>a, ProcessAssumption, Zenon DEF Exit, At
  <2>2. killed' = IF exited[p] /\ exit_returns /\ ~exited[p] THEN killed \cup {p} ELSE killed
    BY <1>6, Zenon DEF Exit
  <2> QED
    BY <1>6, <1>x, <2>1, <2>2, Zenon DEF Exit
<1>7. CASE PageFault(p)
  <2>1. pc[p] = "user" /\ p # Main /\ Failed \in Int
    BY <1>7 DEF PageFault, At, Failed
  <2>2. ExitBody(p, Failed, TRUE)
    BY <1>7, Zenon DEF PageFault
  <2>3. killed' = IF TRUE /\ exit_returns /\ ~exited[p] THEN killed \cup {p} ELSE killed
    BY <1>7, Zenon DEF PageFault
  <2>4. /\ exited' = [exited EXCEPT ![p] = TRUE]
        /\ UNCHANGED <<tree, semas, success, arg, exit_returns>>
    BY <1>7, Zenon DEF PageFault
  <2>5. TRUE \in BOOLEAN /\ pc[p] \in {"user", "quit"} /\ pc[p] # "quit"
    BY <2>1, Zenon
  <2> QED
    BY <1>x, <2>1, <2>2, <2>3, <2>4, <2>5, Zenon
<1>8. CASE ThreadExit(p)
  <2>1. /\ pc[p] \in {"user", "start"} /\ p # Main /\ pc' = [pc EXCEPT ![p] = "dead"]
        /\ killed' = IF exited[p] THEN killed ELSE killed \cup {p}
        /\ UNCHANGED <<tree, exit_status, exited, semas, success, arg, exit_returns>>
    BY <1>8, Zenon DEF ThreadExit, At, Goto
  <2>2. pc'[p] = "dead" /\ \A q \in Proc \ {p} : pc'[q] = pc[q]
    BY <1>a, <2>1, Zenon
  <2>3. /\ killed \subseteq killed' /\ \A q \in Proc \ {p} : q \in killed' <=> q \in killed
        /\ ~exited[p] => p \in killed'
    BY <2>1, Zenon
  <2>4. Stage(p)'
    <3>1. CASE ~exited[p]
      <4>1. Running(p)
        BY <1>s, <2>1, <3>1, Zenon
      <4>2. Running(p)'
        BY <2>1, <2>2, <2>3, <3>1, <4>1, Zenon DEF Running, NoUnits, semas
      <4> QED
        BY <4>2, Zenon DEF Stage
    <3>2. CASE exited[p]
      <4>1. Over(p)
        BY <1>b, <2>1, <3>2, Zenon DEF Stage, Running, Notifies, IsHeld
      <4>2. Over(p)'
        BY <1>f, <2>1, <2>2, <2>3, <4>1, Zenon DEF Over, NoUnits, semas, tree, Loading
      <4> QED
        BY <4>2, Zenon DEF Stage
    <3> QED
      BY <3>1, <3>2, Zenon
  <2>5. LoadTold(p)'
    <3>1. pc[p] = "start" => ~exited[p]
      BY <1>e, Zenon DEF Loading
    <3> QED
      BY <1>b, <2>1, <2>2, <2>3, <3>1, Zenon DEF LoadTold, Loading, semas
  <2>6. pc[p] \notin Busy \cup {"unborn"} /\ pc'[p] \notin Busy \cup Loading
    BY <2>1, <2>2, Zenon DEF Busy, Loading
  <2> QED
    BY <2>1, <2>2, <2>3, <2>4, <2>5, <2>6, OwnStep, Zenon DEF Loading, semas
<1>9. CASE ExitNotify(p)
  <2>1. /\ pc[p] = "notify" /\ exit_sema' = [exit_sema EXCEPT ![p] = @ + 1]
        /\ pc' = [pc EXCEPT ![p] = IF parent[p] # NULL THEN "reap" ELSE "leave"]
        /\ UNCHANGED <<tree, exit_status, exited, load_sema, wait_sema, success,
                       arg, exit_returns, killed>>
    BY <1>9, Zenon DEF ExitNotify, At, Goto
  <2>2. p # Main /\ parent[p] # NULL
    BY <1>m, <2>1, Zenon DEF PInv, Family, MainPC
  <2>3. Notifies(p)
    BY <1>b, <2>1, Zenon DEF Stage, Running, IsHeld, Over
  <2>4. /\ pc'[p] = "reap" /\ exit_sema'[p] = 1
        /\ \A q \in Proc \ {p} : pc'[q] = pc[q] /\ exit_sema'[q] = exit_sema[q]
    BY <1>a, <2>1, <2>2, <2>3 DEF Notifies, NoUnits
  <2>5. IsHeld(p)'
    BY <2>1, <2>3, <2>4, Zenon DEF IsHeld, Notifies, NoUnits
  <2>6. LoadTold(p)'
    BY <1>b, <2>1, <2>4, Zenon DEF LoadTold, Loading
  <2>7. pc[p] \notin Busy \cup {"unborn"} /\ pc'[p] \notin Busy \cup Loading
    BY <2>1, <2>4, Zenon DEF Busy, Loading
  <2> QED
    BY <2>1, <2>2, <2>4, <2>5, <2>6, <2>7, OwnStep, Zenon DEF Stage, Loading
<1>10. CASE ExitReaped(p)
  <2>1. /\ pc[p] = "reap" /\ wait_sema[p] > 0 /\ wait_sema' = [wait_sema EXCEPT ![p] = @ - 1]
        /\ pc' = [pc EXCEPT ![p] = "leave"]
        /\ UNCHANGED <<tree, exit_status, exited, load_sema, exit_sema, success,
                       arg, exit_returns, killed>>
    BY <1>10, Zenon DEF ExitReaped, At, Goto
  <2>2. IsHeld(p)
    BY <1>b, <2>1, Zenon DEF Stage, Running, Notifies, Over
  <2>3. exited[p] /\ exit_sema[p] = 0 /\ wait_sema[p] = 1 /\ ~Listed(p)
    BY <1>a, <2>1, <2>2 DEF IsHeld, NoUnits
  <2>4. /\ pc'[p] = "leave" /\ wait_sema'[p] = 0
        /\ \A q \in Proc \ {p} : pc'[q] = pc[q] /\ wait_sema'[q] = wait_sema[q]
    BY <1>a, <2>1, <2>3
  <2>5. Over(p)'
    BY <1>f, <2>1, <2>3, <2>4, Zenon DEF Over, NoUnits, Loading, tree
  <2>6. LoadTold(p)'
    BY <1>b, <2>1, <2>4, Zenon DEF LoadTold, Loading
  <2>7. p # Main /\ pc[p] \notin Busy \cup {"unborn"} /\ pc'[p] \notin Busy \cup Loading
    BY <1>m, <2>1, <2>4, Zenon DEF Busy, Loading, MainPC
  <2>8. Stage(p)' /\ pc'[p] \notin Busy \cup {"unborn"} /\ UNCHANGED <<tree, arg, exit_returns>>
    BY <2>1, <2>4, <2>5, Zenon DEF Stage, Busy
  <2>9. \A c \in Proc \ {p} :
          /\ exited'[c] = exited[c] /\ exit_status'[c] = exit_status[c]
          /\ load_sema'[c] = load_sema[c] /\ exit_sema'[c] = exit_sema[c]
          /\ wait_sema'[c] = wait_sema[c] /\ success'[c] = success[c]
          /\ c \in killed' <=> c \in killed
    BY <2>1, <2>4, Zenon
  <2>10. killed \subseteq killed' /\ wait_sema[p] # 0
    BY <2>1, <2>3
  <2> QED
    BY <2>4, <2>6, <2>7, <2>8, <2>9, <2>10, OwnStep, Zenon
<1>o. ASSUME pc[p] \in {"leave", "returned"}, pc'[p] \in {"returned", "user", "stuck", "dead"},
             \A q \in Proc \ {p} : pc'[q] = pc[q], exit_returns \/ pc'[p] = "dead",
             UNCHANGED <<tree, exit_status, exited, semas, success, arg, exit_returns, killed>>
      PROVE  PInv'
  <2>1. Over(p)
    <3>1. pc[p] \in {"leave", "returned"}
      BY <1>o, Zenon
    <3> QED
      BY <1>b, <3>1, Zenon DEF Stage, Running, Notifies, IsHeld
  <2>2. Over(p)'
    BY <1>f, <1>o, <2>1, Zenon DEF Over, NoUnits, Loading, tree, semas
  <2>3. LoadTold(p)'
    BY <1>b, <1>o, Zenon DEF LoadTold, Loading, semas
  <2>4. p # Main /\ pc[p] \notin Busy \cup {"unborn"} /\ pc'[p] \notin Busy \cup Loading
    BY <1>m, <1>o, Zenon DEF Busy, Loading, MainPC
  <2> QED
    BY <1>o, <2>2, <2>3, <2>4, OwnStep, Zenon DEF Stage, Loading, semas
<1>11. CASE ExitEnd(p)
  <2>1. /\ pc[p] = "leave" /\ pc' = [pc EXCEPT ![p] = IF exit_returns THEN "returned" ELSE "dead"]
        /\ UNCHANGED <<tree, exit_status, exited, semas, success, arg, exit_returns, killed>>
    BY <1>11, Zenon DEF ExitEnd, At, Goto
  <2>2. /\ pc'[p] = IF exit_returns THEN "returned" ELSE "dead"
        /\ \A q \in Proc \ {p} : pc'[q] = pc[q]
    BY <1>a, <2>1, Zenon
  <2> QED
    BY <1>o, <2>1, <2>2, Zenon
<1>12. CASE ExitReturned(p)
  <2>1. /\ pc[p] = "returned"
        /\ UNCHANGED <<tree, exit_status, exited, semas, success, arg, exit_returns, killed>>
        /\ pc' = pc \/ \E l \in {"user", "dead", "stuck"} : pc' = [pc EXCEPT ![p] = l]
    BY <1>12, Zenon DEF ExitReturned, Undefined, At, Goto
  <2>2. CASE pc' = pc
    BY <2>1, <2>2, StillStep, Zenon
  <2>3. ASSUME NEW l \in {"user", "dead", "stuck"}, pc' = [pc EXCEPT ![p] = l] PROVE PInv'
    <3>1. pc'[p] = l /\ \A q \in Proc \ {p} : pc'[q] = pc[q]
      BY <1>a, <2>3, Zenon
    <3>2. exit_returns
      <4>1. Over(p)
        BY <1>b, <2>1, Zenon DEF Stage, Running, Notifies, IsHeld
      <4> QED
        BY <2>1, <4>1, Zenon DEF Over
    <3> QED
      BY <1>o, <2>1, <3>1, <3>2, Zenon
  <2> QED
    BY <2>1, <2>2, <2>3, Zenon
<1> QED
  BY <1>1, <1>2, <1>3, <1>4, <1>5, <1>6, <1>7, <1>8, <1>9, <1>10, <1>11, <1>12, Zenon
----------------------------------------------------------------------------
(* process_execute: a child is born. *)
LEMMA ExecuteNext ==
  ASSUME PInv, TypeOK', NEW p \in Proc, NEW c \in Proc, ProcessExecute(p, c)
  PROVE  PInv'
<1>a. /\ pc \in [Proc -> PC] /\ arg \in [Proc -> Proc \cup {NULL}]
      /\ parent \in [Proc -> Proc \cup {NULL}] /\ child_list \in [Proc -> SUBSET Proc]
  BY Zenon DEF PInv, TypeOK
<1>1. /\ pc[p] = "user" /\ pc[c] = "unborn" /\ p # c
      /\ pc' = [pc EXCEPT ![p] = IF p = Main THEN "wait" ELSE "find", ![c] = "start"]
      /\ parent' = [parent EXCEPT ![c] = p]
      /\ child_list' = [child_list EXCEPT ![p] = @ \cup {c}]
      /\ arg' = [arg EXCEPT ![p] = c]
      /\ UNCHANGED <<exit_status, exited, load_sema, exit_sema, wait_sema, success,
                     exit_returns, killed>>
  BY Zenon DEF ProcessExecute, At, semas
<1>u. /\ pc[p] = "user" /\ pc[c] = "unborn" /\ p # c
      /\ UNCHANGED <<exit_status, exited, load_sema, exit_sema, wait_sema, success,
                     exit_returns, killed>>
  BY <1>1, Zenon
<1>2. /\ pc'[p] = (IF p = Main THEN "wait" ELSE "find") /\ pc'[c] = "start"
      /\ \A q \in Proc \ {p, c} : pc'[q] = pc[q]
  BY <1>a, <1>1, Zenon
<1>3. arg'[p] = c /\ \A q \in Proc \ {p} : arg'[q] = arg[q]
  BY <1>a, <1>1, Zenon
<1>4. /\ parent'[c] = p /\ \A q \in Proc \ {c} : parent'[q] = parent[q]
      /\ child_list'[p] = child_list[p] \cup {c}
      /\ \A q \in Proc \ {p} : child_list'[q] = child_list[q]
  BY <1>a, <1>1, Zenon
<1>5. c # Main /\ parent[c] = NULL /\ \A q \in Proc : c \notin child_list[q]
  <2>1. c # Main
    BY <1>1, Zenon DEF PInv, Family, MainPC
  <2>2. parent[c] = NULL
    BY <1>1, <2>1, Zenon DEF PInv, Family
  <2> QED
    BY <2>1, <2>2, ProcessAssumption, Zenon DEF PInv, Family
<1>6. Family'
  <2>1. parent'[Main] = NULL /\ pc'[Main] \in MainPC
    BY <1>2, <1>4, <1>5, ProcessAssumption, Zenon DEF PInv, Family, MainPC
  <2>2. \A q \in Proc \ {Main} : parent'[q] = NULL <=> pc'[q] = "unborn"
    <3>1. parent'[c] # NULL /\ pc'[c] # "unborn"
      BY <1>2, <1>4, ProcessAssumption, Zenon
    <3>2. p # Main => pc'[p] # "unborn" /\ parent'[p] # NULL
      BY <1>1, <1>2, <1>4 DEF PInv, Family
    <3>3. \A q \in Proc \ {Main, p, c} : parent'[q] = NULL <=> pc'[q] = "unborn"
      BY <1>2, <1>4 DEF PInv, Family
    <3> QED
      BY <3>1, <3>2, <3>3, Zenon
  <2>3. \A q, d \in Proc : d \in child_list'[q] => parent'[d] = q
    BY <1>4, <1>5 DEF PInv, Family
  <2>4. \A q \in Proc : pc'[q] \in Busy => arg'[q] \in child_list'[q]
    BY <1>2, <1>3, <1>4, Zenon DEF PInv, Family, Busy
  <2> QED
    BY <2>1, <2>2, <2>3, <2>4, Zenon DEF Family
<1>7. \A d \in Proc \ {c} : (Listed(d)' => Listed(d)) /\ (Collected(d) => Collected(d)')
  <2>1. ASSUME NEW d \in Proc \ {c}, Listed(d)' PROVE Listed(d)
    BY <1>4, <2>1, Zenon DEF Listed
  <2>2. ASSUME NEW d \in Proc, Collected(d) PROVE Collected(d)'
    <3>1. PICK q \in Proc : pc[q] = "collect" /\ arg[q] = d
      BY <2>2, Zenon DEF Collected
    <3>2. pc'[q] = "collect" /\ arg'[q] = d
      BY <1>u, <1>2, <1>3, <3>1, Zenon
    <3> QED
      BY <3>2, Zenon DEF Collected
  <2> QED
    BY <2>1, <2>2, Zenon
<1>8. \A d \in Proc : Stage(d)'
  <2>1. \A d \in Proc \ {p, c} : Stage(d)'
    BY <1>u, <1>2, <1>7, StageFrame, Zenon DEF PInv
  <2>2. Running(c)
    BY <1>1, Zenon DEF PInv, Stage, Notifies, IsHeld, Over, Loading
  <2>3. Running(c)'
    BY <1>u, <1>2, <2>2, Zenon DEF Running, NoUnits
  <2>4. Running(p) \/ Over(p)
    BY <1>1, Zenon DEF PInv, Stage, Notifies, IsHeld
  <2>5. ASSUME Running(p) PROVE Running(p)'
    BY <1>u, <1>2, <2>5, Zenon DEF Running, NoUnits
  <2>6. ASSUME Over(p) PROVE Over(p)'
    <3>1. exit_returns
      BY <1>1, <2>6, Zenon DEF Over
    <3> QED
      BY <1>u, <1>2, <1>7, <2>6, <3>1, Zenon DEF Over, NoUnits, Loading
  <2> QED
    BY <2>1, <2>3, <2>4, <2>5, <2>6, Zenon DEF Stage
<1>9. \A q \in Proc : Collects(q)'
  <2> SUFFICES ASSUME NEW q \in Proc, pc'[q] = "collect" PROVE Collects(q)'
    BY Zenon DEF Collects
  <2>1. q # p /\ pc[q] = "collect" /\ arg'[q] = arg[q]
    BY <1>2, <1>3, Zenon
  <2>2. pc[arg[q]] = "reap" /\ exited[arg[q]] /\ NoUnits(arg[q])
    BY <2>1, Zenon DEF PInv, Collects
  <2>3. arg[q] \in Proc /\ arg[q] # p /\ arg[q] # c
    BY <1>a, <1>1, <2>1, <2>2, Zenon DEF PInv, Family, Busy
  <2>4. pc'[arg[q]] = "reap" /\ exited'[arg[q]] /\ exit_sema'[arg[q]] = 0
        /\ wait_sema'[arg[q]] = 0
    BY <1>u, <1>2, <2>2, <2>3, Zenon DEF NoUnits
  <2> QED
    BY <2>1, <2>4, Zenon DEF Collects, NoUnits
<1>10. \A d \in Proc : LoadTold(d)'
  <2>1. \A d \in Proc \ {p, c} : LoadTold(d)'
    BY <1>u, <1>2, LoadFrame, Zenon DEF PInv
  <2>2. LoadTold(p)'
    BY <1>u, <1>2, Zenon DEF PInv, LoadTold, Loading
  <2>3. LoadTold(c)'
    BY <1>u, <1>2, Zenon DEF PInv, LoadTold, Loading
  <2> QED
    BY <2>1, <2>2, <2>3, Zenon
<1>11. \A q \in Proc : LoadSeen(q)'
  <2> SUFFICES ASSUME NEW q \in Proc, pc'[q] = "status" PROVE LoadSeen(q)'
    BY Zenon DEF LoadSeen
  <2>1. q # p /\ pc[q] = "status" /\ arg'[q] = arg[q]
    BY <1>2, <1>3, Zenon
  <2>2. arg[q] \in killed \/ pc[arg[q]] \notin Loading
    BY <2>1, Zenon DEF PInv, LoadSeen
  <2>3. arg[q] \in child_list[q] /\ arg[q] \in Proc /\ arg[q] # c
    BY <1>a, <1>5, <2>1 DEF PInv, Family, Busy
  <2>4. arg[q] \in killed' \/ pc'[arg[q]] \notin Loading
    BY <1>u, <1>2, <2>2, <2>3, Zenon DEF Loading
  <2> QED
    BY <2>1, <2>4, Zenon DEF LoadSeen
<1> QED
  BY <1>6, <1>8, <1>9, <1>10, <1>11, Zenon DEF PInv

(* process_wait's sema_down (&child->exit_sema). *)
LEMMA WaitExitNext ==
  ASSUME PInv, TypeOK', NEW p \in Proc, ProcessWaitExit(p)
  PROVE  PInv'
<1>a. /\ pc \in [Proc -> PC] /\ arg \in [Proc -> Proc \cup {NULL}]
      /\ exit_sema \in [Proc -> Nat] /\ child_list \in [Proc -> SUBSET Proc]
  BY Zenon DEF PInv, TypeOK
<1>1. /\ UNCHANGED <<tree, exit_status, exited, load_sema, wait_sema, success,
                     exit_returns, killed>>
      /\ arg' = arg /\ pc[p] \in {"exit", "exit_blocked"}
      /\ \/ exit_sema' = exit_sema /\ (pc' = pc \/ Goto(p, "exit_blocked") \/ Goto(p, "stuck"))
         \/ /\ exit_sema[arg[p]] > 0 /\ exit_sema' = [exit_sema EXCEPT ![arg[p]] = @ - 1]
            /\ Goto(p, "collect")
  BY Zenon DEF ProcessWaitExit, Undefined, At
<1>2. arg[p] \in child_list[p] /\ arg[p] \in Proc
  BY <1>a, <1>1, Zenon DEF PInv, Family, Busy
<1>3. CASE exit_sema' = exit_sema /\ pc' = pc
  BY <1>1, <1>3, StillStep, Zenon DEF semas
<1>4. ASSUME NEW l \in {"exit_blocked", "stuck"}, exit_sema' = exit_sema, Goto(p, l)
      PROVE  PInv'
  <2>1. pc'[p] = l /\ \A q \in Proc \ {p} : pc'[q] = pc[q]
    BY <1>a, <1>4, Zenon DEF Goto
  <2>2. /\ pc[p] \in Ordinary \ {"collect"} /\ pc'[p] \in Ordinary \ {"collect"}
        /\ pc'[p] # "status" /\ pc'[p] \in MainPC /\ arg'[p] \in child_list[p]
    BY <1>1, <1>2, <1>4, <2>1, Zenon DEF Ordinary, Busy, MainPC
  <2>3. /\ UNCHANGED <<tree, exit_status, exited, exit_sema, wait_sema, success,
                       exit_returns, killed, arg>>
        /\ load_sema' = load_sema
    BY <1>1, <1>4, Zenon
  <2> QED
    BY <2>1, <2>2, <2>3, CallStep, Zenon
<1>5. CASE /\ exit_sema[arg[p]] > 0 /\ exit_sema' = [exit_sema EXCEPT ![arg[p]] = @ - 1]
           /\ Goto(p, "collect")
  <2> SUFFICES ASSUME NEW c \in Proc, c = arg[p] PROVE PInv'
    BY <1>2, Zenon
  <2>1. pc'[p] = "collect" /\ \A q \in Proc \ {p} : pc'[q] = pc[q]
    BY <1>a, <1>5, Zenon DEF Goto
  <2>2. IsHeld(c) /\ exit_sema[c] = 1 /\ wait_sema[c] = 0
    BY <1>a, <1>5 DEF PInv, Stage, Running, Notifies, IsHeld, Over, NoUnits
  <2>3. c # p
    BY <1>1, <2>2, Zenon DEF IsHeld
  <2>4. exit_sema'[c] = 0 /\ \A q \in Proc \ {c} : exit_sema'[q] = exit_sema[q]
    BY <1>a, <1>5, <2>2
  <2>5. child_list' = child_list /\ parent' = parent
    BY <1>1, Zenon DEF tree
  <2>6. Family'
    <3>1. parent'[Main] = NULL /\ pc'[Main] \in MainPC
      BY <2>1, <2>5, ProcessAssumption, Zenon DEF PInv, Family, MainPC
    <3>2. \A q \in Proc \ {Main} : parent'[q] = NULL <=> pc'[q] = "unborn"
      BY <1>1, <2>1, <2>5, Zenon DEF PInv, Family
    <3>3. \A q \in Proc : pc'[q] \in Busy => arg'[q] \in child_list'[q]
      BY <1>1, <1>2, <2>1, <2>5, Zenon DEF PInv, Family
    <3> QED
      BY <2>5, <3>1, <3>2, <3>3, Zenon DEF PInv, Family
  <2>7. \A d \in Proc : (Listed(d)' => Listed(d)) /\ (Collected(d) => Collected(d)')
    BY <1>1, <2>1, <2>5, Zenon DEF Listed, Collected
  <2>8. \A d \in Proc : Stage(d)'
    <3>1. \A d \in Proc \ {p, c} : Stage(d)'
      BY <1>1, <2>1, <2>4, <2>7, StageFrame, Zenon DEF PInv
    <3>2. Collected(c)'
      BY <1>1, <2>1, Zenon DEF Collected
    <3>3. IsHeld(c)'
      BY <1>1, <2>1, <2>2, <2>3, <2>4, <3>2, Zenon DEF IsHeld, NoUnits
    <3>4. Running(p) \/ Over(p)
      BY <1>1, Zenon DEF PInv, Stage, Notifies, IsHeld
    <3>5. ASSUME Running(p) PROVE Running(p)'
      BY <1>1, <2>1, <2>3, <2>4, <3>5, Zenon DEF Running, NoUnits
    <3>6. ASSUME Over(p) PROVE Over(p)'
      <4>1. exit_returns
        BY <1>1, <3>6, Zenon DEF Over
      <4> QED
        BY <1>1, <2>1, <2>3, <2>4, <2>7, <3>6, <4>1, Zenon DEF Over, NoUnits, Loading
    <3> QED
      BY <3>1, <3>3, <3>4, <3>5, <3>6, Zenon DEF Stage
  <2>9. \A q \in Proc : Collects(q)'
    <3> SUFFICES ASSUME NEW q \in Proc, pc'[q] = "collect" PROVE Collects(q)'
      BY Zenon DEF Collects
    <3>1. CASE q = p
      BY <1>1, <2>1, <2>2, <2>3, <2>4, <3>1, Zenon DEF Collects, NoUnits, IsHeld
    <3>2. CASE q # p
      <4>1. pc[q] = "collect" /\ arg[q] \in Proc
        BY <1>a, <2>1, <3>2 DEF PInv, Family, Busy
      <4>2. pc[arg[q]] = "reap" /\ exited[arg[q]] /\ NoUnits(arg[q])
        BY <4>1, Zenon DEF PInv, Collects
      <4>3. arg[q] # p /\ arg[q] # c
        BY <1>1, <2>2, <4>2 DEF NoUnits
      <4>4. pc'[arg[q]] = "reap" /\ exited'[arg[q]] /\ exit_sema'[arg[q]] = 0
            /\ wait_sema'[arg[q]] = 0
        BY <1>1, <2>1, <2>4, <4>1, <4>2, <4>3, Zenon DEF NoUnits
      <4> QED
        BY <1>1, <4>4, Zenon DEF Collects, NoUnits
    <3> QED
      BY <3>1, <3>2, Zenon
  <2>10. \A d \in Proc : LoadTold(d)'
    <3>1. \A d \in Proc \ {p} : LoadTold(d)'
      BY <1>1, <2>1, LoadFrame, Zenon DEF PInv
    <3>2. LoadTold(p)'
      BY <1>1, <2>1, Zenon DEF PInv, LoadTold, Loading
    <3> QED
      BY <3>1, <3>2, Zenon
  <2>11. \A q \in Proc : LoadSeen(q)'
    <3> SUFFICES ASSUME NEW q \in Proc, pc'[q] = "status" PROVE LoadSeen(q)'
      BY Zenon DEF LoadSeen
    <3>1. pc[q] = "status"
      BY <2>1, Zenon
    <3>2. arg[q] \in killed \/ pc[arg[q]] \notin Loading
      BY <3>1, Zenon DEF PInv, LoadSeen
    <3>3. arg[q] \in Proc
      BY <1>a, <3>1, Zenon DEF PInv, Family, Busy
    <3>4. arg[q] \in killed' \/ pc'[arg[q]] \notin Loading
      BY <1>1, <2>1, <3>2, <3>3, Zenon DEF Loading
    <3> QED
      BY <1>1, <3>4, Zenon DEF LoadSeen
  <2> QED
    BY <2>6, <2>8, <2>9, <2>10, <2>11, Zenon DEF PInv
<1> QED
  BY <1>1, <1>3, <1>4, <1>5, Zenon
(* process_wait reads the status, unlinks the child and lets it go. *)
LEMMA CollectNext ==
  ASSUME PInv, TypeOK', NEW p \in Proc, ProcessWaitCollect(p)
  PROVE  PInv'
<1>a. /\ pc \in [Proc -> PC] /\ arg \in [Proc -> Proc \cup {NULL}]
      /\ wait_sema \in [Proc -> Nat] /\ child_list \in [Proc -> SUBSET Proc]
  BY Zenon DEF PInv, TypeOK
<1>b. pc[p] = "collect"
  BY Zenon DEF ProcessWaitCollect, At
<1>c. arg[p] \in child_list[p] /\ arg[p] \in Proc
  BY <1>a, <1>b, Zenon DEF PInv, Family, Busy
<1> SUFFICES ASSUME NEW c \in Proc, c = arg[p] PROVE PInv'
  BY <1>c, Zenon
<1>u. UNCHANGED <<parent, exit_status, exited, load_sema, exit_sema, success,
                  exit_returns, killed>>
  BY Zenon DEF ProcessWaitCollect
<1>1. pc'[p] = "user" /\ \A q \in Proc \ {p} : pc'[q] = pc[q] /\ arg'[q] = arg[q]
  BY <1>a, Zenon DEF ProcessWaitCollect, Return, Goto
<1>2. /\ child_list'[p] = child_list[p] \ {c}
      /\ \A q \in Proc \ {p} : child_list'[q] = child_list[q]
  BY <1>a, Zenon DEF ProcessWaitCollect
<1>3. wait_sema'[c] = wait_sema[c] + 1 /\ \A q \in Proc \ {c} : wait_sema'[q] = wait_sema[q]
  BY <1>a, Zenon DEF ProcessWaitCollect
<1>4. pc[c] = "reap" /\ exited[c] /\ NoUnits(c) /\ c # p
  BY <1>b, Zenon DEF PInv, Collects
<1>5. IsHeld(c)
  BY <1>4, Zenon DEF PInv, Stage, Running, Notifies, Over
<1>6. parent[c] = p
  BY <1>c, Zenon DEF PInv, Family
<1>7. Family'
  <2>1. parent'[Main] = NULL /\ pc'[Main] \in MainPC
    BY <1>1, <1>u, ProcessAssumption, Zenon DEF PInv, Family, MainPC
  <2>2. \A q \in Proc \ {Main} : parent'[q] = NULL <=> pc'[q] = "unborn"
    BY <1>1, <1>b, <1>u, Zenon DEF PInv, Family
  <2>3. \A q, d \in Proc : d \in child_list'[q] => parent'[d] = q
    BY <1>2, <1>u, Zenon DEF PInv, Family
  <2>4. \A q \in Proc : pc'[q] \in Busy => arg'[q] \in child_list'[q]
    BY <1>1, <1>2, Zenon DEF PInv, Family, Busy
  <2> QED
    BY <2>1, <2>2, <2>3, <2>4, Zenon DEF Family
<1>8. /\ \A d \in Proc : Listed(d)' => Listed(d)
      /\ \A d \in Proc \ {c} : Collected(d) => Collected(d)'
      /\ ~Listed(c)'
  <2>1. \A d \in Proc : Listed(d)' => Listed(d)
    BY <1>2, Zenon DEF Listed
  <2>2. ASSUME NEW d \in Proc \ {c}, Collected(d) PROVE Collected(d)'
    <3>1. PICK q \in Proc : pc[q] = "collect" /\ arg[q] = d
      BY <2>2, Zenon DEF Collected
    <3>2. pc'[q] = "collect" /\ arg'[q] = d
      BY <1>1, <3>1, Zenon
    <3> QED
      BY <3>2, Zenon DEF Collected
  <2>3. ~Listed(c)'
    BY <1>2, <1>6 DEF PInv, Family, Listed
  <2> QED
    BY <2>1, <2>2, <2>3, Zenon
<1>9. \A d \in Proc : Stage(d)'
  <2>1. \A d \in Proc \ {p, c} : Stage(d)'
    BY <1>1, <1>3, <1>8, <1>u, StageFrame, Zenon DEF PInv
  <2>2. IsHeld(c)'
    <3>1. pc'[c] = "reap" /\ exit_sema'[c] = 0 /\ wait_sema'[c] = 1
      BY <1>1, <1>3, <1>4, <1>u DEF NoUnits
    <3> QED
      BY <1>5, <1>8, <1>u, <3>1, Zenon DEF IsHeld
  <2>3. Running(p) \/ Over(p)
    BY <1>b, Zenon DEF PInv, Stage, Notifies, IsHeld
  <2>4. ASSUME Running(p) PROVE Running(p)'
    BY <1>b, <1>1, <1>3, <1>4, <1>u, <2>4, Zenon DEF Running, NoUnits
  <2>5. ASSUME Over(p) PROVE Over(p)'
    <3>1. exit_returns
      BY <1>b, <2>5, Zenon DEF Over
    <3> QED
      BY <1>1, <1>3, <1>4, <1>8, <1>u, <2>5, <3>1, Zenon DEF Over, NoUnits, Loading
  <2> QED
    BY <2>1, <2>2, <2>3, <2>4, <2>5, Zenon DEF Stage
<1>10. \A q \in Proc : Collects(q)'
  <2> SUFFICES ASSUME NEW q \in Proc, pc'[q] = "collect" PROVE Collects(q)'
    BY Zenon DEF Collects
  <2>1. q # p /\ pc[q] = "collect" /\ arg'[q] = arg[q] /\ arg[q] \in child_list[q]
    BY <1>1, Zenon DEF PInv, Family, Busy
  <2>2. pc[arg[q]] = "reap" /\ exited[arg[q]] /\ NoUnits(arg[q])
    BY <2>1, Zenon DEF PInv, Collects
  <2>3. arg[q] \in Proc /\ arg[q] # p /\ arg[q] # c
    BY <1>a, <1>b, <1>6, <2>1, <2>2, Zenon DEF PInv, Family
  <2>4. pc'[arg[q]] = "reap" /\ exited'[arg[q]] /\ exit_sema'[arg[q]] = 0
        /\ wait_sema'[arg[q]] = 0
    BY <1>1, <1>3, <1>u, <2>2, <2>3, Zenon DEF NoUnits
  <2> QED
    BY <2>1, <2>4, Zenon DEF Collects, NoUnits
<1>11. \A d \in Proc : LoadTold(d)'
  <2>1. \A d \in Proc \ {p} : LoadTold(d)'
    BY <1>1, <1>u, LoadFrame, Zenon DEF PInv
  <2>2. LoadTold(p)'
    BY <1>b, <1>1, <1>u, Zenon DEF PInv, LoadTold, Loading
  <2> QED
    BY <2>1, <2>2, Zenon
<1>12. \A q \in Proc : LoadSeen(q)'
  <2> SUFFICES ASSUME NEW q \in Proc, pc'[q] = "status" PROVE LoadSeen(q)'
    BY Zenon DEF LoadSeen
  <2>1. q # p /\ pc[q] = "status" /\ arg'[q] = arg[q]
    BY <1>1, Zenon
  <2>2. arg[q] \in killed \/ pc[arg[q]] \notin Loading
    BY <2>1, Zenon DEF PInv, LoadSeen
  <2>3. arg[q] \in Proc
    BY <1>a, <2>1, Zenon DEF PInv, Family, Busy
  <2>4. arg[q] \in killed' \/ pc'[arg[q]] \notin Loading
    BY <1>1, <1>u, <2>2, <2>3, Zenon DEF Loading
  <2> QED
    BY <2>1, <2>4, Zenon DEF LoadSeen
<1> QED
  BY <1>7, <1>9, <1>10, <1>11, <1>12, Zenon DEF PInv
----------------------------------------------------------------------------
(* The invariant is inductive. *)
LEMMA PInvNext == PInv /\ [Next]_vars => PInv'
<1> SUFFICES ASSUME PInv, [Next]_vars PROVE PInv'
  BY Zenon
<1>t. TypeOK'
  BY TypeNext, Zenon
<1>1. ASSUME NEW p \in Proc, Call(p) PROVE PInv'
  <2>1. ASSUME NEW c \in Proc, ProcessExecute(p, c) PROVE PInv'
    BY <1>t, <2>1, ExecuteNext, Zenon
  <2>2. CASE ProcessExecuteFails(p) \/ \E c \in Proc : Wait(p, c)
    BY <1>t, <2>2, CallNext, Zenon
  <2>3. CASE (\E s \in ExitCode : Exit(p, s)) \/ PageFault(p) \/ ThreadExit(p)
    BY <1>t, <2>3, OwnNext, Zenon
  <2>4. CASE Halt(p)
    BY <1>t, <2>4, StillStep, Zenon DEF Halt
  <2> QED
    BY <1>1, <2>1, <2>2, <2>3, <2>4, Zenon DEF Call
<1>2. ASSUME NEW p \in Proc, KernelStep(p) PROVE PInv'
  <2>1. CASE ExecFind(p) \/ ExecLoad(p) \/ ExecStatus(p) \/ WaitSlept(p) \/ ProcessWait(p)
    BY <1>t, <2>1, CallNext, Zenon
  <2>2. CASE ProcessWaitExit(p)
    BY <1>t, <2>2, WaitExitNext, Zenon
  <2>3. CASE ProcessWaitCollect(p)
    BY <1>t, <2>3, CollectNext, Zenon
  <2>4. CASE \/ Load(p) \/ LoadSucceeded(p) \/ LoadFailed(p) \/ LoadFailedUp(p)
             \/ LoadFailedExit(p) \/ ExitNotify(p) \/ ExitReaped(p) \/ ExitEnd(p)
             \/ ExitReturned(p)
    BY <1>t, <2>4, OwnNext, Zenon
  <2> QED
    BY <1>2, <2>1, <2>2, <2>3, <2>4, Zenon DEF KernelStep
<1>3. CASE UNCHANGED vars
  BY <1>t, <1>3, StillStep, Zenon DEF vars
<1> QED
  BY <1>1, <1>2, <1>3, Zenon DEF Next, Stopped

(* The inductive invariant: the stage of exit every process is in, and the *)
(* units of its three semaphores at each.                                  *)
THEOREM PInvHolds == Spec => []PInv
  BY PInvInit, PInvNext, PTL DEF Spec

(* process_wait, blocked on exit_sema, has a child that still raises it,   *)
(* or one that a kernel exception killed: a child raises it once, and its  *)
(* parent, the only one to have it linked, takes it once.                  *)
THEOREM NoWaitInVainHolds == Spec => []NoWaitInVain
<1>1. PInv => NoWaitInVain
  <2> SUFFICES ASSUME PInv, NEW p \in Proc, pc[p] = "exit_blocked", NEW c, c = arg[p],
                      c \notin killed, ~(exit_sema[c] > 0)
               PROVE  Alive(c) /\ (exited[c] => pc[c] = "notify")
    BY Zenon DEF NoWaitInVain
  <2>1. c \in child_list[p] /\ c \in Proc /\ Listed(c)
    BY Zenon DEF PInv, Family, Busy, TypeOK, Listed
  <2>2. parent[c] = p /\ c # Main /\ pc[c] # "unborn"
    BY <2>1, ProcessAssumption, Zenon DEF PInv, Family
  <2>3. CASE Running(c)
    BY <2>2, <2>3, Zenon DEF Running, Alive
  <2>4. CASE Notifies(c)
    BY <2>4, Zenon DEF Notifies, Alive
  <2>5. ~IsHeld(c)
    <3> SUFFICES ASSUME IsHeld(c) PROVE FALSE
      BY Zenon
    <3>1. Collected(c)
      BY <2>1 DEF IsHeld
    <3>2. PICK q \in Proc : pc[q] = "collect" /\ arg[q] = c
      BY <3>1, Zenon DEF Collected
    <3>3. q = p
      BY <2>1, <2>2, <3>2 DEF PInv, Family, Busy
    <3> QED
      BY <3>2, <3>3, Zenon
  <2>6. ~Over(c)
    BY <2>1, Zenon DEF Over
  <2> QED
    BY <2>1, <2>3, <2>4, <2>5, <2>6, Zenon DEF PInv, Stage
<1> QED
  BY <1>1, PInvHolds, PTL

(* The status process_wait returns is read while the child is held in      *)
(* exit; a child_list leads to live children and, where the kernel killed  *)
(* one, to its page.                                                       *)
THEOREM ChildrenSoundHolds == Spec => []ChildrenSound
<1>1. PInv => ChildrenSound
  <2> SUFFICES ASSUME PInv PROVE ChildrenSound
    BY Zenon
  <2>1. StatusIsTheChilds
    BY Zenon DEF PInv, Collects, StatusIsTheChilds
  <2>2. ASSUME NEW p \in Proc, NEW c \in child_list[p], c \notin killed
        PROVE  parent[c] = p /\ Alive(c)
    <3>1. c \in Proc /\ Listed(c) /\ parent[c] = p
      BY <2>2, Zenon DEF PInv, TypeOK, Listed, Family
    <3>2. c # Main /\ pc[c] # "unborn"
      BY <3>1, ProcessAssumption, Zenon DEF PInv, Family
    <3>3. Stage(c)
      BY <3>1, Zenon DEF PInv
    <3> QED
      BY <2>2, <3>1, <3>2, <3>3, Zenon DEF Stage, Running, Notifies, IsHeld, Over, Alive
  <2>3. \A p \in Proc : \A c \in child_list[p] : parent[c] = p
    BY Zenon DEF PInv, TypeOK, Family
  <2>4. ChildListSound
    BY <2>2, <2>3, Zenon DEF ChildListSound
  <2> QED
    BY <2>1, <2>4, Zenon DEF ChildrenSound, PInv
<1> QED
  BY <1>1, PInvHolds, PTL

(* exec reads the child's exit_status after load_sema: it returns a pid    *)
(* only for a program that loaded, and the pid of one that loaded whenever *)
(* that one has not exited yet.                                            *)
THEOREM ExecReportsLoadHolds == Spec => ExecReportsLoad
<1> DEFINE A == \A p \in Proc : pc[p] = "status" /\ pc'[p] = "user" /\ arg[p] \notin killed =>
                  /\ ret'[p] # Failed => success[arg[p]]
                  /\ success[arg[p]] /\ ~exited[arg[p]] => ret'[p] # Failed
<1>1. PInv /\ [Next]_vars => [A]_vars
  <2> SUFFICES ASSUME PInv, [Next]_vars, NEW p \in Proc, pc[p] = "status", pc'[p] = "user",
                      arg[p] \notin killed
               PROVE  /\ ret'[p] # Failed => success[arg[p]]
                      /\ success[arg[p]] /\ ~exited[arg[p]] => ret'[p] # Failed
    BY Zenon
  <2>1. pc \in [Proc -> PC] /\ ret \in [Proc -> Int]
    BY Zenon DEF PInv, TypeOK
  <2>2. ASSUME NEW q \in Proc, Call(q) PROVE pc'[p] = pc[p]
    <3>1. ASSUME NEW c \in Proc, ProcessExecute(q, c) PROVE pc'[p] = pc[p]
      BY <2>1, <3>1, Zenon DEF ProcessExecute, At
    <3>2. CASE ~\E c \in Proc : ProcessExecute(q, c)
      <4>1. pc[q] \in {"user", "start"} /\ (pc' = pc \/ \E l : pc' = [pc EXCEPT ![q] = l])
        BY <2>2, <3>2, Zenon DEF Call, ProcessExecuteFails, Wait, Exit, ExitBody, PageFault,
                          ThreadExit, Halt, At, Goto, Return, Undefined
      <4> QED
        BY <2>1, <4>1, Zenon
    <3> QED
      BY <3>1, <3>2, Zenon
  <2>3. ASSUME NEW q \in Proc, KernelStep(q) PROVE q = p /\ ExecStatus(p)
    <3>1. ASSUME q # p PROVE FALSE
      <4>1. pc' = pc \/ \E l : pc' = [pc EXCEPT ![q] = l]
        <5>1. CASE \/ Load(q) \/ LoadSucceeded(q) \/ LoadFailed(q) \/ LoadFailedUp(q)
                   \/ LoadFailedExit(q) \/ ExecFind(q) \/ ExecLoad(q) \/ ExecStatus(q)
          BY <5>1, Zenon DEF Load, LoadSucceeded, LoadFailed, LoadFailedUp, LoadFailedExit,
                      ExitBody, ExecFind, ExecLoad, ExecStatus, Goto, Return, Undefined
        <5>2. CASE \/ WaitSlept(q) \/ ProcessWait(q) \/ ProcessWaitExit(q)
                   \/ ProcessWaitCollect(q) \/ ExitNotify(q) \/ ExitReaped(q)
                   \/ ExitEnd(q) \/ ExitReturned(q)
          BY <5>2, Zenon DEF WaitSlept, ProcessWait, ProcessWaitExit, ProcessWaitCollect,
                      ExitNotify, ExitReaped, ExitEnd, ExitReturned, Goto, Return, Undefined
        <5> QED
          BY <2>3, <5>1, <5>2, Zenon DEF KernelStep
      <4> QED
        BY <2>1, <3>1, <4>1, Zenon
    <3>2. q = p
      BY <3>1, Zenon
    <3>3. ~(\/ Load(p) \/ LoadSucceeded(p) \/ LoadFailed(p) \/ LoadFailedUp(p)
            \/ LoadFailedExit(p) \/ ExecFind(p) \/ ExecLoad(p))
      BY Zenon DEF Load, LoadSucceeded, LoadFailed, LoadFailedUp, LoadFailedExit, ExecFind,
             ExecLoad, At
    <3>4. ~(\/ WaitSlept(p) \/ ProcessWait(p) \/ ProcessWaitExit(p)
            \/ ProcessWaitCollect(p))
      BY Zenon DEF WaitSlept, ProcessWait, ProcessWaitExit, ProcessWaitCollect, At
    <3>5. ~(\/ ExitNotify(p) \/ ExitReaped(p) \/ ExitEnd(p) \/ ExitReturned(p))
      BY Zenon DEF ExitNotify, ExitReaped, ExitEnd, ExitReturned, At
    <3> QED
      BY <2>3, <3>2, <3>3, <3>4, <3>5, Zenon DEF KernelStep
  <2>4. ExecStatus(p)
    <3>1. ~UNCHANGED vars
      BY Zenon DEF vars
    <3>2. \E q \in Proc : KernelStep(q)
      BY <2>2, <3>1, Zenon DEF Next, Stopped
    <3> QED
      BY <2>3, <3>2, Zenon
  <2>5. arg[p] \in child_list[p] /\ arg[p] \in Proc /\ Listed(arg[p])
    BY Zenon DEF PInv, Family, Busy, TypeOK, Listed
  <2>6. arg[p] # Main /\ pc[arg[p]] \notin Loading
    <3>1. parent[arg[p]] = p /\ parent[Main] = NULL /\ p # NULL /\ LoadSeen(p)
      BY <2>5, ProcessAssumption, Zenon DEF PInv, Family
    <3> QED
      BY <3>1, Zenon DEF LoadSeen
  <2>7. Alive(arg[p])
    <3>1. Stage(arg[p])
      BY <2>5, Zenon DEF PInv
    <3> QED
      BY <2>5, <2>6, <3>1, Zenon DEF Stage, Running, Notifies, IsHeld, Over, Alive, Loading
  <2>8. ret'[p] = IF exit_status[arg[p]] = Failed THEN Failed ELSE 1
    <3>1. Return(p, IF exit_status[arg[p]] = Failed THEN Failed ELSE 1)
      BY <2>4, <2>7, Zenon DEF ExecStatus
    <3> QED
      BY <2>1, <3>1, Zenon DEF Return
  <2>9. /\ success[arg[p]] /\ exit_status[arg[p]] = Failed => exited[arg[p]]
        /\ ~success[arg[p]] => exit_status[arg[p]] = Failed
    BY <2>5, <2>6, Zenon DEF PInv, LoadTold, Loading
  <2> QED
    BY <2>8, <2>9 DEF Failed
<1> QED
  BY <1>1, PInvHolds, PTL DEF Spec, ExecReportsLoad
============================================================================
