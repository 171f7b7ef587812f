------------------------------ MODULE Process ------------------------------
(***************************************************************************)
(* The life of a user process: exec, wait and exit (userprog/syscall.c),   *)
(* start_process and process_wait (userprog/process.c), the exceptions     *)
(* that end a process (userprog/exception.c) and main's run_task.          *)
(*                                                                         *)
(* A process stands for one incarnation of a struct thread, so it is also  *)
(* its tid: tids are never given twice (TidsUnique in Threads).  Processes *)
(* interleave between any two actions; a semaphore is its value, and a     *)
(* blocked sema_down is an action that is not enabled (NoLostWakeup in     *)
(* Threads).  Once a process is dead its page is free: what is read from   *)
(* it is anything.                                                         *)
(***************************************************************************)
EXTENDS Integers, FiniteSets

CONSTANTS
  Proc,         \* the processes there ever are
  Main,         \* the initial thread, which runs run_task
  MaxLive,      \* the pages there are for struct thread
  ExitCode,     \* the statuses programs give exit
  ExitReturns,  \* the builds considered: does exit return to its caller?
  NULL

ASSUME ProcessAssumption ==
  /\ Main \in Proc
  /\ NULL \notin Proc
  /\ MaxLive \in Nat \ {0}
  /\ ExitCode \subseteq Int
  /\ ExitReturns \subseteq BOOLEAN

VARIABLES
  pc,           \* where the process is
  parent,       \* t->parent
  child_list,   \* the children linked into t->child_list
  exit_status,  \* t->exit_status
  exited,       \* t->exited
  load_sema, exit_sema, wait_sema,
  success,      \* load's result in start_process
  arg,          \* the child that exec or wait works on
  ret,          \* what the last exec or wait returned (1 for a pid)
  exit_returns, \* this build's exit returns
  killed,       \* history: those the kernel ended without their exit_sema
  stopped       \* power off or kernel panic

semas == <<load_sema, exit_sema, wait_sema>>
tree == <<parent, child_list>>
vars == <<pc, tree, exit_status, exited, semas, success, arg, ret, exit_returns,
          killed, stopped>>

PC == {"unborn", "start", "loaded", "failed", "failup", "quit", "user", "find",
       "load", "load_blocked", "status", "sleep", "wait", "exit", "exit_blocked",
       "collect", "notify", "reap", "leave", "returned", "stuck", "dead"}
Failed == -1      \* the status and the result that mean failure

Alive(p) == pc[p] \notin {"unborn", "dead"}
At(p, l) == stopped = "no" /\ pc[p] = l
Goto(p, l) == pc' = [pc EXCEPT ![p] = l]
Return(p, v) ==
  /\ Goto(p, "user")
  /\ ret' = [ret EXCEPT ![p] = v]
  /\ arg' = [arg EXCEPT ![p] = NULL]

(* The kernel runs into what a free page holds, or into code that follows  *)
(* a function which should not have returned.                              *)
Undefined(p) ==
  /\ \/ Goto(p, "stuck") /\ UNCHANGED stopped
     \/ stopped' = "panic" /\ UNCHANGED pc
  /\ UNCHANGED <<ret, arg>>
----------------------------------------------------------------------------
(* get_child_thread_by_tid goes along child_list, through the pages of     *)
(* children that died without being taken off it.                          *)
Linked(p, c) == c \in child_list[p] /\ Alive(c)
Dangling(p) == \E c \in child_list[p] : ~Alive(c)

(* process_execute: thread_create and init_thread link the new thread into *)
(* the caller's child_list.  run_task goes on to process_wait, exec to     *)
(* look for the child.                                                     *)
ProcessExecute(p, c) ==
  /\ At(p, "user")
  /\ pc[c] = "unborn"
  /\ Cardinality({q \in Proc : Alive(q)}) < MaxLive
  /\ pc' = [pc EXCEPT ![p] = IF p = Main THEN "wait" ELSE "find", ![c] = "start"]
  /\ parent' = [parent EXCEPT ![c] = p]
  /\ child_list' = [child_list EXCEPT ![p] = @ \cup {c}]
  /\ arg' = [arg EXCEPT ![p] = c]
  /\ ret' = [ret EXCEPT ![p] = 0]
  /\ UNCHANGED <<exit_status, exited, semas, success, exit_returns,
                 killed, stopped>>

(* thread_create finds no page: no child has tid TID_ERROR. *)
ProcessExecuteFails(p) ==
  /\ At(p, "user")
  /\ Cardinality({q \in Proc : Alive(q)}) >= MaxLive
  /\ \/ Return(p, Failed) /\ UNCHANGED stopped
     \/ p # Main /\ Dangling(p) /\ Undefined(p)
  /\ UNCHANGED <<tree, exit_status, exited, semas, success, exit_returns,
                 killed>>

ExecFind(p) ==
  /\ At(p, "find")
  /\ \/ Linked(p, arg[p]) /\ Goto(p, "load") /\ UNCHANGED <<ret, arg, stopped>>
     \/ ~Linked(p, arg[p]) /\ Return(p, Failed) /\ UNCHANGED stopped
     \/ Dangling(p) /\ Undefined(p)
  /\ UNCHANGED <<tree, exit_status, exited, semas, success, exit_returns,
                 killed>>

(* sema_down (&child->load_sema) in exec: the caller blocks, or is woken.  *)
(* On a free page it finds any value.                                      *)
ExecLoad(p) ==
  LET c == arg[p]
  IN  /\ \/ /\ At(p, "load") /\ Alive(c) /\ load_sema[c] = 0
            /\ Goto(p, "load_blocked")
            /\ UNCHANGED load_sema
         \/ /\ At(p, "load") \/ At(p, "load_blocked")
            /\ Alive(c) /\ load_sema[c] > 0
            /\ load_sema' = [load_sema EXCEPT ![c] = @ - 1]
            /\ Goto(p, "status")
         \/ /\ At(p, "load") \/ (At(p, "load_blocked") /\ load_sema[c] > 0)
            /\ ~Alive(c)
            /\ Goto(p, "status") \/ Goto(p, "stuck")
            /\ UNCHANGED load_sema
      /\ UNCHANGED <<tree, exit_status, exited, exit_sema, wait_sema, success,
                     arg, ret, exit_returns, killed, stopped>>

(* exec returns the pid, or -1 when the child's exit_status is -1. *)
ExecStatus(p) ==
  /\ At(p, "status")
  /\ \E failed \in IF Alive(arg[p]) THEN {exit_status[arg[p]] = Failed} ELSE BOOLEAN :
       Return(p, IF failed THEN Failed ELSE 1)
  /\ UNCHANGED <<tree, exit_status, exited, semas, success, exit_returns,
                 killed, stopped>>
----------------------------------------------------------------------------
(* start_process: load succeeds or fails ... *)
Load(p) ==
  /\ At(p, "start")
  /\ \E ok \in BOOLEAN :
       /\ success' = [success EXCEPT ![p] = ok]
       /\ Goto(p, IF ok THEN "loaded" ELSE "failed")
  /\ UNCHANGED <<tree, exit_status, exited, semas, arg, ret, exit_returns,
                 killed, stopped>>

(* ... and the result is in exit_status before load_sema goes up. *)
LoadSucceeded(p) ==
  /\ At(p, "loaded")
  /\ load_sema' = [load_sema EXCEPT ![p] = @ + 1]
  /\ Goto(p, "user")
  /\ UNCHANGED <<tree, exit_status, exited, exit_sema, wait_sema, success,
                 arg, ret, exit_returns, killed, stopped>>

(* Mutant: exit_status is left to exit (-1), after load_sema. *)
LoadFailedUnmarked(p) ==
  /\ At(p, "failed")
  /\ Goto(p, "failup")
  /\ UNCHANGED <<tree, exit_status, exited, semas, success, arg, ret,
                 exit_returns, killed, stopped>>

LoadFailed(p) ==
  /\ At(p, "failed")
  /\ exit_status' = [exit_status EXCEPT ![p] = Failed]
  /\ Goto(p, "failup")
  /\ UNCHANGED <<tree, exited, semas, success, arg, ret, exit_returns, killed,
                 stopped>>

(* Mutant: the parent is not told of a failed load. *)
LoadFailedUpForgotten(p) ==
  /\ At(p, "failup")
  /\ Goto(p, "quit")
  /\ UNCHANGED <<tree, exit_status, exited, semas, success, arg, ret,
                 exit_returns, killed, stopped>>

LoadFailedUp(p) ==
  /\ At(p, "failup")
  /\ load_sema' = [load_sema EXCEPT ![p] = @ + 1]
  /\ Goto(p, "quit")
  /\ UNCHANGED <<tree, exit_status, exited, exit_sema, wait_sema, success,
                 arg, ret, exit_returns, killed, stopped>>
----------------------------------------------------------------------------
(* exit, up to its printf, of a process whose exited flag is e on entry.   *)
(* The path with the flag set leads to a return from a function declared   *)
(* not to: a build either returns or has no code for that path.            *)
ExitBody(p, status, e) ==
  IF e /\ exit_returns
  THEN Goto(p, "returned") /\ UNCHANGED exit_status
  ELSE /\ exit_status' = [exit_status EXCEPT ![p] = status]
       /\ Goto(p, "notify")

(* The exit system call, and every other one given a bad pointer. *)
Exit(p, status) ==
  /\ p # Main
  /\ At(p, "user")
  /\ ExitBody(p, status, exited[p])
  /\ exited' = [exited EXCEPT ![p] = TRUE]
  /\ UNCHANGED <<tree, semas, success, arg, ret, exit_returns, killed,
                 stopped>>

(* start_process calls exit (-1) after a failed load. *)
LoadFailedExit(p) ==
  /\ At(p, "quit")
  /\ ExitBody(p, Failed, exited[p])
  /\ exited' = [exited EXCEPT ![p] = TRUE]
  /\ UNCHANGED <<tree, semas, success, arg, ret, exit_returns, killed,
                 stopped>>

(* page_fault, of an unmapped address, sets exited and calls exit (-1). *)
PageFault(p) ==
  /\ p # Main
  /\ At(p, "user")
  /\ ExitBody(p, Failed, TRUE)
  /\ exited' = [exited EXCEPT ![p] = TRUE]
  /\ killed' = IF exit_returns /\ ~exited[p] THEN killed \cup {p} ELSE killed
  /\ UNCHANGED <<tree, semas, success, arg, ret, exit_returns, stopped>>

(* sema_up (&cur->exit_sema), then on to the parent's answer. *)
ExitNotify(p) ==
  /\ At(p, "notify")
  /\ exit_sema' = [exit_sema EXCEPT ![p] = @ + 1]
  /\ Goto(p, IF parent[p] # NULL THEN "reap" ELSE "leave")
  /\ UNCHANGED <<tree, exit_status, exited, load_sema, wait_sema, success,
                 arg, ret, exit_returns, killed, stopped>>

(* Mutant: the child does not block for its parent. *)
ExitReapedAtOnce(p) ==
  /\ At(p, "reap")
  /\ wait_sema' = [wait_sema EXCEPT ![p] = @ - 1]
  /\ Goto(p, "leave")
  /\ UNCHANGED <<tree, exit_status, exited, load_sema, exit_sema, success, arg,
                 ret, exit_returns, killed, stopped>>

(* sema_down (&cur->wait_sema). *)
ExitReaped(p) ==
  /\ At(p, "reap")
  /\ wait_sema[p] > 0
  /\ wait_sema' = [wait_sema EXCEPT ![p] = @ - 1]
  /\ Goto(p, "leave")
  /\ UNCHANGED <<tree, exit_status, exited, load_sema, exit_sema, success,
                 arg, ret, exit_returns, killed, stopped>>

(* exited is set, so the condition of exit's thread_exit is false: exit    *)
(* returns, in a build that lets it, and calls thread_exit in one that     *)
(* does not.                                                               *)
ExitEnd(p) ==
  /\ At(p, "leave")
  /\ Goto(p, IF exit_returns THEN "returned" ELSE "dead")
  /\ UNCHANGED <<tree, exit_status, exited, semas, success, arg, ret,
                 exit_returns, killed, stopped>>

(* After a call of exit the compiler put no code of the caller's: the      *)
(* process may get back to its program, to kill and thread_exit, or        *)
(* nowhere.                                                                *)
ExitReturned(p) ==
  /\ At(p, "returned")
  /\ \/ (Goto(p, "user") \/ Goto(p, "dead")) /\ UNCHANGED <<ret, arg, stopped>>
     \/ Undefined(p)
  /\ UNCHANGED <<tree, exit_status, exited, semas, success, exit_returns,
                 killed>>

(* kill, of every other exception, and setup_user_stack, of arguments that *)
(* do not fit, call thread_exit.                                           *)
ThreadExit(p) ==
  /\ p # Main
  /\ At(p, "user") \/ At(p, "start")
  /\ Goto(p, "dead")
  /\ killed' = IF exited[p] THEN killed ELSE killed \cup {p}
  /\ UNCHANGED <<tree, exit_status, exited, semas, success, arg, ret,
                 exit_returns, stopped>>
----------------------------------------------------------------------------
(* The wait system call looks the child up, sleeps ten ticks ... *)
Wait(p, c) ==
  /\ p # Main
  /\ At(p, "user")
  /\ \/ /\ Linked(p, c) /\ parent[c] = p
        /\ Goto(p, "sleep")
        /\ arg' = [arg EXCEPT ![p] = c]
        /\ ret' = [ret EXCEPT ![p] = 0]
        /\ UNCHANGED stopped
     \/ ~(Linked(p, c) /\ parent[c] = p) /\ Return(p, Failed) /\ UNCHANGED stopped
     \/ Dangling(p) /\ Undefined(p)
  /\ UNCHANGED <<tree, exit_status, exited, semas, success, exit_returns, killed>>

WaitSlept(p) ==
  /\ At(p, "sleep")
  /\ Goto(p, "wait")
  /\ UNCHANGED <<tree, exit_status, exited, semas, success, arg, ret,
                 exit_returns, killed, stopped>>

(* ... and calls process_wait, which looks it up in all_list. *)
ProcessWait(p) ==
  /\ At(p, "wait")
  /\ IF Alive(arg[p]) /\ parent[arg[p]] = p
     THEN Goto(p, "exit") /\ UNCHANGED <<ret, arg>>
     ELSE Return(p, Failed)
  /\ UNCHANGED <<tree, exit_status, exited, semas, success, exit_returns,
                 killed, stopped>>

(* sema_down (&child->exit_sema): the caller blocks, or is woken.  When    *)
(* the child died first it runs on a free page.                            *)
ProcessWaitExit(p) ==
  LET c == arg[p]
  IN  /\ \/ /\ At(p, "exit") /\ Alive(c) /\ exit_sema[c] = 0
            /\ Goto(p, "exit_blocked")
            /\ UNCHANGED <<exit_sema, ret, arg, stopped>>
         \/ /\ At(p, "exit") \/ At(p, "exit_blocked")
            /\ Alive(c) /\ exit_sema[c] > 0
            /\ exit_sema' = [exit_sema EXCEPT ![c] = @ - 1]
            /\ Goto(p, "collect")
            /\ UNCHANGED <<ret, arg, stopped>>
         \/ /\ At(p, "exit") /\ ~Alive(c)
            /\ Undefined(p)
            /\ UNCHANGED exit_sema
      /\ UNCHANGED <<tree, exit_status, exited, load_sema, wait_sema, success,
                     exit_returns, killed>>

(* Mutant: the child stays in child_list. *)
ProcessWaitCollectKeeps(p) ==
  /\ At(p, "collect")
  /\ Return(p, exit_status[arg[p]])
  /\ wait_sema' = [wait_sema EXCEPT ![arg[p]] = @ + 1]
  /\ UNCHANGED <<tree, exit_status, exited, load_sema, exit_sema, success,
                 exit_returns, killed, stopped>>

(* Mutant: the child is not told that it may go. *)
ProcessWaitCollectNoUp(p) ==
  /\ At(p, "collect")
  /\ Return(p, exit_status[arg[p]])
  /\ child_list' = [child_list EXCEPT ![p] = @ \ {arg[p]}]
  /\ UNCHANGED <<parent, exit_status, exited, semas, success, exit_returns, killed, stopped>>

(* The status is read, the child taken off child_list and let go. *)
ProcessWaitCollect(p) ==
  /\ At(p, "collect")
  /\ Return(p, exit_status[arg[p]])
  /\ child_list' = [child_list EXCEPT ![p] = @ \ {arg[p]}]
  /\ wait_sema' = [wait_sema EXCEPT ![arg[p]] = @ + 1]
  /\ UNCHANGED <<parent, exit_status, exited, load_sema, exit_sema, success,
                 exit_returns, killed, stopped>>

(* The halt system call, or the end of main. *)
Halt(p) ==
  /\ At(p, "user")
  /\ stopped' = "off"
  /\ UNCHANGED <<pc, tree, exit_status, exited, semas, success, arg, ret,
                 exit_returns, killed>>

Stopped == stopped # "no" /\ UNCHANGED vars
----------------------------------------------------------------------------
Init ==
  /\ pc = [p \in Proc |-> IF p = Main THEN "user" ELSE "unborn"]
  /\ parent = [p \in Proc |-> NULL]
  /\ child_list = [p \in Proc |-> {}]
  /\ exit_status = [p \in Proc |-> 0]
  /\ exited = [p \in Proc |-> FALSE]
  /\ load_sema = [p \in Proc |-> 0]
  /\ exit_sema = [p \in Proc |-> 0]
  /\ wait_sema = [p \in Proc |-> 0]
  /\ success = [p \in Proc |-> FALSE]
  /\ arg = [p \in Proc |-> NULL]
  /\ ret = [p \in Proc |-> 0]
  /\ exit_returns \in ExitReturns
  /\ killed = {}
  /\ stopped = "no"

(* What a program, or main, decides to do. *)
Call(p) ==
  \/ \E c \in Proc : ProcessExecute(p, c) \/ Wait(p, c)
  \/ ProcessExecuteFails(p)
  \/ \E s \in ExitCode : Exit(p, s)
  \/ PageFault(p) \/ ThreadExit(p) \/ Halt(p)

(* What the kernel then does without being asked. *)
KernelStep(p) ==
  \/ Load(p) \/ LoadSucceeded(p) \/ LoadFailed(p) \/ LoadFailedUp(p)
  \/ LoadFailedExit(p) \/ ExecFind(p) \/ ExecLoad(p) \/ ExecStatus(p)
  \/ WaitSlept(p) \/ ProcessWait(p) \/ ProcessWaitExit(p) \/ ProcessWaitCollect(p)
  \/ ExitNotify(p) \/ ExitReaped(p) \/ ExitEnd(p) \/ ExitReturned(p)

Next == (\E p \in Proc : Call(p) \/ KernelStep(p)) \/ Stopped

Spec == Init /\ [][Next]_vars

(* Processes have the same priority and are scheduled in turn. *)
Fairness == \A p \in Proc : WF_vars(KernelStep(p))
FairSpec == Spec /\ Fairness
----------------------------------------------------------------------------
TypeOK ==
  /\ pc \in [Proc -> PC]
  /\ parent \in [Proc -> Proc \cup {NULL}]
  /\ child_list \in [Proc -> SUBSET Proc]
  /\ exit_status \in [Proc -> Int]
  /\ exited \in [Proc -> BOOLEAN]
  /\ load_sema \in [Proc -> Nat]
  /\ exit_sema \in [Proc -> Nat]
  /\ wait_sema \in [Proc -> Nat]
  /\ success \in [Proc -> BOOLEAN]
  /\ arg \in [Proc -> Proc \cup {NULL}]
  /\ ret \in [Proc -> Int]
  /\ exit_returns \in BOOLEAN
  /\ killed \subseteq Proc
  /\ stopped \in {"no", "off", "panic"}

(* Nobody waits in vain: a process blocked on its child's exit_sema in     *)
(* process_wait has a child that is going to raise it, unless the child    *)
(* was killed.  A second wait for the same child never gets this far.      *)
NoWaitInVain ==
  \A p \in Proc : pc[p] = "exit_blocked" =>
    LET c == arg[p]
    IN  \/ exit_sema[c] > 0
        \/ Alive(c) /\ (exited[c] => pc[c] = "notify")
        \/ c \in killed

(* The status wait returns is its child's: while the parent collects it,   *)
(* the child is held in exit and its page is not free.                     *)
StatusIsTheChilds ==
  \A p \in Proc : pc[p] = "collect" => pc[arg[p]] = "reap" /\ exited[arg[p]]

(* A child is linked until it is collected and is one process's to wait    *)
(* for: only a killed child leaves its parent's child_list leading into a  *)
(* free page.                                                              *)
ChildListSound ==
  \A p \in Proc : \A c \in child_list[p] : parent[c] = p /\ (Alive(c) \/ c \in killed)

(* A process's children are what its child_list and their statuses say     *)
(* (syscall.c's exit and process_wait between them): the two above.        *)
ChildrenSound == TypeOK /\ StatusIsTheChilds /\ ChildListSound

(* exec (syscall.c) returns the pid of a program only if it loaded, and of *)
(* one that loaded whenever it is not over yet: start_process puts the     *)
(* result in exit_status before load_sema goes up.  A child that was       *)
(* killed, whose page exec reads after it is free, can give either answer. *)
ExecReportsLoad ==
  [][\A p \in Proc : pc[p] = "status" /\ pc'[p] = "user" /\ arg[p] \notin killed =>
       /\ ret'[p] # Failed => success[arg[p]]
       /\ success[arg[p]] /\ ~exited[arg[p]] => ret'[p] # Failed]_vars

(* exec comes back: a child that is not killed tells how its load went. *)
ExecReturns ==
  \A p \in Proc \ {Main} :
    pc[p] = "load_blocked" ~>
      pc[p] # "load_blocked" \/ arg[p] \in killed \/ stopped # "no"

(* A child that exits while its parent is blocked in process_wait gets the *)
(* parent out of it, and is let go by the parent.                          *)
WaitReleasesChild ==
  \A c \in Proc \ {Main} :
    (exited[c] /\ \E p \in Proc : pc[p] = "exit_blocked" /\ arg[p] = c) ~>
      pc[c] \notin {"notify", "reap"} \/ stopped # "no"

(* exec and wait come back: the two above. *)
CallsReturn == ExecReturns /\ WaitReleasesChild

(* process.c:136, of process_wait: "If it was terminated by the kernel     *)
(* (i.e. killed due to an exception), returns -1."                         *)
WaitForKilledReturns ==
  \A p \in Proc :
    pc[p] = "exit_blocked" /\ arg[p] \in killed ~> pc[p] = "user" \/ stopped # "no"
============================================================================
