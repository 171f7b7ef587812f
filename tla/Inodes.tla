------------------------------- MODULE Inodes -------------------------------
(***************************************************************************)
(* The list of open inodes (filesys/inode.c) when operations overlap, for  *)
(* one file: open, close and remove (userprog/syscall.c) hold              *)
(* filesys_lock, load and process_exit (userprog/process.c) do not.  A     *)
(* thread may lose the processor between any two actions, and inode_open   *)
(* sleeps in block_read with the new inode in the list already.  A struct  *)
(* inode is its number in the order of allocation.  What becomes of a      *)
(* struct that is freed, or taken off the list twice, is left out.         *)
(***************************************************************************)
EXTENDS Integers, Sequences

CONSTANTS
  Process,
  MaxInodes,     \* struct inodes allocated for the file in one behaviour
  NULL

VARIABLES
  entry,         \* the directory leads to the file
  inode,         \* the struct inodes allocated for it
  open_inodes,   \* those in the list, the first found first
  exec_file,     \* the struct a process's program is open as, 0 for none
  fd,            \* the one its descriptor leads to
  filesys_lock,  \* the holder
  call, pc, arg, \* a process's operation, what is next in it, its struct
  released       \* the file's sectors are in the free map

vars == <<entry, inode, open_inodes, exec_file, fd, filesys_lock, call, pc, arg, released>>

Goto(p, l) == pc' = [pc EXCEPT ![p] = l]

(* p begins an operation at l on the struct i, with the lock or without. *)
Begin(p, c, l, i) ==
  /\ pc[p] = "idle"
  /\ IF c \in {"load", "exit"} THEN UNCHANGED filesys_lock
     ELSE filesys_lock = NULL /\ filesys_lock' = p
  /\ call' = [call EXCEPT ![p] = c]
  /\ arg' = [arg EXCEPT ![p] = i]
  /\ Goto(p, l)
  /\ UNCHANGED <<entry, inode, open_inodes, exec_file, fd, released>>

(* It returns. *)
Return(p) ==
  /\ Goto(p, "idle")
  /\ filesys_lock' = IF filesys_lock = p THEN NULL ELSE filesys_lock
-----------------------------------------------------------------------------
Load(p) == exec_file[p] = 0 /\ entry /\ Begin(p, "load", "search", 0)
Open(p) == exec_file[p] # 0 /\ fd[p] = 0 /\ entry /\ Begin(p, "open", "search", 0)
Remove(p) == exec_file[p] # 0 /\ entry /\ Begin(p, "remove", "search", 0)
Close(p) == fd[p] # 0 /\ Begin(p, "close", "close", fd[p])
Exit(p) == exec_file[p] # 0 /\ Begin(p, "exit", "close", exec_file[p])

(* What the caller of inode_open does with i: a file in exec_file or in    *)
(* fdt, or dir_remove.                                                     *)
Opened(p, i) ==
  /\ exec_file' = IF call[p] = "load" THEN [exec_file EXCEPT ![p] = i] ELSE exec_file
  /\ fd' = IF call[p] = "open" THEN [fd EXCEPT ![p] = i] ELSE fd
  /\ IF call[p] = "remove" THEN Goto(p, "erase") /\ UNCHANGED filesys_lock ELSE Return(p)
  /\ arg' = [arg EXCEPT ![p] = i]
  /\ UNCHANGED <<entry, call, released>>

(* inode_open looks through the list ... *)
Search(p) ==
  /\ pc[p] = "search"
  /\ IF open_inodes = <<>>
     THEN Goto(p, "insert") /\ UNCHANGED <<entry, inode, exec_file, fd, filesys_lock, call, arg, released>>
     ELSE /\ inode' = [inode EXCEPT ![Head(open_inodes)].open_cnt = @ + 1]
          /\ Opened(p, Head(open_inodes))
  /\ UNCHANGED open_inodes

(* ... and puts a new inode into it ... *)
Insert(p) ==
  /\ pc[p] = "insert"
  /\ Len(inode) < MaxInodes
  /\ inode' = Append(inode, [open_cnt |-> 1, removed |-> FALSE])
  /\ open_inodes' = <<Len(inode')>> \o open_inodes
  /\ arg' = [arg EXCEPT ![p] = Len(inode')]
  /\ Goto(p, "read")
  /\ UNCHANGED <<entry, exec_file, fd, filesys_lock, call, released>>

(* ... whose contents are there after block_read. *)
Read(p) ==
  /\ pc[p] = "read"
  /\ Opened(p, arg[p])
  /\ UNCHANGED <<inode, open_inodes>>

(* dir_remove erases the entry, marks the inode and closes it. *)
Erase(p) ==
  /\ pc[p] = "erase"
  /\ entry' = FALSE
  /\ inode' = [inode EXCEPT ![arg[p]].removed = TRUE]
  /\ Goto(p, "close")
  /\ UNCHANGED <<open_inodes, exec_file, fd, filesys_lock, call, arg, released>>
-----------------------------------------------------------------------------
(* What the caller of inode_close does next: process_exit goes on from its *)
(* executable to its descriptor.                                           *)
Closed(p) ==
  LET more == call[p] = "exit" /\ exec_file[p] # 0 /\ fd[p] # 0
  IN  /\ exec_file' = IF call[p] = "exit" THEN [exec_file EXCEPT ![p] = 0] ELSE exec_file
      /\ fd' = IF call[p] \in {"close", "exit"} /\ ~more THEN [fd EXCEPT ![p] = 0] ELSE fd
      /\ arg' = IF more THEN [arg EXCEPT ![p] = fd[p]] ELSE arg
      /\ IF more THEN Goto(p, "close") /\ UNCHANGED filesys_lock ELSE Return(p)

(* inode_close: one opener less ... *)
CloseInode(p) ==
  /\ pc[p] = "close"
  /\ inode' = [inode EXCEPT ![arg[p]].open_cnt = @ - 1]
  /\ IF inode'[arg[p]].open_cnt = 0
     THEN Goto(p, "unlink") /\ UNCHANGED <<exec_file, fd, filesys_lock, arg>>
     ELSE Closed(p)
  /\ UNCHANGED <<entry, open_inodes, call, released>>

(* ... the last one takes it off the list ... *)
Unlink(p) ==
  /\ pc[p] = "unlink"
  /\ open_inodes' = SelectSeq(open_inodes, LAMBDA i : i # arg[p])
  /\ IF inode[arg[p]].removed
     THEN Goto(p, "release") /\ UNCHANGED <<exec_file, fd, filesys_lock, arg>>
     ELSE Closed(p)
  /\ UNCHANGED <<entry, inode, call, released>>

(* ... and of a removed file gives the sectors back. *)
Release(p) ==
  /\ pc[p] = "release"
  /\ released' = TRUE
  /\ Closed(p)
  /\ UNCHANGED <<entry, inode, open_inodes, call>>
-----------------------------------------------------------------------------
Init ==
  /\ entry = TRUE
  /\ inode = <<>> /\ open_inodes = <<>>
  /\ exec_file = [p \in Process |-> 0]
  /\ fd = [p \in Process |-> 0]
  /\ filesys_lock = NULL
  /\ call = [p \in Process |-> "exit"]
  /\ pc = [p \in Process |-> "idle"]
  /\ arg = [p \in Process |-> 0]
  /\ released = FALSE

Next ==
  \E p \in Process :
    \/ Load(p) \/ Open(p) \/ Remove(p) \/ Close(p) \/ Exit(p)
    \/ Search(p) \/ Insert(p) \/ Read(p) \/ Erase(p)
    \/ CloseInode(p) \/ Unlink(p) \/ Release(p)

Spec == Init /\ [][Next]_vars

(* p has the file open and is not about to close it. *)
HasOpen(p) ==
  \/ exec_file[p] # 0 /\ (pc[p] = "idle" \/ call[p] # "exit")
  \/ fd[p] # 0 /\ (pc[p] = "idle" \/ call[p] \notin {"close", "exit"})

(* inode.c:188, of inode_remove: "Marks INODE to be deleted when it is     *)
(* closed by the last caller who has it open."  The sectors of a removed   *)
(* file are given back when nobody has it open.                            *)
DeletedByLastCloser == released => \A p \in Process : ~HasOpen(p)
=============================================================================
