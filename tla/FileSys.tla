------------------------------ MODULE FileSys ------------------------------
(***************************************************************************)
(* The file system: filesys.c, directory.c, inode.c, file.c and free-map.c *)
(* under filesys/, with the calls that use it (userprog/syscall.c), load   *)
(* and process_exit (userprog/process.c).                                  *)
(*                                                                         *)
(* The system calls hold filesys_lock; load, process_exit and the kernel's *)
(* own commands (fsutil.c) do not, and may begin while another operation   *)
(* is in progress.  raced records that one did: from there on the counts   *)
(* and lists of inode.c are shared without a lock, and this module says no *)
(* more (Inodes shows what can happen to them).  An operation is split     *)
(* where it writes to the disk, and the machine may stop between any two   *)
(* writes.  Memory is not exhausted in the middle of an operation.         *)
(***************************************************************************)
EXTENDS Integers, Sequences, FiniteSets

CONSTANTS
  Process,
  Main,        \* the initial thread, which runs the kernel's own commands
  Name,        \* file names
  LastSector,  \* the disk's sectors are 0 to LastSector
  DirSlots,    \* entries the root directory has room for
  Length,      \* the lengths files are created with, in sectors
  FdtMax,      \* FDT_MAX less the two reserved entries
  NULL

ASSUME FileSysAssumption ==
  /\ IsFiniteSet(Process)
  /\ Main \notin Process /\ NULL \notin Process \cup {Main}
  /\ NULL \notin Name
  /\ LastSector \in Nat
  /\ DirSlots \in Nat
  /\ Length \subseteq Nat
  /\ FdtMax \in Nat

(* Sectors 0 and 1 hold the inodes of the free map and the root directory. *)
Sector == 2..LastSector

VARIABLES
  dir,         \* disk: the sector of every name's inode, 0 for none
  disk_inode,  \* disk: start and length of the file whose inode is there
  disk_map,    \* disk: the sectors marked in the free map's file
  free_map,    \* memory: the sectors marked in use
  open_inodes, \* memory: struct inode for every sector whose inode is open
  fdt,         \* the files a process has open, by descriptor (from 2)
  exec_file,   \* the executable's file
  name,        \* the process's name: the program's
  pc,          \* what the operation in progress does next
  op,          \* its operands
  lost,        \* history: sectors marked in use that nothing leads to
  caller,      \* the thread whose operation is in progress
  filesys_lock, \* its holder
  raced        \* history: an operation began while another was in progress

disk == <<dir, disk_inode, disk_map>>
memory == <<free_map, open_inodes>>
procs == <<fdt, exec_file, name>>
state == <<disk, memory, procs, pc, op, lost>>
vars == <<state, caller, filesys_lock, raced>>

NoFile == [sector |-> 0, deny |-> FALSE]
NotOpen == [open_cnt |-> 0, deny_write_cnt |-> 0, removed |-> FALSE,
            start |-> 0, length |-> 0]
NoOp == [proc |-> NULL, file |-> NULL, sector |-> 0, start |-> 0, length |-> 0]

Data(start, length) == start .. start + length - 1
InUse == Cardinality({n \in Name : dir[n] # 0})
----------------------------------------------------------------------------
(* bitmap_scan: where the first cnt clear bits in a row begin, or none. *)
Fits(cnt) == {s \in 0..LastSector : cnt = 0 \/ Data(s, cnt) \subseteq Sector \ free_map}
FirstFit(cnt) == CHOOSE s \in Fits(cnt) : \A t \in Fits(cnt) : s <= t

(* Mutant: the map is changed in memory only. *)
MarkInMemory(s) == free_map' = free_map \cup s /\ UNCHANGED disk_map

(* free_map_allocate and free_map_release change the map and its file. *)
Mark(s) == free_map' = free_map \cup s /\ disk_map' = free_map'
Release(s) == free_map' = free_map \ s /\ disk_map' = free_map'
----------------------------------------------------------------------------
(* filesys_create, for a process or the kernel's own commands: a sector    *)
(* for the inode ...                                                       *)
Create(n, length) ==
  /\ pc = "idle"
  /\ Fits(1) # {}
  /\ Mark({FirstFit(1)})
  /\ op' = [proc |-> NULL, file |-> n, sector |-> FirstFit(1), start |-> 0,
            length |-> length]
  /\ pc' = "inode_create"
  /\ UNCHANGED <<dir, disk_inode, open_inodes, procs, lost>>

(* ... inode_create: sectors for the data, or none ... *)
InodeCreate ==
  /\ pc = "inode_create"
  /\ IF Fits(op.length) = {}
     THEN /\ pc' = "undo"
          /\ op' = [op EXCEPT !.length = 0]
          /\ UNCHANGED <<free_map, disk_map>>
     ELSE LET start == FirstFit(op.length)
          IN  /\ Mark(Data(start, op.length))
              /\ op' = [op EXCEPT !.start = start]
              /\ pc' = "inode_write"
  /\ UNCHANGED <<dir, disk_inode, open_inodes, procs, lost>>

(* ... then the inode itself and zeros for the data ... *)
InodeWrite ==
  /\ pc = "inode_write"
  /\ disk_inode' = [disk_inode EXCEPT ![op.sector] =
                      [start |-> op.start, length |-> op.length]]
  /\ pc' = "dir_add"
  /\ UNCHANGED <<dir, disk_map, memory, procs, op, lost>>

(* Mutant: dir_add does not look for the name. *)
DirAddUnchecked ==
  /\ pc = "dir_add"
  /\ InUse < DirSlots
  /\ dir' = [dir EXCEPT ![op.file] = op.sector]
  /\ pc' = "idle" /\ op' = NoOp
  /\ UNCHANGED <<disk_inode, disk_map, memory, procs, lost>>

(* ... and last the directory entry: dir_add fails if the name is in use   *)
(* or the directory full.                                                  *)
DirAdd ==
  /\ pc = "dir_add"
  /\ IF dir[op.file] # 0 \/ InUse >= DirSlots
     THEN pc' = "undo" /\ UNCHANGED <<dir, op>>
     ELSE /\ dir' = [dir EXCEPT ![op.file] = op.sector]
          /\ pc' = "idle" /\ op' = NoOp
  /\ UNCHANGED <<disk_inode, disk_map, memory, procs, lost>>

(* A create that failed gives back the inode's sector, not the data's. *)
Undo ==
  /\ pc = "undo"
  /\ Release({op.sector})
  /\ lost' = lost \cup Data(op.start, op.length)
  /\ pc' = "idle" /\ op' = NoOp
  /\ UNCHANGED <<dir, disk_inode, open_inodes, procs>>
----------------------------------------------------------------------------
(* Mutant: an inode that is open already is read from the disk again. *)
InodeOpenAnew(s) ==
  [open_inodes EXCEPT ![s] =
     [open_cnt |-> 1, deny_write_cnt |-> 0, removed |-> FALSE,
      start |-> disk_inode[s].start, length |-> disk_inode[s].length]]

(* inode_open: count one more opener, or read the inode from the disk. *)
InodeOpen(s) ==
  [open_inodes EXCEPT ![s] =
     IF @.open_cnt > 0 THEN [open_inodes[s] EXCEPT !.open_cnt = @ + 1]
     ELSE [open_cnt |-> 1, deny_write_cnt |-> 0, removed |-> FALSE,
           start |-> disk_inode[s].start, length |-> disk_inode[s].length]]

(* inode_close of s, with i the open inodes, on behalf of process p; the   *)
(* last closer of a removed file gives its sectors back, then goes on to   *)
(* next.                                                                   *)
InodeClose(s, i, p, next) ==
  LET last == i[s].open_cnt = 1
  IN  /\ open_inodes' = [i EXCEPT ![s] = IF last THEN NotOpen
                                        ELSE [i[s] EXCEPT !.open_cnt = @ - 1]]
      /\ IF last /\ i[s].removed
         THEN /\ pc' = "release"
              /\ op' = [proc |-> p, file |-> NULL, sector |-> s,
                        start |-> i[s].start, length |-> i[s].length]
         ELSE /\ pc' = next
              /\ op' = IF next = "idle" THEN NoOp
                                        ELSE [NoOp EXCEPT !.proc = p]

(* Mutant: a file that denied writes is closed without allowing them. *)
FileCloseDenied(f, p, next) == InodeClose(f.sector, open_inodes, p, next)

(* Mutant: file_allow_write does not look at deny_write. *)
FileCloseAllows(f, p, next) ==
  InodeClose(f.sector, [open_inodes EXCEPT ![f.sector].deny_write_cnt = @ - 1], p, next)

(* file_close: file_allow_write first. *)
FileClose(f, p, next) ==
  InodeClose(f.sector,
             IF f.deny THEN [open_inodes EXCEPT ![f.sector].deny_write_cnt = @ - 1]
                       ELSE open_inodes,
             p, next)

(* free_map_release, of the inode's sector and then of the data's. *)
ReleaseInode ==
  /\ pc = "release"
  /\ Release({op.sector})
  /\ pc' = "release_data"
  /\ UNCHANGED <<dir, disk_inode, open_inodes, procs, op, lost>>

(* An exiting process goes on to its next file. *)
ReleaseData ==
  /\ pc = "release_data"
  /\ Release(Data(op.start, op.length))
  /\ IF op.proc # NULL THEN pc' = "exit" /\ op' = [NoOp EXCEPT !.proc = op.proc]
                       ELSE pc' = "idle" /\ op' = NoOp
  /\ UNCHANGED <<dir, disk_inode, open_inodes, procs, lost>>
----------------------------------------------------------------------------
(* open: the process's own program may not be written while it has it open *)
(* this way.                                                               *)
Open(p, n) ==
  /\ pc = "idle"
  /\ name[p] # NULL
  /\ dir[n] # 0
  /\ Len(fdt[p]) < FdtMax
  /\ fdt' = [fdt EXCEPT ![p] = Append(@, [sector |-> dir[n], deny |-> n = name[p]])]
  /\ open_inodes' = IF n = name[p]
                    THEN [InodeOpen(dir[n]) EXCEPT ![dir[n]].deny_write_cnt = @ + 1]
                    ELSE InodeOpen(dir[n])
  /\ UNCHANGED <<disk, free_map, exec_file, name, pc, op, lost>>

(* close; the executable's own file is in no descriptor, so the test of    *)
(* is_closing_executable_file never holds.                                 *)
Close(p, fd) ==
  /\ pc = "idle"
  /\ fdt[p][fd] # NoFile
  /\ FileClose(fdt[p][fd], NULL, "idle")
  /\ fdt' = [fdt EXCEPT ![p][fd] = NoFile]
  /\ UNCHANGED <<disk, free_map, exec_file, name, lost>>

(* Mutant: the file's sectors are given back although it is open. *)
RemoveAtOnce(n) ==
  /\ pc = "idle"
  /\ dir[n] # 0
  /\ dir' = [dir EXCEPT ![n] = 0]
  /\ pc' = "release"
  /\ op' = [proc |-> NULL, file |-> NULL, sector |-> dir[n],
            start |-> disk_inode[dir[n]].start, length |-> disk_inode[dir[n]].length]
  /\ UNCHANGED <<disk_inode, disk_map, memory, procs, lost>>

(* filesys_remove, for a process or the kernel's own commands: the entry   *)
(* goes, the inode is marked and closed.                                   *)
Remove(n) ==
  /\ pc = "idle"
  /\ dir[n] # 0
  /\ dir' = [dir EXCEPT ![n] = 0]
  /\ InodeClose(dir[n], [InodeOpen(dir[n]) EXCEPT ![dir[n]].removed = TRUE],
                NULL, "idle")
  /\ UNCHANGED <<disk_inode, disk_map, free_map, procs, lost>>

(* load: the executable stays open in exec_file, also when the rest of     *)
(* load fails and the process exits at once.  Writing it is not denied.    *)
Load(p, n) ==
  /\ pc = "idle"
  /\ name[p] = NULL
  /\ dir[n] # 0
  /\ name' = [name EXCEPT ![p] = n]
  /\ exec_file' = [exec_file EXCEPT ![p] = dir[n]]
  /\ open_inodes' = InodeOpen(dir[n])
  /\ UNCHANGED <<disk, free_map, fdt, pc, op, lost>>

(* process_exit closes exec_file ... *)
Exit(p) ==
  /\ pc = "idle"
  /\ name[p] # NULL
  /\ FileClose([sector |-> exec_file[p], deny |-> FALSE], p, "exit")
  /\ exec_file' = [exec_file EXCEPT ![p] = 0]
  /\ name' = [name EXCEPT ![p] = NULL]
  /\ UNCHANGED <<disk, free_map, fdt, lost>>

(* ... and every file of the table, in order. *)
ExitFiles ==
  LET p == op.proc
      files == {fd \in DOMAIN fdt[p] : fdt[p][fd] # NoFile}
      fd == CHOOSE f \in files : \A g \in files : f <= g
  IN  /\ pc = "exit"
      /\ IF files = {}
         THEN /\ fdt' = [fdt EXCEPT ![p] = <<>>]
              /\ pc' = "idle" /\ op' = NoOp
              /\ UNCHANGED open_inodes
         ELSE /\ FileClose(fdt[p][fd], p, "exit")
              /\ fdt' = [fdt EXCEPT ![p][fd] = NoFile]
      /\ UNCHANGED <<disk, free_map, exec_file, name, lost>>

(* The machine stops, at any point of any operation, and boots again:      *)
(* free_map_open reads the map from its file.                              *)
Reboot ==
  /\ free_map' = disk_map
  /\ open_inodes' = [s \in Sector |-> NotOpen]
  /\ fdt' = [p \in Process |-> <<>>]
  /\ exec_file' = [p \in Process |-> 0]
  /\ name' = [p \in Process |-> NULL]
  /\ pc' = "idle" /\ op' = NoOp
  /\ lost' = disk_map \ UNION {{dir[n]} \cup Data(disk_inode[dir[n]].start,
                                                 disk_inode[dir[n]].length) :
                               n \in {m \in Name : dir[m] # 0}}
  /\ UNCHANGED disk
----------------------------------------------------------------------------
(* Thread t begins an operation: a system call of a process that runs (l), *)
(* once it has filesys_lock, or without it load, process_exit or a command *)
(* of the initial thread's.                                                *)
Begin(t, l) ==
  /\ t # caller
  /\ l => name[t] # NULL /\ filesys_lock = NULL
  /\ IF caller = NULL
     THEN caller' = t /\ filesys_lock' = (IF l THEN t ELSE NULL) /\ UNCHANGED raced
     ELSE raced' = TRUE /\ UNCHANGED <<caller, filesys_lock>>
  /\ UNCHANGED state

(* The first step of the operation begun ... *)
FirstStep ==
  \/ /\ filesys_lock # NULL \/ caller = Main
     /\ \E n \in Name : (\E l \in Length : Create(n, l)) \/ Remove(n)
  \/ /\ filesys_lock # NULL
     /\ \/ \E n \in Name : Open(caller, n)
        \/ \E fd \in DOMAIN fdt[caller] : Close(caller, fd)
  \/ /\ caller \in Process /\ filesys_lock = NULL
     /\ (\E n \in Name : Load(caller, n)) \/ Exit(caller)

(* ... and the others. *)
NextStep ==
  \/ InodeCreate \/ InodeWrite \/ DirAdd \/ Undo
  \/ ReleaseInode \/ ReleaseData \/ ExitFiles

(* The caller takes a step; with the last one it returns and gives up the  *)
(* lock.                                                                   *)
Leave == caller' = NULL /\ filesys_lock' = NULL
Step ==
  /\ caller # NULL
  /\ FirstStep \/ NextStep
  /\ IF pc' = "idle" THEN Leave ELSE UNCHANGED <<caller, filesys_lock>>
  /\ UNCHANGED raced

(* A system call, a command or load comes back with all of this unchanged: *)
(* it failed (no such file, no room, no memory), or it is one that only    *)
(* reads or writes a file's data.                                          *)
NoChange ==
  /\ caller # NULL
  /\ pc = "idle"
  /\ caller \in Process => filesys_lock # NULL \/ name[caller] = NULL
  /\ Leave
  /\ UNCHANGED <<state, raced>>

Crash == Reboot /\ Leave /\ UNCHANGED raced
----------------------------------------------------------------------------
(* A formatted disk, the free map read, no process yet. *)
Init ==
  /\ dir = [n \in Name |-> 0]
  /\ disk_inode = [s \in Sector |-> [start |-> 0, length |-> 0]]
  /\ disk_map = {}
  /\ free_map = {}
  /\ open_inodes = [s \in Sector |-> NotOpen]
  /\ fdt = [p \in Process |-> <<>>]
  /\ exec_file = [p \in Process |-> 0]
  /\ name = [p \in Process |-> NULL]
  /\ pc = "idle"
  /\ op = NoOp
  /\ lost = {}
  /\ caller = NULL /\ filesys_lock = NULL /\ raced = FALSE

Next ==
  /\ ~raced
  /\ \/ \E t \in Process \cup {Main} : Begin(t, FALSE)
     \/ \E t \in Process : Begin(t, TRUE)
     \/ Step \/ NoChange \/ Crash

Spec == Init /\ [][Next]_vars
----------------------------------------------------------------------------
TypeOK ==
  /\ dir \in [Name -> Sector \cup {0}]
  /\ disk_inode \in [Sector -> [start : 0..LastSector, length : Nat]]
  /\ disk_map \subseteq Sector
  /\ free_map \subseteq Sector
  /\ open_inodes \in [Sector -> [open_cnt : Nat, deny_write_cnt : Nat, removed : BOOLEAN,
                                 start : 0..LastSector, length : Nat]]
  /\ fdt \in [Process -> Seq([sector : Sector \cup {0}, deny : BOOLEAN])]
  /\ exec_file \in [Process -> Sector \cup {0}]
  /\ name \in [Process -> Name \cup {NULL}]
  /\ pc \in {"idle", "inode_create", "inode_write", "dir_add", "undo", "release",
             "release_data", "exit"}
  /\ op \in [proc : Process \cup {NULL}, file : Name \cup {NULL}, sector : Sector \cup {0},
             start : 0..LastSector, length : Nat]
  /\ lost \subseteq Sector
  /\ caller \in Process \cup {Main, NULL}
  /\ filesys_lock \in {caller, NULL}
  /\ raced \in BOOLEAN

(* The files that have the inode at s open, and those that deny writes. *)
Openers(s) ==
  {o \in Process \X (1..FdtMax) : o[2] \in DOMAIN fdt[o[1]] /\ fdt[o[1]][o[2]].sector = s}
Deniers(s) == {o \in Openers(s) : fdt[o[1]][o[2]].deny}

(* open_cnt counts the open files, so an inode goes exactly with its last  *)
(* one.                                                                    *)
OpenCount ==
  \A s \in Sector :
    open_inodes[s].open_cnt =
      Cardinality(Openers(s)) + Cardinality({p \in Process : exec_file[p] = s})

(* deny_write_cnt counts the files that deny writes: the assertions of     *)
(* inode_deny_write and inode_allow_write hold, and closing, exiting or    *)
(* crashing never leaves a file unwritable.                                *)
DenyCount ==
  \A s \in Sector : open_inodes[s].deny_write_cnt = Cardinality(Deniers(s))

(* The counts of inode.c are exact at every step until two operations      *)
(* overlap: the two above.                                                 *)
CountsExact == raced \/ (TypeOK /\ OpenCount /\ DenyCount)

(* The sectors of the file with inode s as the disk, and as memory, has it. *)
OnDisk(s) == {s} \cup Data(disk_inode[s].start, disk_inode[s].length)
InMemory(s) == {s} \cup Data(open_inodes[s].start, open_inodes[s].length)
Entries == {dir[n] : n \in Name} \ {0}

(* What is on the disk is sound after every single write, so a crash loses *)
(* no file: every entry leads to an inode whose sectors are marked, and no *)
(* two entries share any.                                                  *)
DiskSound ==
  /\ \A s \in Entries : OnDisk(s) \subseteq disk_map
  /\ \A m, n \in Name : m # n /\ dir[m] # 0 /\ dir[n] # 0 =>
       OnDisk(dir[m]) \cap OnDisk(dir[n]) = {}

(* A file keeps its sectors while it is open, removed or not: nobody else  *)
(* gets them.                                                              *)
SectorsKept ==
  \A s \in Sector : open_inodes[s].open_cnt > 0 =>
    /\ InMemory(s) \subseteq free_map
    /\ \A t \in Sector \ {s} : open_inodes[t].open_cnt > 0 =>
         InMemory(s) \cap InMemory(t) = {}
    /\ \A t \in Entries \ {s} : InMemory(s) \cap OnDisk(t) = {}
    /\ open_inodes[s].removed <=> s \notin Entries

(* Until two operations overlap, an open file keeps its sectors: inode.c's *)
(* inode_close gives them back with the last closer only, as SectorsKept   *)
(* says.                                                                   *)
OpenFilesKeepSectors == raced \/ SectorsKept

(* Between operations a marked sector belongs to an entry or to an open    *)
(* file, except for those that a failed create or a crash left behind.     *)
NoOtherLeak ==
  pc = "idle" =>
    free_map = lost \cup (UNION {OnDisk(s) : s \in Entries})
                    \cup (UNION {InMemory(s) : s \in {t \in Sector : open_inodes[t].open_cnt > 0}})

(* Until two operations overlap, the disk loses neither files nor, but for *)
(* those, sectors, at whatever write the machine stops: DiskSound and      *)
(* NoOtherLeak.                                                            *)
DiskKept == raced \/ (DiskSound /\ NoOtherLeak)
============================================================================
