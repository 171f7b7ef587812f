# A TLA+ model of this Pintos kernel

Pintos is a small x86 kernel. This repository's version adds an alarm clock, a
priority scheduler with aging, an MLFQS scheduler, user programs with `exec`,
`wait`, `exit` and file system calls. The modules in this directory model the
kernel, from its scheduler and allocators to its drivers and library, check it
with TLC on small instances and prove what matters most about it with TLAPS.
Paths below are relative to `src/pintos/src/`.

## 1. Inventory

| Part | State | Operations | Talks to |
|---|---|---|---|
| Scheduler (`threads/thread.c`) | `ready_list`, `all_list`, status, priority and list element of every thread, `next_tid`, `thread_ticks` | create, exit, block, unblock, yield, set priority, aging, switch | everything |
| Semaphores and locks (`threads/synch.c`) | value and waiters; holder | down, try-down, up; acquire, try-acquire, release | scheduler; interrupt handlers may call `sema_up` |
| Condition variables (`threads/synch.c`) | waiters | wait, signal, broadcast | semaphores, locks |
| Alarm clock (`devices/timer.c`, `thread.c`) | `ticks`, `sleep_list`, `wake_up_time` | `timer_sleep`, `thread_sleep`, `thread_awake` | timer interrupt, scheduler |
| Interrupts (`threads/interrupt.c`) | interrupt flag, `in_external_intr`, `yield_on_return` | entry, return | scheduler, devices |
| MLFQS (`thread.c`) | `load_avg`, `recent_cpu`, nice | recomputation on ticks | scheduler |
| Process life cycle (`userprog/process.c`, `syscall.c`, `exception.c`) | parent, `child_list`, `exit_status`, `exited`, `load_sema`, `exit_sema`, `wait_sema` | exec, load, wait, exit, fault, kill | scheduler, semaphores, loader |
| Loader (`process.c`) | page directory, stack, `exec_file` | `load`, `load_segment`, `setup_user_stack` | file system, page allocator |
| File calls (`syscall.c`, `filesys/file.c`) | descriptor table, `filesys_lock`, positions, deny-write | create, remove, open, close, read, write, seek | file system |
| File system (`filesys/*.c`) | free map, open inodes, directory entries | create, open, read, write, remove, close | block devices |
| Memory (`palloc.c`, `malloc.c`, `pagedir.c`) | used maps, arenas, page tables | get, free, map | locks |
| Devices (`ide.c`, `block.c`, `intq.c`, `kbd.c`, `serial.c`) | command state, ring buffers | read, write, interrupt | semaphores, interrupts |
| Console (`lib/kernel/console.c`, `devices/vga.c`) | lock, cursor, display | print | locks, serial port |
| Library (`lib/*.c`, `lib/kernel/*.c`) | lists, bitmaps, hash tables | strings, sorting, division, `printf` | everything |
| Archives (`filesys/fsutil.c`, `lib/ustar.c`) | static sector numbers, scratch device | append, extract | file system, block devices |

What makes the system hard: one CPU, but an interrupt between any two
instructions that run with interrupts on; a thread switch inside `sema_up`,
`lock_release`, `thread_create` and at the end of an interrupt; structures that
live in the page of the thread they describe and are freed with it; parents and
children that wait for one another's semaphores; one list element shared by
three kinds of list. `PROJECT.json` lists the hazards at the lines where they
bite, each with the properties that would catch it.

## 2. Plan

The modules model all of the above but for what section 7 names, and the safety of
scheduler, semaphores, locks, condition variables, processes, page allocator,
address spaces, file system and disk access is proved (section 6). What remains, in
order:

1. An abstract counting semaphore that `Threads` implements, which is what
   `Process`, `Monitor`, `Terminal` and `Disk` rely on.
2. What `inode.c` still promises when `process_exit` and `load` overlap other
   operations (`Inodes` shows what it does not).

## 3. Modules

### KernelList

`lib/kernel/list.c` as sequences of the structures the elements are embedded
in. `ListInsertOrdered` is `list_insert_ordered`: before the first element that
the new one is less than, so equals keep their order of arrival. Every `LESS`
function of the kernel compares a number, so a key function stands for it.

### Threads

The scheduler in `SCHEDULING_PRIORITY` mode with semaphores, locks and the
alarm clock.

| Code | Model |
|---|---|
| page of a `struct thread` | element of `Thread`; status `"UNUSED"` is a free page |
| `cur->status`, `->priority`, `->wake_up_time`, `->tid` | functions of the same names |
| `ready_list`, `sleep_list`, `sema->waiters` | sequences |
| place inside a kernel function | `pc[t]`, with operands `arg[t]`, `new[t]`, `tmp[t]` |
| interrupt in progress | `in_external_intr`, `yield_on_return` |
| failed `ASSERT` | `panic` |

An action is a stretch of code that no interrupt can split. Where the code turns
interrupts on in the middle of a function, the function is several actions:
`lock_acquire` is `LockAcquire` (its `sema_down`) and `LockOwn` (the assignment
of `holder`); `lock_release` is `LockRelease` and `LockReleaseUp`; `next_tid++`
is `AllocateTidRead` and `AllocateTidWrite`; `timer_sleep` is `TimerSleep` and
`ThreadSleep`; a timer interrupt is `TimerInterrupt`, one `ThreadAwake` for every
sleeper it wakes, and `IntrReturn`. `sema_down` blocks with interrupts off and
goes on as `SemaDownWoken`. A switch happens inside the action whose code calls
`schedule`.

`thread_create` reads `t->priority` after the new thread may have exited; if its
page is free the comparison has either result. A thread exits holding no lock:
that is the discipline of the kernel's callers, not something `thread_exit`
checks. A page that is freed forgets what it held.

### Process

One element of `Proc` is one incarnation of a `struct thread` of a user process,
so it is also its tid. Each semaphore is its value and a blocked `sema_down` is a
disabled action; that this is what semaphores do is what `synch` checks of
`Threads` (`NoLostWakeup`, `NoThreadLost`). `exec` is `ProcessExecute`,
`ExecFind`, `ExecLoad`, `ExecStatus`; `wait` is `Wait`, `WaitSlept`,
`ProcessWait`, `ProcessWaitExit`, `ProcessWaitCollect`; `exit` is `ExitBody`,
`ExitNotify`, `ExitReaped`, `ExitEnd`. Main executes programs and waits for them
as `run_task` does.

Two things in this code have no defined outcome, and the model keeps them open:

* `exit` is declared `NO_RETURN` (`userprog/syscall.c:31`), sets `exited`, and
  calls `thread_exit` only `if (... && !cur->exited)`, which is then false: as
  written it returns. A compiler may emit the return, with none of the caller's
  code after the call, or treat every path to the return as impossible. GCC 12
  with the build's `-O` does the second: it drops both tests of `exited` and
  calls `thread_exit` always. `exit_returns` selects the kind of build, and the
  runs consider both; after a return the process may be back in its program,
  dead, hung, or the kernel may panic.
* A child that ends in `thread_exit` without `exit` stays linked in its parent's
  `child_list` when its page is freed. Whoever then reads the page (`exec`,
  `process_wait`, `get_child_thread_by_tid`) reads anything (`Undefined`).

`killed` is a history variable: the processes that ended without raising
`exit_sema`. `load` is its result.

### FileSys

The disk is `dir` (the root directory), `disk_inode` (start and length in the
inode's sector) and `disk_map` (the free map's file); memory is `free_map` and
`open_inodes`, indexed by sector, with `open_cnt`, `deny_write_cnt`, `removed`
and the copy of start and length that `inode_open` reads. Sectors 0 and 1 and
the data of the free map and of the directory are left out: they are allocated
once, at formatting. A descriptor table is a sequence that only grows, as
`next_fd` does.

`caller` is the thread whose operation is in progress and `filesys_lock` the lock.
`Begin` starts an operation: a system call has to get the lock; `load`,
`process_exit` and the commands of the initial thread (`Main`: `fsutil.c`) take
none and may begin at any time. One that begins while another is in progress sets
the history variable `raced`, and there this module ends: `CountsExact`, `DiskKept`
and `OpenFilesKeepSectors` say what holds until then. That is as far as they do
hold. Nothing in the kernel prevents the overlap, not even a parent that waits for
its child: `exit` raises `exit_sema` before `process_exit` closes the child's
files. `Inodes`, below, is about what happens next.

An operation is split where it writes to the disk:
`filesys_create` is `Create`, `InodeCreate`, `InodeWrite`, `DirAdd` and, if it
fails, `Undo`; the last close of a removed file is `ReleaseInode` and
`ReleaseData`; `process_exit` is `Exit` and one `ExitFiles` for every file.
`Crash` may come between any two writes and is followed by a boot that reads the
free map back. A directory entry, and a free map of up to 4096 sectors, is
written in one sector. `bitmap_scan` is first fit, and answers 0 for zero
sectors. `open` denies writes only when the name is the process's own; `load`
does not deny them. `lost` is a history variable: the data sectors of failed
creates, and after a crash whatever no entry leads to. Three liberties: `open`
stops at the table's size, which the code does not (section 5); memory is not
exhausted in the middle of an operation; and `Main` creates and removes files, but
the files it opens to copy or print them are left out.

### Inodes

`inode_open` and `inode_close` for one file, a step at a time: the search of
`open_inodes`, the insertion of a new inode, the read of its contents, the
decrement of `open_cnt`, `list_remove`, the release of the sectors. Two processes
`load` the file and leave it in `process_exit`, without `filesys_lock`, and `open`,
`close` and `remove` it with the lock. The run `inodes` shows that the last caller
who has a file open is not always the one whose close deletes it (section 5).

### PagePool, PageAlloc

`PagePool` is what the kernel takes `palloc.c` for: pages with at most one
holder, groups handed out at once, pages given back one by one. `PageAlloc` is
the code on its bitmap, one bit at a time: `Get`, `Lock`, `Scan` (one bit per
step, as `bitmap_scan` and `bitmap_contains` walk), `Mark`, `Got`, `Zero`, `Fail`,
and for `palloc_free_multiple`, which takes no lock, `Free` (the filling with
`0xcc`), `Check` and `Clear`. The point to doubt is that clearing bits under
another thread's scan is harmless; `ImplementsPagePool` says it is. A lock is its
holder. How much memory goes to which pool is `palloc_init`'s arithmetic.

### Malloc

`malloc`, `calloc`, `realloc` and `free`: descriptors by power of two, arenas of
one page, blocks in a free list, and big blocks of whole pages. A thread is
interrupted wherever it does not hold the descriptor's lock, and also between
taking a page and building the arena in it. Of a block's contents the model keeps
who wrote it. Sizes are small: the test in `calloc` for a product that does not fit
into `size_t` returns before anything changes and is left out.

### AddressSpace

Page directories as maps from virtual pages to frames, by way of page tables that
are kernel pages, with the processor's `cr3` and a translation cache that only
`pagedir_activate` empties. A process creates its
directory, activates it, loads pages one by one, fails in any of them, runs and
exits; the timer switches between any two steps and goes through
`process_activate`. Pages are taken and returned in one step
(`ImplementsPagePool`).

### Terminal

The ring buffers of `intq.c` with their lock and their sleeping reader and writer,
`input.c`, the serial port in its polling and queued modes with its
interrupt-enable register, the keyboard's handler, and the console's lock. The
code can take that lock several times over (`console_lock_depth`), but no caller in
the kernel does, so the depth stays 0 and is left out. A step is what runs with
interrupts off. A character is who sent it, so order and loss can be seen. The
UART's transmitter and receiver are external.

### BlockDevice, Disk

`BlockDevice` is `block.c`'s promise, "Internally synchronizes accesses": sectors
read and written one at a time. `Disk` is a request on its way: range check,
partition offset, the channel's lock, device and sector registers, command,
`completion_wait`, busy-wait and transfer, with an interrupt handler that answers
expected interrupts and ignores others. The channel's lock goes to whoever takes it
first. The controller is external: it takes its time, interrupts when done, and up
to `MaxSpurious` times for nothing.

### Monitor, Mlfqs

`Monitor` is `cond_wait`, `cond_signal` and `cond_broadcast`: a list of one-use
semaphores, the lock given up after the waiter is listed and before it sleeps.
`asleep` is a history variable: who has given up the lock and is not yet signalled.
The list is first come, first served, which is not the order the project asks for
(section 5), and no property relies on it.
`Mlfqs` is `thread_tick` in MLFQS mode: the charge of a tick, the recomputation of
`load_avg` and `recent_cpu` every second and of priorities every slice, the sort of
the ready list, and yields, with `thread_set_nice`, blocking, unblocking and
`sema_up` in between. Its numbers are fixed point with the rounding of the code:
`>>` downwards, `/` towards zero.

### Strings, Links, Numbers, Format, Containers

The library as functions, each beside what it should compute. `Strings` is
`string.c` on a memory of bytes; what `memmove` returns and what `strlcat` does with
a buffer that is full are the code's, not the C library's (section 5). `Links` is `list.c` with its `prev` and `next`
pointers, assignment by assignment, compared with sequences, and `sort` and
`binary_search`. `Numbers` is `arithmetic.c` with words of `W` bits. `Format` is
`printf`: parsing a conversion, the digits, precision, grouping, sign, prefix and
padding, and truncation. `Containers` is the bitmap in words and the hash table
with rehashes that may find no memory.

### FileBytes, Program, Archive, Screen

`FileBytes` is `inode_read_at` and `inode_write_at` chunk by chunk, whole sectors
directly and parts through a bounce buffer that may be missing, with the
positions of `file.c`. `Program` is `validate_segment`, `load_segment` and the
argument stack of `setup_user_stack`, on addresses that wrap; the fixed sizes of the
copy of the command line (`COPY_SIZE`, 256) and of `argv` (`ARGV_MAX`, 128) are
constants. `Archive` is `fsutil_append` and `fsutil_extract` on `ustar` headers of
files and directories, over boots, of which some come with an archive made by the
host, and stops between two sectors written. `Screen` is the display's cursor and
scrolling, and `keyboard_interrupt`'s shift state and key maps, with keys that
repeat and an input buffer that may be full. `held`, `caps_presses` and `due` are
history: the keys that are really down, and what the last key typed by its cap.

## 4. What TLC checks

| Run | Instance | Result |
|---|---|---|
| `alarm` | main, idle, two threads; sleeps of 1 and 2 ticks; aging; priorities 0 to 2; clock modulo rebasing at 3 | pass, 1.2 million states |
| `synch` | the same threads, one lock, one semaphore that an interrupt handler raises too; time slice 1; and three threads that only create one another | pass, 553 thousand states |
| `live` | main, idle, one thread, a semaphore, sleeping, aging, fair timer | pass, 54 thousand states |
| `process` | main, a process and its child, both kinds of build | pass, 71 thousand states |
| `files` | two processes with one descriptor each besides the executable, three names, two directory slots, four sectors, lengths 0 and 1; main's commands | pass, 2 million states |
| `memory` | two threads on pools of few pages; groups of 1 and 2; blocks of 2, 3 and 7 bytes in pages of 12; two processes with directories of two tables of two pages | pass, 714 thousand states |
| `devices` | a reader, two writers of two characters, queues of one byte, an unexpected interrupt; two threads on two partitions of a disk, a spurious interrupt | pass, 175 thousand states |
| `lib` | the inputs of `MCLib` (strings of 3, lists of 4, words of 4 bits, ...) and eight small machines | pass, 160 thousand states |
| `intr`, `kill`, `readers`, `inodes` | | violation, see findings |

`alarm` shows that a thread's one list element is on at most one list
(`ElemOnOneList`), that every list stays sorted although aging changes the
priorities of linked threads (`QueuesSorted`), that a switch always goes to a
highest-priority thread (`DispatchesHighest`) and that nobody is left asleep
past its time when a timer interrupt returns (`AwakeOnTime`). `synch` shows that
no thread drops out of the kernel (`NoThreadLost`), mutual exclusion through the
windows in which `holder` is unset (`LockExclusion`), that a positive value never
coexists with waiters unless somebody is on the way to take it (`NoLostWakeup`),
that the CPU halts only with an empty run queue (`NeverIdleWithWork`) and that
without sleepers and aging the running thread is never outranked while
interrupts are on (`RunningIsHighest`), and that tids are unique (`TidsUnique`).
`live` shows that with aging every ready thread runs and every sleeper wakes.
`process` shows that the status `wait` returns comes from a child that is still
there and that `child_list` leads into a free page only through a killed child
(`ChildrenSound`), that only a killed child can be waited for in vain
(`NoWaitInVain`), that `exec` returns a pid only for a program that loaded, and
for every one that loaded and has not ended (`ExecReportsLoad`; of one that has
ended see section 5), and that `exec` and `wait` come back (`CallsReturn`). `files`
shows that, until an operation without `filesys_lock` overlaps another, `open_cnt`
and `deny_write_cnt` are exactly the files that are open and that deny writes
(`CountsExact`), that after every single disk write each directory entry leads to
sectors that are marked and its own, and that only failed creates and crashes
leave sectors marked that belong to nothing (`DiskKept`), and that a file keeps
its sectors until its last close even if it was removed and its name used again
(`OpenFilesKeepSectors`).

`memory` shows that `palloc` is an atomic pool of pages although frees take no lock
(`ImplementsPagePool`); that it fails only when no group was free as it
took the lock, that its map is
exact when nobody is inside it and that a page asked for with `PAL_ZERO` is zero
(`PoolsExact`); that blocks of `malloc` do not overlap, keep their contents through
`realloc`, and that arenas count their free blocks right and leave with their last
(`HeapSound`); that every page is free, in one address space, or in a loader's
hands (`PagesAccounted`); and that the processor is never in a directory that is
being destroyed nor sees another process's pages (`SpacesOwn`). `devices` shows
that what is typed and printed arrives in order, messages of two threads unmixed
(`TrafficRight`), that the disk driver is an atomic block device
(`ImplementsBlockDevice`), and that nothing gets stuck: what is printed is sent,
what is typed is read, a disk request that has the channel returns, and while
requests wait for it one does (`DevicesAnswer`). `lib` shows that the library agrees with its reference
definitions (`LibraryRight`, `TablesAgree`), that a file is the bytes last written
to it whatever allocation fails (`FileIsBytes`), that a loaded program is in memory
where its headers say and, if the copy of its command line had room for it, its
arguments are on its stack (`ProgramLoaded`), that an archive holds what was
appended and an extract puts just that, over boots and after a stop in an extract,
though not after a stop in the middle of an append (`ArchiveKept`), that the display
shows the end of what was printed and a key gives the character on its cap for the
shift keys that are down (`ConsoleRight`), that a thread which waits for a condition
is listed until it is signalled and then gets on (`NoLostSignal`), and that under MLFQS nobody is ready for long without running
(`FairShare`).

Bounds. Three priority levels distinguish lower, equal and higher; two threads
besides main and idle make every pair of lists and every order of two waiters
possible, and the workload of `synch` that only creates threads has three, because a
preempted creator needs a second creator and a third page. The clock never matters absolutely: at `MaxTicks` the
action `Rebase` moves all times down together, keeping a past time past. Threads
are interchangeable, so safety runs use symmetry; liveness runs do not. In
`process` three processes are a parent, a child and a grandchild. In `files` four
sectors hold two files of one sector and their inodes, so allocation fails with one
sector free or none; three names fill two slots; a file can be open four
times, by two programs and two descriptors. In `memory` the pools are smaller than
what two threads ask for, an arena holds two or three blocks, and a page table
more pages than one program needs, so every allocation fails in some behaviour.
In `devices` the queues hold one byte, so they are full after one. In `lib` words
have 4 bits, bitmap words 2, tables start with one bucket and sectors have two
bytes: every carry, boundary and rehash is among the inputs. Pages have 64 bytes, a
command up to 7 characters, and its copy room for `COPY_SIZE` = 8 with the 0, which
are at most `ARGV_MAX` = 4 words, as 256 characters are at most 128: the copy is
what bounds a command, and a command at the bound is among the inputs. `Mlfqs` runs for
`MaxTicks` = 100 ticks, three seconds of 32, with priorities to 15 and niceness 0
and 1; `MaxWait` = 40 ticks is what three threads need when one slept.

The runs `memory`, `devices` and `lib` explore machines that share no state side by
side: the variable `part` says which one moves.

Fairness. The timer interrupt is strongly fair: the interrupt controller holds a
pending interrupt until the interrupt flag is set again. Kernel code that was
entered goes on (weak fairness of `KernelStep`). Nothing makes a thread or a
program call the kernel. In `Process` every process's kernel steps are weakly
fair: user processes all have `PRI_DEFAULT` and take turns by time slice. In
`Terminal` and `Disk` a thread that is not blocked goes on, and so do the UART, the
disk's controller and the interrupt handlers; nobody has to type. All of that is
weak fairness: `lock_release` wakes a waiter and does not hand the lock over, so
nothing says that a thread's turn at the disk's channel ever comes, only that some
thread's does.
Deadlock is not checked in the runs of `Process`, where after a kill the system
really can hang, nor where a machine ends: a panic when memory runs out, no more
keys, no more inputs to try.

## 5. Findings

* `intr`: `sema_up` yields from an interrupt handler when it wakes a thread of
  higher priority, and `thread_yield` asserts it is not in one; `synch.c:112`
  allows the call.
* `kill`: a parent blocked in `process_wait` is not woken when its child is killed
  by an exception; `process.c:136-138`.
* `readers`: `read` of the keyboard by two processes runs into `intq.c`'s assertion
  that whoever waits finds the queue empty (`intq.c:91`, `intq.h:27`): `intq_getc`
  takes the queue's lock after it looked at the queue, and does not look again.
* `inodes`: `process_exit` closes files and `load` opens one without `filesys_lock`
  (`process.c:198-213`, `376`). An exiting process counts its executable's inode
  down to 0 and is preempted before `list_remove`; another `load` finds the inode in
  the list and opens it; a `remove` then has the sectors given back while that
  program runs. `inode.c:188` says that a removed inode is deleted "when it is
  closed by the last caller who has it open".

Other places where the code and what is written about it differ, met while
modelling and not checked by a run of their own:

* `thread_awake` readies threads from the timer interrupt and does not ask for a
  yield, so a woken thread of higher priority waits for the end of the slice;
  `src/docs/threads.md:22` says it preempts.
* `timer_sleep` keeps a 64-bit time in an `int`: past `INT_MAX` ticks a sleep ends
  at once (`timer.c:87`).
* `exec` takes an `exit_status` of -1 for a failed load ("로드 실패 시 -1 반환",
  `syscall.c:365`): of a program that loaded and exited with -1 before its parent
  looked it returns -1 too, and the parent has no pid to wait for.
  `doc/userprog.texi:616` reserves -1 for a program that cannot load or run.
* `load` copies the command line into 256 bytes with its own length as the limit
  (`process.c:348`, `354`), and `setup_user_stack` fills `argv[128]` without counting
  (`process.c:482`): a command of 256 characters or more, which `exec` accepts, is
  written past the first. `ProgramLoaded` is about shorter ones; their words always
  fit into `argv`. Likewise `process_execute` copies the program's name into 20 bytes
  (`process.c:71`).
* `cond_signal` wakes the thread that has waited longest; `doc/threads.texi:478` and
  `tests/threads/priority-condvar.ck` want the one of highest priority.
* `memmove` to a lower address returns the end of the block it copied to
  (`string.c:45`); `string.c:22` says it returns `DST`.
* `strlcat` with a `size` above 0 and not above `strlen (dst)` writes nothing, so `dst`
  stays longer than `size - 1` and has no terminator within `size`; its comment
  (`string.c:345`) promises both.
* `calloc`'s test for overflow (`malloc.c:165`) misses products that wrap to
  something larger than both factors, such as 65537 times 65537.
* A child nobody waits for never leaves `exit`, and keeps its page, files and page
  directory (`doc/userprog.texi:662`).
* `open` never compares `next_fd` with `FDT_MAX`, and closing gives no number back.
* `wait_until_idle` waits ten milliseconds where its comment says ten seconds;
  `read_partition_table` reads sector 0 whatever `sector` it is given
  (`ide.c`, `partition.c`).
* `bitmap_scan_and_flip` for zero bits answers `start`, its comment says 0.
* `umod64` and `smod64` return the remainder cut to 32 bits.
* `FP_ROUND` of a negative number rounds to one less than the nearest
  (`thread.c:935`), and `thread_get_recent_cpu` multiplies by 100 in 32 bits.
* `printf` pads on both sides for a negative `*` width with the `0` flag.
* `rtc_get_time` counts the days of the current month as if it were over.
* A second `extract` in one boot goes on at the sector where the first one ended.

## 6. What is proved

Theorems hold for every value of the constants that satisfies the named
assumptions of the modules: `ThreadsAssumption`, `ProcessAssumption`,
`PageAllocAssumption` with `PoolsFit`, `AddressSpaceAssumption`, `FileSysAssumption`,
`KernelAssumption`, `DiskAssumption`. They say no more than that the constants have
their types, that special threads and `NULL` are what they are, that pools are not
negative, page tables not empty, and devices and data not empty; of `FileSys` also
that there are finitely many processes, since its counts are cardinalities. TLC has
checked every inductive invariant below on the instances of section 4 (condition
variables with four threads).

The proofs of `Threads` are split by what a step of the system is shown to keep:
`ThreadsListsProofs` (the list operations, types, lists), `ThreadsSafetyProofs` (no
thread lost, order, idle, priorities, alarm clock) and `ThreadsProofs` (semaphores,
locks, tids, and the theorems). The lemmas of the first two take one fact of
mathematics as a named hypothesis (`LeastNat`: a non-empty set of naturals has a
least element), so that the theory library is in the prover's context only where it
is used; `LeastNatHolds` in `ThreadsProofs` proves it from the library, and the
theorems have no hypothesis left.

**Scheduler** (`ThreadsProofs`).

* `TypeCorrect == Spec => []TypeOK`. The type invariant is not inductive alone: an
  action that goes on inside a function uses the operand the function stored, so
  `Operands` is proved with it.
* `ElemOnOneListHolds`, from `IInvHolds`. `ElemOnOneList` says nothing about threads
  that are on no list, and a step links exactly such threads. `IInv` adds what
  makes that safe: a sleeper is at `"run"` and a waiter at `"down"` with its
  semaphore as operand (`Linked`), only the CPU's thread is `RUNNING`
  (`OneRunning`), idle never leaves its loop and is never linked (`IdleLoops`), and
  a thread between `init_thread` and `thread_unblock` is on no list and has one
  creator (`Newborn`).
* `NoThreadLostHolds`, `QueuesSortedHolds`, `NeverIdleWithWorkHolds`, from
  `SInvHolds`. `SInv` is those three with `IInv` and with `Calls`, which says where
  a thread can be while it creates another, and that a free page is nowhere. What an
  action does to lists and statuses is one of five moves (`Remains`, `Wakes`,
  `Blocks`, `Exits`, `Creates`); a lemma says which move each of the actions is,
  and the invariants are proved of the moves. Sortedness through `thread_aging`,
  which changes the keys of linked threads, holds because it adds the same to all
  of them up to `PRI_MAX`.
* `DispatchesHighestHolds` and `AwakeOnTimeHolds`: action properties that follow from
  `SInv`, because `schedule` and `thread_awake` look only at the front of a list.
* `RunningIsHighestHolds == Spec => [](SleepTicks = {} /\ ~Aging => RunningIsHighest)`.
  The hypothesis is about the configuration and is needed: `thread_awake` and
  `thread_aging` ready or raise threads and ask for no yield (section 5). `Ranked`
  is the invariant: a ready thread outranks the running one only where a test of
  it is still to come.

**Semaphores and locks** (`ThreadsProofs`). Steps are classified again, by what
they do to semaphores: `Quiet`, `Takes`, `Waits`, `Gives`, `Owns`, `Releases`.

* `LockExclusionHolds`, from `Holders`: a lock's semaphore is 1 and nobody is inside,
  or it is 0 and exactly one thread is, and `holder` is that thread except in the
  windows of `lock_acquire` and `lock_release`, where it is `NULL`.
* `TidsUniqueHolds`, from `Holders` and `Tids`: who is between the read and the write
  of `next_tid` holds `tid_lock`, so what it read is still the next number, and all
  numbers given are smaller.
* `NoLostWakeupHolds`, from `Answered`: where threads wait, the value is at most the
  number of threads woken from that list that have not yet gone on. The property
  itself (someone is on the way) is not inductive: one of two units is taken, one of
  two woken threads goes on.

**Processes** (`ProcessProofs`). `PInvHolds`, and from it `NoWaitInVainHolds`,
`ChildrenSoundHolds` and `ExecReportsLoadHolds`. `PInv` gives every process a
`Stage`, with the units of its semaphores at each: `Running`, `Notifies`
(between `exited` and `sema_up`), `IsHeld` (it has raised `exit_sema` and its
parent has not yet raised `wait_sema`), `Over`. `Family` says that a child is
linked in one list, its parent's; `Collects`, that the child whose status is being
returned is held; `LoadTold` and `LoadSeen`, what `load_sema` and `exit_status` say of
a load at each of its steps. Both kinds of build of `exit` are covered
(`exit_returns`), as is every point at which the kernel may kill a process.

**Page allocator** (`PageAllocProofs`). `PaInvHolds`, and from it `PoolsExactHolds`,
`FreeAssertsHolds` (the assertion in `palloc_free_multiple` that all bits are set
never fails; checked by no run) and `PagePoolImplemented == PallocSpec =>
ImplementsPagePool`. `PaInv` says that what threads have, are getting and are giving
back is disjoint (`OwnApart`, `Apart`), that its bits are set as far as the thread has come
and no others are (`Marked`), and that a pool's lock is held by who scans or marks
(`Locked`). Frees without the lock come in twice: the bits a scan has found clear stay
clear (`Marked`), and a group that was free when the lock was taken is still free ahead
of the scan (`Ahead`); frees only clear bits. The refinement maps a
thread's group to its holder from the last bit of a successful scan on; every step is
a `Get`, a `Put` of one page, or a stutter.

**Address spaces** (`AddressSpaceProofs`). `AInvHolds`, and from it
`PagesAccountedHolds` and `SpacesOwnHolds`. What a process has of memory (`SpaceOf`)
is its directory, from the two loop counters of `pagedir_destroy` on, and the page a
load is about to map. `AInv` has four parts. `StageOf` says which parts of a request
mean something where the process is. `Divided` says that every page of a pool is
free or in exactly one process's space, and that a space is a `Tree`: no two entries
lead to the same table and no two tables to the same frame. The properties say less
of a directory's inside, and without it a page freed once in `pagedir_destroy` might
still be reached from the rest of the directory. `InOwnSpace` says that `cr3` is the
running process's directory once `load` has activated it and until `process_exit` has
left it, and that remembered translations are entries of that directory.
`OneStep` reduces every action to the one process whose space it changes: its
new pages were free, those it gave up are free now, and its tree is still one. The
lemmas `Created`, `TableAdded`, `Mapped`, `Skipped`, `FrameFreed`, `TableFreed` and
`DirFreed` show that for each thing `pagedir.c` does to a tree, and one lemma per
action says which it is. That `process_exit` clears `pagedir` before it activates the
initial directory and destroys its own only then is what `InOwnSpace` needs when a
switch falls in between.

**File system** (`FileSysProofs`). `FsInvHolds`, and from it `CountsExactHolds`,
`OpenFilesKeepSectorsHolds` and `DiskKeptHolds`, each until an operation without
`filesys_lock` overlaps another. `FsInv` has three parts. `Callers` says who may be
the caller and that the lock, if anybody holds it, is the caller's and the caller a
process: with it every step is a `FileStep`, a step of the one operation in
progress, or changes nothing the other two parts mention (`StepsAre`). `CInv` is
about counts: `open_cnt` and `deny_write_cnt` are the numbers of descriptors and executables
that refer to the inode. One lemma (`TableCounts`) says what one descriptor more does
to both counts of all sectors, and it serves `open` forwards and `close` and
`process_exit` backwards. `DInv` is about sectors: at every step between two disk
writes the marked sectors are divided among the files that an entry or an open inode
leads to, the operation in progress (`Pending`), and nobody (`lost`). Every action
moves sectors between these in one of a few ways (`Taken`, `GivenBack`, `Lost`,
`Adopted`, `Orphaned`, `Crashed`), each a lemma about any `Partition`. A crash makes
everything that no entry leads to lost. `DInv` needs the counts, since the sectors of
a removed file are given back at the last close.

**Condition variables** (`WakeupProofs`). `MInvHolds`, and from it
`NoLostSignalHolds`. `NoLostSignal` says who is listed only while nobody holds the
lock; `MInv` says it at every step, with the one thread that is listed and has yet to
release the lock (`Listed`), that nobody is listed twice (`OnceListed`, or one signal
would leave a thread both signalled and listed), that who waits is at a semaphore
that is down (`AtSemaphore`), and that one is up only for a thread that comes to take
it (`UpOnce`).

**Disk access** (`WakeupProofs`, which holds the proofs of `Monitor` and of `Disk`).
`DInvHolds`, and from it `BlockDeviceImplemented == ASSUME DevicesApart PROVE
DiskSpec => ImplementsBlockDevice`. The hypothesis is that no sector is two
devices': the block layer does not check it, and a write to a partition does show
through the whole disk. `DInv` says that who is between `lock_acquire` and
`lock_release` holds the channel alone (`Locked`) and where the controller is at
each of its steps (`Follows`); nothing is said of `completion_wait`, which
interrupts for no reason may have raised: what makes a read right is
`wait_while_busy`. A write is served when its data is in the controller's buffer, a
read when the controller has its sector (`ServesOne`); every other step is a call, a
return, or a stutter (`Same`).

**Lists** (`ThreadsListsProofs`, first part): what ordered insertion and removal at the
front do to membership, duplicates and order.

Only model-checked:

* Liveness (`ReadyThreadRuns`, `SleeperWakes`, `CallsReturn`, `DevicesAnswer`): out of
  the prover's reach.
* `LibraryRight`, `TablesAgree`, `FileIsBytes`, `ProgramLoaded`, `ArchiveKept`: what
  recursive definitions compute, which would need induction over data.
* `HeapSound`: block addresses are products and powers of two, and the provers have
  no theory of either.
* `TrafficRight`: its second half filters a sequence (`SelectSeq`), which is
  recursive.
* `ConsoleRight`, `FairShare`: `FairShare` is a bound for the numbers of its instance,
  not a law; `ConsoleRight` is about a recursive rendering of the display.
* `NoPanic`, `WaitForKilledReturns`, `WaitersWait`, `DeletedByLastCloser`: they do not
  hold (section 5).

## 7. Not modelled

* What becomes of the file system after operations without `filesys_lock` have
  overlapped others: `FileSys` ends there, and `Inodes` follows one file's inode up
  to the first sector given back too early.
* The files that `extract`, `append` and `cat` have open while they copy, against
  processes: these commands run one after another before and after the programs.
* Boot and shutdown (`start.S`, `loader.S`, `init.c`'s options, `shutdown.c`), the
  8254 timer's programming, the real-time clock and the speaker: machine code and
  port I/O that runs once or touches no state another part reads. The gate tables,
  the PIC and the register frames of `interrupt.c` and `intr-stubs.S` likewise.
* Identification of disks and the parsing of partition tables: they run once, and
  afterwards a device is its disk, start and size.
* The calibrated busy waits of `timer.c`.
* The system-call dispatcher's copying of arguments from the user's stack and its
  checks of user pointers: a bad pointer is an `Exit(-1)` in `Process`.
* The ELF header's constant fields; `load`'s copies of the command line, which are
  never freed.
* Accessed and dirty bits of `pagedir.c`, `dir_readdir`, `fsutil_ls` and `fsutil_cat`,
  `hex_dump`, the random numbers: readers, or without a caller.
* User programs and the user library: the kernel's environment, any sequence of
  system calls.
