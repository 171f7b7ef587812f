-------------------------------- MODULE Disk --------------------------------
(***************************************************************************)
(* Disk access: the block layer (devices/block.c), partitions              *)
(* (devices/partition.c) and the ATA driver (devices/ide.c), on one        *)
(* channel with two disks, whose controller is external: it answers within *)
(* the times the driver waits, may interrupt when nothing happened, and    *)
(* forgets a pending interrupt when its status is read.                    *)
(***************************************************************************)
EXTENDS Integers, Sequences

CONSTANTS
  Client,        \* threads that read and write
  Device,        \* registered devices: [disk, start, size], start 0 for a whole disk
  Data,          \* what a sector may hold
  MaxSpurious    \* interrupts for no reason

ASSUME DiskAssumption ==
  /\ Device \subseteq [disk : {0, 1}, start : Nat, size : Nat]
  /\ Device # {} /\ Data # {}
  /\ MaxSpurious \in Nat
  /\ "read" \notin Data

Sectors(dev) == 0 .. dev.size - 1

VARIABLES
  channel,   \* struct channel: who holds its lock, expecting_interrupt, completion_wait
  ctl,       \* the controller: selected sector, what it does, its buffer
  disk,      \* the sectors of the disks
  irq,       \* an interrupt is pending
  spurious,  \* interrupts for no reason so far
  dpc,       \* where a thread is
  dreq       \* its request and what it read

d_vars == <<channel, ctl, disk, irq, spurious, dpc, dreq>>

Blank == CHOOSE d \in Data : TRUE
NoDreq == [dev |-> CHOOSE d \in Device : TRUE, sec |-> 0, data |-> "read", result |-> Blank]
DGoto(t, l) == dpc' = [dpc EXCEPT ![t] = l]
IsWrite(t) == dreq[t].data \in Data
-----------------------------------------------------------------------------
(* block_read or block_write, with data, of a sector that check_sector     *)
(* accepts (it panics otherwise); partition_read adds the partition's      *)
(* start.                                                                  *)
Request(t, dev, sec, data) ==
  /\ dpc[t] = "idle"
  /\ sec < dev.size
  /\ dreq' = [dreq EXCEPT ![t] = [NoDreq EXCEPT !.dev = dev, !.sec = sec, !.data = data]]
  /\ DGoto(t, "lock")
  /\ UNCHANGED <<channel, ctl, disk, irq, spurious>>

(* ide_read, ide_write: lock_acquire ... *)
Acquire(t) ==
  /\ dpc[t] = "lock"
  /\ channel.lock = {}
  /\ channel' = [channel EXCEPT !.lock = {t}]
  /\ DGoto(t, "select")
  /\ UNCHANGED <<ctl, disk, irq, spurious, dreq>>

(* ... select_sector: wait_until_idle, which reads the status register,    *)
(* and the registers for disk and sector ...                               *)
Select(t) ==
  /\ dpc[t] = "select"
  /\ ctl.state = "idle"
  /\ irq' = FALSE
  /\ ctl' = [ctl EXCEPT !.dev = dreq[t].dev.disk, !.sec = dreq[t].dev.start + dreq[t].sec]
  /\ DGoto(t, "issue")
  /\ UNCHANGED <<channel, disk, spurious, dreq>>

(* ... issue_pio_command ... *)
IssueExpecting(t, expecting) ==
  /\ dpc[t] = "issue"
  /\ channel' = [channel EXCEPT !.expecting_interrupt = expecting]
  /\ ctl' = [ctl EXCEPT !.state = IF IsWrite(t) THEN "starting" ELSE "reading"]
  /\ DGoto(t, IF IsWrite(t) THEN "busy" ELSE "down")
  /\ UNCHANGED <<disk, irq, spurious, dreq>>

(* Mutant: no interrupt is expected. *)
IssueUnexpecting(t) == IssueExpecting(t, FALSE)

Issue(t) == IssueExpecting(t, TRUE)

(* ... sema_down (&c->completion_wait): a read waits for it before the     *)
(* data, a write after, and then releases the channel ...                  *)
Down(t) ==
  /\ dpc[t] = "down"
  /\ channel.completion_wait > 0
  /\ channel' = [channel EXCEPT !.completion_wait = @ - 1, !.lock = IF IsWrite(t) THEN {} ELSE @]
  /\ DGoto(t, IF IsWrite(t) THEN "return" ELSE "busy")
  /\ UNCHANGED <<ctl, disk, irq, spurious, dreq>>

(* ... wait_while_busy, which finds DRQ set (ide_read and ide_write panic  *)
(* if not), then the data: output_sector, or input_sector and the channel  *)
(* is released.                                                            *)
TransferWhen(t, ready) ==
  /\ dpc[t] = "busy"
  /\ ready
  /\ IF IsWrite(t)
     THEN /\ ctl' = [ctl EXCEPT !.state = "writing", !.buffer = dreq[t].data]
          /\ DGoto(t, "down")
          /\ UNCHANGED <<channel, dreq>>
     ELSE /\ ctl' = [ctl EXCEPT !.state = "idle"]
          /\ dreq' = [dreq EXCEPT ![t].result = ctl.buffer]
          /\ channel' = [channel EXCEPT !.lock = {}]
          /\ DGoto(t, "return")
  /\ UNCHANGED <<disk, irq, spurious>>

(* Mutant: a read trusts the interrupt and does not look at the status. *)
TransferAtOnce(t) == TransferWhen(t, ~IsWrite(t) \/ ctl.state = "drq")

Transfer(t) == TransferWhen(t, ctl.state = "drq")

Return(t) ==
  /\ dpc[t] = "return"
  /\ dreq' = [dreq EXCEPT ![t] = NoDreq]
  /\ DGoto(t, "idle")
  /\ UNCHANGED <<channel, ctl, disk, irq, spurious>>
-----------------------------------------------------------------------------
(* interrupt_handler: an interrupt that is expected is acknowledged and    *)
(* counted; expecting_interrupt is never cleared.                          *)
Interrupt ==
  /\ irq \/ spurious < MaxSpurious
  /\ irq' = (irq /\ ~channel.expecting_interrupt)
  /\ spurious' = IF irq THEN spurious ELSE spurious + 1
  /\ channel' = IF channel.expecting_interrupt
                THEN [channel EXCEPT !.completion_wait = @ + 1] ELSE channel
  /\ UNCHANGED <<ctl, disk, dpc, dreq>>

(* The controller: a sector is in its buffer; it is ready for data; a      *)
(* sector is written.                                                      *)
Controller ==
  \/ /\ ctl.state = "reading"
     /\ ctl' = [ctl EXCEPT !.state = "drq", !.buffer = disk[ctl.dev][ctl.sec]]
     /\ irq' = TRUE
     /\ UNCHANGED <<channel, disk, spurious, dpc, dreq>>
  \/ /\ ctl.state = "starting"
     /\ ctl' = [ctl EXCEPT !.state = "drq"]
     /\ UNCHANGED <<channel, disk, irq, spurious, dpc, dreq>>
  \/ /\ ctl.state = "writing"
     /\ ctl' = [ctl EXCEPT !.state = "idle"]
     /\ disk' = [disk EXCEPT ![ctl.dev][ctl.sec] = ctl.buffer]
     /\ irq' = TRUE
     /\ UNCHANGED <<channel, spurious, dpc, dreq>>
-----------------------------------------------------------------------------
DiskSectors == UNION {dev.start .. dev.start + dev.size - 1 : dev \in Device}

DiskInit ==
  /\ channel = [lock |-> {}, expecting_interrupt |-> FALSE, completion_wait |-> 0]
  /\ ctl = [state |-> "idle", dev |-> 0, sec |-> 0, buffer |-> Blank]
  /\ disk = [n \in {0, 1} |-> [s \in DiskSectors |-> Blank]]
  /\ irq = FALSE
  /\ spurious = 0
  /\ dpc = [t \in Client |-> "idle"]
  /\ dreq = [t \in Client |-> NoDreq]

Serve(t) == Acquire(t) \/ Select(t) \/ Issue(t) \/ Down(t) \/ Transfer(t) \/ Return(t)

DiskNext ==
  \/ \E t \in Client :
       \/ \E dev \in Device : \E sec \in Sectors(dev), data \in Data \cup {"read"} : Request(t, dev, sec, data)
       \/ Serve(t)
  \/ Interrupt \/ Controller

DiskSpec == DiskInit /\ [][DiskNext]_d_vars

(* Threads run, the controller works, and its interrupts arrive.  The lock *)
(* is not handed over: lock_release only wakes a waiter, and whoever runs  *)
(* first takes it, so nothing says that a thread's turn comes.             *)
DiskFairness ==
  /\ \A t \in Client : WF_d_vars(Serve(t))
  /\ WF_d_vars(Controller)
  /\ WF_d_vars(irq /\ Interrupt)
-----------------------------------------------------------------------------
(* What the disks hold once the controller has done what it was told. *)
Stored ==
  IF ctl.state = "writing" THEN [disk EXCEPT ![ctl.dev][ctl.sec] = ctl.buffer] ELSE disk

(* A read is served when its sector is in the buffer, a write when its     *)
(* data is.                                                                *)
Served(t) ==
  \/ dpc[t] = "return"
  \/ IsWrite(t) /\ dpc[t] = "down"
  \/ ~IsWrite(t) /\ dpc[t] \in {"down", "busy"} /\ ctl.state = "drq"

(* What a device's sector holds, and a thread's request, to the caller. *)
Holds(dev, sec) ==
  IF sec < dev.size THEN Stored[dev.disk][dev.start + sec] ELSE Blank

Asked(t) ==
  IF dpc[t] = "idle" THEN [kind |-> "none"]
  ELSE IF ~Served(t)
  THEN [kind |-> "waiting", dev |-> dreq[t].dev, sec |-> dreq[t].sec, data |-> dreq[t].data]
  ELSE [kind |-> "done", data |-> IF IsWrite(t) THEN dreq[t].data
                                  ELSE IF dpc[t] = "return" THEN dreq[t].result
                                  ELSE ctl.buffer]

blocks == INSTANCE BlockDevice WITH
  Sector <- Sectors,
  store <- [dev \in Device |-> [sec \in UNION {Sectors(d) : d \in Device} |-> Holds(dev, sec)]],
  op <- [t \in Client |-> Asked(t)]

(* Through partitions, one channel and its interrupts, also interrupts for *)
(* no reason, every device is one whose sectors are read and written one   *)
(* at a time.                                                              *)
ImplementsBlockDevice == blocks!Spec

(* A request that got the channel returns, and while requests wait for it  *)
(* one of them or another does: no completion is lost to a read of the     *)
(* status register or taken by another request, and the channel is given   *)
(* up after each.                                                          *)
RequestsReturn ==
  /\ \A t \in Client : dpc[t] \notin {"idle", "lock"} ~> dpc[t] = "idle"
  /\ (\E t \in Client : dpc[t] = "lock") ~> (\E t \in Client : dpc[t] = "return")
=============================================================================
