------------------------------ MODULE Terminal ------------------------------
(***************************************************************************)
(* The terminal: interrupt queues (devices/intq.c), the input buffer       *)
(* (devices/input.c), the serial port (devices/serial.c), the keyboard's   *)
(* handler (devices/kbd.c) and the console (lib/kernel/console.c), with    *)
(* processes that read fd 0 and threads that print.                        *)
(*                                                                         *)
(* A step is what runs with interrupts off: up to a call that blocks, or   *)
(* to intr_set_level.  The handlers run between steps.  A character is who *)
(* sent it.  What map_key and vga_putc do with one is in Screen.           *)
(***************************************************************************)
EXTENDS Integers, SequencesExt, FiniteSets

CONSTANTS
  Reader,        \* threads that read the keyboard, one key at a time
  Writer,        \* threads that print one message each
  MsgLen,        \* characters in a message
  INTQ_BUFSIZE,  \* 64
  MaxKeys,       \* keys and serial bytes that come in
  MaxUnexpected, \* characters that interrupt handlers print
  NULL

ASSUME TerminalAssumption ==
  /\ NULL \notin Reader \cup Writer
  /\ Reader \cap Writer = {}
  /\ INTQ_BUFSIZE \in Nat \ {0, 1}
  /\ {MsgLen, MaxKeys, MaxUnexpected} \subseteq Nat

VARIABLES
  intq,          \* the queues: "in" (input.c's buffer), "tx" (serial.c's txq)
  mode,          \* UNINIT, POLL, QUEUE, or OFF: the machine is powered off
  ier,           \* the UART's interrupt enable register
  thr, rbr,      \* its transmitter holding and receiver buffer registers
  console_lock,
  tpc,           \* where a thread is
  cnt,           \* characters a thread has printed
  panicked,
  line,          \* what the serial line carried
  screen,        \* what the display shows
  written,       \* what serial_putc was given, in order
  typed, got     \* what input_putc was given, what read returned

hist == <<line, screen, written, typed, got>>
t_vars == <<intq, mode, ier, thr, rbr, console_lock, tpc, cnt, panicked, hist>>

next(pos) == (pos + 1) % INTQ_BUFSIZE
intq_init == [buf |-> [i \in 0..INTQ_BUFSIZE - 1 |-> NULL], head |-> 0, tail |-> 0,
              lock |-> NULL, not_full |-> NULL, not_empty |-> NULL]
intq_empty(q) == q.head = q.tail

(* Mutant: a queue is never full. *)
IntqNeverFull(q) == q.head = -1

intq_full(q) == next(q.head) = q.tail

(* The byte moves of intq_putc and intq_getc.  Each signals: the thread it *)
(* wakes is the old queue's not_empty, or not_full.                        *)
Put(q, byte) == [q EXCEPT !.buf[q.head] = byte, !.head = next(@), !.not_empty = NULL]
Get(q) == [q EXCEPT !.buf[q.tail] = NULL, !.tail = next(@), !.not_full = NULL]
First(q) == q.buf[q.tail]
Wake(pcs, t) == IF t = NULL THEN pcs ELSE [pcs EXCEPT ![t] = "woken"]

write_ier(in, tx) ==
  (IF intq_empty(tx) THEN {} ELSE {"XMIT"}) \cup (IF intq_full(in) THEN {} ELSE {"RECV"})
serial_notify(in) == IF mode = "QUEUE" THEN write_ier(in, intq["tx"]) ELSE ier

On == mode # "OFF" /\ ~panicked
TGoto(t, l) == tpc' = [tpc EXCEPT ![t] = l]
Which(t) == IF t \in Reader THEN "in" ELSE "tx"
MustWait(t) ==
  IF t \in Reader THEN intq_empty(intq["in"]) ELSE mode = "QUEUE" /\ intq_full(intq["tx"])
-----------------------------------------------------------------------------
(* The loops of intq_getc and intq_putc: lock_acquire, which may have to   *)
(* wait for the lock ...                                                   *)
IntqLock(t) ==
  /\ On
  /\ tpc[t] = "try"
  /\ MustWait(t)
  /\ intq[Which(t)].lock # NULL
  /\ TGoto(t, "lock")
  /\ UNCHANGED <<intq, mode, ier, thr, rbr, console_lock, cnt, panicked, hist>>

(* ... then wait asserts that there is still something to wait for, makes  *)
(* the thread the waiter and blocks it ...                                 *)
IntqWait(t) ==
  LET q == Which(t)
  IN  /\ On
      /\ \/ tpc[t] = "try" /\ MustWait(t)
         \/ tpc[t] = "lock"
      /\ intq[q].lock = NULL
      /\ IF MustWait(t)
         THEN /\ intq' = [intq EXCEPT ![q] = IF t \in Reader
                            THEN [@ EXCEPT !.lock = t, !.not_empty = t]
                            ELSE [@ EXCEPT !.lock = t, !.not_full = t]]
              /\ TGoto(t, "wait")
              /\ UNCHANGED panicked
         ELSE panicked' = TRUE /\ UNCHANGED <<intq, tpc>>
      /\ UNCHANGED <<mode, ier, thr, rbr, console_lock, cnt, hist>>

(* ... until signal unblocks it: lock_release, which may yield, and again. *)
IntqWoken(t) ==
  /\ On
  /\ tpc[t] = "woken"
  /\ intq' = [intq EXCEPT ![Which(t)].lock = NULL]
  /\ TGoto(t, "try")
  /\ UNCHANGED <<mode, ier, thr, rbr, console_lock, cnt, panicked, hist>>

(* read of fd 0: input_getc. *)
Read(t) ==
  /\ On
  /\ tpc[t] = "idle"
  /\ TGoto(t, "try")
  /\ UNCHANGED <<intq, mode, ier, thr, rbr, console_lock, cnt, panicked, hist>>

GetcThen(t, newier) ==
  LET in == intq["in"]
  IN  /\ On
      /\ tpc[t] = "try"
      /\ ~MustWait(t)
      /\ intq' = [intq EXCEPT !["in"] = Get(in)]
      /\ ier' = newier
      /\ tpc' = Wake([tpc EXCEPT ![t] = "idle"], in.not_full)
      /\ got' = Append(got, First(in))
      /\ UNCHANGED <<mode, thr, rbr, console_lock, cnt, panicked, line, screen, written, typed>>

(* Mutant: input_getc does not tell the serial port. *)
GetcNoNotify(t) == GetcThen(t, ier)

Getc(t) == GetcThen(t, serial_notify(Get(intq["in"])))
-----------------------------------------------------------------------------
(* putbuf, puts and vprintf: acquire_console (no caller nests them) ... *)
AcquireWhen(t, free) ==
  /\ On
  /\ tpc[t] = "idle"
  /\ cnt[t] = 0
  /\ free
  /\ console_lock' = t
  /\ TGoto(t, "try")
  /\ UNCHANGED <<intq, mode, ier, thr, rbr, cnt, panicked, hist>>

(* Mutant: acquire_console takes the lock whoever holds it. *)
AcquireConsoleAnyway(t) == AcquireWhen(t, TRUE)

AcquireConsole(t) == AcquireWhen(t, console_lock = NULL)

(* ... putchar_have_lock: serial_putc polls before there are interrupts,   *)
(* waiting until the transmitter is free, and queues after ...             *)
Queue(byte, q, wake, newier) ==
  /\ intq' = [intq EXCEPT !["tx"] = Put(q, byte)]
  /\ ier' = newier
  /\ tpc' = Wake(wake, q.not_empty)
  /\ written' = Append(written, byte)

Poll(byte) ==
  /\ thr = NULL
  /\ thr' = byte
  /\ mode' = "POLL"
  /\ written' = Append(written, byte)

PutcThen(t, newier) ==
  /\ On
  /\ tpc[t] = "try"
  /\ ~MustWait(t)
  /\ \/ /\ mode = "QUEUE"
        /\ Queue(t, intq["tx"], [tpc EXCEPT ![t] = "vga"], newier)
        /\ UNCHANGED <<mode, thr>>
     \/ /\ mode # "QUEUE"
        /\ Poll(t)
        /\ TGoto(t, "vga")
        /\ UNCHANGED <<intq, ier>>
  /\ UNCHANGED <<rbr, console_lock, cnt, panicked, line, screen, typed, got>>

(* Mutant: serial_putc leaves the interrupt enable register alone. *)
PutcNoIer(t) == PutcThen(t, ier)

Putc(t) == PutcThen(t, write_ier(intq["in"], Put(intq["tx"], t)))

(* ... then vga_putc, and release_console after the last character. *)
VgaPutc(t) ==
  LET last == cnt[t] + 1 = MsgLen
  IN  /\ On
      /\ tpc[t] = "vga"
      /\ screen' = Append(screen, t)
      /\ cnt' = [cnt EXCEPT ![t] = @ + 1]
      /\ console_lock' = IF last THEN NULL ELSE console_lock
      /\ TGoto(t, IF last THEN "idle" ELSE "try")
      /\ UNCHANGED <<intq, mode, ier, thr, rbr, panicked, line, written, typed, got>>

(* serial_init_queue: from polling to interrupts. *)
InitQueue ==
  /\ mode \in {"UNINIT", "POLL"}
  /\ mode' = "QUEUE"
  /\ ier' = write_ier(intq["in"], intq["tx"])
  /\ UNCHANGED <<intq, thr, rbr, console_lock, tpc, cnt, panicked, hist>>

(* serial_flush, at shutdown_power_off: the queue is polled out. *)
Flush ==
  LET tx == intq["tx"]
      rest == [i \in 1 .. (tx.head - tx.tail) % INTQ_BUFSIZE |->
                 tx.buf[(tx.tail + i - 1) % INTQ_BUFSIZE]]
      all == (IF thr = NULL THEN <<>> ELSE <<thr>>) \o rest
  IN  /\ On
      /\ mode' = "OFF"
      /\ rest # <<>> => /\ line' = line \o Front(all)
                        /\ thr' = Last(all)
      /\ rest = <<>> => UNCHANGED <<line, thr>>
      /\ intq' = [intq EXCEPT !["tx"] = [intq_init EXCEPT !.head = tx.head, !.tail = tx.head,
                                                        !.lock = tx.lock]]
      /\ tpc' = Wake(tpc, tx.not_full)
      /\ UNCHANGED <<ier, rbr, console_lock, cnt, panicked, screen, written, typed, got>>
-----------------------------------------------------------------------------
(* The UART: a byte leaves, a byte arrives. *)
Transmit ==
  /\ thr # NULL
  /\ line' = Append(line, thr)
  /\ thr' = NULL
  /\ UNCHANGED <<intq, mode, ier, rbr, console_lock, tpc, cnt, panicked, screen, written, typed, got>>

Incoming == Len(typed) + IF rbr = NULL THEN 0 ELSE 1

Receive ==
  /\ On
  /\ rbr = NULL
  /\ Incoming < MaxKeys
  /\ rbr' = "serial"
  /\ UNCHANGED <<intq, mode, ier, thr, console_lock, tpc, cnt, panicked, hist>>

(* serial_interrupt: receive while there is room, transmit what there is   *)
(* to, and see which interrupts are wanted now.                            *)
SerialInterrupt ==
  LET rx == ~intq_full(intq["in"]) /\ rbr # NULL
      tx == ~intq_empty(intq["tx"]) /\ thr = NULL
      in1 == IF rx THEN Put(intq["in"], rbr) ELSE intq["in"]
      tx1 == IF tx THEN Get(intq["tx"]) ELSE intq["tx"]
  IN  /\ On /\ mode = "QUEUE"
      /\ ("RECV" \in ier /\ rbr # NULL) \/ ("XMIT" \in ier /\ thr = NULL)
      /\ intq' = ("in" :> in1) @@ ("tx" :> tx1)
      /\ rbr' = IF rx THEN NULL ELSE rbr
      /\ thr' = IF tx THEN First(intq["tx"]) ELSE thr
      /\ tpc' = Wake(IF rx THEN Wake(tpc, intq["in"].not_empty) ELSE tpc,
                     IF tx THEN intq["tx"].not_full ELSE NULL)
      /\ ier' = write_ier(in1, tx1)
      /\ typed' = IF rx THEN Append(typed, rbr) ELSE typed
      /\ UNCHANGED <<mode, console_lock, cnt, panicked, line, screen, written, got>>

(* keyboard_interrupt: a key goes to the input buffer, or is dropped when  *)
(* that is full.                                                           *)
KeyboardInterrupt ==
  LET in == intq["in"]
  IN  /\ On
      /\ Incoming < MaxKeys
      /\ ~intq_full(in)
      /\ intq' = [intq EXCEPT !["in"] = Put(in, "key")]
      /\ ier' = serial_notify(Put(in, "key"))
      /\ tpc' = Wake(tpc, in.not_empty)
      /\ typed' = Append(typed, "key")
      /\ UNCHANGED <<mode, thr, rbr, console_lock, cnt, panicked, line, screen, written, got>>

(* unexpected_interrupt prints, in interrupt context: without the console  *)
(* lock, and a full queue is polled to make room.                          *)
UnexpectedInterrupt ==
  LET tx == intq["tx"]
      now(q) == write_ier(intq["in"], Put(q, "intr"))
  IN  /\ On
      /\ Cardinality({i \in DOMAIN written : written[i] = "intr"}) < MaxUnexpected
      /\ \/ /\ mode # "QUEUE"
            /\ Poll("intr")
            /\ UNCHANGED <<intq, ier, tpc>>
         \/ /\ mode = "QUEUE"
            /\ ~intq_full(tx)
            /\ Queue("intr", tx, tpc, now(tx))
            /\ UNCHANGED <<mode, thr>>
         \/ /\ mode = "QUEUE"
            /\ intq_full(tx)
            /\ thr = NULL
            /\ thr' = First(tx)
            /\ Queue("intr", Get(tx), Wake(tpc, tx.not_full), now(Get(tx)))
            /\ UNCHANGED mode
      /\ screen' = Append(screen, "intr")
      /\ UNCHANGED <<rbr, console_lock, cnt, panicked, line, typed, got>>
-----------------------------------------------------------------------------
TermInit ==
  /\ intq = [q \in {"in", "tx"} |-> intq_init]
  /\ mode = "UNINIT"
  /\ ier = {}
  /\ thr = NULL /\ rbr = NULL
  /\ console_lock = NULL
  /\ tpc = [t \in Reader \cup Writer |-> "idle"]
  /\ cnt = [t \in Writer |-> 0]
  /\ panicked = FALSE
  /\ line = <<>> /\ screen = <<>> /\ written = <<>> /\ typed = <<>> /\ got = <<>>

ReaderStep(t) == Getc(t) \/ IntqLock(t) \/ IntqWait(t) \/ IntqWoken(t)
WriterStep(t) == Putc(t) \/ VgaPutc(t) \/ IntqWait(t) \/ IntqWoken(t)

TermNext ==
  \/ \E t \in Reader : Read(t) \/ ReaderStep(t)
  \/ \E t \in Writer : AcquireConsole(t) \/ WriterStep(t)
  \/ InitQueue \/ Flush
  \/ Transmit \/ Receive
  \/ SerialInterrupt \/ KeyboardInterrupt \/ UnexpectedInterrupt

TermSpec == TermInit /\ [][TermNext]_t_vars

(* Threads that can run do (ReadyThreadRuns in Threads); main gets to      *)
(* serial_init_queue; the UART sends; an interrupt asked for comes.        *)
TermFairness ==
  /\ \A t \in Reader : WF_t_vars(ReaderStep(t))
  /\ \A t \in Writer : WF_t_vars(WriterStep(t))
  /\ WF_t_vars(InitQueue) /\ WF_t_vars(Transmit) /\ WF_t_vars(SerialInterrupt)

FairTermSpec == TermSpec /\ TermFairness
-----------------------------------------------------------------------------
Contents(q) ==
  [i \in 1 .. (q.head - q.tail) % INTQ_BUFSIZE |-> q.buf[(q.tail + i - 1) % INTQ_BUFSIZE]]

(* Bytes are neither lost, duplicated nor reordered, by polling, queueing, *)
(* the change from one to the other, handlers that print or the flush at   *)
(* power-off: what serial_putc was given is on the line, in the            *)
(* transmitter or queued, and what input_putc was given has been read or   *)
(* is in the buffer.                                                       *)
BytesInOrder ==
  /\ written = line \o (IF thr = NULL THEN <<>> ELSE <<thr>>) \o Contents(intq["tx"])
  /\ typed = got \o Contents(intq["in"])

(* A message is printed in one piece: on the display no thread's message   *)
(* is cut by another thread's, though an interrupt handler's may cut it.   *)
MessagesWhole ==
  LET own == SelectSeq(screen, LAMBDA t : t # "intr")
  IN  \A i \in DOMAIN own : own[i] = own[((i - 1) \div MsgLen) * MsgLen + 1]

(* Everything printed reaches the line, so that a thread that waits for    *)
(* room in the queue gets it: no interrupt that is needed stays disabled.  *)
OutputSent == []<>(line = written)

(* A key in the buffer is read if a thread waits for one, and a byte in    *)
(* the receiver gets into the buffer if there is a reader to make room.    *)
KeysRead ==
  (\E t \in Reader : tpc[t] # "idle") /\ (~intq_empty(intq["in"]) \/ rbr # NULL)
    ~> mode = "OFF" \/ \A t \in Reader : tpc[t] = "idle"

(* What is typed and printed arrives, whole and in order: BytesInOrder and *)
(* MessagesWhole.                                                          *)
TrafficRight == BytesInOrder /\ MessagesWhole

(* It does arrive: OutputSent and KeysRead. *)
TrafficFlows == OutputSent /\ KeysRead

(* intq.c's assertion that a thread about to wait has something to wait    *)
(* for: "Only one thread may wait at once" (intq.h).                       *)
WaitersWait == ~panicked
=============================================================================
