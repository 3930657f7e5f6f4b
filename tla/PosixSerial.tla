---------------------------- MODULE PosixSerial ----------------------------
(***************************************************************************)
(* A host serial device, host/posix/posix-serial.c, connected to a channel *)
(* of a z8530 chip, ic/z8530.c.                                            *)
(*                                                                         *)
(* The device has a reader thread, a writer thread and a control thread.   *)
(* Each of them, the chip through the control function, and the main       *)
(* program on connecting can run the callout loop, which calls the chip    *)
(* with the mutex unlocked.  The chip has a callout loop of its own, run   *)
(* by the CPU's thread or nested in a call from the device.                *)
(*                                                                         *)
(* Preemptive is TRUE for TME_THREADS_POSIX.  With TME_THREADS_SJLJ        *)
(* calls between elements do not yield, so that nobody starts anything     *)
(* while a callout loop is running.  A wait on a condition of pthreads may *)
(* end although nobody notified it; if the writer finds no data then, an   *)
(* assertion fails and the program is aborted.                             *)
(*                                                                         *)
(* A run of k normal characters from the host is the number k; only the    *)
(* number of characters towards the host is kept, and slots of the input   *)
(* buffer that hold nothing are reset, since nobody reads them.  The chip  *)
(* always has room for what it reads.                                      *)
(***************************************************************************)
EXTENDS SerialRing

CONSTANTS Chunks,     \* what one read of the device gives: sequences of
                      \* run lengths, Break and BadByte
          Room,       \* the room in the output buffer
          MaxTx,      \* the room in the chip's transmit buffer
          MaxRead,    \* the most characters the chip asks for
          Preemptive

ASSUME RoomAssumption == Room \in Nat \ {0} /\ MaxTx \in Nat \ {0}

Break == 0
BadByte == -1

(* What the reader scans; bad characters only where flags can say so.      *)
Items == Nat \cup (IF {"BAD_PARITY"} \in Flags THEN {BadByte} ELSE {})

ASSUME InputAssumption ==
  Bytes # {} /\ {} \in Flags /\ Chunks \subseteq Seq(Items) /\ Preemptive \in BOOLEAN

VARIABLES
  in,         \* tme_posix_serial_buffer_in
  out,        \* the characters in tme_posix_serial_buffer_out
  ctrl,       \* tme_posix_serial_ctrl_callout
  last,       \* tme_posix_serial_ctrl_callout_last
  readable,   \* OK_READ in tme_posix_serial_ctrl_callin
  breaks,     \* tme_posix_serial_ctrl_callout_break
  connected,  \* tme_posix_serial_connection # NULL
  callout,    \* where _tme_posix_serial_callout is, and for whom
  lock,       \* who holds the mutex between two steps
  reader, todo, wasEmpty,  \* the reader thread and its locals
  writer, peeked,          \* the writer thread and buffer_output_size
  cts,        \* a modem line of the device
  tx,         \* the characters in the chip's tme_z8530_chan_buffer_tx
  pending,    \* the chip's tme_z8530_chan_callout_flags
  runner,     \* who runs _tme_z8530_callout
  doing,      \* the callouts of its current turn
  flight      \* the control value it is calling the device with

device == <<in, out, ctrl, last, readable, breaks, connected>>
threads == <<reader, todo, wasEmpty, writer, peeked>>
chip == <<tx, pending, runner, doing, flight>>
vars == <<device, callout, lock, threads, cts, chip>>

----------------------------------------------------------------------------
CtrlBits == {"OK_READ", "BREAK", "CTS"}

Users == {"reader", "writer", "ctrl", "main", "cpu"}

Callout == [at : {"idle", "ctrl", "ctrlDone", "read", "readDone"},
            by : Users \cup {"none"}, sent : SUBSET CtrlBits,
            again : BOOLEAN, count : 0 .. Room]

TypeOK == /\ in \in Ring /\ out \in 0 .. Room
          /\ ctrl \in SUBSET CtrlBits /\ last \in SUBSET CtrlBits
          /\ readable \in BOOLEAN /\ breaks \in 0 .. 2
          /\ connected \in BOOLEAN
          /\ callout \in Callout
          /\ lock \in Users \cup {"none"}
          /\ reader \in {"wait", "scan", "broke", "gone"}
          /\ todo \in Seq(Items) /\ wasEmpty \in BOOLEAN
          /\ writer \in {"loop", "waiting", "woken", "write", "aborted"}
          /\ peeked \in 0 .. Room
          /\ cts \in BOOLEAN
          /\ tx \in 0 .. MaxTx
          /\ pending \in SUBSET {"CTRL", "READ"}
          /\ doing \in SUBSET {"CTRL", "READ"}
          /\ runner \in {"none", "cpu", "nested"}
          /\ flight \in {"none", "on", "off", "in"}

Idle == [at |-> "idle", by |-> "none", sent |-> {}, again |-> FALSE, count |-> 0]

NoChar == [byte |-> CHOOSE b \in Bytes : TRUE, flags |-> {}]

Init == /\ in = [head |-> 0, tail |-> 0, slot |-> [i \in 0 .. Size - 1 |-> NoChar]]
        /\ out = 0
        /\ ctrl = {} /\ last = {} /\ readable = FALSE /\ breaks = 0
        /\ connected = FALSE
        /\ callout = Idle /\ lock = "none"
        /\ reader = "wait" /\ todo = <<>> /\ wasEmpty = TRUE
        /\ writer = "loop" /\ peeked = 0
        /\ cts = FALSE
        /\ tx = 0 /\ pending = {} /\ runner = "none" /\ doing = {}
        /\ flight = "none"

----------------------------------------------------------------------------
(* _tme_posix_serial_callout, from one unlocking of the mutex to the next. *)

Running == callout.at # "idle"

(* The writer's assertion has not failed.                                  *)
Alive == writer # "aborted"

(* Mutant: the read asks for a whole buffer.                               *)
AsksForAll(n) == Room

(* The size of a read: the space that is free before the mutex is unlocked. *)
Asks(n) == Room - n

(* From the second half of a turn of the loop: the call of the read        *)
(* function, if the connection is readable and the buffer is not full.     *)
Reading(by, ok, n, again, otherwise) ==
  IF ok /\ n < Room
  THEN [at |-> "read", by |-> by, sent |-> {}, again |-> again, count |-> Asks(n)]
  ELSE otherwise

(* From the top of the loop: the call of the control function if the       *)
(* outputs c are not the last ones l that were called out.                 *)
FromTop(by, c, l, ok, n) ==
  IF c # l
  THEN [at |-> "ctrl", by |-> by, sent |-> c, again |-> FALSE, count |-> 0]
  ELSE Reading(by, ok, n, FALSE, Idle)

(* A call of _tme_posix_serial_callout.  Keeps says whether the caller     *)
(* goes on with the mutex locked.                                          *)
StartCallout(by, c, ok, n, keeps) ==
  /\ callout' = IF Running \/ ~ connected THEN callout
                ELSE FromTop(by, c, last, ok, n)
  /\ lock' = IF keeps /\ callout'.by # by THEN by ELSE "none"

(* The writer, and the reader that saw a break, are not done then.         *)
KeepsLock(t) == t = "writer" \/ (t = "reader" /\ reader = "broke")

(* The loop goes on as next says, or returns to its caller.                *)
Continue(next) ==
  /\ callout' = next
  /\ lock' = IF next = Idle /\ KeepsLock(callout.by) THEN callout.by ELSE "none"
  /\ flight' = IF next = Idle /\ callout.by = "cpu" THEN "none" ELSE flight
  /\ doing' = IF next = Idle /\ callout.by = "cpu" THEN doing \ {"CTRL"} ELSE doing

(* A function of the chip that ends with _tme_z8530_callout, called by     *)
(* the device: it runs the chip's loop unless it is running.               *)
Nested(flags) ==
  /\ pending' = pending \cup flags
  /\ runner' = IF runner = "none" /\ pending' # {} THEN "nested" ELSE runner

(* _tme_z8530_ctrl.                                                        *)
CtrlCall ==
  /\ callout.at = "ctrl"
  /\ callout' = [callout EXCEPT !.at = "ctrlDone"]
  /\ Nested(IF "OK_READ" \in callout.sent THEN {"READ"} ELSE {})
  /\ UNCHANGED <<device, lock, threads, cts, tx, doing, flight>>

(* Mutant: a change called out is not a reason for another turn.           *)
CtrlReturnOnce ==
  /\ callout.at = "ctrlDone" /\ lock = "none" /\ runner # "nested"
  /\ last' = callout.sent
  /\ Continue(Reading(callout.by, readable, out, FALSE, Idle))
  /\ UNCHANGED <<in, out, ctrl, readable, breaks, connected, threads, cts, tx,
                 pending, runner>>

CtrlReturn ==
  /\ callout.at = "ctrlDone" /\ lock = "none" /\ runner # "nested"
  /\ last' = callout.sent
  /\ Continue(Reading(callout.by, readable, out, TRUE,
                FromTop(callout.by, ctrl, callout.sent, readable, out)))
  /\ UNCHANGED <<in, out, ctrl, readable, breaks, connected, threads, cts, tx,
                 pending, runner>>

(* _tme_z8530_read.                                                        *)
ReadCall ==
  LET n == Min({callout.count, tx}) IN
  /\ callout.at = "read"
  /\ tx' = tx - n
  /\ callout' = [callout EXCEPT !.at = "readDone", !.count = n]
  /\ Nested(IF tx' = 0 THEN {"CTRL"} ELSE {})
  /\ UNCHANGED <<device, lock, threads, cts, doing, flight>>

(* Mutant: the writer is notified of a failed read too.                    *)
ReadReturnNoisy ==
  LET n == Min({out + callout.count, Room}) IN
  /\ callout.at = "readDone" /\ lock = "none" /\ runner # "nested"
  /\ IF callout.count > 0
     THEN /\ out' = n
          /\ writer' = IF writer = "waiting" THEN "woken" ELSE writer
          /\ Continue(FromTop(callout.by, ctrl, last, readable, n))
          /\ UNCHANGED readable
     ELSE /\ readable' = FALSE
          /\ Continue(IF callout.again
                      THEN FromTop(callout.by, ctrl, last, FALSE, out)
                      ELSE Idle)
          /\ writer' = IF writer = "waiting" THEN "woken" ELSE writer
          /\ UNCHANGED out
  /\ UNCHANGED <<in, ctrl, last, breaks, connected, reader, todo, wasEmpty,
                 peeked, cts, tx, pending, runner>>

ReadReturn ==
  LET n == Min({out + callout.count, Room}) IN
  /\ callout.at = "readDone" /\ lock = "none" /\ runner # "nested"
  /\ IF callout.count > 0
     THEN /\ out' = n
          /\ writer' = IF writer = "waiting" THEN "woken" ELSE writer
          /\ Continue(FromTop(callout.by, ctrl, last, readable, n))
          /\ UNCHANGED readable
     ELSE /\ readable' = FALSE
          /\ Continue(IF callout.again
                      THEN FromTop(callout.by, ctrl, last, FALSE, out)
                      ELSE Idle)
          /\ UNCHANGED <<out, writer>>
  /\ UNCHANGED <<in, ctrl, last, breaks, connected, reader, todo, wasEmpty,
                 peeked, cts, tx, pending, runner>>

----------------------------------------------------------------------------
(* The threads of the device and the main program.                         *)

(* Whether somebody can start something new.                               *)
MayRun == Alive /\ (Preemptive \/ (~ Running /\ runner = "none" /\ lock = "none"))

MayLock(t) == MayRun /\ lock = "none" /\ callout.by # t

(* _tme_posix_serial_connection_make, and the other end's.                 *)
Connect ==
  /\ MayLock("main") /\ ~ connected
  /\ connected' = TRUE
  /\ callout' = FromTop("main", ctrl, last, readable, out)
  /\ UNCHANGED <<in, out, ctrl, last, readable, breaks, lock, threads, cts, chip>>

(* A turn of _tme_posix_serial_th_ctrl.                                    *)
Check ==
  LET c == (ctrl \ {"BREAK", "CTS"}) \cup (IF cts THEN {"CTS"} ELSE {})
             \cup (IF breaks > 0 THEN {"BREAK"} ELSE {})
  IN /\ MayLock("ctrl")
     /\ breaks' = IF breaks > 0 THEN breaks - 1 ELSE 0
     /\ ctrl' = c
     /\ IF c # ctrl THEN StartCallout("ctrl", c, readable, out, FALSE)
        ELSE UNCHANGED <<callout, lock>>
     /\ UNCHANGED <<in, out, last, readable, connected, threads, cts, chip>>

(* _tme_posix_serial_th_writer, at the top of its loop: it waits, or looks *)
(* at the data and starts to write.                                        *)
WriterLoop ==
  /\ writer = "loop" /\ callout.by # "writer"
  /\ lock = "writer" \/ MayLock("writer")
  /\ writer' = IF out = 0 THEN "waiting" ELSE "write"
  /\ peeked' = out
  /\ lock' = "none"
  /\ UNCHANGED <<device, callout, reader, todo, wasEmpty, cts, chip>>

(* The end of its wait, which is not in a loop: it asserts that there is   *)
(* data.  With TME_THREADS_SJLJ it starts its function again instead.      *)
WaitEnds ==
  /\ MayLock("writer")
  /\ writer' = IF out > 0 THEN "write" ELSE IF Preemptive THEN "aborted" ELSE "waiting"
  /\ peeked' = out
  /\ UNCHANGED <<device, callout, lock, reader, todo, wasEmpty, cts, chip>>

WriterWakes == writer = "woken" /\ WaitEnds

(* The wait ends without a notification.                                   *)
WriterWakesAlone == Preemptive /\ writer = "waiting" /\ WaitEnds

(* The most it can write.  With TME_THREADS_SJLJ a thread that waited      *)
(* starts its function again, and so looks at the data anew.               *)
Offered == IF Preemptive THEN peeked ELSE out

(* Mutant: the writer does not call out for more data.                     *)
WriteWithoutCall(n) ==
  /\ writer = "write" /\ MayLock("writer") /\ n <= Offered
  /\ writer' = "loop"
  /\ out' = out - n
  /\ peeked' = 0
  /\ lock' = "writer" /\ UNCHANGED callout
  /\ UNCHANGED <<in, ctrl, last, readable, breaks, connected, reader, todo,
                 wasEmpty, cts, chip>>

(* The write of n of the characters it looked at; 0 stands for a failure.  *)
Write(n) ==
  /\ writer = "write" /\ MayLock("writer") /\ n <= Offered
  /\ writer' = "loop"
  /\ out' = out - n
  /\ peeked' = 0
  /\ IF n > 0 THEN StartCallout("writer", ctrl, readable, out - n, TRUE)
     ELSE lock' = "writer" /\ UNCHANGED callout
  /\ UNCHANGED <<in, ctrl, last, readable, breaks, connected, reader, todo,
                 wasEmpty, cts, chip>>

(* _tme_posix_serial_th_reader.                                            *)
ReaderGets(chunk) ==
  /\ reader = "wait" /\ MayLock("reader")
  /\ reader' = "scan"
  /\ todo' = chunk
  /\ wasEmpty' = IsEmpty(in)
  /\ lock' = "reader"
  /\ UNCHANGED <<device, callout, writer, peeked, cts, chip>>

ReaderEof ==
  /\ reader = "wait" /\ MayLock("reader")
  /\ reader' = "gone"
  /\ UNCHANGED <<device, callout, lock, todo, wasEmpty, writer, peeked, cts, chip>>

Tidy(r) ==
  LET held == {Wrap(r.tail + i) : i \in 0 .. SpaceBusy(r) - 1}
  IN [r EXCEPT !.slot = [i \in DOMAIN @ |-> IF i \in held THEN @[i] ELSE NoChar]]

(* A run of characters, or one with bad parity.                            *)
Receive ==
  /\ reader = "scan" /\ lock = "reader"
  /\ todo # <<>> /\ Head(todo) # Break
  /\ LET bad   == Head(todo) = BadByte
         chars == [i \in 1 .. IF bad THEN 1 ELSE Head(todo) |-> NoChar.byte]
     IN in' = Tidy(CopyIn(in, chars, IF bad THEN {"BAD_PARITY"} ELSE {}, TRUE))
  /\ todo' = Tail(todo)
  /\ UNCHANGED <<out, ctrl, last, readable, breaks, connected, callout, lock,
                 reader, wasEmpty, writer, peeked, cts, chip>>

ReceiveBreak ==
  /\ reader = "scan" /\ lock = "reader"
  /\ todo # <<>> /\ Head(todo) = Break
  /\ reader' = "broke"
  /\ todo' = Tail(todo)
  /\ ctrl' = ctrl \cup {"BREAK"}
  /\ IF "BREAK" \in ctrl THEN UNCHANGED <<callout, lock>>
     ELSE StartCallout("reader", ctrl', readable, out, TRUE)
  /\ UNCHANGED <<in, out, last, readable, breaks, connected, wasEmpty, writer,
                 peeked, cts, chip>>

BreakSeen ==
  /\ reader = "broke" /\ lock = "reader"
  /\ reader' = "scan"
  /\ breaks' = 2
  /\ UNCHANGED <<in, out, ctrl, last, readable, connected, callout, lock, todo,
                 wasEmpty, writer, peeked, cts, chip>>

(* Mutant: only a full buffer is called out.                               *)
ScanEndSilent ==
  /\ reader = "scan" /\ lock = "reader" /\ todo = <<>>
  /\ reader' = "wait"
  /\ IF wasEmpty /\ IsFull(in)
     THEN /\ ctrl' = ctrl \cup {"OK_READ"}
          /\ StartCallout("reader", ctrl', readable, out, FALSE)
     ELSE lock' = "none" /\ UNCHANGED <<ctrl, callout>>
  /\ UNCHANGED <<in, out, last, readable, breaks, connected, todo, wasEmpty,
                 writer, peeked, cts, chip>>

ScanEnd ==
  /\ reader = "scan" /\ lock = "reader" /\ todo = <<>>
  /\ reader' = "wait"
  /\ IF wasEmpty /\ ~ IsEmpty(in)
     THEN /\ ctrl' = ctrl \cup {"OK_READ"}
          /\ StartCallout("reader", ctrl', readable, out, FALSE)
     ELSE lock' = "none" /\ UNCHANGED <<ctrl, callout>>
  /\ UNCHANGED <<in, out, last, readable, breaks, connected, todo, wasEmpty,
                 writer, peeked, cts, chip>>

(* A modem line of the device changes.                                     *)
Line == cts' = ~ cts /\ UNCHANGED <<device, callout, lock, threads, chip>>

----------------------------------------------------------------------------
(* The chip.                                                               *)

(* Mutant: a character is put into a full buffer.                          *)
TransmitUnchecked ==
  /\ MayRun /\ connected /\ runner # "cpu"
  /\ tx' = tx + 1
  /\ pending' = IF tx = 0 THEN pending \cup {"CTRL"} ELSE pending
  /\ runner' = IF runner = "none" /\ pending' # {} THEN "cpu" ELSE runner
  /\ UNCHANGED <<device, callout, lock, threads, cts, doing, flight>>

(* The CPU writes a character; into a full buffer it is lost.              *)
Transmit ==
  /\ MayRun /\ connected /\ runner # "cpu"
  /\ tx < MaxTx
  /\ tx' = tx + 1
  /\ pending' = IF tx = 0 THEN pending \cup {"CTRL"} ELSE pending
  /\ runner' = IF runner = "none" /\ pending' # {} THEN "cpu" ELSE runner
  /\ UNCHANGED <<device, callout, lock, threads, cts, doing, flight>>

ChipFree == runner # "none" /\ flight = "none"

(* A turn of the loop of _tme_z8530_callout, and its end.                  *)
ChipTurn ==
  /\ ChipFree /\ doing = {}
  /\ doing' = pending
  /\ pending' = {}
  /\ runner' = IF pending = {} THEN "none" ELSE runner
  /\ UNCHANGED <<device, callout, lock, threads, cts, tx, flight>>

ChipCtrl ==
  /\ ChipFree /\ "CTRL" \in doing
  /\ flight' = IF tx > 0 THEN "on" ELSE "off"
  /\ UNCHANGED <<device, callout, lock, threads, cts, tx, pending, runner, doing>>

(* _tme_posix_serial_ctrl.                                                 *)
CtrlArrives ==
  /\ flight \in {"on", "off"} /\ lock = "none"
  /\ readable' = (flight = "on")
  /\ IF flight = "on" THEN StartCallout("cpu", ctrl, TRUE, out, FALSE)
     ELSE UNCHANGED <<callout, lock>>
  /\ IF callout.by # "cpu" /\ callout'.by = "cpu"
     THEN flight' = "in" /\ UNCHANGED doing
     ELSE flight' = "none" /\ doing' = doing \ {"CTRL"}
  /\ UNCHANGED <<in, out, ctrl, last, breaks, connected, threads, cts, tx,
                 pending, runner>>

(* _tme_posix_serial_read, asked for n characters, and what the chip does  *)
(* with its answer.                                                        *)
ReadArrives(n) ==
  LET k == Given(in, n) IN
  /\ ChipFree /\ doing = {"READ"} /\ lock = "none"
  /\ in' = Tidy(CopyOut(in, n))
  /\ IF k < n
     THEN /\ ctrl' = ctrl \ {"OK_READ"}
          /\ last' = last \ {"OK_READ"}
     ELSE UNCHANGED <<ctrl, last>>
  /\ pending' = IF k > 0 THEN pending \cup {"READ"} ELSE pending
  /\ doing' = {}
  /\ UNCHANGED <<out, readable, breaks, connected, callout, lock, threads, cts,
                 tx, runner, flight>>

Steps == Alive /\ (CtrlCall \/ CtrlReturn \/ ReadCall \/ ReadReturn)

Writer == WriterLoop \/ WriterWakes \/ WriterWakesAlone \/ (\E n \in 0 .. Room : Write(n))

Scan == Alive /\ (Receive \/ ReceiveBreak \/ BreakSeen \/ ScanEnd)

Chip == Alive /\ (ChipTurn \/ ChipCtrl \/ CtrlArrives
                     \/ (\E n \in 1 .. MaxRead : ReadArrives(n)))

Next == \/ Steps \/ Writer \/ Scan \/ Chip
        \/ Connect \/ Check \/ Line \/ Transmit \/ ReaderEof
        \/ \E chunk \in Chunks : ReaderGets(chunk)

Spec == Init /\ [][Next]_vars

(* Callouts and the scan come to their end, and the device takes data when *)
(* the writer has some.  Strong fairness for the writer, since others can  *)
(* hold the mutex or the processor again and again: the scheduler gives    *)
(* every thread its turn.  The control thread is not asked to help, and no *)
(* wait has to end without a notification.                                 *)
Fairness == /\ WF_vars(Steps) /\ WF_vars(Scan) /\ WF_vars(Chip)
            /\ SF_vars(WriterLoop) /\ SF_vars(WriterWakes)
            /\ SF_vars(\E n \in 1 .. Room : Write(n))

FairSpec == Spec /\ Fairness

----------------------------------------------------------------------------
(* Whoever is between two steps of the device or the chip has finished.    *)
Quiet == /\ connected /\ ~ Running /\ lock = "none" /\ runner = "none"
         /\ reader \in {"wait", "gone"}

(* tme_serial_buffer_copyin has room for what the read gave, although the  *)
(* space was measured before the mutex was unlocked.                       *)
ReadFits == callout.at = "readDone" => callout.count <= Room - out

(* No notification of the writer is lost or made in vain: it waits only    *)
(* while there is nothing to write, and when it was notified there still   *)
(* is something once it has the mutex.  So "after which there must be data *)
(* to write" fails only when the wait ends by itself, which this does not  *)
(* rule out.  What was looked at is there when it is removed.              *)
WriterHasData ==
  /\ writer = "waiting" => out = 0
  /\ writer = "woken" => out > 0
  /\ writer = "write" => peeked \in 1 .. out

(* "the other thread will do our work": nothing is left to call out.       *)
NothingLeft == Quiet => ctrl = last

(* Characters from the host do not lie in the input buffer with nobody     *)
(* coming for them.                                                        *)
InputAnnounced == Quiet => IsEmpty(in)

(* Characters from the CPU do not lie in the chip with the output buffer   *)
(* empty and the writer waiting.                                           *)
OutputFetched == Quiet /\ writer = "waiting" => tx = 0

(* A character from the CPU is fetched, even if the output buffer was full *)
(* when the chip said that it had some.                                    *)
OutputServed ==
  tx > 0 ~> callout.at = "readDone" /\ callout.count > 0
============================================================================
