------------------------- MODULE PosixSerialProofs -------------------------
(***************************************************************************)
(* Proofs about the host serial device and the chip it is connected to,    *)
(* for any sizes of the buffers and whatever comes from the host: its      *)
(* types and its output side with either kind of threads; and with         *)
(* cooperative threads, that nothing is left undone.                       *)
(***************************************************************************)
EXTENDS PosixSerial, SerialBufferProofs

(* The types of the output side and of the callouts.                       *)
OutputTypes ==
    /\ out \in 0 .. Room /\ peeked \in 0 .. Room /\ tx \in 0 .. MaxTx
    /\ ctrl \in SUBSET CtrlBits /\ callout \in Callout

(* From the measuring of the space to the end of the read, what was asked  *)
(* for, or given, fits.                                                    *)
AskedFits == callout.at \in {"read", "readDone"} => callout.count <= Room - out

IInv == OutputTypes /\ AskedFits /\ WriterHasData

USE RoomAssumption

-----------------------------------------------------------------------------
(* The slots that hold nothing.                                            *)

LEMMA NoCharTyped == NoChar \in Slot /\ NoChar.byte \in Bytes
BY InputAssumption DEF NoChar, Slot

LEMMA TidyTyped ==
  ASSUME NEW r \in Ring
  PROVE  Tidy(r) \in Ring /\ (IsEmpty(Tidy(r)) <=> IsEmpty(r))
<1> DEFINE held == {Wrap(r.tail + i) : i \in 0 .. SpaceBusy(r) - 1}
           slot == [i \in DOMAIN r.slot |-> IF i \in held THEN r.slot[i] ELSE NoChar]
<1>1. Tidy(r) = [r EXCEPT !.slot = slot]
  BY DEF Tidy
<1>2. slot \in [0 .. Size - 1 -> Slot]
  <2> HIDE DEF held
  <2>1. QED
    BY NoCharTyped DEF Ring
<1> HIDE DEF slot
<1>3. QED
  BY <1>1, <1>2 DEF Ring, IsEmpty

-----------------------------------------------------------------------------
(* The starts of the callout loop.                                         *)

(* A callout c asks for no more than the room that n characters leave.     *)
Fits(c, n) ==
    c \in Callout /\ (c.at \in {"read", "readDone"} => c.count <= Room - n)

(* The second half of a turn measures the space that is free.              *)
LEMMA ReadingFits ==
  ASSUME NEW n \in 0 .. Room, NEW by \in Users \cup {"none"}, NEW ok,
         NEW again \in BOOLEAN, NEW other, Fits(other, n)
  PROVE  Fits(Reading(by, ok, n, again, other), n)
BY DEF Reading, Asks, Fits, Callout

LEMMA IdleFits ==
  ASSUME NEW n \in 0 .. Room
  PROVE  Fits(Idle, n)
BY DEF Fits, Idle, Callout

(* So does a whole turn.                                                   *)
LEMMA TurnFits ==
  ASSUME NEW n \in 0 .. Room, NEW by \in Users \cup {"none"}, NEW ok,
         NEW c \in SUBSET CtrlBits, NEW l
  PROVE  Fits(FromTop(by, c, l, ok, n), n)
<1>1. CASE c # l
  BY <1>1 DEF FromTop, Fits, Callout
<1>2. CASE c = l
  <2>1. Fits(Reading(by, ok, n, FALSE, Idle), n)
    BY IdleFits, ReadingFits
  <2>2. QED
    BY <1>2, <2>1, Zenon DEF FromTop
<1>3. QED
  BY <1>1, <1>2

(* A call of the callout function by somebody, with n characters in the    *)
(* output buffer.                                                          *)
LEMMA StartFits ==
  ASSUME NEW n \in 0 .. Room, NEW by \in Users, NEW ok, NEW keeps,
         NEW c \in SUBSET CtrlBits, Fits(callout, n), StartCallout(by, c, ok, n, keeps)
  PROVE  Fits(callout', n)
<1>1. Fits(FromTop(by, c, last, ok, n), n)
  BY TurnFits
<1>2. callout' = callout \/ callout' = FromTop(by, c, last, ok, n)
  BY DEF StartCallout
<1>3. QED
  BY <1>1, <1>2, Zenon DEF Fits

-----------------------------------------------------------------------------
(* The inductive invariant.                                                *)

LEMMA InitIInv == Init => IInv
BY DEF Init, IInv, OutputTypes, AskedFits, WriterHasData, Idle, Callout

(* The parts of the invariant that a step must keep.                       *)
LEMMA Kept ==
  ASSUME out' \in 0 .. Room, peeked' \in 0 .. Room, tx' \in 0 .. MaxTx,
         ctrl' \in SUBSET CtrlBits, Fits(callout', out'), WriterHasData'
  PROVE  IInv'
BY DEF IInv, OutputTypes, AskedFits, Fits

(* A step of the loop itself.                                              *)
LEMMA LoopKeeps ==
  ASSUME IInv, Steps
  PROVE  IInv'
<1>1. /\ out \in 0 .. Room /\ peeked \in 0 .. Room /\ tx \in 0 .. MaxTx
      /\ ctrl \in SUBSET CtrlBits /\ callout \in Callout /\ Fits(callout, out)
      /\ callout.by \in Users \cup {"none"}
  BY DEF IInv, OutputTypes, AskedFits, Fits, Callout
<1>2. CASE CtrlCall
  <2>1. /\ callout.at = "ctrl" /\ callout' = [callout EXCEPT !.at = "ctrlDone"]
        /\ UNCHANGED <<out, peeked, writer, tx, ctrl>>
    BY <1>2 DEF CtrlCall, device, threads
  <2>2. Fits(callout', out)
    BY <1>1, <2>1 DEF Fits, Callout
  <2>3. QED
    BY <1>1, <2>1, <2>2, Kept DEF IInv, WriterHasData
<1>3. CASE CtrlReturn
  <2> DEFINE next == FromTop(callout.by, ctrl, callout.sent, readable, out)
  <2>1. Fits(next, out)
    BY <1>1, TurnFits
  <2>2. Fits(Reading(callout.by, readable, out, TRUE, next), out)
    BY <1>1, <2>1, ReadingFits
  <2>3. /\ callout' = Reading(callout.by, readable, out, TRUE, next)
        /\ UNCHANGED <<out, peeked, writer, tx, ctrl>>
    BY <1>3 DEF CtrlReturn, Continue, threads
  <2>4. QED
    BY <1>1, <2>2, <2>3, Kept DEF IInv, WriterHasData
<1>4. CASE ReadCall
  <2> DEFINE n == Min({callout.count, tx})
  <2>1. n \in 0 .. Room /\ n <= callout.count /\ n <= tx
    BY <1>1, MinOfTwo DEF Callout
  <2>2. /\ callout.at = "read" /\ callout' = [callout EXCEPT !.at = "readDone", !.count = n]
        /\ tx' = tx - n /\ UNCHANGED <<out, peeked, writer, ctrl>>
    BY <1>4 DEF ReadCall, device, threads
  <2> HIDE DEF n
  <2>3. callout.count <= Room - out
    BY <1>1, <2>2 DEF Fits
  <2>4. callout' \in Callout /\ callout'.count = n
    BY <1>1, <2>1, <2>2 DEF Callout
  <2>5. callout'.count <= Room - out
    <3>1. callout.count \in Int /\ out \in Int /\ Room \in Int /\ n \in Int
      BY <1>1, <2>1 DEF Callout
    <3>2. QED
      BY <2>1, <2>3, <2>4, <3>1
  <2>6. Fits(callout', out)
    BY <2>4, <2>5 DEF Fits
  <2>7. tx' \in 0 .. MaxTx
    BY <1>1, <2>1, <2>2
  <2>8. QED
    BY <1>1, <2>2, <2>6, <2>7, Kept DEF IInv, WriterHasData
<1>5. CASE ReadReturn
  <2> DEFINE n == Min({out + callout.count, Room})
  <2>1. UNCHANGED <<peeked, tx, ctrl>> /\ callout.at = "readDone"
    BY <1>5 DEF ReadReturn
  <2>2. CASE callout.count > 0
    <3>1. /\ out' = n /\ writer' = IF writer = "waiting" THEN "woken" ELSE writer
          /\ callout' = FromTop(callout.by, ctrl, last, readable, n)
      BY <1>5, <2>2 DEF ReadReturn, Continue
    <3>2. n \in 0 .. Room /\ n > 0 /\ n >= out
      BY <1>1, <2>2, MinOfTwo DEF Callout
    <3>3. Fits(callout', n)
      BY <1>1, <3>1, <3>2, TurnFits
    <3>4. WriterHasData'
      BY <1>1, <2>1, <3>1, <3>2 DEF IInv, WriterHasData
    <3>5. QED
      BY <1>1, <2>1, <3>1, <3>2, <3>3, <3>4, Kept
  <2>3. CASE ~(callout.count > 0)
    <3>1. /\ UNCHANGED <<out, writer>>
          /\ callout' = IF callout.again THEN FromTop(callout.by, ctrl, last, FALSE, out)
                        ELSE Idle
      BY <1>5, <2>3 DEF ReadReturn, Continue
    <3>2. Fits(callout', out)
      BY <1>1, <3>1, TurnFits, IdleFits
    <3>3. QED
      BY <1>1, <2>1, <3>1, <3>2, Kept DEF IInv, WriterHasData
  <2>4. QED
    BY <2>2, <2>3
<1>6. QED
  BY <1>2, <1>3, <1>4, <1>5 DEF Steps

(* A step of the writer, who alone takes characters out.                   *)
LEMMA WriterKeeps ==
  ASSUME IInv, Writer
  PROVE  IInv'
<1>1. /\ out \in 0 .. Room /\ peeked \in 0 .. Room /\ tx \in 0 .. MaxTx
      /\ ctrl \in SUBSET CtrlBits /\ callout \in Callout /\ Fits(callout, out)
  BY DEF IInv, OutputTypes, AskedFits, Fits
<1>2. CASE WriterLoop
  <2>1. /\ writer' = IF out = 0 THEN "waiting" ELSE "write"
        /\ peeked' = out /\ UNCHANGED <<out, ctrl, callout, tx>>
    BY <1>2 DEF WriterLoop, device, chip
  <2>2. QED
    BY <1>1, <2>1, Kept DEF WriterHasData
<1>3. CASE WriterWakes \/ WriterWakesAlone
  <2>1. /\ writer' = IF out > 0 THEN "write" ELSE IF Preemptive THEN "aborted" ELSE "waiting"
        /\ peeked' = out /\ UNCHANGED <<out, ctrl, callout, tx>>
    BY <1>3 DEF WriterWakes, WriterWakesAlone, WaitEnds, device, chip
  <2>2. WriterHasData'
    BY <1>1, <2>1 DEF WriterHasData
  <2>3. QED
    BY <1>1, <2>1, <2>2, Kept
<1>4. ASSUME NEW n \in 0 .. Room, Write(n) PROVE IInv'
  <2>1. /\ writer = "write" /\ n <= Offered /\ writer' = "loop"
        /\ out' = out - n /\ peeked' = 0 /\ UNCHANGED <<ctrl, tx>>
    BY <1>4 DEF Write, chip
  <2>2. out - n \in 0 .. Room /\ Fits(callout, out - n)
    BY <1>1, <2>1 DEF IInv, WriterHasData, Offered, Fits, Callout
  <2>3. Fits(callout', out - n)
    <3>1. CASE n > 0
      <4>1. StartCallout("writer", ctrl, readable, out - n, TRUE)
        BY <1>4, <3>1 DEF Write
      <4>2. "writer" \in Users
        BY DEF Users
      <4>3. QED
        BY <1>1, <2>2, <4>1, <4>2, StartFits
    <3>2. CASE ~(n > 0)
      BY <1>4, <2>2, <3>2 DEF Write
    <3>3. QED
      BY <3>1, <3>2
  <2>4. QED
    BY <1>1, <2>1, <2>2, <2>3, Kept DEF WriterHasData
<1>5. QED
  BY <1>2, <1>3, <1>4 DEF Writer

(* A step that leaves the output buffer and the writer alone.              *)
LEMMA OthersKeep ==
  ASSUME IInv, UNCHANGED <<out, peeked, writer>>, tx' \in 0 .. MaxTx,
         ctrl' \in SUBSET CtrlBits, Fits(callout', out)
  PROVE  IInv'
BY Kept DEF IInv, OutputTypes, WriterHasData

(* A step of the reader thread.                                            *)
LEMMA ScanKeeps ==
  ASSUME IInv, Scan \/ ReaderEof \/ (\E chunk \in Chunks : ReaderGets(chunk))
  PROVE  IInv'
<1>1. /\ ctrl \in SUBSET CtrlBits /\ tx \in 0 .. MaxTx /\ out \in 0 .. Room
      /\ Fits(callout, out)
  BY DEF IInv, OutputTypes, AskedFits, Fits
<1>2. "reader" \in Users /\ "OK_READ" \in CtrlBits /\ "BREAK" \in CtrlBits
  BY DEF Users, CtrlBits
<1>3. UNCHANGED <<out, peeked, writer, tx>>
  BY DEF Scan, Receive, ReceiveBreak, BreakSeen, ScanEnd, ReaderEof, ReaderGets, device, chip
<1>4. ctrl' \in SUBSET CtrlBits
  BY <1>1, <1>2 DEF Scan, Receive, ReceiveBreak, BreakSeen, ScanEnd, ReaderEof, ReaderGets, device
<1>5. CASE UNCHANGED callout
  BY <1>1, <1>3, <1>4, <1>5, OthersKeep
<1>6. CASE \/ StartCallout("reader", ctrl', readable, out, TRUE)
           \/ StartCallout("reader", ctrl', readable, out, FALSE)
  <2>1. Fits(callout', out)
    BY <1>1, <1>2, <1>4, <1>6, StartFits
  <2>2. QED
    BY <1>1, <1>3, <1>4, <2>1, OthersKeep
<1>7. QED
  BY <1>5, <1>6
     DEF Scan, Receive, ReceiveBreak, BreakSeen, ScanEnd, ReaderEof, ReaderGets

(* A step of the chip.                                                     *)
LEMMA ChipKeeps ==
  ASSUME IInv, Chip
  PROVE  IInv'
<1>1. /\ ctrl \in SUBSET CtrlBits /\ tx \in 0 .. MaxTx /\ out \in 0 .. Room
      /\ Fits(callout, out)
  BY DEF IInv, OutputTypes, AskedFits, Fits
<1>2. CASE ChipTurn \/ ChipCtrl \/ (\E n \in 1 .. MaxRead : ReadArrives(n))
  <2>1. UNCHANGED <<out, peeked, writer, tx, callout>> /\ ctrl' \in SUBSET CtrlBits
    BY <1>1, <1>2 DEF ChipTurn, ChipCtrl, ReadArrives, device, threads
  <2>2. QED
    BY <1>1, <2>1, OthersKeep
<1>3. CASE CtrlArrives
  <2>1. /\ UNCHANGED <<out, peeked, writer, tx, ctrl>>
        /\ \/ UNCHANGED callout
           \/ StartCallout("cpu", ctrl, TRUE, out, FALSE)
    BY <1>3 DEF CtrlArrives, threads
  <2>2. Fits(callout', out)
    <3>1. "cpu" \in Users
      BY DEF Users
    <3>2. QED
      BY <1>1, <2>1, <3>1, StartFits
  <2>3. QED
    BY <1>1, <2>1, <2>2, OthersKeep
<1>4. QED
  BY <1>2, <1>3 DEF Chip

(* The other steps: connecting, the control thread, a modem line, and the  *)
(* CPU that writes a character.                                            *)
LEMMA RestKeeps ==
  ASSUME IInv, Connect \/ Check \/ Line \/ Transmit
  PROVE  IInv'
<1>1. /\ ctrl \in SUBSET CtrlBits /\ tx \in 0 .. MaxTx /\ out \in 0 .. Room
      /\ Fits(callout, out)
  BY DEF IInv, OutputTypes, AskedFits, Fits
<1>2. CASE Connect
  <2>1. /\ UNCHANGED <<out, peeked, writer, tx, ctrl>>
        /\ callout' = FromTop("main", ctrl, last, readable, out)
    BY <1>2 DEF Connect, threads, chip
  <2>2. Fits(callout', out)
    <3>1. "main" \in Users \cup {"none"}
      BY DEF Users
    <3>2. QED
      BY <1>1, <2>1, <3>1, TurnFits
  <2>3. QED
    BY <1>1, <2>1, <2>2, OthersKeep
<1>3. CASE Check
  <2>1. UNCHANGED <<out, peeked, writer, tx>> /\ ctrl' \in SUBSET CtrlBits
    BY <1>1, <1>3 DEF Check, threads, chip, CtrlBits
  <2>2. UNCHANGED callout \/ StartCallout("ctrl", ctrl', readable, out, FALSE)
    BY <1>3 DEF Check
  <2>3. Fits(callout', out)
    <3>1. "ctrl" \in Users
      BY DEF Users
    <3>2. QED
      BY <1>1, <2>1, <2>2, <3>1, StartFits
  <2>4. QED
    BY <1>1, <2>1, <2>3, OthersKeep
<1>4. CASE Line \/ Transmit
  <2>1. UNCHANGED <<out, peeked, writer, ctrl, callout>> /\ tx' \in 0 .. MaxTx
    BY <1>1, <1>4 DEF Line, Transmit, device, threads, chip
  <2>2. QED
    BY <1>1, <2>1, OthersKeep
<1>5. QED
  BY <1>2, <1>3, <1>4

-----------------------------------------------------------------------------
LEMMA NextIInv == IInv /\ [Next]_vars => IInv'
<1> SUFFICES ASSUME IInv, [Next]_vars PROVE IInv'
  OBVIOUS
<1>1. CASE UNCHANGED vars
  BY <1>1 DEF vars, device, threads, chip, IInv, OutputTypes, AskedFits,
              WriterHasData
<1>2. QED
  BY <1>1, LoopKeeps, WriterKeeps, ScanKeeps, ChipKeeps, RestKeeps DEF Next

(* The inductive invariant holds in every run.                             *)
THEOREM OutputInvariance == Spec => []IInv
<1>1. QED
  BY InitIInv, NextIInv, PTL DEF Spec

(* tme_serial_buffer_copyin in the callout loop has room for whatever the  *)
(* chip gave, although the mutex was unlocked since the space was measured *)
(* and the writer and other callers of the loop went on.                   *)
THEOREM ReadsFit == Spec => []ReadFits
<1>1. IInv => ReadFits
  BY DEF IInv, AskedFits, ReadFits
<1>2. QED
  BY <1>1, OutputInvariance, PTL

(* No notification of the writer is lost: it only waits while there is     *)
(* nothing to write; when it was notified it finds data; and what it       *)
(* looked at before unlocking the mutex for the write is still there when  *)
(* it removes it.  With preemptive threads the wait may also end by        *)
(* itself, and then nothing is promised.                                   *)
THEOREM WriterServed == Spec => []WriterHasData
<1>1. IInv => WriterHasData
  BY DEF IInv
<1>2. QED
  BY <1>1, OutputInvariance, PTL

-----------------------------------------------------------------------------
(* The types.                                                              *)

DeviceTypes ==
    /\ in \in Ring /\ last \in SUBSET CtrlBits /\ readable \in BOOLEAN
    /\ breaks \in 0 .. 2 /\ connected \in BOOLEAN
ThreadTypes ==
    /\ reader \in {"wait", "scan", "broke", "gone"} /\ todo \in Seq(Items)
    /\ wasEmpty \in BOOLEAN
    /\ writer \in {"loop", "waiting", "woken", "write", "aborted"}
    /\ cts \in BOOLEAN
ChipTypes ==
    /\ pending \in SUBSET {"CTRL", "READ"} /\ doing \in SUBSET {"CTRL", "READ"}
    /\ runner \in {"none", "cpu", "nested"} /\ flight \in {"none", "on", "off", "in"}
LockType == lock \in Users \cup {"none"}

LEMMA TypesSplit ==
  TypeOK <=> OutputTypes /\ DeviceTypes /\ ThreadTypes /\ ChipTypes /\ LockType
BY DEF TypeOK, OutputTypes, DeviceTypes, ThreadTypes, ChipTypes, LockType

LEMMA StartLocks ==
  ASSUME NEW by \in Users, NEW c, NEW ok, NEW n, NEW keeps, StartCallout(by, c, ok, n, keeps)
  PROVE  LockType'
BY DEF StartCallout, LockType

LEMMA ContinueTypes ==
  ASSUME NEW next, Continue(next), ChipTypes
  PROVE  /\ LockType'
         /\ doing' \in SUBSET {"CTRL", "READ"} /\ flight' \in {"none", "on", "off", "in"}
BY DEF Continue, KeepsLock, LockType, ChipTypes, Users

LEMMA NestedTypes ==
  ASSUME NEW flags \in SUBSET {"CTRL", "READ"}, Nested(flags), ChipTypes, UNCHANGED <<doing, flight>>
  PROVE  ChipTypes'
BY DEF Nested, ChipTypes

LEMMA InitTypes == Init => TypeOK
<1> SUFFICES ASSUME Init PROVE TypeOK
  OBVIOUS
<1>1. OutputTypes
  BY InitIInv DEF IInv
<1>2. in \in Ring
  BY NoCharTyped, SizeAssumption DEF Init, Ring
<1>3. DeviceTypes
  <2>1. last \in SUBSET CtrlBits /\ breaks \in 0 .. 2
    BY DEF Init
  <2>2. readable \in BOOLEAN /\ connected \in BOOLEAN
    BY Zenon DEF Init
  <2>3. QED
    BY <1>2, <2>1, <2>2 DEF DeviceTypes
<1>4. ThreadTypes
  <2>1. <<>> \in Seq(Items)
    OBVIOUS
  <2>2. QED
    BY <2>1 DEF Init, ThreadTypes
<1>5. ChipTypes /\ LockType
  BY DEF Init, ChipTypes, LockType
<1>6. QED
  BY <1>1, <1>3, <1>4, <1>5, TypesSplit

(* The steps of the callout loop and of the writer.                        *)
LEMMA LoopTypes ==
  ASSUME TypeOK, Steps \/ Writer
  PROVE  DeviceTypes' /\ ThreadTypes' /\ ChipTypes' /\ LockType'
<1>1. DeviceTypes /\ ThreadTypes /\ ChipTypes /\ LockType /\ callout \in Callout
  BY TypesSplit DEF OutputTypes
<1>2. CASE CtrlCall
  <2>1. Nested(IF "OK_READ" \in callout.sent THEN {"READ"} ELSE {})
        /\ UNCHANGED <<device, lock, threads, cts, doing, flight>>
    BY <1>2 DEF CtrlCall
  <2>2. ChipTypes'
    BY <1>1, <2>1, NestedTypes DEF threads
  <2>3. QED
    BY <1>1, <2>1, <2>2 DEF device, threads, DeviceTypes, ThreadTypes, LockType
<1>3. CASE CtrlReturn
  <2>1. /\ \E next : Continue(next)
        /\ last' = callout.sent
        /\ UNCHANGED <<in, readable, breaks, connected, threads, cts, pending, runner>>
    BY <1>3 DEF CtrlReturn
  <2>2. /\ LockType'
        /\ doing' \in SUBSET {"CTRL", "READ"} /\ flight' \in {"none", "on", "off", "in"}
    BY <1>1, <2>1, ContinueTypes
  <2>3. QED
    BY <1>1, <2>1, <2>2 DEF threads, DeviceTypes, ThreadTypes, ChipTypes, Callout
<1>4. CASE ReadCall
  <2>1. Nested(IF tx' = 0 THEN {"CTRL"} ELSE {})
        /\ UNCHANGED <<device, lock, threads, cts, doing, flight>>
    BY <1>4 DEF ReadCall
  <2>2. ChipTypes'
    BY <1>1, <2>1, NestedTypes
  <2>3. QED
    BY <1>1, <2>1, <2>2 DEF device, threads, DeviceTypes, ThreadTypes, LockType
<1>5. CASE ReadReturn
  <2>1. /\ \E next : Continue(next)
        /\ readable' = readable \/ readable' = FALSE
        /\ writer' \in {writer, "woken"}
        /\ UNCHANGED <<in, last, breaks, connected, reader, todo, wasEmpty, cts, pending, runner>>
    BY <1>5 DEF ReadReturn
  <2>2. /\ LockType'
        /\ doing' \in SUBSET {"CTRL", "READ"} /\ flight' \in {"none", "on", "off", "in"}
    BY <1>1, <2>1, ContinueTypes
  <2>3. DeviceTypes'
    BY <1>1, <2>1 DEF DeviceTypes
  <2>4. ThreadTypes'
    BY <1>1, <2>1 DEF ThreadTypes
  <2>5. ChipTypes'
    BY <1>1, <2>1, <2>2 DEF ChipTypes
  <2>6. QED
    BY <2>2, <2>3, <2>4, <2>5
<1>6. CASE WriterLoop \/ WriterWakes \/ WriterWakesAlone
  <2>1. /\ lock' \in {lock, "none"} /\ writer' \in {"waiting", "write", "aborted"}
        /\ UNCHANGED <<device, reader, todo, wasEmpty, cts, chip>>
    BY <1>6 DEF WriterLoop, WriterWakes, WriterWakesAlone, WaitEnds
  <2>2. QED
    BY <1>1, <2>1 DEF DeviceTypes, ThreadTypes, ChipTypes, LockType, device, chip
<1>7. ASSUME NEW n \in 0 .. Room, Write(n)
      PROVE  DeviceTypes' /\ ThreadTypes' /\ ChipTypes' /\ LockType'
  <2>1. /\ writer' = "loop"
        /\ UNCHANGED <<in, last, readable, breaks, connected, reader, todo, wasEmpty, cts, chip>>
    BY <1>7 DEF Write
  <2>2. LockType'
    <3>1. "writer" \in Users
      BY DEF Users
    <3>2. CASE n > 0
      BY <1>7, <3>1, <3>2, StartLocks DEF Write
    <3>3. CASE ~(n > 0)
      BY <1>7, <3>1, <3>3 DEF Write, LockType
    <3>4. QED
      BY <3>2, <3>3
  <2>3. QED
    BY <1>1, <2>1, <2>2 DEF DeviceTypes, ThreadTypes, ChipTypes, chip
<1>8. QED
  BY <1>2, <1>3, <1>4, <1>5, <1>6, <1>7 DEF Steps, Writer

(* The reader thread.                                                      *)
LEMMA ReceiveTypes ==
  ASSUME TypeOK, Receive
  PROVE  in' \in Ring /\ todo' \in Seq(Items)
<1>1. in \in Ring /\ todo \in Seq(Items) /\ todo # <<>> /\ Head(todo) # Break
  BY DEF TypeOK, Receive
<1>2. Head(todo) \in Items /\ Tail(todo) \in Seq(Items)
  BY <1>1
<1> DEFINE bad == Head(todo) = BadByte
           n == IF bad THEN 1 ELSE Head(todo)
           chars == [i \in 1 .. n |-> NoChar.byte]
           flags == IF bad THEN {"BAD_PARITY"} ELSE {}
<1>3. n \in Nat
  BY <1>2 DEF Items
<1>4. flags \in Flags
  BY <1>2, InputAssumption DEF Items, BadByte
<1>5. chars \in [1 .. n -> Bytes] /\ Len(chars) = n
  BY <1>3, NoCharTyped
<1>6. in' = Tidy(CopyIn(in, chars, flags, TRUE)) /\ todo' = Tail(todo)
  BY DEF Receive
<1> HIDE DEF chars, flags, n
<1>7. CopyIn(in, chars, flags, TRUE) \in Ring
  BY <1>1, <1>3, <1>4, <1>5, CopyInTyped
<1>8. QED
  BY <1>2, <1>6, <1>7, TidyTyped

LEMMA ScanTypes ==
  ASSUME TypeOK, Scan \/ ReaderEof \/ (\E chunk \in Chunks : ReaderGets(chunk))
  PROVE  DeviceTypes' /\ ThreadTypes' /\ ChipTypes' /\ LockType'
<1>1. DeviceTypes /\ ThreadTypes /\ ChipTypes /\ LockType
  BY TypesSplit
<1>2. "reader" \in Users
  BY DEF Users
<1>3. CASE Receive
  <2>1. UNCHANGED <<last, readable, breaks, connected, lock, reader, wasEmpty, writer, cts, chip>>
    BY <1>3 DEF Receive
  <2>2. in' \in Ring /\ todo' \in Seq(Items)
    BY <1>3, ReceiveTypes
  <2>3. QED
    BY <1>1, <2>1, <2>2 DEF DeviceTypes, ThreadTypes, ChipTypes, LockType, chip
<1>4. CASE ReceiveBreak
  <2>1. /\ reader' = "broke" /\ todo' = Tail(todo) /\ todo # <<>>
        /\ \/ UNCHANGED lock
           \/ StartCallout("reader", ctrl', readable, out, TRUE)
        /\ UNCHANGED <<in, last, readable, breaks, connected, wasEmpty, writer, cts, chip>>
    BY <1>4 DEF ReceiveBreak
  <2>2. LockType'
    BY <1>1, <1>2, <2>1, StartLocks DEF LockType
  <2>3. todo' \in Seq(Items)
    BY <1>1, <2>1 DEF ThreadTypes
  <2>4. QED
    BY <1>1, <2>1, <2>2, <2>3 DEF DeviceTypes, ThreadTypes, ChipTypes, chip
<1>5. CASE BreakSeen
  BY <1>1, <1>5 DEF BreakSeen, DeviceTypes, ThreadTypes, ChipTypes, LockType, chip
<1>6. CASE ScanEnd
  <2>1. /\ reader' = "wait"
        /\ \/ lock' = "none"
           \/ StartCallout("reader", ctrl', readable, out, FALSE)
        /\ UNCHANGED <<in, last, readable, breaks, connected, todo, wasEmpty, writer, cts, chip>>
    BY <1>6 DEF ScanEnd
  <2>2. LockType'
    BY <1>2, <2>1, StartLocks DEF LockType
  <2>3. QED
    BY <1>1, <2>1, <2>2 DEF DeviceTypes, ThreadTypes, ChipTypes, chip
<1>7. CASE ReaderEof
  BY <1>1, <1>7 DEF ReaderEof, DeviceTypes, ThreadTypes, ChipTypes, LockType, chip, device
<1>8. ASSUME NEW chunk \in Chunks, ReaderGets(chunk)
      PROVE  DeviceTypes' /\ ThreadTypes' /\ ChipTypes' /\ LockType'
  <2>1. chunk \in Seq(Items)
    BY InputAssumption
  <2>2. /\ reader' = "scan" /\ todo' = chunk /\ wasEmpty' = IsEmpty(in) /\ lock' = "reader"
        /\ UNCHANGED <<device, callout, writer, peeked, cts, chip>>
    BY <1>8 DEF ReaderGets
  <2>3. IsEmpty(in) \in BOOLEAN
    BY DEF IsEmpty
  <2>4. QED
    BY <1>1, <1>2, <2>1, <2>2, <2>3
       DEF DeviceTypes, ThreadTypes, ChipTypes, LockType, chip, device
<1>9. QED
  BY <1>3, <1>4, <1>5, <1>6, <1>7, <1>8 DEF Scan

(* The chip.                                                               *)
LEMMA ChipsTypes ==
  ASSUME TypeOK, Chip
  PROVE  DeviceTypes' /\ ThreadTypes' /\ ChipTypes' /\ LockType'
<1>1. DeviceTypes /\ ThreadTypes /\ ChipTypes /\ LockType /\ OutputTypes
  BY TypesSplit
<1>2. CASE ChipTurn \/ ChipCtrl
  <2>1. /\ doing' \in {doing, pending} /\ pending' \in {pending, {}}
        /\ runner' \in {runner, "none"} /\ flight' \in {flight, "on", "off"}
        /\ UNCHANGED <<device, lock, threads, cts>>
    BY <1>2 DEF ChipTurn, ChipCtrl
  <2>2. QED
    BY <1>1, <2>1 DEF DeviceTypes, ThreadTypes, ChipTypes, LockType, device, threads
<1>3. CASE CtrlArrives
  <2>1. /\ readable' = (flight = "on")
        /\ \/ UNCHANGED lock
           \/ StartCallout("cpu", ctrl, TRUE, out, FALSE)
        /\ flight' \in {"in", "none"} /\ doing' \in {doing, doing \ {"CTRL"}}
        /\ UNCHANGED <<in, ctrl, last, breaks, connected, threads, cts, pending, runner>>
    BY <1>3 DEF CtrlArrives
  <2>2. LockType'
    <3>1. "cpu" \in Users
      BY DEF Users
    <3>2. QED
      BY <1>1, <2>1, <3>1, StartLocks DEF LockType
  <2>3. QED
    BY <1>1, <2>1, <2>2 DEF DeviceTypes, ThreadTypes, ChipTypes, threads
<1>4. ASSUME NEW n \in 1 .. MaxRead, ReadArrives(n)
      PROVE  DeviceTypes' /\ ThreadTypes' /\ ChipTypes' /\ LockType'
  <2>1. in' = Tidy(CopyOut(in, n)) /\ n \in Nat /\ in \in Ring
    BY <1>1, <1>4 DEF ReadArrives, DeviceTypes
  <2>2. in' \in Ring
    BY <2>1, CopyOutTyped, TidyTyped
  <2>3. /\ last' \in {last, last \ {"OK_READ"}}
        /\ pending' \in {pending, pending \cup {"READ"}} /\ doing' = {}
        /\ UNCHANGED <<readable, breaks, connected, lock, threads, cts, runner, flight>>
    BY <1>4 DEF ReadArrives
  <2>4. QED
    BY <1>1, <2>2, <2>3 DEF DeviceTypes, ThreadTypes, ChipTypes, LockType, threads
<1>5. QED
  BY <1>2, <1>3, <1>4 DEF Chip

LEMMA RestTypes ==
  ASSUME TypeOK, Connect \/ Check \/ Line \/ Transmit
  PROVE  DeviceTypes' /\ ThreadTypes' /\ ChipTypes' /\ LockType'
<1>1. DeviceTypes /\ ThreadTypes /\ ChipTypes /\ LockType
  BY TypesSplit
<1>2. CASE Connect
  BY <1>1, <1>2 DEF Connect, DeviceTypes, ThreadTypes, ChipTypes, LockType, threads, chip
<1>3. CASE Check
  <2>1. /\ breaks' = IF breaks > 0 THEN breaks - 1 ELSE 0
        /\ \/ UNCHANGED lock
           \/ StartCallout("ctrl", ctrl', readable, out, FALSE)
        /\ UNCHANGED <<in, last, readable, connected, threads, cts, chip>>
    BY <1>3 DEF Check
  <2>2. LockType'
    <3>1. "ctrl" \in Users
      BY DEF Users
    <3>2. QED
      BY <1>1, <2>1, <3>1, StartLocks DEF LockType
  <2>3. QED
    BY <1>1, <2>1, <2>2 DEF DeviceTypes, ThreadTypes, ChipTypes, threads, chip
<1>4. CASE Line \/ Transmit
  <2>1. /\ cts' \in BOOLEAN /\ pending' \in {pending, pending \cup {"CTRL"}}
        /\ runner' \in {runner, "cpu"} /\ UNCHANGED <<device, lock, threads, doing, flight>>
    BY <1>1, <1>4 DEF Line, Transmit, ThreadTypes, chip
  <2>2. QED
    BY <1>1, <2>1 DEF DeviceTypes, ThreadTypes, ChipTypes, LockType, device, threads
<1>5. QED
  BY <1>2, <1>3, <1>4

LEMMA NextTypes == IInv' /\ TypeOK /\ [Next]_vars => TypeOK'
<1> SUFFICES ASSUME IInv', TypeOK, [Next]_vars PROVE TypeOK'
  OBVIOUS
<1>1. OutputTypes'
  BY DEF IInv
<1>2. CASE UNCHANGED vars
  BY <1>2 DEF vars, device, threads, chip, TypeOK
<1>3. CASE Next
  <2>1. DeviceTypes' /\ ThreadTypes' /\ ChipTypes' /\ LockType'
    BY <1>3, LoopTypes, ScanTypes, ChipsTypes, RestTypes DEF Next
  <2>2. QED
    BY <1>1, <2>1 DEF TypeOK, OutputTypes, DeviceTypes, ThreadTypes, ChipTypes, LockType
<1>4. QED
  BY <1>2, <1>3

(* Every variable of the device and the chip keeps its type, and both      *)
(* rings their shape: for any sizes, any characters, whatever the host     *)
(* gives, and with either kind of threads.                                 *)
THEOREM DeviceTypeCorrect == Spec => []TypeOK
<1>1. IInv /\ TypeOK /\ [Next]_vars => IInv' /\ TypeOK'
  BY NextIInv, NextTypes
<1>2. Init => IInv /\ TypeOK
  BY InitIInv, InitTypes
<1>3. QED
  BY <1>1, <1>2, PTL DEF Spec

-----------------------------------------------------------------------------
(* With cooperative threads nothing is left undone.                        *)

(* Who holds the mutex between two steps found nobody in a callout, nobody *)
(* starts one for a device that is not connected, the chip's loop has what *)
(* it is to do, and the reader keeps the mutex while it scans.             *)
CallsNest ==
    /\ callout.at = "idle" => callout = Idle
    /\ lock # "none" => callout = Idle /\ runner = "none"
    /\ ~connected => callout = Idle /\ runner = "none"
    /\ runner = "none" => pending = {} /\ doing = {} /\ flight = "none"
    /\ callout # Idle /\ runner = "cpu" => callout.by = "cpu"
    /\ callout.by = "cpu" => flight = "in"
    /\ reader = "scan" => lock = "reader"
    /\ reader = "broke" => lock = "reader" \/ callout.by = "reader"

(* Control changes that were not called out are still to be.               *)
ControlOwed ==
    /\ connected /\ callout = Idle => ctrl = last
    /\ callout.at \in {"read", "readDone"} /\ ~callout.again => ctrl = last

(* The chip has been told of input, or is about to be.                     *)
Coming ==
    \/ "READ" \in pending \cup doing
    \/ callout.at = "ctrl" /\ "OK_READ" \in callout.sent

(* It is to be told of input on connecting.                                *)
Unconnected == ~connected /\ "OK_READ" \in ctrl

Scanning == reader \in {"scan", "broke"}

(* Input is found by the reader thread, or announced.                      *)
InputOwed ==
    /\ ~IsEmpty(in) => (Scanning /\ wasEmpty) \/ Unconnected \/ Coming
    /\ Scanning => wasEmpty \/ Unconnected
    /\ connected /\ "OK_READ" \in ctrl => Coming
    /\ ~connected => "OK_READ" \notin last

(* The device knows of output, or is about to be told; and what it knows   *)
(* of it fetches, if it has room.                                          *)
OutputOwed ==
    /\ tx > 0 => readable \/ "CTRL" \in pending \/ ("CTRL" \in doing /\ flight # "in")
    /\ flight = "off" => tx = 0
    /\ connected /\ callout = Idle /\ readable => out = Room
    /\ ~connected => ~readable
    /\ callout.at = "read" => callout.count > 0
    /\ callout.at = "readDone" /\ callout.count = 0 => tx = 0
    /\ writer = "waiting" => out = 0

Cooperative == CallsNest /\ ControlOwed /\ InputOwed /\ OutputOwed

-----------------------------------------------------------------------------
(* What the callout loop goes on with.                                     *)

(* f is what the loop of a caller by goes on with when the outputs are c,  *)
(* those called out l, the chip is readable or not, and the output buffer  *)
(* has n characters.                                                       *)
TurnFor(f, by, c, l, ok, n) ==
    /\ f.at \in {"idle", "ctrl", "read"}
    /\ f.at = "idle" => f = Idle /\ c = l /\ (ok => n = Room)
    /\ f.at # "idle" => f.by = by
    /\ f.at = "read" => f.count > 0 /\ (c = l \/ f.again)
    /\ f.at = "ctrl" => f.sent = c

LEMMA FromTopIs ==
  ASSUME NEW by, NEW c, NEW l, NEW ok \in BOOLEAN, NEW n \in 0 .. Room
  PROVE  /\ TurnFor(FromTop(by, c, l, ok, n), by, c, l, ok, n)
         /\ c # l => FromTop(by, c, l, ok, n).at = "ctrl"
<1> DEFINE f == FromTop(by, c, l, ok, n)
<1>1. CASE c # l
  BY <1>1 DEF FromTop, TurnFor
<1>2. CASE c = l /\ ok /\ n < Room
  <2>1. f = [at |-> "read", by |-> by, sent |-> {}, again |-> FALSE, count |-> Room - n]
    BY <1>2 DEF FromTop, Reading, Asks
  <2>2. f.at = "read" /\ f.by = by /\ f.count = Room - n
    BY <2>1
  <2>3. Room - n > 0
    BY <1>2
  <2> HIDE DEF f
  <2>4. TurnFor(f, by, c, l, ok, n)
    BY <1>2, <2>2, <2>3 DEF TurnFor
  <2>5. QED
    BY <1>2, <2>4 DEF f
<1>3. CASE c = l /\ ~(ok /\ n < Room)
  <2>1. f = Idle
    BY <1>3 DEF FromTop, Reading
  <2>2. ok => n = Room
    BY <1>3
  <2>3. QED
    BY <1>3, <2>1, <2>2 DEF TurnFor, Idle
<1>4. QED
  BY <1>1, <1>2, <1>3

(* The second half of a turn that called out a control change.             *)
LEMMA SecondHalfIs ==
  ASSUME NEW by, NEW c, NEW l, NEW ok \in BOOLEAN, NEW n \in 0 .. Room
  PROVE  TurnFor(Reading(by, ok, n, TRUE, FromTop(by, c, l, ok, n)), by, c, l, ok, n)
<1> DEFINE f == Reading(by, ok, n, TRUE, FromTop(by, c, l, ok, n))
<1>1. CASE ok /\ n < Room
  <2>1. f = [at |-> "read", by |-> by, sent |-> {}, again |-> TRUE, count |-> Room - n]
    BY <1>1 DEF Reading, Asks
  <2> HIDE DEF f
  <2>2. f.at = "read" /\ f.by = by /\ f.count = Room - n
    BY <2>1
  <2>3. f.again
    BY <2>1, Zenon
  <2>4. Room - n > 0
    BY <1>1
  <2>5. TurnFor(f, by, c, l, ok, n)
    BY <2>2, <2>3, <2>4 DEF TurnFor
  <2>6. QED
    BY <2>5 DEF f
<1>2. CASE ~(ok /\ n < Room)
  <2>1. f = FromTop(by, c, l, ok, n)
    BY <1>2 DEF Reading
  <2>2. QED
    BY <2>1, FromTopIs
<1>3. QED
  BY <1>1, <1>2

(* A call of the loop that finds it not running.                           *)
LEMMA StartIs ==
  ASSUME TypeOK, callout = Idle, NEW by \in Users, NEW c, NEW ok \in BOOLEAN,
         NEW n \in 0 .. Room, NEW keeps, StartCallout(by, c, ok, n, keeps)
  PROVE  /\ ~connected => callout' = Idle
         /\ connected => /\ TurnFor(callout', by, c, last, ok, n)
                         /\ c # last => callout'.at = "ctrl"
         /\ callout'.at = "idle" => callout' = Idle
         /\ lock' = IF keeps /\ callout'.by # by THEN by ELSE "none"
         /\ callout' = Idle \/ callout'.by = by
<1>1. ~Running
  BY DEF Running, Idle
<1>2. CASE ~connected
  <2>1. callout' = Idle
    BY <1>2 DEF StartCallout
  <2>2. QED
    BY <1>2, <2>1 DEF StartCallout
<1>3. CASE connected
  <2>1. callout' = FromTop(by, c, last, ok, n)
    BY <1>1, <1>3 DEF StartCallout
  <2>2. QED
    BY <1>3, <2>1, FromTopIs DEF StartCallout, TurnFor
<1>4. QED
  BY <1>2, <1>3

-----------------------------------------------------------------------------
(* Steps while no callout loop is running.                                 *)

LEMMA IdleIs == Idle.at = "idle" /\ Idle.by = "none"
BY DEF Idle

(* Nobody is told of anything then.                                        *)
LEMMA NothingComing ==
  ASSUME CallsNest, callout = Idle, runner = "none"
  PROVE  ~Coming
BY IdleIs DEF CallsNest, Coming

LEMMA MayRunIs ==
  ASSUME ~Preemptive, CallsNest, MayRun
  PROVE  callout = Idle /\ runner = "none" /\ lock = "none"
BY DEF MayRun, Running, CallsNest

(* A step that starts no callout.                                          *)
LEMMA QuietOwes ==
  ASSUME Cooperative,
         UNCHANGED <<out, ctrl, last, readable, connected, callout, chip>>,
         lock' # "none" => callout = Idle /\ runner = "none",
         reader' = "scan" => lock' = "reader",
         reader' = "broke" => lock' = "reader" \/ callout.by = "reader",
         ~IsEmpty(in') => (Scanning' /\ wasEmpty') \/ Unconnected \/ Coming,
         Scanning' => wasEmpty' \/ Unconnected,
         writer' = "waiting" => out = 0
  PROVE  Cooperative'
<1>1. UNCHANGED <<tx, pending, runner, doing, flight>>
  BY DEF chip
<1>2. CallsNest'
  BY <1>1 DEF Cooperative, CallsNest
<1>3. ControlOwed'
  BY <1>1 DEF Cooperative, ControlOwed
<1>4. Coming' = Coming /\ Unconnected' = Unconnected
  BY <1>1 DEF Coming, Unconnected
<1>5. InputOwed'
  BY <1>1, <1>4 DEF Cooperative, InputOwed
<1>6. OutputOwed'
  BY <1>1 DEF Cooperative, OutputOwed
<1>7. QED
  BY <1>2, <1>3, <1>5, <1>6 DEF Cooperative

(* A step of somebody who starts the loop.                                 *)
LEMMA StartOwes ==
  ASSUME TypeOK, Cooperative, callout = Idle, runner = "none",
         NEW by \in Users \ {"cpu"}, NEW keeps, ctrl' \in SUBSET CtrlBits, out' \in 0 .. Room,
         StartCallout(by, ctrl', readable, out', keeps),
         UNCHANGED <<last, readable, connected, chip>>,
         ~connected /\ "OK_READ" \in ctrl => "OK_READ" \in ctrl',
         reader' = "broke" => by = "reader" /\ keeps,
         reader' # "scan",
         ~IsEmpty(in') => (Scanning' /\ wasEmpty') \/ "OK_READ" \in ctrl',
         Scanning' => wasEmpty' \/ Unconnected,
         writer' = "waiting" => out' = 0
  PROVE  Cooperative'
<1>1. /\ CallsNest /\ ControlOwed /\ InputOwed /\ OutputOwed /\ ~Coming
      /\ UNCHANGED <<tx, pending, runner, doing, flight>>
  BY NothingComing DEF Cooperative, chip
<1>2. /\ ~connected => callout' = Idle
      /\ connected => /\ TurnFor(callout', by, ctrl', last, readable, out')
                      /\ ctrl' # last => callout'.at = "ctrl"
      /\ callout'.at = "idle" => callout' = Idle
      /\ lock' = IF keeps /\ callout'.by # by THEN by ELSE "none"
      /\ callout' = Idle \/ callout'.by = by
  <2>1. readable \in BOOLEAN /\ by \in Users
    BY DEF TypeOK
  <2>2. QED
    BY <2>1, StartIs
<1>3. by # "none" /\ by # "cpu"
  BY DEF Users
<1>4. CallsNest'
  BY <1>1, <1>2, <1>3, IdleIs DEF CallsNest
<1>5. ControlOwed'
  BY <1>1, <1>2, IdleIs DEF ControlOwed, TurnFor
<1>6. connected /\ "OK_READ" \in ctrl' => Coming'
  <2> SUFFICES ASSUME connected, "OK_READ" \in ctrl' PROVE Coming'
    OBVIOUS
  <2>1. "OK_READ" \notin last
    BY <1>1 DEF InputOwed, ControlOwed
  <2>2. callout'.at = "ctrl" /\ callout'.sent = ctrl'
    BY <1>2, <2>1 DEF TurnFor
  <2>3. QED
    BY <2>2 DEF Coming
<1>7. InputOwed'
  BY <1>1, <1>6 DEF InputOwed, Unconnected
<1>8. OutputOwed'
  BY <1>1, <1>2, IdleIs DEF OutputOwed, TurnFor
<1>9. QED
  BY <1>4, <1>5, <1>7, <1>8 DEF Cooperative

-----------------------------------------------------------------------------
(* The threads of the device.                                              *)

LEMMA CooperativeIs ==
  ASSUME Cooperative
  PROVE  CallsNest /\ ControlOwed /\ InputOwed /\ OutputOwed
BY DEF Cooperative

LEMMA WriterOwes ==
  ASSUME ~Preemptive, TypeOK, IInv, IInv', Cooperative, Writer
  PROVE  Cooperative'
<1>1. CallsNest /\ ControlOwed /\ InputOwed /\ OutputOwed
  BY CooperativeIs
<1>2. CASE WriterLoop
  <2>1. /\ writer' = IF out = 0 THEN "waiting" ELSE "write"
        /\ lock' = "none"
        /\ UNCHANGED <<in, out, ctrl, last, readable, connected, callout, chip, reader, wasEmpty>>
    BY <1>2 DEF WriterLoop, device
  <2>2. callout = Idle /\ lock # "reader"
    <3>1. lock = "writer" \/ (MayRun /\ lock = "none")
      BY <1>2 DEF WriterLoop, MayLock
    <3>2. QED
      BY <1>1, <3>1, MayRunIs DEF CallsNest
  <2>3. reader # "scan" /\ reader # "broke"
    BY <1>1, <2>2, IdleIs DEF CallsNest
  <2>4. QED
    BY <1>1, <2>1, <2>2, <2>3, QuietOwes DEF InputOwed, Scanning
<1>3. CASE WriterWakes \/ WriterWakesAlone
  <2>1. /\ MayRun /\ writer' = IF out > 0 THEN "write" ELSE "waiting"
        /\ UNCHANGED <<in, out, ctrl, last, readable, connected, callout, chip, lock, reader,
                       wasEmpty>>
    BY <1>3 DEF WriterWakes, WriterWakesAlone, WaitEnds, MayLock, device
  <2>2. writer' = "waiting" => out = 0
    BY <2>1 DEF TypeOK
  <2>3. QED
    BY <1>1, <2>1, <2>2, QuietOwes DEF CallsNest, InputOwed, Scanning
<1>4. ASSUME NEW n \in 0 .. Room, Write(n) PROVE Cooperative'
  <2>1. /\ MayRun /\ out' = out - n /\ writer' = "loop"
        /\ UNCHANGED <<in, ctrl, last, readable, connected, chip, reader, wasEmpty>>
    BY <1>4 DEF Write, MayLock
  <2>2. callout = Idle /\ runner = "none" /\ lock = "none" /\ ~Coming
    BY <1>1, <2>1, MayRunIs, NothingComing
  <2>3. reader # "scan" /\ reader # "broke"
    BY <1>1, <2>2, IdleIs DEF CallsNest
  <2>4. CASE n > 0
    <3>1. StartCallout("writer", ctrl', readable, out', TRUE)
      BY <1>4, <2>1, <2>4 DEF Write
    <3>2. "writer" \in Users \ {"cpu"} /\ ctrl' \in SUBSET CtrlBits /\ out' \in 0 .. Room
      BY <2>1 DEF Users, TypeOK, IInv, OutputTypes
    <3>3. ~IsEmpty(in') => "OK_READ" \in ctrl'
      BY <1>1, <2>1, <2>2, <2>3 DEF InputOwed, Scanning, Unconnected
    <3>4. QED
      BY <2>1, <2>2, <2>3, <3>1, <3>2, <3>3, StartOwes DEF Scanning
  <2>5. CASE ~(n > 0)
    <3>1. UNCHANGED <<callout, out>> /\ lock' = "writer"
      BY <1>4, <2>1, <2>5 DEF Write, TypeOK
    <3>2. QED
      BY <1>1, <2>1, <2>2, <2>3, <3>1, QuietOwes DEF InputOwed, Scanning
  <2>6. QED
    BY <2>4, <2>5
<1>5. QED
  BY <1>2, <1>3, <1>4 DEF Writer

LEMMA ReaderOwes ==
  ASSUME ~Preemptive, TypeOK, IInv', Cooperative,
         Scan \/ ReaderEof \/ (\E chunk \in Chunks : ReaderGets(chunk))
  PROVE  Cooperative'
<1>1. CallsNest /\ ControlOwed /\ InputOwed /\ OutputOwed
  BY CooperativeIs
<1>2. CASE \E chunk \in Chunks : ReaderGets(chunk)
  <2>1. /\ MayRun /\ reader = "wait" /\ reader' = "scan" /\ lock' = "reader"
        /\ wasEmpty' = IsEmpty(in)
        /\ UNCHANGED <<in, out, ctrl, last, readable, connected, callout, chip, writer>>
    BY <1>2 DEF ReaderGets, MayLock, device
  <2>2. callout = Idle /\ runner = "none" /\ ~Coming
    BY <1>1, <2>1, MayRunIs, NothingComing
  <2>3. ~IsEmpty(in) => Unconnected
    BY <1>1, <2>1, <2>2 DEF InputOwed, Scanning
  <2>4. QED
    BY <1>1, <2>1, <2>2, <2>3, QuietOwes DEF OutputOwed
<1>3. CASE ReaderEof
  <2>1. /\ MayRun /\ reader = "wait" /\ reader' = "gone"
        /\ UNCHANGED <<in, out, ctrl, last, readable, connected, callout, chip, lock, writer>>
    BY <1>3 DEF ReaderEof, MayLock, device
  <2>2. QED
    BY <1>1, <2>1, QuietOwes DEF CallsNest, InputOwed, OutputOwed, Scanning
<1>4. CASE Receive
  <2>1. /\ reader = "scan" /\ lock = "reader"
        /\ UNCHANGED <<out, ctrl, last, readable, connected, callout, chip, lock, reader,
                       wasEmpty, writer>>
    BY <1>4 DEF Receive
  <2>2. callout = Idle /\ runner = "none"
    BY <1>1, <2>1 DEF CallsNest
  <2>3. wasEmpty \/ Unconnected
    BY <1>1, <2>1 DEF InputOwed, Scanning
  <2>4. QED
    BY <1>1, <2>1, <2>2, <2>3, QuietOwes DEF OutputOwed, Scanning
<1>5. CASE ReceiveBreak
  <2>1. /\ reader = "scan" /\ lock = "reader" /\ reader' = "broke" /\ ctrl' = ctrl \cup {"BREAK"}
        /\ UNCHANGED <<in, out, last, readable, connected, chip, wasEmpty, writer>>
    BY <1>5 DEF ReceiveBreak
  <2>2. callout = Idle /\ runner = "none" /\ ~Coming
    BY <1>1, <2>1, NothingComing DEF CallsNest
  <2>3. wasEmpty \/ Unconnected
    BY <1>1, <2>1 DEF InputOwed, Scanning
  <2>4. CASE "BREAK" \in ctrl
    <3>1. UNCHANGED <<callout, lock, ctrl>>
      BY <1>5, <2>1, <2>4 DEF ReceiveBreak
    <3>2. QED
      BY <1>1, <2>1, <2>2, <2>3, <3>1, QuietOwes DEF OutputOwed, Scanning
  <2>5. CASE "BREAK" \notin ctrl
    <3>1. StartCallout("reader", ctrl', readable, out', TRUE)
      BY <1>5, <2>1, <2>5 DEF ReceiveBreak
    <3>2. "reader" \in Users \ {"cpu"} /\ ctrl' \in SUBSET CtrlBits /\ out' \in 0 .. Room
      BY DEF Users, IInv, OutputTypes
    <3>3. QED
      BY <1>1, <2>1, <2>2, <2>3, <3>1, <3>2, StartOwes DEF OutputOwed, Scanning, Unconnected
  <2>6. QED
    BY <2>4, <2>5
<1>6. CASE BreakSeen
  <2>1. /\ reader = "broke" /\ lock = "reader" /\ reader' = "scan"
        /\ UNCHANGED <<in, out, ctrl, last, readable, connected, callout, chip, lock,
                       wasEmpty, writer>>
    BY <1>6 DEF BreakSeen
  <2>2. QED
    BY <1>1, <2>1, QuietOwes DEF CallsNest, InputOwed, OutputOwed, Scanning
<1>7. CASE ScanEnd
  <2>1. /\ reader = "scan" /\ lock = "reader" /\ reader' = "wait"
        /\ UNCHANGED <<in, out, last, readable, connected, chip, wasEmpty, writer>>
    BY <1>7 DEF ScanEnd
  <2>2. callout = Idle /\ runner = "none" /\ ~Coming
    BY <1>1, <2>1, NothingComing DEF CallsNest
  <2>3. CASE wasEmpty /\ ~IsEmpty(in)
    <3>1. ctrl' = ctrl \cup {"OK_READ"} /\ StartCallout("reader", ctrl', readable, out', FALSE)
      BY <1>7, <2>1, <2>3 DEF ScanEnd
    <3>2. "reader" \in Users \ {"cpu"} /\ ctrl' \in SUBSET CtrlBits /\ out' \in 0 .. Room
      BY DEF Users, IInv, OutputTypes
    <3>3. QED
      BY <1>1, <2>1, <2>2, <3>1, <3>2, StartOwes DEF OutputOwed, Scanning
  <2>4. CASE ~(wasEmpty /\ ~IsEmpty(in))
    <3>1. lock' = "none" /\ UNCHANGED <<ctrl, callout>>
      BY <1>7, <2>4 DEF ScanEnd
    <3>2. ~IsEmpty(in) => Unconnected
      BY <1>1, <2>1, <2>2, <2>4 DEF InputOwed, Scanning
    <3>3. QED
      BY <1>1, <2>1, <2>2, <3>1, <3>2, QuietOwes DEF OutputOwed, Scanning
  <2>5. QED
    BY <2>3, <2>4
<1>8. QED
  BY <1>2, <1>3, <1>4, <1>5, <1>6, <1>7 DEF Scan

(* The control thread, a modem line and the connection.                    *)
LEMMA RestOwes ==
  ASSUME ~Preemptive, TypeOK, IInv', Cooperative, Connect \/ Check \/ Line
  PROVE  Cooperative'
<1>1. CallsNest /\ ControlOwed /\ InputOwed /\ OutputOwed
  BY CooperativeIs
<1>2. CASE Line
  <2>1. UNCHANGED <<in, out, ctrl, last, readable, connected, callout, chip, lock, reader,
                    wasEmpty, writer>>
    BY <1>2 DEF Line, device, threads
  <2>2. QED
    BY <1>1, <2>1, QuietOwes DEF CallsNest, InputOwed, OutputOwed, Scanning
<1>3. CASE Check
  <2>1. /\ MayRun
        /\ "OK_READ" \in ctrl' <=> "OK_READ" \in ctrl
        /\ \/ UNCHANGED <<ctrl, callout, lock>>
           \/ StartCallout("ctrl", ctrl', readable, out', FALSE)
        /\ UNCHANGED <<in, out, last, readable, connected, chip, reader, wasEmpty, writer>>
    BY <1>3 DEF Check, MayLock, threads
  <2>2. callout = Idle /\ runner = "none" /\ lock = "none" /\ ~Coming
    BY <1>1, <2>1, MayRunIs, NothingComing
  <2>3. reader # "scan" /\ reader # "broke"
    BY <1>1, <2>2, IdleIs DEF CallsNest
  <2>4. CASE UNCHANGED <<ctrl, callout, lock>>
    BY <1>1, <2>1, <2>2, <2>3, <2>4, QuietOwes DEF InputOwed, OutputOwed, Scanning
  <2>5. CASE StartCallout("ctrl", ctrl', readable, out', FALSE)
    <3>1. "ctrl" \in Users \ {"cpu"} /\ ctrl' \in SUBSET CtrlBits /\ out' \in 0 .. Room
      BY DEF Users, IInv, OutputTypes
    <3>2. ~IsEmpty(in') => "OK_READ" \in ctrl'
      BY <1>1, <2>1, <2>2, <2>3 DEF InputOwed, Scanning, Unconnected
    <3>3. QED
      BY <1>1, <2>1, <2>2, <2>3, <2>5, <3>1, <3>2, StartOwes DEF OutputOwed, Scanning
  <2>6. QED
    BY <2>1, <2>4, <2>5
<1>4. CASE Connect
  <2>1. /\ MayRun /\ ~connected /\ connected'
        /\ callout' = FromTop("main", ctrl, last, readable, out)
        /\ UNCHANGED <<in, out, ctrl, last, readable, chip, lock, reader, wasEmpty, writer>>
    BY <1>4 DEF Connect, MayLock, threads
  <2>2. callout = Idle /\ runner = "none" /\ lock = "none" /\ ~Coming
    BY <1>1, <2>1, MayRunIs, NothingComing
  <2>3. reader # "scan" /\ reader # "broke"
    BY <1>1, <2>2, IdleIs DEF CallsNest
  <2>4. /\ TurnFor(callout', "main", ctrl, last, readable, out)
        /\ ctrl # last => callout'.at = "ctrl"
    <3>1. "main" \in Users /\ readable \in BOOLEAN /\ out \in 0 .. Room
      BY DEF Users, TypeOK
    <3>2. QED
      BY <2>1, <3>1, FromTopIs
  <2>5. UNCHANGED <<tx, pending, runner, doing, flight>>
    BY <2>1 DEF chip
  <2>6. CallsNest'
    BY <1>1, <2>1, <2>2, <2>3, <2>4, <2>5, IdleIs DEF CallsNest, TurnFor
  <2>7. ControlOwed'
    BY <2>1, <2>4, IdleIs DEF ControlOwed, TurnFor
  <2>8. "OK_READ" \in ctrl => Coming'
    <3>1. "OK_READ" \notin last
      BY <1>1, <2>1 DEF InputOwed
    <3>2. QED
      BY <2>4, <3>1 DEF TurnFor, Coming
  <2>9. InputOwed'
    BY <1>1, <2>1, <2>2, <2>3, <2>8 DEF InputOwed, Scanning, Unconnected
  <2>10. OutputOwed'
    BY <1>1, <2>1, <2>4, <2>5, IdleIs DEF OutputOwed, TurnFor
  <2>11. QED
    BY <2>6, <2>7, <2>9, <2>10 DEF Cooperative
<1>5. QED
  BY <1>2, <1>3, <1>4

-----------------------------------------------------------------------------
(* The callout loop.                                                       *)

(* A callout that is running.                                              *)
LEMMA RunningIs ==
  ASSUME CallsNest, callout.at \in {"ctrl", "ctrlDone", "read", "readDone"}
  PROVE  callout # Idle /\ lock = "none" /\ connected
BY IdleIs DEF CallsNest

(* The loop goes on with the state it has now, or returns.                 *)
LEMMA ContinueOwes ==
  ASSUME TypeOK, Cooperative, callout.at \in {"ctrlDone", "readDone"}, runner # "nested",
         NEW next, Continue(next),
         TurnFor(next, callout.by, ctrl', last', readable', out'),
         UNCHANGED <<in, ctrl, connected, tx, pending, runner, reader, wasEmpty>>,
         readable' = readable \/ tx = 0,
         writer' = "waiting" => out' = 0
  PROVE  Cooperative'
<1>1. /\ CallsNest /\ ControlOwed /\ InputOwed /\ OutputOwed
      /\ callout # Idle /\ lock = "none" /\ connected
  BY CooperativeIs, RunningIs
<1>2. /\ callout' = next
      /\ lock' = IF next = Idle /\ KeepsLock(callout.by) THEN callout.by ELSE "none"
      /\ next # Idle \/ callout.by # "cpu" => flight' = flight /\ doing' = doing
      /\ flight' \in {flight, "none"} /\ doing' \in {doing, doing \ {"CTRL"}}
  BY DEF Continue
<1>3. /\ next.at = "idle" => next = Idle
      /\ next = Idle \/ next.by = callout.by
  BY DEF TurnFor
<1>4. runner = "none" \/ callout.by = "cpu"
  <2>1. runner \in {"none", "cpu"}
    BY DEF TypeOK
  <2>2. QED
    BY <1>1, <2>1 DEF CallsNest
<1>5. CallsNest'
  <2>1. lock' # "none" => callout' = Idle /\ runner = "none"
    BY <1>2, <1>4 DEF KeepsLock
  <2>2. callout'.by = "cpu" => flight' = "in"
    BY <1>1, <1>2, <1>3, IdleIs DEF CallsNest
  <2>3. /\ reader # "scan"
        /\ reader = "broke" => lock' = "reader" \/ callout'.by = "reader"
    BY <1>1, <1>2, <1>3 DEF CallsNest, KeepsLock
  <2>4. runner = "none" => pending = {} /\ doing' = {} /\ flight' = "none"
    BY <1>1, <1>2 DEF CallsNest
  <2>5. callout' # Idle /\ runner = "cpu" => callout'.by = "cpu"
    BY <1>1, <1>2, <1>3 DEF CallsNest
  <2>6. QED
    BY <1>1, <1>2, <1>3, <2>1, <2>2, <2>3, <2>4, <2>5 DEF CallsNest
<1>6. ControlOwed'
  BY <1>2, IdleIs DEF ControlOwed, TurnFor
<1>7. InputOwed'
  <2>1. Coming => Coming'
    BY <1>2 DEF Coming
  <2>2. QED
    BY <1>1, <2>1 DEF InputOwed, Scanning, Unconnected
<1>8. OutputOwed'
  <2>1. "CTRL" \in doing /\ flight # "in" => "CTRL" \in doing' /\ flight' # "in"
    BY <1>1, <1>2 DEF CallsNest
  <2>2. QED
    BY <1>1, <1>2, <2>1, IdleIs DEF OutputOwed, TurnFor
<1>9. QED
  BY <1>5, <1>6, <1>7, <1>8 DEF Cooperative

(* The functions of the chip that the loop calls.                          *)
LEMMA CallOwes ==
  ASSUME TypeOK, Cooperative, CtrlCall \/ ReadCall
  PROVE  Cooperative'
<1>1. CallsNest /\ ControlOwed /\ InputOwed /\ OutputOwed
  BY CooperativeIs
<1>2. /\ callout.at \in {"ctrl", "read"}
      /\ pending \subseteq pending'
      /\ runner' \in {runner, "nested"} /\ (runner' = "none" => pending' = {})
      /\ UNCHANGED <<device, lock, threads, doing, flight>>
  BY DEF CtrlCall, ReadCall, Nested
<1>3. callout # Idle /\ lock = "none" /\ connected /\ callout \in Callout
  BY <1>1, <1>2, RunningIs DEF TypeOK
<1>4. UNCHANGED <<in, out, ctrl, last, readable, connected, reader, wasEmpty, writer>>
  BY <1>2 DEF device, threads
<1>5. /\ callout'.by = callout.by /\ callout'.at \in {"ctrlDone", "readDone"}
      /\ callout.at = "ctrl" => callout'.at = "ctrlDone"
      /\ callout' # Idle
  <2>1. CASE CtrlCall
    BY <1>3, <2>1, IdleIs DEF CtrlCall, Callout
  <2>2. CASE ReadCall
    BY <1>3, <2>2, IdleIs DEF ReadCall, Callout
  <2>3. QED
    BY <2>1, <2>2
<1>6. CallsNest'
  BY <1>1, <1>2, <1>3, <1>4, <1>5 DEF CallsNest
<1>7. CASE CtrlCall
  <2>1. callout.at = "ctrl" /\ tx' = tx
    BY <1>7 DEF CtrlCall
  <2>2. ControlOwed'
    BY <1>5, <2>1 DEF ControlOwed
  <2>3. Coming => Coming'
    BY <1>2, <1>7 DEF Coming, CtrlCall, Nested
  <2>4. InputOwed'
    BY <1>1, <1>4, <2>3 DEF InputOwed, Scanning, Unconnected
  <2>5. OutputOwed'
    BY <1>1, <1>2, <1>3, <1>4, <1>5, <2>1 DEF OutputOwed
  <2>6. QED
    BY <1>6, <2>2, <2>4, <2>5 DEF Cooperative
<1>8. CASE ReadCall
  <2> DEFINE n == Min({callout.count, tx})
  <2>1. callout.at = "read" /\ tx' = tx - n /\ tx \in Nat /\ callout.count \in Nat
    BY <1>3, <1>8 DEF ReadCall, TypeOK, Callout
  <2>2. n \in 0 .. tx /\ (n = 0 /\ callout.count > 0 => tx = 0)
    BY <2>1, MinOfTwo
  <2>3. /\ callout' = [callout EXCEPT !.at = "readDone", !.count = n]
    BY <1>8 DEF ReadCall
  <2> HIDE DEF n
  <2>4. callout'.at = "readDone" /\ callout'.count = n
    BY <1>3, <2>3 DEF Callout
  <2>5. callout'.again = callout.again
    BY <1>3, <2>3 DEF Callout
  <2>6. ControlOwed'
    BY <1>1, <1>4, <1>5, <2>1, <2>5 DEF ControlOwed
  <2>7. Coming => Coming'
    BY <1>2, <2>1 DEF Coming
  <2>8. InputOwed'
    BY <1>1, <1>4, <2>7 DEF InputOwed, Scanning, Unconnected
  <2>9. OutputOwed'
    <3>1. callout.count > 0
      BY <1>1, <2>1 DEF OutputOwed
    <3>2. (n = 0 => tx' = 0) /\ (tx = 0 => tx' = 0) /\ (tx' > 0 => tx > 0)
      BY <2>1, <2>2, <3>1
    <3>3. QED
      BY <1>1, <1>2, <1>3, <1>4, <1>5, <2>4, <3>2 DEF OutputOwed
  <2>10. QED
    BY <1>6, <2>6, <2>8, <2>9 DEF Cooperative
<1>9. QED
  BY <1>7, <1>8

(* What the loop does with their answers.                                  *)
LEMMA ReturnOwes ==
  ASSUME TypeOK, IInv, IInv', Cooperative, CtrlReturn \/ ReadReturn
  PROVE  Cooperative'
<1>1. /\ CallsNest /\ ControlOwed /\ InputOwed /\ OutputOwed
      /\ out \in 0 .. Room /\ callout \in Callout /\ tx \in Nat
  BY CooperativeIs DEF TypeOK
<1>2. CASE CtrlReturn
  <2> DEFINE next == Reading(callout.by, readable, out, TRUE,
                             FromTop(callout.by, ctrl, callout.sent, readable, out))
  <2>1. /\ callout.at \in {"ctrlDone", "readDone"} /\ runner # "nested"
        /\ last' = callout.sent /\ Continue(next)
        /\ UNCHANGED <<in, out, ctrl, readable, connected, tx, pending, runner, reader,
                       wasEmpty, writer>>
    BY <1>2 DEF CtrlReturn, threads
  <2>2. TurnFor(next, callout.by, ctrl, callout.sent, readable, out)
    <3>1. readable \in BOOLEAN
      BY DEF TypeOK
    <3>2. QED
      BY <1>1, <3>1, SecondHalfIs
  <2> HIDE DEF next
  <2>3. TurnFor(next, callout.by, ctrl', last', readable', out')
    BY <2>1, <2>2
  <2>4. writer' = "waiting" => out' = 0
    BY <1>1, <2>1 DEF OutputOwed
  <2>5. QED
    BY <2>1, <2>3, <2>4, ContinueOwes
<1>3. CASE ReadReturn
  <2> DEFINE n == Min({out + callout.count, Room})
  <2>1. /\ callout.at = "readDone" /\ callout.at \in {"ctrlDone", "readDone"}
        /\ runner # "nested"
        /\ UNCHANGED <<in, ctrl, last, connected, tx, pending, runner, reader, wasEmpty>>
    BY <1>3 DEF ReadReturn
  <2>2. CASE callout.count > 0
    <3>1. /\ out' = n /\ writer' = IF writer = "waiting" THEN "woken" ELSE writer
          /\ readable' = readable
          /\ Continue(FromTop(callout.by, ctrl, last, readable, n))
      BY <1>3, <2>2 DEF ReadReturn
    <3> HIDE DEF n
    <3>2. writer' # "waiting" /\ out' \in 0 .. Room
      BY <3>1 DEF IInv, OutputTypes
    <3>3. TurnFor(FromTop(callout.by, ctrl, last, readable, n),
                  callout.by, ctrl', last', readable', out')
      <4>1. readable \in BOOLEAN /\ n \in 0 .. Room
        BY <3>1, <3>2 DEF TypeOK
      <4>2. QED
        BY <2>1, <3>1, <4>1, FromTopIs
    <3>4. QED
      BY <2>1, <3>1, <3>2, <3>3, ContinueOwes
  <2>3. CASE ~(callout.count > 0)
    <3> DEFINE next == IF callout.again THEN FromTop(callout.by, ctrl, last, FALSE, out)
                       ELSE Idle
    <3>1. /\ readable' = FALSE /\ UNCHANGED <<out, writer>> /\ Continue(next)
      BY <1>3, <2>3 DEF ReadReturn
    <3>2. tx = 0
      BY <1>1, <2>1, <2>3 DEF OutputOwed, Callout
    <3>3. TurnFor(next, callout.by, ctrl, last, FALSE, out)
      <4>1. CASE callout.again
        BY <1>1, <4>1, FromTopIs
      <4>2. CASE ~callout.again
        <5>1. ctrl = last
          BY <1>1, <2>1, <4>2 DEF ControlOwed
        <5>2. next = Idle
          BY <4>2
        <5> HIDE DEF next
        <5>3. QED
          BY <5>1, <5>2, IdleIs DEF TurnFor
      <4>3. QED
        BY <4>1, <4>2
    <3> HIDE DEF next
    <3>4. TurnFor(next, callout.by, ctrl', last', readable', out')
      BY <2>1, <3>1, <3>3
    <3>5. writer' = "waiting" => out' = 0
      BY <1>1, <3>1 DEF OutputOwed
    <3>6. QED
      BY <2>1, <3>1, <3>2, <3>4, <3>5, ContinueOwes
  <2>4. QED
    BY <2>2, <2>3
<1>4. QED
  BY <1>2, <1>3

-----------------------------------------------------------------------------
(* The chip.                                                               *)

(* A turn of its loop, and its call of the control function.               *)
LEMMA TurnOwes ==
  ASSUME TypeOK, Cooperative, ChipTurn \/ ChipCtrl
  PROVE  Cooperative'
<1>1. /\ CallsNest /\ ControlOwed /\ InputOwed /\ OutputOwed
      /\ runner # "none" /\ flight = "none"
      /\ UNCHANGED <<in, out, ctrl, last, readable, connected, callout, lock, reader,
                     wasEmpty, writer, tx>>
  BY CooperativeIs DEF ChipTurn, ChipCtrl, ChipFree, device, threads
<1>2. ControlOwed'
  BY <1>1 DEF ControlOwed
<1>3. CASE ChipTurn
  <2>1. /\ doing = {} /\ doing' = pending /\ pending' = {} /\ flight' = flight
        /\ runner' = IF pending = {} THEN "none" ELSE runner
    BY <1>3 DEF ChipTurn
  <2>2. CallsNest'
    BY <1>1, <2>1 DEF CallsNest
  <2>3. Coming => Coming'
    BY <1>1, <2>1 DEF Coming
  <2>4. InputOwed'
    BY <1>1, <2>3 DEF InputOwed, Scanning, Unconnected
  <2>5. OutputOwed'
    BY <1>1, <2>1 DEF OutputOwed
  <2>6. QED
    BY <1>2, <2>2, <2>4, <2>5 DEF Cooperative
<1>4. CASE ChipCtrl
  <2>1. /\ "CTRL" \in doing /\ UNCHANGED <<pending, runner, doing>>
        /\ flight' = IF tx > 0 THEN "on" ELSE "off"
    BY <1>4 DEF ChipCtrl
  <2>2. CallsNest'
    BY <1>1, <2>1 DEF CallsNest
  <2>3. Coming => Coming'
    BY <1>1, <2>1 DEF Coming
  <2>4. InputOwed'
    BY <1>1, <2>3 DEF InputOwed, Scanning, Unconnected
  <2>5. flight' = "off" => tx = 0
    BY <2>1 DEF TypeOK
  <2>6. tx > 0 => "CTRL" \in doing' /\ flight' # "in"
    BY <2>1
  <2>7. OutputOwed'
    BY <1>1, <2>5, <2>6 DEF OutputOwed
  <2>8. QED
    BY <1>2, <2>2, <2>4, <2>7 DEF Cooperative
<1>5. QED
  BY <1>3, <1>4

(* The control function of the device.                                     *)
LEMMA ArrivalOwes ==
  ASSUME TypeOK, Cooperative, CtrlArrives
  PROVE  Cooperative'
<1>1. /\ CallsNest /\ ControlOwed /\ InputOwed /\ OutputOwed
      /\ flight \in {"on", "off"} /\ lock = "none"
      /\ UNCHANGED <<in, out, ctrl, last, connected, reader, wasEmpty, writer, tx, pending,
                     runner>>
  BY CooperativeIs DEF CtrlArrives, threads
<1>2. runner # "none" /\ connected /\ callout.by # "cpu"
  BY <1>1 DEF CallsNest
<1>3. (readable' <=> flight = "on") /\ readable' \in BOOLEAN
  BY DEF CtrlArrives
<1>4. doing' \in {doing, doing \ {"CTRL"}}
  BY DEF CtrlArrives
<1>5. CASE UNCHANGED <<callout, lock>> /\ (flight = "on" => callout # Idle)
  <2>1. flight' = "none"
    BY <1>2, <1>5 DEF CtrlArrives
  <2>2. CallsNest'
    BY <1>1, <1>2, <1>5, <2>1 DEF CallsNest
  <2>3. ControlOwed'
    BY <1>1, <1>5 DEF ControlOwed
  <2>4. Coming => Coming'
    BY <1>1, <1>4, <1>5 DEF Coming
  <2>5. InputOwed'
    BY <1>1, <2>4 DEF InputOwed, Scanning, Unconnected
  <2>6. OutputOwed'
    BY <1>1, <1>2, <1>3, <1>5, <2>1 DEF OutputOwed
  <2>7. QED
    BY <2>2, <2>3, <2>5, <2>6 DEF Cooperative
<1>6. CASE flight = "on" /\ callout = Idle
  <2>1. StartCallout("cpu", ctrl, TRUE, out, FALSE)
    BY <1>6 DEF CtrlArrives
  <2>2. /\ TurnFor(callout', "cpu", ctrl, last, TRUE, out)
        /\ lock' = "none"
    <3>1. "cpu" \in Users /\ out \in 0 .. Room
      BY DEF Users, TypeOK
    <3>2. QED
      BY <1>2, <1>6, <2>1, <3>1, StartIs
  <2>3. callout'.by = "cpu" <=> callout' # Idle
    BY <2>2, IdleIs DEF TurnFor
  <2>4. /\ callout'.by = "cpu" => flight' = "in"
        /\ flight' \in {"in", "none"}
    BY <1>2 DEF CtrlArrives
  <2>5. reader # "scan" /\ reader # "broke"
    BY <1>1, <1>6, IdleIs DEF CallsNest
  <2>6. CallsNest'
    BY <1>1, <1>2, <2>2, <2>3, <2>4, <2>5 DEF CallsNest, TurnFor
  <2>7. ControlOwed'
    BY <1>1, <2>2, IdleIs DEF ControlOwed, TurnFor
  <2>8. Coming => Coming'
    BY <1>1, <1>4, <1>6, IdleIs DEF Coming
  <2>9. InputOwed'
    BY <1>1, <2>8 DEF InputOwed, Scanning, Unconnected
  <2>10. OutputOwed'
    <3>1. readable'
      BY <1>3, <1>6
    <3>2. QED
      BY <1>1, <1>2, <2>2, <2>4, <3>1, IdleIs DEF OutputOwed, TurnFor
  <2>11. QED
    BY <2>6, <2>7, <2>9, <2>10 DEF Cooperative
<1>7. flight = "on" /\ callout # Idle => UNCHANGED <<callout, lock>>
  <2>1. callout # Idle => Running
    BY <1>1 DEF CallsNest, Running
  <2>2. QED
    BY <1>1, <2>1 DEF CtrlArrives, StartCallout
<1>8. flight = "off" => UNCHANGED <<callout, lock>>
  BY DEF CtrlArrives
<1>9. QED
  BY <1>1, <1>5, <1>6, <1>7, <1>8

(* The read function of the device.                                        *)
LEMMA ReadOwes ==
  ASSUME TypeOK, Cooperative, NEW n \in 1 .. MaxRead, ReadArrives(n)
  PROVE  Cooperative'
<1> DEFINE k == Given(in, n)
<1>1. /\ CallsNest /\ ControlOwed /\ InputOwed /\ OutputOwed
      /\ n \in Nat /\ n > 0 /\ in \in Ring
  BY CooperativeIs DEF TypeOK
<1>2. k \in Nat /\ (k = 0 => IsEmpty(in'))
  <2>1. in' = Tidy(CopyOut(in, n))
    BY DEF ReadArrives
  <2>2. k \in 0 .. n /\ CopyOut(in, n) \in Ring /\ (k = 0 => IsEmpty(CopyOut(in, n)))
    BY <1>1, GivenIs, CopyOutTyped
  <2> HIDE DEF k
  <2>3. QED
    BY <2>1, <2>2, TidyTyped
<1>3. /\ runner # "none" /\ flight = "none" /\ doing = {"READ"} /\ lock = "none"
      /\ doing' = {} /\ pending' = IF k > 0 THEN pending \cup {"READ"} ELSE pending
      /\ UNCHANGED <<out, readable, connected, callout, lock, reader, wasEmpty, writer, tx,
                     runner, flight>>
  BY DEF ReadArrives, ChipFree, threads
<1>4. IF k < n THEN ctrl' = ctrl \ {"OK_READ"} /\ last' = last \ {"OK_READ"}
               ELSE UNCHANGED <<ctrl, last>>
  BY DEF ReadArrives
<1> HIDE DEF k
<1>5. connected
  BY <1>1, <1>3 DEF CallsNest
<1>6. CallsNest'
  BY <1>1, <1>3 DEF CallsNest
<1>7. ControlOwed'
  BY <1>1, <1>3, <1>4 DEF ControlOwed
<1>8. k > 0 => Coming'
  BY <1>3 DEF Coming
<1>9. k = 0 => IsEmpty(in') /\ "OK_READ" \notin ctrl'
  BY <1>1, <1>2, <1>4
<1>10. InputOwed'
  BY <1>1, <1>2, <1>3, <1>5, <1>8, <1>9 DEF InputOwed, Scanning, Unconnected
<1>11. OutputOwed'
  BY <1>1, <1>3 DEF OutputOwed
<1>12. QED
  BY <1>6, <1>7, <1>10, <1>11 DEF Cooperative

(* A character from the CPU.                                               *)
LEMMA TransmitOwes ==
  ASSUME ~Preemptive, TypeOK, Cooperative, Transmit
  PROVE  Cooperative'
<1>1. /\ CallsNest /\ ControlOwed /\ InputOwed /\ OutputOwed
      /\ MayRun /\ connected /\ tx \in Nat
  BY CooperativeIs DEF Transmit, TypeOK
<1>2. callout = Idle /\ runner = "none" /\ lock = "none" /\ ~Coming
  BY <1>1, MayRunIs, NothingComing
<1>3. pending = {} /\ doing = {} /\ flight = "none"
  BY <1>1, <1>2 DEF CallsNest
<1>4. /\ tx' = tx + 1 /\ pending' = IF tx = 0 THEN {"CTRL"} ELSE {}
      /\ runner' = IF pending' # {} THEN "cpu" ELSE "none"
      /\ UNCHANGED <<in, out, ctrl, last, readable, connected, callout, lock, reader, wasEmpty,
                     writer, doing, flight>>
  BY <1>2, <1>3 DEF Transmit, device, threads
<1>5. CallsNest'
  BY <1>1, <1>2, <1>3, <1>4 DEF CallsNest
<1>6. ControlOwed'
  BY <1>1, <1>4 DEF ControlOwed
<1>7. InputOwed'
  BY <1>1, <1>2, <1>4 DEF InputOwed, Scanning, Unconnected
<1>8. OutputOwed'
  <2>1. readable \/ "CTRL" \in pending'
    <3>1. tx = 0 \/ tx > 0
      BY <1>1
    <3>2. QED
      BY <1>1, <1>3, <1>4, <3>1 DEF OutputOwed
  <2>2. QED
    BY <1>1, <1>2, <1>3, <1>4, <2>1, IdleIs DEF OutputOwed
<1>9. QED
  BY <1>5, <1>6, <1>7, <1>8 DEF Cooperative

-----------------------------------------------------------------------------
(* The inductive invariant.                                                *)

LEMMA InitCooperative == Init => Cooperative
<1> SUFFICES ASSUME Init PROVE Cooperative
  OBVIOUS
<1>1. CallsNest
  BY IdleIs DEF Init, CallsNest
<1>2. ControlOwed
  BY IdleIs DEF Init, ControlOwed
<1>3. InputOwed
  BY DEF Init, InputOwed, IsEmpty, Scanning
<1>4. OutputOwed
  BY IdleIs DEF Init, OutputOwed
<1>5. QED
  BY <1>1, <1>2, <1>3, <1>4 DEF Cooperative

LEMMA NextCooperative ==
  ASSUME ~Preemptive, TypeOK, IInv, IInv', Cooperative, [Next]_vars
  PROVE  Cooperative'
<1>1. CASE UNCHANGED vars
  BY <1>1 DEF vars, device, threads, chip, Cooperative, CallsNest, ControlOwed, InputOwed,
     OutputOwed, Coming, Unconnected, Scanning
<1>2. CASE Next
  <2>1. CASE Steps
    BY <2>1, CallOwes, ReturnOwes DEF Steps
  <2>2. CASE Writer
    BY <2>2, WriterOwes
  <2>3. CASE Scan \/ ReaderEof \/ (\E chunk \in Chunks : ReaderGets(chunk))
    BY <2>3, ReaderOwes
  <2>4. CASE Chip
    BY <2>4, TurnOwes, ArrivalOwes, ReadOwes DEF Chip
  <2>5. CASE Connect \/ Check \/ Line
    BY <2>5, RestOwes
  <2>6. CASE Transmit
    BY <2>6, TransmitOwes
  <2>7. QED
    BY <1>2, <2>1, <2>2, <2>3, <2>4, <2>5, <2>6 DEF Next
<1>3. QED
  BY <1>1, <1>2

(* With cooperative threads calls between the device and the chip are      *)
(* nested, and whatever is not called out, read or fetched is still to be. *)
THEOREM DeviceInvariance ==
  ASSUME ~Preemptive
  PROVE  Spec => []Cooperative
<1>1. /\ IInv /\ TypeOK /\ Cooperative /\ [Next]_vars
      => (IInv /\ TypeOK /\ Cooperative)'
  BY NextIInv, NextTypes, NextCooperative
<1>2. Init => IInv /\ TypeOK /\ Cooperative
  BY InitIInv, InitTypes, InitCooperative
<1>3. QED
  BY <1>1, <1>2, PTL DEF Spec

(* _tme_posix_serial_callout, with cooperative threads: a call that finds  *)
(* the loop running returns at once, and yet nothing is left to call out.  *)
THEOREM ChangesCalledOut ==
  ASSUME ~Preemptive
  PROVE  Spec => []NothingLeft
<1>1. Cooperative => NothingLeft
  BY DEF Cooperative, CallsNest, ControlOwed, NothingLeft, Quiet, Running
<1>2. QED
  BY <1>1, DeviceInvariance, PTL

(* _tme_posix_serial_th_reader and the read function, with cooperative     *)
(* threads: no characters from the host lie in the input buffer with       *)
(* nobody coming for them, although only the first ones are announced.     *)
THEOREM InputComes ==
  ASSUME ~Preemptive
  PROVE  Spec => []InputAnnounced
<1>1. Cooperative => InputAnnounced
  <2> SUFFICES ASSUME Cooperative, Quiet PROVE IsEmpty(in)
    BY DEF InputAnnounced
  <2>1. callout = Idle /\ ~Coming
    BY NothingComing DEF Cooperative, CallsNest, Quiet, Running
  <2>2. QED
    BY <2>1 DEF Cooperative, InputOwed, Quiet, Scanning, Unconnected
<1>2. QED
  BY <1>1, DeviceInvariance, PTL

(* The control and read functions of the callout loop, with cooperative    *)
(* threads: no characters from the CPU lie in the chip while the writer    *)
(* waits, although the chip says only once that it has some.               *)
THEOREM OutputComes ==
  ASSUME ~Preemptive
  PROVE  Spec => []OutputFetched
<1>1. TypeOK /\ Cooperative => OutputFetched
  <2> SUFFICES ASSUME TypeOK, Cooperative, Quiet, writer = "waiting" PROVE tx = 0
    BY DEF OutputFetched
  <2>1. callout = Idle /\ pending = {} /\ doing = {}
    BY DEF Cooperative, CallsNest, Quiet, Running
  <2>2. out = 0 /\ connected
    BY DEF Cooperative, OutputOwed, Quiet
  <2>3. ~readable
    BY <2>1, <2>2 DEF Cooperative, OutputOwed
  <2>4. ~(tx > 0)
    BY <2>1, <2>3 DEF Cooperative, OutputOwed
  <2>5. QED
    BY <2>4 DEF TypeOK
<1>2. QED
  BY <1>1, DeviceTypeCorrect, DeviceInvariance, PTL
=============================================================================
