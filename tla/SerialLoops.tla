---------------------------- MODULE SerialLoops ----------------------------
(***************************************************************************)
(* The two copying functions of generic/serial.c as they are written:      *)
(* loops over contiguous pieces of the ring, a step for each turn.         *)
(***************************************************************************)
EXTENDS SerialRing, SequencesExt

CONSTANTS Inputs,  \* what a user may copy in at once
          MaxAsk   \* the most characters asked for at once

ASSUME InputsAssumption == \A t \in Inputs : t \in Seq(Bytes) /\ t # <<>>

VARIABLES buffer,  \* the struct tme_serial_buffer
          call,    \* the call in progress: its arguments and locals
          given    \* what the last tme_serial_buffer_copyout gave

loopVars == <<buffer, call, given>>

NoCall == [op |-> "none"]

LoopsInit ==
  /\ buffer \in {r \in Ring : r.head = 0 /\ r.tail = 0
                              /\ \A i \in 0 .. Size - 1 : r.slot[i].flags \in Flags}
  /\ call = NoCall
  /\ given = <<>>

(* before is no variable of the code: it is the buffer as the call met it. *)
StartIn(data, flags, overrun) ==
  /\ call.op = "none"
  /\ call' = [op |-> "copyin", before |-> buffer, head |-> buffer.head,
              resid |-> Len(data), data |-> data, flags |-> flags, overrun |-> overrun]
  /\ UNCHANGED <<buffer, given>>

HeadBlocked == Wrap(call.head + 1) = buffer.tail

(* Mutant: the slot before the tail is filled, too.                        *)
SpaceToTheTail ==
  IF call.head >= buffer.tail THEN Size - call.head ELSE buffer.tail - call.head

(* The contiguous free slots from the head on.                             *)
SpaceAhead ==
  IF call.head >= buffer.tail THEN Size - call.head
  ELSE buffer.tail - call.head - 1

InPieceLen == Min({SpaceAhead, call.resid})

InPiece ==
  /\ call.op = "copyin" /\ call.resid > 0 /\ ~HeadBlocked
  /\ LET done == Len(call.data) - call.resid
     IN buffer' = [buffer EXCEPT !.slot =
          [i \in 0 .. Size - 1 |->
             IF i \in call.head .. call.head + InPieceLen - 1
             THEN [byte |-> call.data[done + 1 + (i - call.head)], flags |-> call.flags]
             ELSE @[i]]]
  /\ call' = [call EXCEPT !.head = Wrap(@ + InPieceLen), !.resid = @ - InPieceLen]
  /\ UNCHANGED given

EndIn ==
  /\ call.op = "copyin" /\ (call.resid = 0 \/ HeadBlocked)
  /\ LET mark == IF call.resid > 0 /\ call.overrun THEN {"OVERRUN"} ELSE {}
     IN buffer' = [buffer EXCEPT !.head = call.head,
                                 !.slot[call.head].flags = @ \cup mark]
  /\ call' = NoCall
  /\ UNCHANGED given

StartOut(count, peek) ==
  /\ call.op = "none"
  /\ call' = [op |-> "copyout", before |-> buffer, tail |-> buffer.tail,
              resid |-> count, count |-> count, peek |-> peek, data |-> <<>>,
              flags |-> buffer.slot[buffer.tail].flags]
  /\ UNCHANGED <<buffer, given>>

(* The contiguous characters from the tail on.                             *)
CharsAhead ==
  IF call.tail > buffer.head THEN Size - call.tail ELSE buffer.head - call.tail

(* The scan: how many of n slots from i on have these flags, up to the     *)
(* first that has others.                                                  *)
Alike(slot, i, n, flags) ==
  Max({k \in 0 .. n : \A j \in i .. i + k - 1 : slot[j].flags = flags})

OutPieceLen ==
  Alike(buffer.slot, call.tail, Min({CharsAhead, call.resid}), call.flags)

OutDone == call.resid = 0 \/ call.tail = buffer.head \/ OutPieceLen = 0

OutPiece ==
  /\ call.op = "copyout" /\ ~OutDone
  /\ LET piece == [i \in 1 .. OutPieceLen |->
                     [byte |-> buffer.slot[call.tail + i - 1].byte,
                      flags |-> call.flags]]
     IN call' = [call EXCEPT !.data = @ \o piece, !.tail = Wrap(@ + OutPieceLen),
                             !.resid = @ - OutPieceLen]
  /\ UNCHANGED <<buffer, given>>

EndOut ==
  /\ call.op = "copyout" /\ OutDone
  /\ buffer' = IF call.peek THEN buffer ELSE [buffer EXCEPT !.tail = call.tail]
  /\ given' = call.data
  /\ call' = NoCall

LoopsNext ==
  \/ \E data \in Inputs, f \in Flags, o \in BOOLEAN : StartIn(data, f, o)
  \/ InPiece \/ EndIn
  \/ \E n \in 0 .. MaxAsk, peek \in BOOLEAN : StartOut(n, peek)
  \/ OutPiece \/ EndOut

LoopsSpec == LoopsInit /\ [][LoopsNext]_loopVars

----------------------------------------------------------------------------
(* The buffer as its users know it: a call has done nothing before it ends. *)
Seen == IF call.op = "none" THEN buffer ELSE call.before

Atomic == INSTANCE SerialBuffer WITH
            ring <- Seen, got <- given, Texts <- Inputs, MaxCount <- MaxAsk,
            Checked <- FALSE

(* A call does in its turns what the closed forms of SerialRing do in one  *)
(* step with its arguments, for counts beyond the size, too, and wherever  *)
(* the pieces wrap around or overlap.                                      *)
LoopsAtomic ==
  /\ Atomic!BufferInit
  /\ [][\/ call.op = "copyin" /\ Atomic!Copyin(call.data, call.flags, call.overrun)
        \/ call.op = "copyout" /\ Atomic!Copyout(call.count, call.peek)]_<<Seen, given>>

(* Users that ask copy in what fits, or a single character.                *)
Fitting(data) == Len(data) = 1 \/ Len(data) <= SpaceFree(buffer)

AsksFirst ==
  \A data \in Inputs, f \in Flags, o \in BOOLEAN : StartIn(data, f, o) => Fitting(data)

LoopQueue == INSTANCE ByteQueue WITH
               Char <- Slot, Capacity <- Size - 1,
               queue <- FirstChars(Seen, SpaceBusy(Seen)), got <- given

(* The assertions of the loops: a turn finds something to copy.            *)
SpaceFound == call.op = "copyin" /\ call.resid > 0 /\ ~HeadBlocked => SpaceAhead > 0

CharsFound == call.op = "copyout" /\ call.resid > 0 /\ call.tail # buffer.head
                => CharsAhead > 0

LoopTypeOK ==
  /\ buffer \in Ring /\ given \in Seq(Slot)
  /\ call \in {NoCall}
       \cup [op : {"copyin"}, before : Ring, head : 0 .. Size - 1, resid : Nat,
             data : Inputs, flags : Flags, overrun : BOOLEAN]
       \cup [op : {"copyout"}, before : Ring, tail : 0 .. Size - 1, resid : Nat,
             count : 0 .. MaxAsk, peek : BOOLEAN, data : Seq(Slot),
             flags : {s.flags : s \in Slot}]

(* The slots after n of the data were stored: the last of the characters   *)
(* that came to a slot.                                                    *)
SlotsAfter(r, data, flags, n) ==
  LET at(i) == {k \in 1 .. n : Wrap(r.head + k - 1) = i}
  IN [i \in 0 .. Size - 1 |->
        IF at(i) # {} THEN [byte |-> data[Max(at(i))], flags |-> flags]
        ELSE r.slot[i]]

(* Between two turns of the loop of copyin, done characters are stored.    *)
InSoFar ==
  call.op = "copyin" =>
    LET r    == call.before
        done == Len(call.data) - call.resid
    IN /\ done \in 0 .. Taken(r, Len(call.data))
       /\ call.head = Wrap(r.head + done)
       /\ r.tail = 0 => done = 0 \/ call.resid = 0 \/ call.head = 0
       /\ buffer = [r EXCEPT !.slot = SlotsAfter(r, call.data, call.flags, done)]

(* Between two turns of the loop of copyout, done characters are fetched.  *)
OutSoFar ==
  call.op = "copyout" =>
    LET r    == call.before
        done == call.count - call.resid
    IN /\ buffer = r
       /\ done \in 0 .. Given(r, call.count)
       /\ call.tail = Wrap(r.tail + done)
       /\ call.flags = r.slot[r.tail].flags
       /\ call.data = FirstChars(r, done)

LoopInv == LoopTypeOK /\ InSoFar /\ OutSoFar
============================================================================
