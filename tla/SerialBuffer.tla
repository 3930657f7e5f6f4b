--------------------------- MODULE SerialBuffer ---------------------------
(***************************************************************************)
(* One serial buffer of generic/serial.c and its users.  They hold their   *)
(* own lock, so that an operation is one step.                             *)
(*                                                                         *)
(* The callouts of z8530.c and posix-serial.c copy in no more than         *)
(* tme_serial_buffer_space_free said, and the transmitter of z8530.c one   *)
(* character at a time.  The reader of posix-serial.c and the keyboards    *)
(* ask nothing before they copy in: Checked is FALSE.                      *)
(***************************************************************************)
EXTENDS SerialRing, SequencesExt

CONSTANTS Texts,     \* what a user may copy in at once
          MaxCount,  \* the most characters asked for at once
          Checked

ASSUME TextsAssumption == \A t \in Texts : t \in Seq(Bytes) /\ t # <<>>

VARIABLES ring,  \* the struct tme_serial_buffer
          got    \* what the last tme_serial_buffer_copyout gave

bufferVars == <<ring, got>>

BufferTypeOK == ring \in Ring /\ got \in Seq(Slot)

(* The slots are not initialized.                                          *)
BufferInit ==
  /\ ring \in {r \in Ring : r.head = 0 /\ r.tail = 0
                            /\ \A i \in 0 .. Size - 1 : r.slot[i].flags \in Flags}
  /\ got = <<>>

Copyin(bytes, flags, overrun) ==
  /\ Checked => Len(bytes) = 1 \/ Len(bytes) <= SpaceFree(ring)
  /\ ring' = CopyIn(ring, bytes, flags, overrun)
  /\ UNCHANGED got

Copyout(n, peek) ==
  /\ got' = FirstChars(ring, Given(ring, n))
  /\ ring' = IF peek THEN ring ELSE CopyOut(ring, n)

BufferNext ==
  \/ \E bytes \in Texts, f \in Flags, overrun \in BOOLEAN :
       Copyin(bytes, f, overrun)
  \/ \E n \in 0 .. MaxCount, peek \in BOOLEAN : Copyout(n, peek)

BufferSpec == BufferInit /\ [][BufferNext]_bufferVars

----------------------------------------------------------------------------
Queue == INSTANCE ByteQueue WITH
           Char <- Slot, Capacity <- Size - 1,
           queue <- FirstChars(ring, SpaceBusy(ring)), got <- got

(* Users that check see a bounded queue: nothing lost, reordered or given  *)
(* twice where the pieces wrap around, and no answer that mixes flags.     *)
KeepsQueue == Queue!Spec
============================================================================
