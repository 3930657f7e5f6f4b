----------------------------- MODULE SerialRing -----------------------------
(***************************************************************************)
(* The operations of generic/serial.c on a struct tme_serial_buffer, as    *)
(* functions of the buffer.  The loops over contiguous pieces are given in *)
(* closed form; SerialLoops has them as they are written.                  *)
(***************************************************************************)
EXTENDS Integers, FiniteSetsExt, Sequences

CONSTANTS Size,   \* tme_serial_buffer_size
          Bytes,  \* the characters
          Flags   \* the flags characters arrive with, sets of strings

ASSUME SizeAssumption == Size \in Nat \ {0, 1}

Slot == [byte : Bytes, flags : Flags \cup {f \cup {"OVERRUN"} : f \in Flags}]

Ring == [head : 0 .. Size - 1, tail : 0 .. Size - 1,
         slot : [0 .. Size - 1 -> Slot]]

(* A pointer masked with the size less one.                                *)
Wrap(i) == i % Size

IsEmpty(r) == r.head = r.tail

IsFull(r) == Wrap(r.head + 1) = r.tail

SpaceBusy(r) == IF r.head >= r.tail THEN r.head - r.tail
                ELSE Size - (r.tail - r.head)

SpaceFree(r) == (Size - 1) - SpaceBusy(r)

(* How many of n characters tme_serial_buffer_copyin takes.  When the tail *)
(* is at slot 0 the piece up to the end of the buffer includes the slot    *)
(* that must stay free, so the head reaches the tail and goes on.          *)
Taken(r, n) ==
  IF IsFull(r) THEN 0 ELSE IF r.tail = 0 THEN n ELSE Min({n, SpaceFree(r)})

(* The buffer after tme_serial_buffer_copyin; with overrun, a full buffer  *)
(* marks the slot at the head.                                             *)
CopyIn(r, bytes, flags, overrun) ==
  LET n    == Taken(r, Len(bytes))
      head == Wrap(r.head + n)
      at(i) == {k \in 1 .. n : Wrap(r.head + k - 1) = i}
      mark(i) == IF overrun /\ n < Len(bytes) /\ i = head THEN {"OVERRUN"} ELSE {}
  IN [r EXCEPT
        !.head = head,
        !.slot = [i \in 0 .. Size - 1 |->
                    IF at(i) # {}
                    THEN [byte |-> bytes[Max(at(i))], flags |-> flags \cup mark(i)]
                    ELSE [r.slot[i] EXCEPT !.flags = @ \cup mark(i)]]]

(* Mutant: flags are not compared.                                         *)
GivenMixed(r, n) == Min({n, SpaceBusy(r)})

(* How many characters tme_serial_buffer_copyout gives when asked for n:   *)
(* those before the flags change.                                          *)
Given(r, n) ==
  Max({k \in 0 .. Min({n, SpaceBusy(r)}) :
         \A i \in 0 .. k - 1 :
           r.slot[Wrap(r.tail + i)].flags = r.slot[r.tail].flags})

FirstChars(r, n) == [i \in 1 .. n |-> r.slot[Wrap(r.tail + i - 1)]]

(* Mutant: all that was asked for is dropped.                              *)
CopyOutGreedy(r, n) ==
  [r EXCEPT !.tail = Wrap(@ + Min({n, SpaceBusy(r)}))]

(* The buffer after tme_serial_buffer_copyout, without TME_SERIAL_COPY_PEEK. *)
CopyOut(r, n) == [r EXCEPT !.tail = Wrap(@ + Given(r, n))]
============================================================================
