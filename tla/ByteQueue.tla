----------------------------- MODULE ByteQueue -----------------------------
(***************************************************************************)
(* What a serial buffer promises its users: a queue of characters, each    *)
(* with its error flags, of bounded length, that gives back in order what  *)
(* it took, and never mixes characters with different flags in one answer. *)
(***************************************************************************)
EXTENDS Integers, Sequences, SequencesExt

CONSTANTS Char,     \* the characters with their flags, records
          Capacity

VARIABLES queue, got

Init == queue = <<>> /\ got = <<>>

SameFlags(s) == \A c \in Range(s) : c.flags = Head(s).flags

(* Some characters that arrived together are taken.                        *)
Put == /\ Len(queue') \in Len(queue) + 1 .. Capacity
       /\ IsPrefix(queue, queue')
       /\ queue' \in Seq(Char)
       /\ SameFlags(SubSeq(queue', Len(queue) + 1, Len(queue')))
       /\ UNCHANGED got

(* The front of the queue is looked at or taken.                           *)
Answer(n) == LET s == SubSeq(queue, 1, n) IN SameFlags(s) /\ got' = s

Look == \E n \in 0 .. Len(queue) : Answer(n) /\ UNCHANGED queue

Take == \E n \in 0 .. Len(queue) :
          Answer(n) /\ queue' = SubSeq(queue, n + 1, Len(queue))

Spec == Init /\ [][Put \/ Look \/ Take]_<<queue, got>>
============================================================================
