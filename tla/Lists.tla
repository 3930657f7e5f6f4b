------------------------------- MODULE Lists -------------------------------
(***************************************************************************)
(* Linked lists of structures, as sequences from the head on.              *)
(***************************************************************************)
EXTENDS Integers, SequencesExt

NoRepeats(s) == \A i, j \in 1 .. Len(s) : s[i] = s[j] => i = j

(* The list s after the element t, if it is on it, is unlinked.            *)
Unlink(s, t) == IF t \in ToSet(s)
                THEN RemoveAt(s, CHOOSE i \in 1 .. Len(s) : s[i] = t)
                ELSE s
============================================================================
