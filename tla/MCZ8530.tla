------------------------------ MODULE MCZ8530 ------------------------------
(* Small instances of Z8530.                                               *)
EXTENDS Z8530

(* Channel A receives, in the three modes that interrupt.  Channel B       *)
(* sends, and may interrupt or not.                                        *)
NoInts == [tx |-> FALSE, rx |-> "DISABLE", status |-> FALSE, parity |-> FALSE]
MCWr1 == [A |-> {[NoInts EXCEPT !.rx = m] : m \in {"1ST", "ALL", "SPCL"}},
          B |-> {NoInts, [NoInts EXCEPT !.tx = TRUE, !.status = TRUE]}]
MCWr15 == {{"BREAK"}, {"LINE"}}

(* One channel receives while the other sends; or one channel sends and    *)
(* its line changes.                                                       *)
MCRoles == {[sends |-> {"B"}, receives |-> {"A"}, watches |-> {}],
            [sends |-> {"B"}, receives |-> {}, watches |-> {"B"}]}
============================================================================
