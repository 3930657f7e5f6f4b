--------------------------- MODULE CoopScheduler ---------------------------
(***************************************************************************)
(* What a cooperative scheduler promises to the threads it runs: one       *)
(* thread runs at a time, it runs until it gives up the processor itself,  *)
(* scheduling goes in passes, and no thread has two turns in one pass.     *)
(* Lists, timeouts, descriptors and dispatch numbers are the business of   *)
(* the implementation, module SjljThreads.                                 *)
(***************************************************************************)
CONSTANT Threads

VARIABLES status,  \* what each thread is doing
          ran      \* the threads that have had their turn in this pass

vars == <<status, ran>>

Status == {"absent", "blocked", "turn", "later", "running", "gone"}

In(s) == {t \in Threads : status[t] = s}

Become(t, s) == status' = [status EXCEPT ![t] = s]

TypeOK == /\ status \in [Threads -> Status]
          /\ ran \subseteq Threads

Init == /\ status = [t \in Threads |-> "absent"]
        /\ ran = {}

(* A thread that is created or woken gets a turn in this pass, unless it   *)
(* has had it, or waits for the next pass.                                 *)
Admit(t) == /\ status[t] \in {"absent", "blocked"}
            /\ \/ t \notin ran /\ Become(t, "turn")
               \/ Become(t, "later")
            /\ UNCHANGED ran

Run(t) == /\ status[t] = "turn"
          /\ In("running") = {}
          /\ Become(t, "running")
          /\ ran' = ran \cup {t}

(* Only the running thread leaves the processor.                           *)
Leave(t) == /\ status[t] = "running"
            /\ \E s \in {"later", "blocked", "gone"} : Become(t, s)
            /\ UNCHANGED ran

(* A pass ends when every turn has been taken; all who wait get a turn in  *)
(* the next one.                                                           *)
NextPass == /\ In("turn") = {} /\ In("running") = {}
            /\ status' = [t \in Threads |->
                            IF status[t] = "later" THEN "turn" ELSE status[t]]
            /\ ran' = {}

Next == \/ \E t \in Threads : Admit(t) \/ Run(t) \/ Leave(t)
        \/ NextPass

Spec == Init /\ [][Next]_vars

(* Every thread that is ready gets its turn, whatever the others do.       *)
EveryTurnComes ==
    \A t \in Threads : status[t] \in {"turn", "later"} ~> status[t] = "running"
============================================================================
