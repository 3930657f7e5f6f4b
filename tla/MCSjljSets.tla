----------------------------- MODULE MCSjljSets -----------------------------
(* A small instance of SjljThreads, or one of SjljEvents: two parts of     *)
(* threads-sjlj.c in one run, that says in part which one it is of.        *)
EXTENDS MCSjljThreads, SjljEvents

VARIABLE part

PartsInit == part \in {"threads", "events"} /\ Init /\ EventsInit

PartsNext ==
    /\ \/ part = "threads" /\ Next /\ UNCHANGED eventsVars
       \/ part = "events" /\ EventsNext /\ UNCHANGED vars
    /\ UNCHANGED part

PartsSpec == PartsInit /\ [][PartsNext]_<<part, vars, eventsVars>>
=============================================================================
