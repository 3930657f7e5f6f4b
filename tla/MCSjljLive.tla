----------------------------- MODULE MCSjljLive -----------------------------
(* Small instances of SjljThreads for liveness: two threads that sleep as  *)
(* time passes, or three that wait for conditions and descriptors only,    *)
(* where the clock may stand still.                                        *)
EXTENDS Naturals

CONSTANTS t1, t2, t3, Conds, Fds, NoThread, NoCond, NoFd

VARIABLES all, timeouts, runnable, dispatched, dispatching, thread,
          dispatchNumber, minTimeout, phase, wait, scan, fired, broadcasting,
          ready, ran

VARIABLE timed \* which of the two it is

vars == <<all, timeouts, runnable, dispatched, dispatching, thread, dispatchNumber,
          minTimeout, phase, wait, scan, fired, broadcasting, ready, ran>>

Threads == {t1, t2, t3}

Timed == INSTANCE SjljThreads WITH Sleeps <- {1}, Big <- 2, Numbers <- 2

Untimed == INSTANCE SjljThreads WITH Sleeps <- {}, Big <- 1, Numbers <- 2

Init == timed \in BOOLEAN /\ Untimed!Init

Allocated(t) == thread'[t].state # "NEW"

\* The threads are alike: they are created in order.  The third one never is
\* where time passes.
Next ==
    /\ \/ timed /\ Timed!Next /\ ~ Allocated(t3)
       \/ ~ timed /\ Untimed!Next
    /\ Allocated(t3) => Allocated(t2)
    /\ Allocated(t2) => Allocated(t1)
    /\ UNCHANGED timed

\* SjljThreads!Fairness where time passes, SjljThreads!Untimed elsewhere.
Spec == Init /\ [][Next]_<<timed, vars>> /\ Timed!Untimed /\ SF_vars(timed /\ Timed!Tick)

(* SjljThreads!EveryTurnComes: every thread that can run does, no matter   *)
(* how often others are notified or yield.                                 *)
EveryTurnComes == Untimed!EveryTurnComes

(* SjljThreads!EventWakes: a thread whose descriptor is ready runs again,  *)
(* even if no time passes.                                                 *)
EventWakes == Untimed!EventWakes

(* SjljThreads!SleeperWakes, where time passes: a sleeping thread runs     *)
(* again, even when select waited for a stale time.                        *)
SleeperWakes ==
    \A t \in {t1, t2} : (timed /\ thread[t].sleep) ~> Untimed!Active = t
=============================================================================
