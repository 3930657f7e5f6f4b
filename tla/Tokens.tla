------------------------------- MODULE Tokens -------------------------------
(***************************************************************************)
(* Tokens, libtme/token.c, tme/token.h, and stopping the world,            *)
(* tme/threads-posix.h, with preemptive threads.                           *)
(*                                                                         *)
(* A CPU keeps something, a TLB entry, that others may take away.  It      *)
(* makes the entry's token busy, looks whether the token is valid, uses    *)
(* the entry and unbusies it; if the entry is not good it fills it, as     *)
(* ic/m68k/m68k-misc.c does, with the token not busy.  Any thread can      *)
(* invalidate a token, and does not return before its user has let go.     *)
(*                                                                         *)
(* A thread that runs holds tme_rwlock_suspere for reading, and lets go of *)
(* it whenever it may block.  A CPU that needs the world for itself, for   *)
(* cas2, lets go of it and takes it for writing.  Whether readers have to  *)
(* wait behind a waiting writer is up to the C library.                    *)
(***************************************************************************)
EXTENDS FiniteSets

CONSTANTS Cpus,      \* threads with a token, of the same name
          Devices,   \* threads without
          Nobody

Threads == Cpus \cup Devices

ASSUME TokensAssumption == Nobody \notin Threads /\ Cpus \cap Devices = {}

VARIABLES readers, writer, waiting,  \* tme_rwlock_suspere, and who waits to write
          invalid, busy, mutex,      \* the tokens
          pc, target,                \* what a thread does, and to whose token
          stale,                     \* entries whose invalidation has returned
          writersFirst               \* whether readers wait behind writers

lockVars == <<readers, writer, waiting>>
tokenVars == <<invalid, busy, mutex>>
vars == <<lockVars, tokenVars, pc, target, stale, writersFirst>>

\* What a CPU does with its entry.
Using == {"check", "use", "usewait", "used", "unbusy", "clear", "clearlock",
          "clearwait", "clearing", "fill", "rebusy", "recheck", "stopping", "stopped", "resume", "resumewait"}
\* What a thread does that invalidates.
Invalidating == {"lock", "lockwait", "mark", "spin", "spinwait", "unlock"}

Init ==
    /\ readers = Threads /\ writer = Nobody /\ waiting = {}
    /\ invalid = Cpus /\ busy = {} /\ mutex = [c \in Cpus |-> Nobody]
    /\ pc = [t \in Threads |-> "run"] /\ target = [t \in Threads |-> Nobody]
    /\ stale = {}
    /\ writersFirst \in BOOLEAN

Go(t, from, to) == pc[t] = from /\ pc' = [pc EXCEPT ![t] = to]

(* _tme_thread_suspended and _tme_thread_resumed.                          *)
Suspended(t) == readers' = readers \ {t} /\ UNCHANGED <<writer, waiting>>
Resumed(t) ==
    /\ writer = Nobody /\ (writersFirst => waiting = {})
    /\ readers' = readers \cup {t}
    /\ UNCHANGED <<writer, waiting>>

(* A thread ends a burst of instructions, or waits for something else.     *)
Pause(t) == Go(t, "run", "paused") /\ Suspended(t) /\ UNCHANGED <<tokenVars, target, stale>>
Unpause(t) == Go(t, "paused", "run") /\ Resumed(t) /\ UNCHANGED <<tokenVars, target, stale>>

-----------------------------------------------------------------------------
(* The user of a token.                                                    *)

Busy(c) ==
    /\ Go(c, "run", "check") /\ busy' = busy \cup {c}
    /\ UNCHANGED <<lockVars, invalid, mutex, target, stale>>

(* A valid entry may still not be for this address; one just filled is.    *)
Check(c) ==
    /\ \/ c \notin invalid /\ (Go(c, "check", "use") \/ Go(c, "recheck", "use"))
       \/ Go(c, "check", "unbusy")
       \/ c \in invalid /\ Go(c, "recheck", "unbusy")
    /\ UNCHANGED <<lockVars, tokenVars, target, stale>>

(* An access to memory with a lock of its own, which may block.            *)
UseLocked(c) == Go(c, "use", "usewait") /\ Suspended(c) /\ UNCHANGED <<tokenVars, target, stale>>
UseResumed(c) == Go(c, "usewait", "used") /\ Resumed(c) /\ UNCHANGED <<tokenVars, target, stale>>

UseEnd(c) ==
    /\ Go(c, "use", "run") \/ Go(c, "used", "run")
    /\ busy' = busy \ {c}
    /\ UNCHANGED <<lockVars, invalid, mutex, target, stale>>

(* tme_m68k_tlb_fill.                                                      *)
Unbusy(c) ==
    /\ Go(c, "unbusy", IF c \in invalid THEN "clear" ELSE "fill") /\ busy' = busy \ {c}
    /\ UNCHANGED <<lockVars, invalid, mutex, target, stale>>

ClearSuspended(c) ==
    Go(c, "clear", "clearlock") /\ Suspended(c) /\ UNCHANGED <<tokenVars, target, stale>>

ClearLock(c) ==
    /\ Go(c, "clearlock", "clearwait")
    /\ mutex[c] = Nobody /\ mutex' = [mutex EXCEPT ![c] = c]
    /\ UNCHANGED <<lockVars, invalid, busy, target, stale>>

ClearResumed(c) ==
    Go(c, "clearwait", "clearing") /\ Resumed(c) /\ UNCHANGED <<tokenVars, target, stale>>

Clear(c) ==
    /\ Go(c, "clearing", "fill")
    /\ invalid' = invalid \ {c} /\ mutex' = [mutex EXCEPT ![c] = Nobody]
    /\ UNCHANGED <<lockVars, busy, target, stale>>

(* The callout that fills the entry: what it held is forgotten.            *)
Fill(c) ==
    /\ Go(c, "fill", "rebusy") /\ stale' = stale \ {c}
    /\ UNCHANGED <<lockVars, tokenVars, target>>

Rebusy(c) ==
    /\ Go(c, "rebusy", "recheck") /\ busy' = busy \cup {c}
    /\ UNCHANGED <<lockVars, invalid, mutex, target, stale>>

-----------------------------------------------------------------------------
(* Stopping the world, in the middle of a use: tme_m68k_rmw_start and      *)
(* tme_m68k_rmw_finish.                                                    *)

StopOthers(c) ==
    /\ Go(c, "use", "stopping")
    /\ readers' = readers \ {c} /\ waiting' = waiting \cup {c}
    /\ UNCHANGED <<writer, tokenVars, target, stale>>

Stopped(c) ==
    /\ Go(c, "stopping", "stopped")
    /\ readers = {} /\ writer = Nobody
    /\ writer' = c /\ waiting' = waiting \ {c}
    /\ UNCHANGED <<readers, tokenVars, target, stale>>

(* Mutant: the token stays busy.                                           *)
RmwFinishBusy(c) ==
    Go(c, "stopped", "resume") /\ UNCHANGED <<lockVars, tokenVars, target, stale>>

RmwFinish(c) ==
    /\ Go(c, "stopped", "resume") /\ busy' = busy \ {c}
    /\ UNCHANGED <<lockVars, invalid, mutex, target, stale>>

ResumeOthers(c) ==
    /\ Go(c, "resume", "resumewait") /\ writer' = Nobody
    /\ UNCHANGED <<readers, waiting, tokenVars, target, stale>>

ResumeEnd(c) ==
    Go(c, "resumewait", "run") /\ Resumed(c) /\ UNCHANGED <<tokenVars, target, stale>>

-----------------------------------------------------------------------------
(* tme_token_invalidate.                                                   *)

Invalidate(t, c) ==
    /\ Go(t, "run", "lock") /\ target' = [target EXCEPT ![t] = c]
    /\ Suspended(t)
    /\ UNCHANGED <<tokenVars, stale>>

InvalidateLock(t) ==
    /\ Go(t, "lock", "lockwait")
    /\ mutex[target[t]] = Nobody /\ mutex' = [mutex EXCEPT ![target[t]] = t]
    /\ UNCHANGED <<lockVars, invalid, busy, target, stale>>

InvalidateResumed(t) ==
    Go(t, "lockwait", "mark") /\ Resumed(t) /\ UNCHANGED <<tokenVars, target, stale>>

(* Mutant: the thread counts as running while it spins.                    *)
MarkRunning(t) ==
    /\ Go(t, "mark", "spin") /\ invalid' = invalid \cup {target[t]}
    /\ UNCHANGED <<lockVars, busy, mutex, target, stale>>

(* The token is invalid; the thread counts as suspended while it spins.    *)
Mark(t) ==
    /\ Go(t, "mark", "spin") /\ invalid' = invalid \cup {target[t]}
    /\ Suspended(t)
    /\ UNCHANGED <<busy, mutex, target, stale>>

Spin(t) == pc[t] = "spin" /\ target[t] \in busy /\ UNCHANGED vars

(* Mutant: one look whether the token is busy, instead of a loop.          *)
SpinEndAtOnce(t) == Go(t, "spin", "spinwait") /\ UNCHANGED <<lockVars, tokenVars, target, stale>>

SpinEnd(t) ==
    /\ target[t] \notin busy
    /\ Go(t, "spin", "spinwait")
    /\ UNCHANGED <<lockVars, tokenVars, target, stale>>

(* Mutant: the thread goes on without waiting for whoever stopped it.      *)
SpinResumedAtOnce(t) ==
    Go(t, "spinwait", "unlock") /\ UNCHANGED <<lockVars, tokenVars, target, stale>>

SpinResumed(t) ==
    Go(t, "spinwait", "unlock") /\ Resumed(t) /\ UNCHANGED <<tokenVars, target, stale>>

InvalidateEnd(t) ==
    /\ Go(t, "unlock", "run")
    /\ mutex' = [mutex EXCEPT ![target[t]] = Nobody]
    /\ target' = [target EXCEPT ![t] = Nobody]
    /\ stale' = stale \cup {target[t]}
    /\ UNCHANGED <<lockVars, invalid, busy>>

-----------------------------------------------------------------------------
Use(c) ==
    \/ Busy(c) \/ Check(c) \/ UseLocked(c) \/ UseResumed(c) \/ UseEnd(c)
    \/ Unbusy(c) \/ ClearSuspended(c) \/ ClearLock(c) \/ ClearResumed(c) \/ Clear(c)
    \/ Fill(c) \/ Rebusy(c)
Stop(c) == StopOthers(c) \/ Stopped(c) \/ RmwFinish(c) \/ ResumeOthers(c) \/ ResumeEnd(c)
Invalidation(t) ==
    \/ InvalidateLock(t) \/ InvalidateResumed(t) \/ Mark(t) \/ SpinEnd(t)
    \/ SpinResumed(t) \/ InvalidateEnd(t)

Step(t) ==
    \/ Pause(t) \/ Unpause(t) \/ Invalidation(t)
    \/ \E c \in Cpus : Invalidate(t, c)
    \/ t \in Cpus /\ (Use(t) \/ Stop(t))

Next ==
    \/ \E t \in Threads : Step(t) /\ UNCHANGED writersFirst
    \/ \E t \in Threads : Spin(t)

(* What a thread does when a lock or a token is free for it.               *)
Acquire(t) ==
    \/ Unpause(t) \/ InvalidateLock(t) \/ InvalidateResumed(t) \/ SpinEnd(t) \/ SpinResumed(t)
    \/ t \in Cpus /\ (UseResumed(t) \/ ClearLock(t) \/ ClearResumed(t) \/ Stopped(t) \/ ResumeEnd(t))

(* A thread that is not blocked goes on; one that finds what it waits for  *)
(* free again and again gets it; a burst of instructions ends.             *)
Fairness ==
    \A t \in Threads :
        /\ WF_vars(Step(t) /\ UNCHANGED writersFirst)
        /\ SF_vars(Acquire(t) /\ UNCHANGED writersFirst)
        /\ SF_vars(Pause(t) /\ UNCHANGED writersFirst)

Spec == Init /\ [][Next]_vars /\ Fairness

-----------------------------------------------------------------------------
(* Where a thread holds tme_rwlock_suspere for reading, and where a mutex. *)
Running == {"run", "check", "use", "used", "unbusy", "clear", "clearing", "fill", "rebusy",
            "recheck", "mark", "unlock"}
Holding == {"lockwait", "mark", "spin", "spinwait", "unlock"}

(* The types of the variables, and: a thread has tme_rwlock_suspere while  *)
(* it runs and never while it waits; a token's mutex is held by whoever    *)
(* clears or invalidates it.                                               *)
TypeOK ==
    /\ readers = {t \in Threads : pc[t] \in Running} /\ writer \in Cpus \cup {Nobody} /\ waiting \subseteq Cpus
    /\ invalid \subseteq Cpus /\ busy \subseteq Cpus
    /\ mutex \in [Cpus -> Threads \cup {Nobody}]
    /\ pc \in [Threads -> {"run", "paused"} \cup Using \cup Invalidating]
    /\ target \in [Threads -> Cpus \cup {Nobody}]
    /\ stale \subseteq Cpus
    /\ \A c \in Cpus : mutex[c] # Nobody =>
        \/ mutex[c] = c /\ pc[c] \in {"clearwait", "clearing"}
        \/ target[mutex[c]] = c /\ pc[mutex[c]] \in Holding

(* Once tme_token_invalidate has returned nobody uses what the entry stood *)
(* for, until it is filled again: the invalidator may free or change it.   *)
UsesLive ==
    \A c \in stale : pc[c] \notin {"use", "usewait", "used", "stopping", "stopped"}

(* Whoever stopped the world is alone: no other thread runs, but for those *)
(* that wait, or spin on a token.                                          *)
Alone ==
    \A c \in Cpus : pc[c] \in {"stopped", "resume"} =>
        \A t \in Threads \ {c} :
            pc[t] \in {"paused", "usewait", "clearlock", "clearwait", "stopping",
                       "resumewait", "lock", "lockwait", "spin", "spinwait"}

(* An invalidation returns, although the user of the token may be waiting  *)
(* to stop the world, or be stopped, with the token busy; if readers do    *)
(* not starve who wants to stop the world.                                 *)
InvalidationReturns ==
    writersFirst => \A t \in Threads : pc[t] = "spin" ~> pc[t] = "run"
=============================================================================
