---------------------------- MODULE TokensProofs ----------------------------
(***************************************************************************)
(* Proofs about tokens and stopping the world, for any number of CPUs and  *)
(* of other threads.                                                       *)
(***************************************************************************)
EXTENDS Tokens, TLAPS

(* Whose user has seen the token valid while it was busy.                  *)
Uses == {"use", "usewait", "used", "stopping", "stopped"}

(* A token is busy at least where its user relies on it.                   *)
Pinned ==
    \A c \in Cpus : pc[c] \in Uses \cup {"check", "recheck", "unbusy"} => c \in busy

(* Who invalidates has a target, and only CPUs use tokens.                 *)
Targeted ==
    \A t \in Threads : /\ pc[t] \in Invalidating => target[t] \in Cpus
                       /\ pc[t] \in Using => t \in Cpus

(* Who is past the lock of a mutex has it.                                 *)
Locked ==
    /\ \A t \in Threads : pc[t] \in Holding => mutex[target[t]] = t
    /\ \A c \in Cpus : pc[c] \in {"clearwait", "clearing"} => mutex[c] = c

(* The writer is the one thread that has stopped the world, with no reader.*)
OneWriter ==
    /\ writer # Nobody => readers = {}
    /\ \A c \in Cpus : pc[c] \in {"stopped", "resume"} <=> writer = c

(* A token stays invalid until its mutex is released, and once nobody used *)
(* it, nobody does.                                                        *)
Released ==
    \A t \in Threads :
        /\ pc[t] \in {"spin", "spinwait", "unlock"} => target[t] \in invalid
        /\ pc[t] \in {"spinwait", "unlock"} => pc[target[t]] \notin Uses

(* What was taken away stays invalid until it is about to be filled again. *)
StaleInvalid == \A c \in stale : c \in invalid \/ pc[c] = "fill"

IInv ==
    /\ TypeOK /\ Pinned /\ Targeted /\ Locked /\ OneWriter /\ Released
    /\ StaleInvalid /\ UsesLive

USE TokensAssumption DEF Threads

LEMMA InitIInv == Init => IInv
  BY DEF Init, IInv, TypeOK, Pinned, Targeted, Locked, OneWriter, Released, StaleInvalid,
     UsesLive, Uses, Using, Invalidating, Running, Holding

(* What a CPU does with its entry keeps the invariant.                     *)
LEMMA UseStep ==
  ASSUME IInv, NEW c \in Cpus, Use(c)
  PROVE  IInv'
<1> USE DEF IInv, TypeOK, Pinned, Targeted, Locked, OneWriter, Released, StaleInvalid,
        UsesLive, Uses, Using, Invalidating, Running, Holding, Go, lockVars, tokenVars
<1>1. CASE Busy(c)
  BY <1>1 DEF Busy
<1>2. CASE Check(c)
  BY <1>2 DEF Check
<1>3. CASE UseLocked(c)
  BY <1>3 DEF UseLocked, Suspended
<1>4. CASE UseResumed(c)
  BY <1>4 DEF UseResumed, Resumed
<1>5. CASE UseEnd(c)
  BY <1>5 DEF UseEnd
<1>6. CASE Unbusy(c)
  BY <1>6 DEF Unbusy
<1>7. CASE ClearSuspended(c)
  BY <1>7 DEF ClearSuspended, Suspended
<1>8. CASE ClearLock(c)
  BY <1>8 DEF ClearLock
<1>9. CASE ClearResumed(c)
  BY <1>9 DEF ClearResumed, Resumed
<1>10. CASE Clear(c)
  BY <1>10 DEF Clear
<1>11. CASE Fill(c)
  BY <1>11 DEF Fill
<1>12. CASE Rebusy(c)
  BY <1>12 DEF Rebusy
<1>13. QED
  BY <1>1, <1>2, <1>3, <1>4, <1>5, <1>6, <1>7, <1>8, <1>9, <1>10, <1>11, <1>12 DEF Use

(* So does stopping the world, and going on again: nobody is a reader when *)
(* a writer gets the lock, and nobody becomes one before it lets go.       *)
LEMMA StopStep ==
  ASSUME IInv, NEW c \in Cpus, Stop(c)
  PROVE  IInv'
<1> USE DEF IInv, TypeOK, Pinned, Targeted, Locked, OneWriter, Released, StaleInvalid,
        UsesLive, Uses, Using, Invalidating, Running, Holding, Go, lockVars, tokenVars
<1>1. CASE StopOthers(c)
  BY <1>1 DEF StopOthers
<1>2. CASE Stopped(c)
  BY <1>2 DEF Stopped
<1>3. CASE RmwFinish(c)
  BY <1>3 DEF RmwFinish
<1>4. CASE ResumeOthers(c)
  BY <1>4 DEF ResumeOthers
<1>5. CASE ResumeEnd(c)
  BY <1>5 DEF ResumeEnd, Resumed
<1>6. QED
  BY <1>1, <1>2, <1>3, <1>4, <1>5 DEF Stop

(* So does an invalidation: the token it waits for is invalid and stays so,*)
(* because its user cannot clear it without the mutex.                     *)
LEMMA InvalidationStep ==
  ASSUME IInv, NEW t \in Threads, Invalidation(t)
  PROVE  IInv'
<1> USE DEF IInv, TypeOK, Pinned, Targeted, Locked, OneWriter, Released, StaleInvalid,
        UsesLive, Uses, Using, Invalidating, Running, Holding, Go, lockVars, tokenVars
<1>1. CASE InvalidateLock(t)
  BY <1>1 DEF InvalidateLock
<1>2. CASE InvalidateResumed(t)
  BY <1>2 DEF InvalidateResumed, Resumed
<1>3. CASE Mark(t)
  BY <1>3 DEF Mark, Suspended
<1>4. CASE SpinEnd(t)
  BY <1>4 DEF SpinEnd
<1>5. CASE SpinResumed(t)
  BY <1>5 DEF SpinResumed, Resumed
<1>6. CASE InvalidateEnd(t)
  BY <1>6 DEF InvalidateEnd
<1>7. QED
  BY <1>1, <1>2, <1>3, <1>4, <1>5, <1>6 DEF Invalidation

(* Every step of a thread keeps the invariant.                             *)
LEMMA StepIInv ==
  ASSUME IInv, NEW t \in Threads, Step(t)
  PROVE  IInv'
<1> USE DEF IInv, TypeOK, Pinned, Targeted, Locked, OneWriter, Released, StaleInvalid,
        UsesLive, Uses, Using, Invalidating, Running, Holding, Go, lockVars, tokenVars
<1>1. CASE Pause(t)
  BY <1>1 DEF Pause, Suspended
<1>2. CASE Unpause(t)
  BY <1>2 DEF Unpause, Resumed
<1>3. CASE Invalidation(t)
  BY <1>3, InvalidationStep
<1>4. ASSUME NEW c \in Cpus, Invalidate(t, c)
      PROVE  IInv'
  BY <1>4 DEF Invalidate, Suspended
<1>5. CASE t \in Cpus /\ Use(t)
  BY <1>5, UseStep
<1>6. CASE t \in Cpus /\ Stop(t)
  BY <1>6, StopStep
<1>7. QED
  BY <1>1, <1>2, <1>3, <1>4, <1>5, <1>6 DEF Step

(* So the invariant holds always.                                          *)
THEOREM TokensInvariance == Spec => []IInv
<1>1. Init => IInv
  BY InitIInv
<1>2. IInv /\ [Next]_vars => IInv'
  <2> SUFFICES ASSUME IInv, [Next]_vars
               PROVE  IInv'
    OBVIOUS
  <2>1. ASSUME NEW t \in Threads, Step(t)
        PROVE  IInv'
    BY <2>1, StepIInv
  <2>2. CASE UNCHANGED vars
    BY <2>2 DEF vars, lockVars, tokenVars, IInv, TypeOK, Pinned, Targeted, Locked,
       OneWriter, Released, StaleInvalid, UsesLive
  <2>3. QED
    BY <2>1, <2>2 DEF Next, Spin
<1>3. QED
  BY <1>1, <1>2, PTL DEF Spec

(* Every variable keeps its type: a thread is a reader of                  *)
(* tme_rwlock_suspere exactly where it runs, and a token's mutex is held   *)
(* by nobody but those who clear or invalidate it (token.c,                *)
(* threads-posix.h).                                                       *)
THEOREM TokensTypeCorrect == Spec => []TypeOK
<1>1. IInv => TypeOK
  BY DEF IInv
<1>2. QED
  BY <1>1, TokensInvariance, PTL

(* When tme_token_invalidate has returned nobody uses what the entry stood *)
(* for until it is filled again, however many threads invalidate, use and  *)
(* stop the world at once.                                                 *)
THEOREM NoUseAfterInvalidation == Spec => []UsesLive
<1>1. IInv => UsesLive
  BY DEF IInv
<1>2. QED
  BY <1>1, TokensInvariance, PTL

(* Between tme_thread_suspend_others and tme_thread_resume_others all      *)
(* other threads are waiting or spinning, among them those that wanted to  *)
(* stop the world themselves.                                              *)
THEOREM StopperAlone == Spec => []Alone
<1>1. IInv => Alone
  BY DEF IInv, TypeOK, Targeted, OneWriter, Alone, Using, Invalidating, Running
<1>2. QED
  BY <1>1, TokensInvariance, PTL
============================================================================
