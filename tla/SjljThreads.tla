---------------------------- MODULE SjljThreads ----------------------------
(***************************************************************************)
(* The cooperative thread system of libtme/threads-sjlj.c.  Everything     *)
(* runs in one host thread: tme_sjlj_threads_main_iter waits in select,    *)
(* moves the threads that can run to the dispatching list and dispatches   *)
(* them one after another.  A thread runs until it calls a yield function, *)
(* which records what the thread waits for and jumps back to the           *)
(* dispatcher.                                                             *)
(*                                                                         *)
(* Time is kept relative to now: due, minTimeout and wait are the ticks    *)
(* still to go, 0 for a time that has come.  This loses nothing, because   *)
(* the code compares absolute times only with now and with times that are  *)
(* still to come.                                                          *)
(*                                                                         *)
(* Descriptors are (file descriptor, direction) pairs, and a thread waits  *)
(* for at most one, which no other thread waits for.                       *)
(***************************************************************************)
EXTENDS Integers, Lists

CONSTANTS Threads,   \* the thread structures, each used for one thread
          Conds,     \* the condition variables
          Fds,       \* descriptors
          Sleeps,    \* the durations the threads sleep
          Big,       \* BIG_TIMEOUT, the longest sleep
          Numbers,   \* dispatch numbers are modulo this (2^32 in the code)
          NoThread, NoCond, NoFd

ASSUME BigAssumption    == Big \in Nat \ {0}
ASSUME SleepsAssumption == Sleeps \subseteq 1 .. Big
ASSUME NumbersAssumption == Numbers \in Nat /\ Numbers > 1
ASSUME NullAssumption   == NoThread \notin Threads /\ NoCond \notin Conds
                           /\ NoFd \notin Fds

VARIABLES
  all,         \* tme_sjlj_threads_all
  timeouts,    \* tme_sjlj_threads_timeout
  runnable,    \* tme_sjlj_threads_runnable
  dispatched,  \* tme_sjlj_threads_dispatching, up to the active thread
  dispatching, \* tme_sjlj_threads_dispatching, from the active thread on
  thread,      \* the fields of each tme_sjlj_thread
  dispatchNumber, \* _tme_sjlj_thread_dispatch_number
  minTimeout,  \* tme_sjlj_thread_blocked.tme_sjlj_thread_timeout, from now
  phase,       \* where the host thread is
  wait,        \* what is left of the select timeout
  scan,        \* the position of _tme_sjlj_threads_dispatching_timeout
  fired,       \* the descriptors of event_wait not yet handled
  broadcasting,\* the condition of an unfinished broadcast
  ready,       \* the descriptors that are ready
  ran          \* history: the threads dispatched in this pass

lists == <<runnable, dispatched, dispatching>>
clock == <<minTimeout, wait>>
loop  == <<scan, fired>>
vars  == <<all, timeouts, lists, thread, dispatchNumber, clock, phase, loop,
           broadcasting, ready, ran>>

----------------------------------------------------------------------------
Phases == {"setup", "iter", "select", "timeouts", "events", "dispatch", "run"}

Numbered == 0 .. Numbers - 1

Thread == [state  : {"NEW", "BLOCKED", "RUNNABLE", "EXITED"},
           cond   : Conds \cup {NoCond},
           events : Fds \cup {NoFd},
           sleep  : BOOLEAN,
           due    : 0 .. Big,
           number : Numbered]

TypeOK == /\ all \in Seq(Threads)
          /\ timeouts \in Seq(Threads)
          /\ runnable \in Seq(Threads)
          /\ dispatched \in Seq(Threads)
          /\ dispatching \in Seq(Threads)
          /\ thread \in [Threads -> Thread]
          /\ dispatchNumber \in Numbered
          /\ minTimeout \in 0 .. Big
          /\ phase \in Phases
          /\ wait \in 0 .. Big
          /\ scan \in Nat \ {0}
          /\ fired \subseteq Fds
          /\ broadcasting \in Conds \cup {NoCond}
          /\ ready \subseteq Fds
          /\ ran \subseteq Threads

Init == /\ all = <<>> /\ timeouts = <<>>
        /\ runnable = <<>> /\ dispatched = <<>> /\ dispatching = <<>>
        /\ thread = [t \in Threads |->
                       [state |-> "NEW", cond |-> NoCond, events |-> NoFd,
                        sleep |-> FALSE, due |-> 0, number |-> 0]]
        /\ dispatchNumber = 0
        /\ minTimeout = 0 /\ wait = 0
        /\ phase = "setup"
        /\ scan = 1 /\ fired = {}
        /\ broadcasting = NoCond
        /\ ready = {}
        /\ ran = {}

----------------------------------------------------------------------------
(* tme_sjlj_thread_active.                                                 *)
Active == IF phase = "run" THEN Head(dispatching) ELSE NoThread

(* What event_wait is asked about: tme_sjlj_main_events.                   *)
Registered == {thread[t].events : t \in Threads} \ {NoFd}

(* Mutant: a thread made runnable always joins the pass.                   *)
MakeRunnableAtOnce(t, number) ==
  IF Active # NoThread
  THEN /\ dispatching' = <<Active, t>> \o Tail(dispatching)
       /\ UNCHANGED <<runnable, dispatched>>
  ELSE /\ runnable' = <<t>> \o runnable
       /\ UNCHANGED <<dispatched, dispatching>>

(* _tme_sjlj_change_state to RUNNABLE, for a thread on no list.            *)
MakeRunnable(t, number) ==
  IF Active # NoThread /\ number # dispatchNumber
  THEN /\ dispatching' = <<Active, t>> \o Tail(dispatching)
       /\ UNCHANGED <<runnable, dispatched>>
  ELSE /\ runnable' = <<t>> \o runnable
       /\ UNCHANGED <<dispatched, dispatching>>

(* Mutant: the thread is not unlinked from the list it is on.              *)
MakeDispatchingTwice(t) ==
  /\ dispatching' = <<t>> \o dispatching
  /\ thread' = [thread EXCEPT ![t].state = "RUNNABLE"]
  /\ UNCHANGED <<runnable, dispatched>>

(* _tme_sjlj_change_state to DISPATCHING, from any list or none.           *)
MakeDispatching(t) ==
  /\ dispatching' = <<t>> \o Unlink(dispatching, t)
  /\ thread' = [thread EXCEPT ![t].state = "RUNNABLE"]
  /\ UNCHANGED <<runnable, dispatched>>

----------------------------------------------------------------------------
(* The calls a thread makes, and the main program before the loop starts.  *)

(* n - 1 in an unsigned integer.                                           *)
Before(n) == IF n = 0 THEN Numbers - 1 ELSE n - 1

Calling == phase \in {"setup", "run"} /\ broadcasting = NoCond

ThreadCreate(t) ==
  LET number == Before(dispatchNumber) IN
  /\ Calling
  /\ thread[t].state = "NEW"
  /\ all' = <<t>> \o all
  /\ MakeRunnable(t, number)
  /\ thread' = [thread EXCEPT ![t].state = "RUNNABLE", ![t].number = number]
  /\ UNCHANGED <<timeouts, dispatchNumber, clock, phase, loop, broadcasting,
                 ready, ran>>

Waiting(t, c) == thread[t].state = "BLOCKED" /\ thread[t].cond = c

(* The first thread of the all-threads list that waits on c.               *)
Notified(c, t) == \E i \in DOMAIN all :
                    /\ all[i] = t
                    /\ Waiting(t, c)
                    /\ \A j \in 1 .. i - 1 : ~ Waiting(all[j], c)

(* One turn of the loop of tme_sjlj_cond_notify.                           *)
Notify(c, t) ==
  /\ Notified(c, t)
  /\ MakeRunnable(t, thread[t].number)
  /\ thread' = [thread EXCEPT ![t].state = "RUNNABLE"]
  /\ UNCHANGED <<all, timeouts, dispatchNumber, clock, phase, loop, ready, ran>>

CondNotify(c, broadcast) ==
  /\ phase = "run" /\ broadcasting = NoCond
  /\ broadcasting' = IF broadcast THEN c ELSE NoCond
  /\ \E t \in Threads : Notify(c, t)

BroadcastNext ==
  /\ phase = "run" /\ broadcasting # NoCond
  /\ UNCHANGED broadcasting
  /\ \E t \in Threads : Notify(broadcasting, t)

BroadcastEnd ==
  /\ phase = "run" /\ broadcasting # NoCond
  /\ \A t \in Threads : ~ Waiting(t, broadcasting)
  /\ broadcasting' = NoCond
  /\ UNCHANGED <<all, timeouts, lists, thread, dispatchNumber, clock, phase,
                 loop, ready, ran>>

----------------------------------------------------------------------------
(* Giving up the processor: tme_sjlj_yield and the functions that fill in  *)
(* tme_sjlj_thread_blocked before they call it.                            *)

Yielding == phase = "run" /\ broadcasting = NoCond

(* Mutant: the new sleeper goes to the head of the timeout list.           *)
TimeoutPlaceFirst(d, p) == p = 1

(* Where tme_sjlj_yield inserts a thread due in d ticks: after the threads *)
(* that are due no later.                                                  *)
TimeoutPlace(d, p) ==
  /\ \A i \in 1 .. p - 1 : thread[timeouts[i]].due <= d
  /\ p <= Len(timeouts) => thread[timeouts[p]].due > d

(* A thread blocks unless it waits for nothing.                            *)
Blocks(c, f, s) == c # NoCond \/ f # NoFd \/ s # 0

(* The thread's fields after tme_sjlj_yield copied tme_sjlj_thread_blocked *)
(* into them.  A due time means something on the timeout list only.        *)
Yielded(r, c, f, s) ==
  [r EXCEPT !.state  = IF Blocks(c, f, s) THEN "BLOCKED" ELSE "RUNNABLE",
            !.cond   = c,
            !.events = f,
            !.sleep  = s # 0,
            !.due    = s]

(* tme_sjlj_yield, waiting for condition c, descriptor f and s ticks.      *)
Yield(c, f, s) ==
  LET t == Active IN
  /\ Yielding
  /\ thread' = [thread EXCEPT ![t] = Yielded(@, c, f, s)]
  /\ IF s # 0
     THEN \E p \in 1 .. Len(timeouts) + 1 :
            TimeoutPlace(s, p) /\ timeouts' = InsertAt(timeouts, p, t)
     ELSE UNCHANGED timeouts
  /\ dispatching' = Tail(dispatching)
  /\ dispatched' = IF Blocks(c, f, s) THEN dispatched
                   ELSE Append(dispatched, t)
  /\ phase' = "dispatch"
  /\ UNCHANGED <<all, runnable, dispatchNumber, clock, loop, broadcasting,
                 ready, ran>>

PlainYield == Yield(NoCond, NoFd, 0)

CondWaitYield(c) == Yield(c, NoFd, 0)

CondSleepYield(c, s) == Yield(c, NoFd, s)

SleepYield(s) == Yield(NoCond, NoFd, s)

(* tme_sjlj_event_wait polls first, and yields only if nothing is ready.   *)
EventWait(f, s) ==
  /\ f \notin ready
  /\ \A u \in Threads \ {Active} : thread[u].events # f
  /\ Yield(NoCond, f, s)

(* Mutant: the list is cut at the thread that exits.                       *)
ExitCutting ==
  LET t == Active IN
  /\ Yielding
  /\ thread' = [thread EXCEPT ![t] = [@ EXCEPT !.state  = "EXITED",
                                               !.cond   = NoCond,
                                               !.events = NoFd,
                                               !.sleep  = FALSE]]
  /\ all' = SubSeq(all, 1, (CHOOSE i \in DOMAIN all : all[i] = t) - 1)
  /\ dispatching' = Tail(dispatching)
  /\ phase' = "dispatch"
  /\ UNCHANGED <<timeouts, runnable, dispatched, dispatchNumber, clock, loop,
                 broadcasting, ready, ran>>

(* tme_sjlj_thread_exit.                                                   *)
Exit ==
  LET t == Active IN
  /\ Yielding
  /\ thread' = [thread EXCEPT ![t] = [@ EXCEPT !.state  = "EXITED",
                                               !.cond   = NoCond,
                                               !.events = NoFd,
                                               !.sleep  = FALSE]]
  /\ all' = Unlink(all, t)
  /\ dispatching' = Tail(dispatching)
  /\ phase' = "dispatch"
  /\ UNCHANGED <<timeouts, runnable, dispatched, dispatchNumber, clock, loop,
                 broadcasting, ready, ran>>

LeaveProcessor == \/ PlainYield
                  \/ \E c \in Conds : CondWaitYield(c)
                  \/ \E c \in Conds, s \in Sleeps : CondSleepYield(c, s)
                  \/ \E s \in Sleeps : SleepYield(s)
                  \/ \E f \in Fds, s \in Sleeps \cup {Big} : EventWait(f, s)
                  \/ Exit

----------------------------------------------------------------------------
(* The main loop.                                                          *)

Start == /\ phase = "setup" /\ all # <<>>
         /\ phase' = "iter"
         /\ UNCHANGED <<all, timeouts, lists, thread, dispatchNumber, clock,
                        loop, broadcasting, ready, ran>>

(* The timeout that main_iter hands to select.  When threads sleep but the *)
(* recorded minimum has passed, no statement assigns the variable.         *)
SelectTimeout ==
  IF runnable # <<>> THEN {0}
  ELSE IF timeouts = <<>> THEN {Big}
  ELSE IF minTimeout > 0 THEN {minTimeout}
  ELSE 0 .. Big

(* main_iter up to the select.  Without descriptors it does not wait.      *)
MainIter ==
  /\ phase = "iter"
  /\ timeouts = <<>> => runnable # <<>> \/ Registered # {}
  /\ IF Registered = {} THEN wait' = 0 ELSE wait' \in SelectTimeout
  /\ phase' = "select"
  /\ UNCHANGED <<all, timeouts, lists, thread, dispatchNumber, minTimeout,
                 loop, broadcasting, ready, ran>>

(* Mutant: what select found is ignored while threads are runnable.        *)
SelectReturnDeaf ==
  /\ phase = "select"
  /\ wait = 0 \/ ready \cap Registered # {}
  /\ fired' = IF runnable = <<>> THEN ready \cap Registered ELSE {}
  /\ dispatching' = runnable
  /\ runnable' = <<>>
  /\ scan' = 1
  /\ wait' = 0
  /\ ran' = {}
  /\ phase' = "timeouts"
  /\ UNCHANGED <<all, timeouts, dispatched, thread, dispatchNumber, minTimeout,
                 broadcasting, ready>>

(* select returns, and _tme_sjlj_threads_dispatching_runnable.             *)
SelectReturn ==
  /\ phase = "select"
  /\ wait = 0 \/ ready \cap Registered # {}
  /\ fired' = ready \cap Registered
  /\ dispatching' = runnable
  /\ runnable' = <<>>
  /\ scan' = 1
  /\ wait' = 0
  /\ ran' = {}
  /\ phase' = "timeouts"
  /\ UNCHANGED <<all, timeouts, dispatched, thread, dispatchNumber, minTimeout,
                 broadcasting, ready>>

(* Mutant: only the threads that wait for nothing else time out.           *)
DispatchingTimeoutEventless ==
  LET t == timeouts[scan] IN
  /\ phase = "timeouts" /\ scan <= Len(timeouts)
  /\ IF thread[t].due = 0 /\ thread[t].events = NoFd
     THEN MakeDispatching(t) /\ UNCHANGED minTimeout
     ELSE /\ minTimeout' = IF minTimeout = 0 \/ thread[t].due < minTimeout
                           THEN thread[t].due ELSE minTimeout
          /\ UNCHANGED <<lists, thread>>
  /\ scan' = scan + 1
  /\ UNCHANGED <<all, timeouts, dispatchNumber, wait, phase, fired,
                 broadcasting, ready, ran>>

(* One turn of the loop of _tme_sjlj_threads_dispatching_timeout.          *)
DispatchingTimeout ==
  LET t == timeouts[scan] IN
  /\ phase = "timeouts" /\ scan <= Len(timeouts)
  /\ IF thread[t].due = 0
     THEN MakeDispatching(t) /\ UNCHANGED minTimeout
     ELSE /\ minTimeout' = IF minTimeout = 0 \/ thread[t].due < minTimeout
                           THEN thread[t].due ELSE minTimeout
          /\ UNCHANGED <<lists, thread>>
  /\ scan' = scan + 1
  /\ UNCHANGED <<all, timeouts, dispatchNumber, wait, phase, fired,
                 broadcasting, ready, ran>>

TimeoutsDone ==
  /\ phase = "timeouts" /\ scan > Len(timeouts)
  /\ scan' = 1
  /\ phase' = "events"
  /\ UNCHANGED <<all, timeouts, lists, thread, dispatchNumber, clock, fired,
                 broadcasting, ready, ran>>

(* One turn of the loop over what event_wait returned.                     *)
DispatchingEvent(f) ==
  /\ phase = "events" /\ f \in fired
  /\ \E t \in Threads : thread[t].events = f /\ MakeDispatching(t)
  /\ fired' = fired \ {f}
  /\ UNCHANGED <<all, timeouts, dispatchNumber, clock, phase, scan,
                 broadcasting, ready, ran>>

EventsDone ==
  /\ phase = "events" /\ fired = {}
  /\ phase' = "dispatch"
  /\ UNCHANGED <<all, timeouts, lists, thread, dispatchNumber, clock, loop,
                 broadcasting, ready, ran>>

(* Mutant: a thread whose turn comes before its timeout stays listed.      *)
DispatchStillListed ==
  LET t == Head(dispatching) IN
  /\ phase = "dispatch" /\ dispatching # <<>>
  /\ timeouts' = IF thread[t].due = 0 THEN Unlink(timeouts, t) ELSE timeouts
  /\ thread' = [thread EXCEPT ![t].number = dispatchNumber, ![t].due = 0]
  /\ phase' = "run"
  /\ ran' = ran \cup {t}
  /\ UNCHANGED <<all, lists, dispatchNumber, clock, loop, broadcasting, ready>>

(* Mutant: the thread keeps its old dispatch number.                       *)
DispatchUnnumbered ==
  LET t == Head(dispatching) IN
  /\ phase = "dispatch" /\ dispatching # <<>>
  /\ timeouts' = Unlink(timeouts, t)
  /\ thread' = [thread EXCEPT ![t].due = 0]
  /\ phase' = "run"
  /\ ran' = ran \cup {t}
  /\ UNCHANGED <<all, lists, dispatchNumber, clock, loop, broadcasting, ready>>

(* tme_sjlj_dispatch takes the next thread and calls its function.  Off    *)
(* the timeout list its due time is not read again.                        *)
Dispatch ==
  LET t == Head(dispatching) IN
  /\ phase = "dispatch" /\ dispatching # <<>>
  /\ timeouts' = Unlink(timeouts, t)
  /\ thread' = [thread EXCEPT ![t].number = dispatchNumber, ![t].due = 0]
  /\ phase' = "run"
  /\ ran' = ran \cup {t}
  /\ UNCHANGED <<all, lists, dispatchNumber, clock, loop, broadcasting, ready>>

(* Mutant: the number of passes does not wrap around.                      *)
DispatchEndUnwrapped ==
  /\ phase = "dispatch" /\ dispatching = <<>>
  /\ runnable' = dispatched \o runnable
  /\ dispatched' = <<>>
  /\ dispatchNumber' = dispatchNumber + 1
  /\ phase' = "iter"
  /\ UNCHANGED <<all, timeouts, dispatching, thread, clock, loop,
                 broadcasting, ready, ran>>

(* Mutant: the runnable list is overwritten, not joined.                   *)
DispatchEndDropping ==
  /\ phase = "dispatch" /\ dispatching = <<>>
  /\ runnable' = dispatched
  /\ dispatched' = <<>>
  /\ dispatchNumber' = (dispatchNumber + 1) % Numbers
  /\ phase' = "iter"
  /\ UNCHANGED <<all, timeouts, dispatching, thread, clock, loop,
                 broadcasting, ready, ran>>

(* The end of tme_sjlj_dispatch: whoever did not block goes back, before   *)
(* the threads that became runnable during the pass.                       *)
DispatchEnd ==
  /\ phase = "dispatch" /\ dispatching = <<>>
  /\ runnable' = dispatched \o runnable
  /\ dispatched' = <<>>
  /\ dispatchNumber' = (dispatchNumber + 1) % Numbers
  /\ phase' = "iter"
  /\ UNCHANGED <<all, timeouts, dispatching, thread, clock, loop,
                 broadcasting, ready, ran>>

----------------------------------------------------------------------------
(* The host: time passes, except inside a loop that read the clock once,   *)
(* and descriptors become ready or are drained.                            *)

Less(n) == IF n = 0 THEN 0 ELSE n - 1

Tick ==
  /\ phase \in {"iter", "select", "dispatch", "run"}
  /\ \/ minTimeout # 0 \/ wait # 0
     \/ \E t \in Threads : thread[t].due # 0
  /\ thread' = [t \in Threads |-> [thread[t] EXCEPT !.due = Less(@)]]
  /\ minTimeout' = Less(minTimeout)
  /\ wait' = Less(wait)
  /\ UNCHANGED <<all, timeouts, lists, dispatchNumber, phase, loop,
                 broadcasting, ready, ran>>

FdReady(f) ==
  /\ ready' = ready \cup {f}
  /\ f \notin ready
  /\ UNCHANGED <<all, timeouts, lists, thread, dispatchNumber, clock, phase,
                 loop, broadcasting, ran>>

(* Only the thread that waits for a descriptor reads it.                   *)
FdDrain(f) ==
  /\ Yielding
  /\ f \in ready
  /\ \A t \in Threads \ {Active} : thread[t].events # f
  /\ ready' = ready \ {f}
  /\ UNCHANGED <<all, timeouts, lists, thread, dispatchNumber, clock, phase,
                 loop, broadcasting, ran>>

Scheduler == \/ Start \/ MainIter \/ SelectReturn \/ DispatchingTimeout
             \/ TimeoutsDone \/ (\E f \in Fds : DispatchingEvent(f))
             \/ EventsDone \/ Dispatch \/ DispatchEnd

Calls == \/ \E t \in Threads : ThreadCreate(t)
         \/ \E c \in Conds, b \in BOOLEAN : CondNotify(c, b)
         \/ BroadcastNext \/ BroadcastEnd

Host == Tick \/ \E f \in Fds : FdReady(f) \/ FdDrain(f)

Next == Scheduler \/ Calls \/ LeaveProcessor \/ Host

(* The scheduler never stops by itself, a broadcast loop ends, and every   *)
(* thread function yields in the end: that is what cooperative means.      *)
Untimed == /\ WF_vars(Scheduler)
           /\ WF_vars(BroadcastNext \/ BroadcastEnd)
           /\ WF_vars(LeaveProcessor)

(* Time passes however the loop spins: strong fairness, since the loops    *)
(* that read the clock once disable Tick.                                  *)
Fairness == Untimed /\ SF_vars(Tick)

Spec == Init /\ [][Next]_vars

UntimedSpec == Spec /\ Untimed

FairSpec == Spec /\ Fairness

----------------------------------------------------------------------------
(* Safety.                                                                 *)

(* A thread that is not blocked is on exactly one of the runnable and      *)
(* dispatching lists, once; a blocked or finished thread is on none.  What *)
(* _tme_sjlj_change_state does with the list pointers relies on it.        *)
OnOneList ==
  /\ NoRepeats(runnable) /\ NoRepeats(dispatched) /\ NoRepeats(dispatching)
  /\ ToSet(runnable) \cap ToSet(dispatched) = {}
  /\ ToSet(runnable) \cap ToSet(dispatching) = {}
  /\ ToSet(dispatched) \cap ToSet(dispatching) = {}
  /\ ToSet(runnable) \cup ToSet(dispatched) \cup ToSet(dispatching)
       = {t \in Threads : thread[t].state = "RUNNABLE"}

(* The dispatching list is empty between passes (the assertion of          *)
(* _tme_sjlj_threads_dispatching_runnable), and a running thread is its    *)
(* active element.                                                         *)
PassShape ==
  /\ phase \in {"setup", "iter", "select"} => dispatching = <<>>
  /\ phase \notin {"dispatch", "run"} => dispatched = <<>>
  /\ phase = "run" => dispatching # <<>>
  /\ phase \in {"timeouts", "events"} => runnable = <<>>

(* Outside its own turn a thread is on the timeout list, once, exactly     *)
(* when it sleeps: the assertions of tme_sjlj_dispatch and tme_sjlj_yield. *)
TimeoutListed ==
  /\ NoRepeats(timeouts)
  /\ ToSet(timeouts) = {t \in Threads : thread[t].sleep /\ t # Active}

(* The timeout list is sorted by due time.                                 *)
TimeoutsSorted ==
  \A i, j \in DOMAIN timeouts :
    i < j => thread[timeouts[i]].due <= thread[timeouts[j]].due

(* A blocked thread can be woken: it is on the all-threads list that       *)
(* tme_sjlj_cond_notify walks and waits on a condition, or it is on the    *)
(* timeout list, where every thread that waits for a descriptor is too.    *)
NobodyStranded ==
  \A t \in Threads : thread[t].state = "BLOCKED" =>
    \/ thread[t].cond # NoCond /\ t \in ToSet(all)
    \/ t \in ToSet(timeouts)

(* In one pass no thread is dispatched twice, whoever notifies whom: what  *)
(* the dispatch numbers are for, and true even after they wrap around.     *)
DispatchOnce ==
  phase = "dispatch" => ToSet(dispatching) \cap ran = {}

(* What makes these hold after every step.                                 *)

(* The all-threads list is the threads created and not finished, and only  *)
(* they wait for anything.                                                 *)
AllListed ==
  /\ NoRepeats(all)
  /\ ToSet(all) = {t \in Threads : thread[t].state \in {"BLOCKED", "RUNNABLE"}}
  /\ \A t \in Threads : thread[t].state \in {"NEW", "EXITED"} =>
                         ~ thread[t].sleep /\ thread[t].events = NoFd

BlockedWaits ==
  \A t \in Threads : thread[t].state = "BLOCKED" =>
    thread[t].cond # NoCond \/ thread[t].sleep

(* The dispatch number of the pass is on the threads that had their turn.  *)
Turns ==
  /\ phase \in {"setup", "timeouts", "events"} => ran = {}
  /\ phase = "dispatch" => ToSet(dispatching) \cap ran = {}
  /\ phase = "run" => /\ Head(dispatching) \in ran
                      /\ ToSet(Tail(dispatching)) \cap ran = {}
  /\ phase \in {"dispatch", "run"} =>
       \A t \in ran : thread[t].number = dispatchNumber
  /\ \A t \in ran : thread[t].state # "NEW"

IInv == /\ TypeOK /\ OnOneList /\ PassShape /\ TimeoutListed
        /\ AllListed /\ BlockedWaits /\ Turns

(* The scheduler as its threads see it.                                    *)
Status(t) == IF t = Active THEN "running"
             ELSE IF t \in ToSet(dispatching) THEN "turn"
             ELSE IF t \in ToSet(dispatched) \cup ToSet(runnable) THEN "later"
             ELSE IF thread[t].state = "NEW" THEN "absent"
             ELSE IF thread[t].state = "EXITED" THEN "gone"
             ELSE "blocked"

Abstract == INSTANCE CoopScheduler WITH
              status <- [t \in Threads |-> Status(t)], ran <- ran

(* The lists, numbers and timeouts implement the cooperative scheduler.    *)
Cooperates == Abstract!Spec

----------------------------------------------------------------------------
(* Liveness.                                                               *)

(* Every thread that can run does, no matter how often others are notified *)
(* or yield.                                                               *)
EveryTurnComes == Abstract!EveryTurnComes

(* A sleeping thread runs again, even when select waited for a stale time. *)
SleeperWakes ==
  \A t \in Threads : thread[t].sleep ~> Active = t

(* A thread whose descriptor is ready runs again, even if no time passes:  *)
(* it does not need the timeout that every event wait also has.            *)
EventWakes ==
  \A t \in Threads, f \in Fds :
    (thread[t].events = f /\ f \in ready) ~> Active = t

----------------------------------------------------------------------------
(* What the code says of the select timeout.                               *)

WillSelect == phase = "iter" /\ runnable = <<>> /\ timeouts # <<>>
              /\ Registered # {}

(* "set the timeout time": main_iter gives select a timeout it has set.    *)
SelectTimeoutAssigned == WillSelect => minTimeout # 0
============================================================================
