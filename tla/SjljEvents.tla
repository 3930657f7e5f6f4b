----------------------------- MODULE SjljEvents -----------------------------
(***************************************************************************)
(* The sets of events of libtme/threads-sjlj.c.  A thread that waits hands *)
(* over a set of its own, with one descriptor and one direction as all     *)
(* callers do, and tme_sjlj_yield merges it into the main set, which the   *)
(* main loop gives to select; the next yield of the thread takes it out    *)
(* again.  Entries of the main set are known by their index, so that it    *)
(* must not move while others come and go; an unused one at the end is cut *)
(* off.  Each has an argument on the heap, the thread to wake for each     *)
(* direction.                                                              *)
(***************************************************************************)
EXTENDS Integers, FiniteSetsExt

CONSTANTS Waiters,    \* the threads
          Descriptors,
          Dirs,       \* EVENT_READ and EVENT_WRITE
          NumEvents,  \* TME_NUM_EVENTS, the entries of the main set
          Args,       \* the arguments that can be allocated
          LastShared, \* whether threads share the last descriptor of the set
          None

ASSUME SetsAssumption ==
  /\ NumEvents \in Nat
  /\ None \notin Descriptors \cup Args \cup Waiters \cup [Dirs -> Waiters \cup {None}]

VARIABLES main, \* tme_sjlj_main_events
          args, \* what each tme_sjlj_event_arg says, or None if it is free
          set   \* tme_sjlj_thread_events of each thread

eventsVars == <<main, args, set>>

Slots == 0 .. NumEvents - 1

Entry == [event : Descriptors \cup {None}, flags : SUBSET Dirs, arg : Args \cup {None}]

\* es is the event_set of the host: what it is asked to look for.
MainSet == [events : [Slots -> Entry],
            max    : {-1} \cup Slots,
            es     : [Descriptors -> [flags : SUBSET Dirs, arg : Args \cup {None}]]]

ThreadSet == [event : Descriptors, flags : SUBSET Dirs, index : Slots]

NoSet == [event |-> None, flags |-> {}, index |-> 0]

EventsTypeOK ==
  /\ main \in MainSet
  /\ args \in [Args -> [Dirs -> Waiters \cup {None}] \cup {None}]
  /\ set \in [Waiters -> ThreadSet \cup {NoSet}]

Nothing == [flags |-> {}, arg |-> None]

EventsInit ==
  /\ main = [events |-> [i \in Slots |-> [event |-> None, flags |-> {}, arg |-> None]],
             max    |-> -1,
             es     |-> [f \in Descriptors |-> Nothing]]
  /\ args = [a \in Args |-> None]
  /\ set = [t \in Waiters |-> NoSet]

----------------------------------------------------------------------------
Listed(m, f) == {i \in 0 .. m.max : m.events[i].event = f}

(* The set without its entry i, and without unused ones at its end.        *)
Erased(m, i) ==
    [m EXCEPT !.events[i].event = None,
              !.max = IF i # m.max THEN m.max
                      ELSE Max({-1} \cup {k \in 0 .. i - 1 : m.events[k].event # None})]

(* tme_sjlj_event_ctl for a new descriptor takes the first unused entry.   *)
Free(m) == Min({m.max + 1} \cup Listed(m, None))

Added(m, f, a) ==
    LET i == Free(m)
    IN  [m EXCEPT !.events[i] = [event |-> f, flags |-> {}, arg |-> a],
                  !.max = IF i > m.max THEN m.max + 1 ELSE m.max]

(* The main set asks for w too at entry i, which is that of descriptor f.  *)
Asked(m, i, f, w) ==
    LET flags == m.events[i].flags \cup w
    IN  [m EXCEPT !.events[i].flags = flags,
                  !.es[f] = [flags |-> flags, arg |-> m.events[i].arg]]

(* The main set without what the old set p of a thread asked for; an entry *)
(* that is asked for nothing is erased, and its argument freed.            *)
Without(m, p) ==
    LET e == m.events[p.index]
        flags == e.flags \ p.flags
        less == [m EXCEPT !.events[p.index].flags = flags]
    IN  IF p = NoSet THEN m
        ELSE IF flags # {}
        THEN [less EXCEPT !.es[e.event] = [flags |-> flags, arg |-> e.arg]]
        ELSE Erased([less EXCEPT !.es[e.event] = Nothing], p.index)

Freed(m, h, p) ==
    LET e == m.events[p.index]
    IN  IF p # NoSet /\ e.flags \subseteq p.flags THEN [h EXCEPT ![e.arg] = None] ELSE h

(* The argument a says to wake t for the directions w.                     *)
Owned(h, a, t, w) == [h EXCEPT ![a] = [d \in Dirs |-> IF d \in w THEN t ELSE @[d]]]

----------------------------------------------------------------------------
(* Callers never have two threads wait for the same direction.             *)
MayWait(t, f, w) ==
    \A u \in Waiters \ {t} : set[u].event = f =>
        /\ set[u].flags \cap w = {}
        /\ LastShared \/ main.max \notin Listed(main, f)

(* Mutant: what the thread asked for before is not taken back.             *)
WaitAgainKeeping(t, f, w) ==
    LET i == set[t].index
    IN  /\ set[t].event = f
        /\ MayWait(t, f, w)
        /\ main' = Asked(main, i, f, w)
        /\ args' = Owned(args, main.events[i].arg, t, w)
        /\ set' = [set EXCEPT ![t].flags = w]

(* The thread waits once more for the descriptor that it waited for.       *)
WaitAgain(t, f, w) ==
    LET i == set[t].index
        old == set[t].flags
    IN  /\ set[t].event = f
        /\ MayWait(t, f, w)
        /\ IF w = old
           THEN UNCHANGED <<main, args>>
           ELSE /\ main' = Asked([main EXCEPT !.events[i].flags = @ \ old], i, f, w)
                /\ args' = Owned(args, main.events[i].arg, t, w)
        /\ set' = [set EXCEPT ![t].flags = w]

(* What both ways to wait for another descriptor than before end with: m   *)
(* is the main set, with f at i, and h the arguments.                      *)
Merge(t, f, w, i, m, h) ==
    LET asked == Asked(m, i, f, w)
    IN  /\ main' = Without(asked, set[t])
        /\ args' = Freed(asked, Owned(h, m.events[i].arg, t, w), set[t])
        /\ set' = [set EXCEPT ![t] = [event |-> f, flags |-> w, index |-> i]]

(* The thread waits for a descriptor that is not in the main set.          *)
WaitNew(t, f, w) ==
    /\ set[t].event # f
    /\ MayWait(t, f, w)
    /\ Listed(main, f) = {} /\ Free(main) \in Slots
    /\ \E a \in Args :
         /\ args[a] = None
         /\ Merge(t, f, w, Free(main), Added(main, f, a),
                  [args EXCEPT ![a] = [d \in Dirs |-> None]])

(* The thread waits for a descriptor that another one waits for.  To learn *)
(* its index the code deletes it from the main set, and puts it back.      *)
WaitListed(t, f, w) ==
    LET i == Min(Listed(main, f))
    IN  /\ set[t].event # f
        /\ MayWait(t, f, w)
        /\ Listed(main, f) # {}
        /\ Merge(t, f, w, i, [Erased(main, i) EXCEPT !.events[i].event = f], args)

(* A yield for another reason, or an exit, of a thread that waited.        *)
Leave(t) ==
    /\ set[t] # NoSet
    /\ main' = Without(main, set[t])
    /\ args' = Freed(main, args, set[t])
    /\ set' = [set EXCEPT ![t] = NoSet]

Wait(t, f, w) == WaitAgain(t, f, w) \/ WaitNew(t, f, w) \/ WaitListed(t, f, w)

EventsNext ==
    \E t \in Waiters : Leave(t) \/ \E f \in Descriptors, d \in Dirs : Wait(t, f, {d})

EventsSpec == EventsInit /\ [][EventsNext]_eventsVars

----------------------------------------------------------------------------
WaitsFor(t, f, d) == set[t].event = f /\ d \in set[t].flags

(* The host is asked for a direction of a descriptor exactly if some       *)
(* thread waits for it; then main_iter does select, and the answer finds   *)
(* the thread that waits (tme_sjlj_yield 739-816, main_iter 453-479).      *)
EventsServed ==
    \A f \in Descriptors, d \in Dirs :
      LET e == main.es[f] IN
      /\ d \in e.flags <=> \E t \in Waiters : WaitsFor(t, f, d)
      /\ d \in e.flags =>
           /\ main.max >= 0
           /\ args[e.arg] # None
           /\ WaitsFor(args[e.arg][d], f, d)
=============================================================================
