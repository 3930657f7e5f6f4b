-------------------------- MODULE SjljEventsProofs --------------------------
(***************************************************************************)
(* Proofs about the sets of events, for any threads, descriptors and       *)
(* directions and any size of the main set: what the threads wait for is   *)
(* what the host is asked for, as long as no two of them share the last    *)
(* descriptor of the main set.                                             *)
(***************************************************************************)
EXTENDS SjljEvents, TLAPS, WellFoundedInduction

USE SetsAssumption

(* What a thread asks for; while its set is merged it can ask twice, for   *)
(* the new descriptor and for the old one.                                 *)
Demand == [who : Waiters, event : Descriptors, flags : (SUBSET Dirs) \ {{}},
           index : Slots]

Of(s, t) ==
    [who |-> t, event |-> s[t].event, flags |-> s[t].flags, index |-> s[t].index]

Demands(s) == {Of(s, t) : t \in {u \in Waiters : s[u] # NoSet}}

(* The arguments that the heap can hold.                                   *)
Arguments == [Args -> [Dirs -> Waiters \cup {None}] \cup {None}]

Used(m, i) == m.events[i].event # None

(* The entries in use end at max_event, and are of different descriptors.  *)
Placed(m) ==
  /\ \A i \in Slots : Used(m, i) => i <= m.max
  /\ m.max >= 0 => Used(m, m.max)
  /\ \A i, j \in Slots :
       Used(m, i) /\ m.events[i].event = m.events[j].event => i = j

(* Each has an argument of its own.                                        *)
Backed(m, h) ==
  /\ \A i \in Slots :
       Used(m, i) => m.events[i].arg \in Args /\ h[m.events[i].arg] # None
  /\ \A i, j \in Slots :
       Used(m, i) /\ Used(m, j) /\ m.events[i].arg = m.events[j].arg => i = j

(* The entries ask for what is demanded, and the arguments say by whom.    *)
Served(m, h, D) ==
  /\ \A x \in D :
       /\ m.events[x.index].event = x.event
       /\ x.flags \subseteq m.events[x.index].flags
       /\ \A d \in x.flags : h[m.events[x.index].arg][d] = x.who
  /\ \A i \in Slots : Used(m, i) =>
       \A d \in m.events[i].flags : \E x \in D : x.index = i /\ d \in x.flags
  /\ \A x, y \in D : x.who = y.who /\ x.event = y.event => x = y

(* The host is asked for what entry i asks for.                            *)
Asks(m, i) ==
  /\ m.events[i].flags # {}
  /\ m.es[m.events[i].event]
       = [flags |-> m.events[i].flags, arg |-> m.events[i].arg]

(* So it is but for entry k, which is being changed, and it is asked for   *)
(* no descriptor without an entry.                                         *)
AsksBut(m, k) ==
  /\ \A i \in Slots \ {k} : Used(m, i) => Asks(m, i)
  /\ \A f \in Descriptors :
       (\A i \in Slots : m.events[i].event # f) => m.es[f] = Nothing

SoundBut(m, h, D, k) ==
  /\ m \in MainSet /\ h \in Arguments /\ D \subseteq Demand
  /\ Placed(m) /\ Backed(m, h) /\ Served(m, h, D) /\ AsksBut(m, k)

Sound(m, h, D) == SoundBut(m, h, D, -1)

EventsIInv == EventsTypeOK /\ Sound(main, args, Demands(set))

-----------------------------------------------------------------------------
(* What the operators on the main set change.                              *)

(* Entry i asks for the directions F.                                      *)
Flagged(m, i, F) == [m EXCEPT !.events[i].flags = F]

(* The host is told what entry i asks for,                                 *)
Settled(m, i) ==
  [m EXCEPT !.es[m.events[i].event] =
     [flags |-> m.events[i].flags, arg |-> m.events[i].arg]]

(* or to look for its descriptor no more, and the entry is erased.         *)
Dropped(m, i) == Erased([m EXCEPT !.es[m.events[i].event] = Nothing], i)

LEMMA FlaggedIs ==
  ASSUME NEW m \in MainSet, NEW i \in Slots, NEW F \in SUBSET Dirs
  PROVE  /\ Flagged(m, i, F) \in MainSet
         /\ Flagged(m, i, F).max = m.max /\ Flagged(m, i, F).es = m.es
         /\ Flagged(m, i, F).events[i].event = m.events[i].event
         /\ Flagged(m, i, F).events[i].flags = F
         /\ Flagged(m, i, F).events[i].arg = m.events[i].arg
         /\ \A j \in Slots \ {i} : Flagged(m, i, F).events[j] = m.events[j]
<1> DEFINE e == [m.events[i] EXCEPT !.flags = F]
           events == [m.events EXCEPT ![i] = e]
<1>1. Flagged(m, i, F) = [m EXCEPT !.events = events]
  BY DEF Flagged
<1>2. m.events \in [Slots -> Entry] /\ m.events[i] \in Entry
  BY DEF MainSet
<1>3. /\ e \in Entry /\ e.flags = F
      /\ e.event = m.events[i].event /\ e.arg = m.events[i].arg
  BY <1>2 DEF Entry
<1> HIDE DEF e
<1>4. /\ events \in [Slots -> Entry] /\ events[i] = e
      /\ \A j \in Slots \ {i} : events[j] = m.events[j]
  BY <1>2, <1>3
<1> HIDE DEF events
<1>5. /\ [m EXCEPT !.events = events] \in MainSet
      /\ [m EXCEPT !.events = events].max = m.max
      /\ [m EXCEPT !.events = events].es = m.es
      /\ [m EXCEPT !.events = events].events = events
  BY <1>4 DEF MainSet
<1>6. QED
  BY <1>1, <1>3, <1>4, <1>5

LEMMA SettledIs ==
  ASSUME NEW m \in MainSet, NEW i \in Slots, Used(m, i)
  PROVE  /\ Settled(m, i) \in MainSet
         /\ Settled(m, i).max = m.max /\ Settled(m, i).events = m.events
         /\ \A g \in Descriptors :
              Settled(m, i).es[g] =
                IF g = m.events[i].event
                THEN [flags |-> m.events[i].flags, arg |-> m.events[i].arg]
                ELSE m.es[g]
<1> DEFINE q == [flags |-> m.events[i].flags, arg |-> m.events[i].arg]
           es == [m.es EXCEPT ![m.events[i].event] = q]
<1>1. m.events[i] \in Entry
  BY DEF MainSet
<1>2. m.events[i].event \in Descriptors /\ q \in [flags : SUBSET Dirs, arg : Args \cup {None}]
  BY <1>1 DEF Entry, Used
<1>3. Settled(m, i) = [m EXCEPT !.es = es]
  BY DEF Settled
<1> HIDE DEF q
<1>4. /\ es \in [Descriptors -> [flags : SUBSET Dirs, arg : Args \cup {None}]]
      /\ \A g \in Descriptors :
           es[g] = IF g = m.events[i].event THEN q ELSE m.es[g]
  BY <1>2 DEF MainSet
<1> HIDE DEF es
<1>5. /\ [m EXCEPT !.es = es] \in MainSet
      /\ [m EXCEPT !.es = es].max = m.max /\ [m EXCEPT !.es = es].events = m.events
      /\ [m EXCEPT !.es = es].es = es
  BY <1>4 DEF MainSet
<1>6. QED
  BY <1>3, <1>4, <1>5 DEF q

LEMMA AskedSettles ==
  ASSUME NEW m \in MainSet, NEW i \in Slots, NEW w \in SUBSET Dirs, Used(m, i)
  PROVE  Asked(m, i, m.events[i].event, w)
           = Settled(Flagged(m, i, m.events[i].flags \cup w), i)
<1> DEFINE F == m.events[i].flags \cup w
           n == Flagged(m, i, F)
           f == m.events[i].event
           q == [flags |-> F, arg |-> m.events[i].arg]
<1>1. m.events[i] \in Entry
  BY DEF MainSet
<1>2. F \in SUBSET Dirs
  BY <1>1 DEF Entry
<1>3. n.events[i].event = f /\ n.events[i].flags = F /\ n.events[i].arg = m.events[i].arg
  BY <1>2, FlaggedIs
<1>4. Settled(n, i) = [n EXCEPT !.es[f] = q]
  BY <1>3 DEF Settled
<1>5. Asked(m, i, f, w) = [n EXCEPT !.es[f] = q]
  BY DEF Asked, Flagged
<1>6. QED
  BY <1>4, <1>5
-----------------------------------------------------------------------------
(* Least and greatest numbers, which Free and Erased look for.             *)

LEMMA LeastIs ==
  ASSUME NEW T \in SUBSET Nat, T # {}
  PROVE  Min(T) \in T /\ \A k \in T : Min(T) <= k
<1> DEFINE R == OpToRel(<, Nat)
<1>1. R = {p \in Nat \X Nat : p[1] < p[2]}
  BY DEF OpToRel
<1>2. IsWellFoundedOn(R, Nat)
  BY NatLessThanWellFounded, Zenon
<1> HIDE DEF R
<1>3. PICK m \in T : \A k \in T : <<k, m>> \notin R
  BY <1>2, WFMin
<1>4. \A k \in T : m <= k
  <2> SUFFICES ASSUME NEW k \in T PROVE m <= k
    OBVIOUS
  <2>1. ~(k < m)
    BY <1>1, <1>3
  <2>2. QED
    BY <2>1
<1>5. QED
  BY <1>4 DEF Min

LEMMA GreatestIs ==
  ASSUME NEW n \in Nat, NEW S \in SUBSET (-1 .. n), -1 \in S
  PROVE  Max(S) \in S /\ \A k \in S : k <= Max(S)
<1> DEFINE T == {x \in Nat : \A k \in S : k <= x - 1}
           least == Min(T)
<1>1. n + 1 \in T
  OBVIOUS
<1>2. T \in SUBSET Nat /\ T # {}
  BY <1>1
<1>3. least \in T /\ \A x \in T : least <= x
  <2> HIDE DEF T
  <2> QED
    BY <1>2, LeastIs
<1> HIDE DEF least
<1>4. least \in Nat /\ \A k \in S : k <= least - 1
  BY <1>3
<1>5. least - 1 \in S
  <2> SUFFICES ASSUME least - 1 \notin S PROVE FALSE
    OBVIOUS
  <2>1. \A k \in S : k <= (least - 1) - 1
    BY <1>4
  <2>2. least - 1 \in Nat
    BY <1>4, <2>1
  <2>3. least - 1 \in T
    BY <2>1, <2>2
  <2>4. least <= least - 1
    BY <1>3, <2>3
  <2>5. QED
    BY <1>4, <2>4
<1>6. \E y \in S : \A k \in S : y >= k
  BY <1>4, <1>5
<1>7. QED
  BY <1>6 DEF Max

(* tme_sjlj_event_del: what is left is where it was, and the last one in   *)
(* use is the end.                                                         *)
LEMMA ErasedIs ==
  ASSUME NEW m \in MainSet, NEW i \in Slots, Placed(m), Used(m, i)
  PROVE  /\ Erased(m, i) \in MainSet /\ Erased(m, i).es = m.es
         /\ Erased(m, i).events[i].event = None
         /\ \A j \in Slots \ {i} : Erased(m, i).events[j] = m.events[j]
         /\ \A j \in Slots \ {i} : Used(m, j) => j <= Erased(m, i).max
         /\ Erased(m, i).max >= 0
              => Erased(m, i).max \in Slots \ {i} /\ Used(m, Erased(m, i).max)
<1> DEFINE S == {-1} \cup {k \in 0 .. i - 1 : m.events[k].event # None}
           max == IF i # m.max THEN m.max ELSE Max(S)
           e == [m.events[i] EXCEPT !.event = None]
           events == [m.events EXCEPT ![i] = e]
<1>1. /\ m.events \in [Slots -> Entry] /\ m.events[i] \in Entry
      /\ m.max \in {-1} \cup Slots
  BY DEF MainSet
<1>2. e \in Entry /\ e.event = None
  BY <1>1 DEF Entry
<1>3. Erased(m, i) = [m EXCEPT !.events = events, !.max = max]
  BY DEF Erased
<1> HIDE DEF e
<1>4. /\ events \in [Slots -> Entry] /\ events[i].event = None
      /\ \A j \in Slots \ {i} : events[j] = m.events[j]
  BY <1>1, <1>2
<1> HIDE DEF events
<1>5. i \in Nat /\ i <= NumEvents - 1 /\ NumEvents \in Nat
  BY DEF Slots
<1>6. /\ max \in {-1} \cup Slots
      /\ \A j \in Slots \ {i} : Used(m, j) => j <= max
      /\ max >= 0 => max \in Slots \ {i} /\ Used(m, max)
  <2>1. CASE i # m.max
    <3>1. m.max \in Slots
      BY <1>1, <1>5 DEF Placed
    <3>2. QED
      BY <2>1, <3>1, <1>5 DEF Placed, Slots
  <2>2. CASE i = m.max
    <3>1. S \in SUBSET (-1 .. i) /\ -1 \in S
      BY <1>5
    <3>2. Max(S) \in S /\ \A k \in S : k <= Max(S)
      <4> HIDE DEF S
      <4> QED
        BY <3>1, <1>5, GreatestIs
    <3>3. max = Max(S)
      BY <2>2
    <3>4. \A k \in 0 .. i - 1 : Used(m, k) => k \in S
      BY DEF Used
    <3>5. Max(S) = -1 \/ (Max(S) \in 0 .. i - 1 /\ Used(m, Max(S)))
      BY <3>2 DEF Used
    <3>6. \A j \in Slots \ {i} : Used(m, j) => j \in 0 .. i - 1
      BY <2>2, <1>5 DEF Placed, Slots
    <3> HIDE DEF S, max
    <3>7. max = -1 \/ (max \in 0 .. i - 1 /\ Used(m, max))
      BY <3>3, <3>5
    <3>8. max \in {-1} \cup Slots /\ (max >= 0 => max \in Slots \ {i} /\ Used(m, max))
      BY <3>7, <1>5 DEF Slots
    <3>9. QED
      BY <3>2, <3>3, <3>4, <3>6, <3>8
  <2>3. QED
    BY <2>1, <2>2
<1> HIDE DEF max
<1> DEFINE n == [m EXCEPT !.events = events, !.max = max]
<1>7. n \in MainSet /\ n.es = m.es /\ n.events = events /\ n.max = max
  BY <1>4, <1>6 DEF MainSet
<1>8. Erased(m, i) = n
  BY <1>3
<1> HIDE DEF n
<1>9. QED
  BY <1>4, <1>6, <1>7, <1>8

(* tme_sjlj_event_ctl: where a new descriptor goes nothing is.             *)
LEMMA FreeIs ==
  ASSUME NEW m \in MainSet, Placed(m)
  PROVE  /\ Free(m) \in 0 .. m.max + 1
         /\ Free(m) \in Slots => ~ Used(m, Free(m))
<1> DEFINE T == {m.max + 1} \cup Listed(m, None)
<1>1. m.max \in {-1} \cup Slots /\ NumEvents \in Nat
  BY DEF MainSet
<1>2. m.max \in Int /\ m.max >= -1
  BY <1>1 DEF Slots
<1>3. T \in SUBSET Nat /\ T # {}
  BY <1>2 DEF Listed
<1>4. Free(m) \in T /\ \A k \in T : Free(m) <= k
  <2>1. Free(m) = Min(T)
    BY DEF Free
  <2> HIDE DEF T
  <2>2. QED
    BY <2>1, <1>3, LeastIs
<1>5. Free(m) <= m.max + 1
  BY <1>4
<1>6. Free(m) \in Slots => ~ Used(m, Free(m))
  <2>1. CASE Free(m) = m.max + 1
    BY <2>1, <1>2 DEF Placed
  <2>2. CASE Free(m) \in Listed(m, None)
    BY <2>2 DEF Listed, Used
  <2>3. QED
    BY <1>4, <2>1, <2>2
<1>7. Free(m) \in Nat
  BY <1>3, <1>4
<1>8. QED
  BY <1>2, <1>5, <1>6, <1>7

LEMMA AddedIs ==
  ASSUME NEW m \in MainSet, Placed(m), Free(m) \in Slots,
         NEW f \in Descriptors, NEW a \in Args
  PROVE  /\ Added(m, f, a) \in MainSet /\ Added(m, f, a).es = m.es
         /\ Added(m, f, a).max = IF Free(m) > m.max THEN m.max + 1 ELSE m.max
         /\ Added(m, f, a).events[Free(m)] = [event |-> f, flags |-> {}, arg |-> a]
         /\ \A j \in Slots \ {Free(m)} : Added(m, f, a).events[j] = m.events[j]
<1> DEFINE i == Free(m)
           max == IF i > m.max THEN m.max + 1 ELSE m.max
           e == [event |-> f, flags |-> {}, arg |-> a]
           events == [m.events EXCEPT ![i] = e]
<1>1. m.events \in [Slots -> Entry] /\ m.max \in {-1} \cup Slots
  BY DEF MainSet
<1>2. e \in Entry
  BY DEF Entry
<1>3. Added(m, f, a) = [m EXCEPT !.events = events, !.max = max]
  BY DEF Added
<1>4. i \in 0 .. m.max + 1
  BY FreeIs
<1> HIDE DEF e
<1>5. /\ events \in [Slots -> Entry] /\ events[i] = e
      /\ \A j \in Slots \ {i} : events[j] = m.events[j]
  BY <1>1, <1>2
<1>6. max \in {-1} \cup Slots
  BY <1>1, <1>4 DEF Slots
<1> HIDE DEF events
<1> DEFINE n == [m EXCEPT !.events = events, !.max = max]
<1>7. n \in MainSet /\ n.es = m.es /\ n.events = events /\ n.max = max
  <2> HIDE DEF max
  <2> QED
    BY <1>5, <1>6 DEF MainSet
<1>8. Added(m, f, a) = n
  BY <1>3
<1> HIDE DEF n
<1>9. QED
  BY <1>5, <1>7, <1>8 DEF e

-----------------------------------------------------------------------------
(* What each operator keeps sound.                                         *)

(* A demand is taken back: its entry asks for less.                        *)
LEMMA FewerFlags ==
  ASSUME NEW m \in MainSet, NEW h, NEW D, Sound(m, h, D), NEW x \in D
  PROVE  LET i == x.index
             n == Flagged(m, i, m.events[i].flags \ x.flags)
         IN  i \in Slots /\ Used(m, i) /\ SoundBut(n, h, D \ {x}, i)
<1> DEFINE i == x.index
           F == m.events[i].flags \ x.flags
           n == Flagged(m, i, F)
<1>1. /\ D \subseteq Demand /\ h \in Arguments
      /\ Placed(m) /\ Backed(m, h) /\ Served(m, h, D) /\ AsksBut(m, -1)
  BY DEF Sound, SoundBut
<1>2. x \in Demand /\ i \in Slots /\ m.events[i].event = x.event /\ Used(m, i)
  BY <1>1 DEF Demand, Served, Used
<1>3. F \in SUBSET Dirs
  BY <1>2 DEF MainSet, Entry
<1> HIDE DEF F
<1>4. /\ n \in MainSet /\ n.max = m.max /\ n.es = m.es
      /\ n.events[i].event = m.events[i].event
      /\ n.events[i].flags = F /\ n.events[i].arg = m.events[i].arg
      /\ \A j \in Slots \ {i} : n.events[j] = m.events[j]
  BY <1>2, <1>3, FlaggedIs
<1> HIDE DEF n
<1>5. \A j \in Slots : /\ n.events[j].event = m.events[j].event
                       /\ n.events[j].arg = m.events[j].arg
                       /\ Used(n, j) = Used(m, j)
  BY <1>4 DEF Used
<1>6. Placed(n)
  <2>1. m.max \in {-1} \cup Slots
    BY DEF MainSet
  <2>2. m.max >= 0 => m.max \in Slots
    BY <2>1
  <2>3. QED
    BY <1>1, <1>4, <1>5, <2>2 DEF Placed
<1>7. Backed(n, h)
  BY <1>1, <1>5 DEF Backed
<1>8. Served(n, h, D \ {x})
  <2>1. ASSUME NEW y \in D \ {x}
        PROVE  /\ n.events[y.index].event = y.event
               /\ y.flags \subseteq n.events[y.index].flags
               /\ \A d \in y.flags : h[n.events[y.index].arg][d] = y.who
    <3>1. /\ y \in Demand /\ y.index \in Slots
          /\ m.events[y.index].event = y.event
          /\ y.flags \subseteq m.events[y.index].flags
          /\ \A d \in y.flags : h[m.events[y.index].arg][d] = y.who
      BY <1>1 DEF Served, Demand
    <3>2. y.flags \subseteq n.events[y.index].flags
      <4>1. CASE y.index # i
        BY <4>1, <3>1, <1>4
      <4>2. CASE y.index = i
        <5>1. \A d \in x.flags : h[m.events[i].arg][d] = x.who
          BY <1>1 DEF Served
        <5>2. ~ (x.who = y.who /\ x.event = y.event)
          BY <1>1 DEF Served
        <5>3. x.flags \cap y.flags = {}
          BY <3>1, <4>2, <5>1, <5>2, <1>2
        <5>4. QED
          BY <3>1, <4>2, <5>3, <1>4 DEF F
      <4>3. QED
        BY <4>1, <4>2
    <3>3. QED
      BY <3>1, <3>2, <1>5
  <2>2. ASSUME NEW j \in Slots, Used(n, j), NEW d \in n.events[j].flags
        PROVE  \E y \in D \ {x} : y.index = j /\ d \in y.flags
    <3>1. d \in m.events[j].flags /\ (j = i => d \notin x.flags)
      BY <2>2, <1>4 DEF F
    <3>2. PICK y \in D : y.index = j /\ d \in y.flags
      BY <1>1, <1>5, <2>2, <3>1 DEF Served
    <3>3. QED
      BY <3>1, <3>2
  <2>3. \A y, z \in D \ {x} : y.who = z.who /\ y.event = z.event => y = z
    BY <1>1 DEF Served
  <2>4. QED
    BY <2>1, <2>2, <2>3 DEF Served
<1>9. AsksBut(n, i)
  <2>1. \A j \in Slots \ {i} : Used(n, j) => Asks(n, j)
    <3> SUFFICES ASSUME NEW j \in Slots \ {i}, Used(n, j) PROVE Asks(n, j)
      OBVIOUS
    <3>1. j \in Slots \ {-1} /\ Used(m, j)
      BY <1>5 DEF Slots
    <3>2. Asks(m, j)
      BY <1>1, <3>1 DEF AsksBut
    <3>3. QED
      BY <3>2, <1>4 DEF Asks
  <2>2. \A f \in Descriptors : (\A j \in Slots : n.events[j].event # f) => n.es[f] = Nothing
    BY <1>1, <1>4, <1>5 DEF AsksBut
  <2>3. QED
    BY <2>1, <2>2 DEF AsksBut
<1>10. SoundBut(n, h, D \ {x}, i)
  BY <1>1, <1>4, <1>6, <1>7, <1>8, <1>9 DEF SoundBut
<1>11. QED
  BY <1>2, <1>10 DEF n, F

(* The host is told what the entry asks for.                               *)
LEMMA Settles ==
  ASSUME NEW m \in MainSet, NEW h, NEW D, NEW i \in Slots,
         SoundBut(m, h, D, i), Used(m, i), m.events[i].flags # {}
  PROVE  Sound(Settled(m, i), h, D)
<1> DEFINE n == Settled(m, i)
           q == [flags |-> m.events[i].flags, arg |-> m.events[i].arg]
<1>1. /\ D \subseteq Demand /\ h \in Arguments
      /\ Placed(m) /\ Backed(m, h) /\ Served(m, h, D) /\ AsksBut(m, i)
  BY DEF SoundBut
<1>2. /\ n \in MainSet /\ n.max = m.max /\ n.events = m.events
      /\ \A g \in Descriptors :
           n.es[g] = IF g = m.events[i].event THEN q ELSE m.es[g]
  BY SettledIs
<1> HIDE DEF n, q
<1>3. \A j \in Slots : Used(n, j) = Used(m, j)
  BY <1>2 DEF Used
<1>4. Placed(n)
  <2>1. m.max >= 0 => m.max \in Slots
    BY DEF MainSet
  <2>2. QED
    BY <1>1, <1>2, <1>3, <2>1 DEF Placed
<1>5. Backed(n, h) /\ Served(n, h, D)
  BY <1>1, <1>2, <1>3 DEF Backed, Served
<1>6. AsksBut(n, -1)
  <2>1. ASSUME NEW j \in Slots, Used(n, j) PROVE Asks(n, j)
    <3>1. Used(m, j) /\ m.events[j].event \in Descriptors
      BY <2>1, <1>3 DEF MainSet, Entry, Used
    <3>2. CASE j = i
      BY <3>1, <3>2, <1>2 DEF Asks, q
    <3>3. CASE j # i
      <4>1. Asks(m, j) /\ m.events[j].event # m.events[i].event
        BY <3>1, <3>3, <1>1 DEF AsksBut, Placed
      <4>2. QED
        BY <3>1, <4>1, <1>2 DEF Asks
    <3>4. QED
      BY <3>2, <3>3
  <2>2. \A f \in Descriptors : (\A j \in Slots : n.events[j].event # f) => n.es[f] = Nothing
    BY <1>1, <1>2 DEF AsksBut
  <2>3. QED
    BY <2>1, <2>2 DEF AsksBut
<1>7. SoundBut(n, h, D, -1)
  BY <1>1, <1>2, <1>4, <1>5, <1>6 DEF SoundBut
<1>8. QED
  BY <1>7 DEF n, Sound

(* An entry that asks for nothing is erased, and its argument freed.       *)
LEMMA Drops ==
  ASSUME NEW m \in MainSet, NEW h, NEW D, NEW i \in Slots,
         SoundBut(m, h, D, i), Used(m, i), m.events[i].flags = {}
  PROVE  Sound(Dropped(m, i), [h EXCEPT ![m.events[i].arg] = None], D)
<1> DEFINE f == m.events[i].event
           a == m.events[i].arg
           l == [m EXCEPT !.es[f] = Nothing]
           n == Dropped(m, i)
           g == [h EXCEPT ![a] = None]
<1>1. /\ D \subseteq Demand /\ h \in Arguments
      /\ Placed(m) /\ Backed(m, h) /\ Served(m, h, D) /\ AsksBut(m, i)
  BY DEF SoundBut
<1>2. f \in Descriptors /\ a \in Args
  BY <1>1 DEF MainSet, Entry, Used, Backed
<1>3. /\ l \in MainSet /\ l.max = m.max /\ l.events = m.events
      /\ \A e \in Descriptors : l.es[e] = IF e = f THEN Nothing ELSE m.es[e]
  <2> DEFINE es == [m.es EXCEPT ![f] = Nothing]
  <2>1. Nothing \in [flags : SUBSET Dirs, arg : Args \cup {None}]
    BY DEF Nothing
  <2>2. /\ es \in [Descriptors -> [flags : SUBSET Dirs, arg : Args \cup {None}]]
        /\ \A e \in Descriptors : es[e] = IF e = f THEN Nothing ELSE m.es[e]
    BY <2>1, <1>2 DEF MainSet
  <2> DEFINE r == [m EXCEPT !.es = es]
  <2>3. l = r
    OBVIOUS
  <2> HIDE DEF es
  <2>4. r \in MainSet /\ r.max = m.max /\ r.events = m.events /\ r.es = es
    BY <2>2 DEF MainSet
  <2> HIDE DEF l, r
  <2>5. QED
    BY <2>2, <2>3, <2>4
<1>4. Placed(l) /\ Used(l, i)
  BY <1>1, <1>3 DEF Placed, Used
<1>5. n = Erased(l, i)
  BY DEF Dropped
<1> HIDE DEF l
<1>6. /\ n \in MainSet /\ n.es = l.es /\ n.events[i].event = None
      /\ \A j \in Slots \ {i} : n.events[j] = m.events[j]
      /\ \A j \in Slots \ {i} : Used(m, j) => j <= n.max
      /\ n.max >= 0 => n.max \in Slots \ {i} /\ Used(m, n.max)
  BY <1>3, <1>4, <1>5, ErasedIs DEF Used
<1> HIDE DEF n
<1>7. \A j \in Slots : Used(n, j) <=> j # i /\ Used(m, j)
  BY <1>6 DEF Used
<1>8. Placed(n)
  <2>1. \A j \in Slots : Used(n, j) => j <= n.max
    BY <1>6, <1>7
  <2>2. n.max >= 0 => Used(n, n.max)
    BY <1>6, <1>7
  <2>3. ASSUME NEW j \in Slots, NEW k \in Slots, Used(n, j),
               n.events[j].event = n.events[k].event
        PROVE  j = k
    <3>1. Used(n, k)
      BY <2>3 DEF Used
    <3>2. m.events[j].event = m.events[k].event /\ Used(m, j)
      BY <2>3, <3>1, <1>6, <1>7
    <3>3. QED
      BY <3>2, <1>1 DEF Placed
  <2>4. QED
    BY <2>1, <2>2, <2>3 DEF Placed
<1>9. /\ g \in Arguments
      /\ \A b \in Args \ {a} : g[b] = h[b]
  BY <1>1, <1>2 DEF Arguments
<1> HIDE DEF g
<1>10. ASSUME NEW j \in Slots, j # i, Used(m, j)
       PROVE  m.events[j].arg \in Args \ {a}
  BY <1>1, <1>10 DEF Backed
<1>11. Backed(n, g)
  BY <1>1, <1>6, <1>7, <1>9, <1>10 DEF Backed
<1>12. Served(n, g, D)
  <2>1. ASSUME NEW x \in D
        PROVE  x.index \in Slots \ {i} /\ Used(m, x.index)
    <3>1. /\ x \in Demand /\ x.index \in Slots /\ x.event \in Descriptors
          /\ x.flags # {}
      BY <1>1 DEF Demand
    <3>2. m.events[x.index].event = x.event /\ x.flags \subseteq m.events[x.index].flags
      BY <1>1 DEF Served
    <3>3. QED
      BY <3>1, <3>2 DEF Used
  <2>2. \A x \in D :
          /\ n.events[x.index].event = x.event
          /\ x.flags \subseteq n.events[x.index].flags
          /\ \A d \in x.flags : g[n.events[x.index].arg][d] = x.who
    BY <1>1, <2>1, <1>6, <1>9, <1>10 DEF Served
  <2>3. \A j \in Slots : Used(n, j) =>
          \A d \in n.events[j].flags : \E x \in D : x.index = j /\ d \in x.flags
    BY <1>1, <1>6, <1>7 DEF Served
  <2>4. \A x, y \in D : x.who = y.who /\ x.event = y.event => x = y
    BY <1>1 DEF Served
  <2>5. QED
    BY <2>2, <2>3, <2>4 DEF Served
<1>13. AsksBut(n, -1)
  <2>1. ASSUME NEW j \in Slots, Used(n, j) PROVE Asks(n, j)
    <3>1. /\ j # i /\ Used(m, j) /\ Asks(m, j)
          /\ m.events[j].event \in Descriptors /\ m.events[j].event # f
      BY <2>1, <1>1, <1>7 DEF AsksBut, Placed, MainSet, Entry, Used
    <3>2. QED
      BY <3>1, <1>3, <1>6 DEF Asks
  <2>2. ASSUME NEW e \in Descriptors, \A j \in Slots : n.events[j].event # e
        PROVE  n.es[e] = Nothing
    <3>1. CASE e = f
      BY <3>1, <1>3, <1>6
    <3>2. CASE e # f
      <4>1. \A j \in Slots : m.events[j].event # e
        BY <2>2, <3>2, <1>6
      <4>2. QED
        BY <4>1, <1>1, <1>3, <1>6 DEF AsksBut
    <3>3. QED
      BY <3>1, <3>2
  <2>3. QED
    BY <2>1, <2>2 DEF AsksBut
<1>14. SoundBut(n, g, D, -1)
  BY <1>1, <1>6, <1>8, <1>9, <1>11, <1>12, <1>13 DEF SoundBut
<1>15. QED
  BY <1>14 DEF n, g, Sound

LEMMA OwnedIs ==
  ASSUME NEW h \in Arguments, NEW a \in Args, h[a] # None,
         NEW t \in Waiters, NEW w \in SUBSET Dirs
  PROVE  /\ Owned(h, a, t, w) \in Arguments
         /\ Owned(h, a, t, w)[a] # None
         /\ \A d \in w : Owned(h, a, t, w)[a][d] = t
         /\ \A d \in Dirs \ w : Owned(h, a, t, w)[a][d] = h[a][d]
         /\ \A b \in Args \ {a} : Owned(h, a, t, w)[b] = h[b]
<1> DEFINE o == [d \in Dirs |-> IF d \in w THEN t ELSE h[a][d]]
<1>1. h[a] \in [Dirs -> Waiters \cup {None}]
  BY DEF Arguments
<1>2. o \in [Dirs -> Waiters \cup {None}]
  BY <1>1
<1>3. o # None
  BY <1>2
<1>4. \A d \in Dirs : o[d] = IF d \in w THEN t ELSE h[a][d]
  OBVIOUS
<1>5. Owned(h, a, t, w) = [h EXCEPT ![a] = o]
  BY DEF Owned
<1> HIDE DEF o
<1>6. QED
  BY <1>2, <1>3, <1>4, <1>5 DEF Arguments

(* A thread that has no demand for the descriptor makes one.               *)
LEMMA MoreFlags ==
  ASSUME NEW m \in MainSet, NEW h, NEW D, NEW i \in Slots,
         SoundBut(m, h, D, i), Used(m, i),
         NEW t \in Waiters, NEW w \in SUBSET Dirs, w # {},
         w \cap m.events[i].flags = {},
         \A x \in D : ~ (x.who = t /\ x.event = m.events[i].event)
  PROVE  Sound(Asked(m, i, m.events[i].event, w), Owned(h, m.events[i].arg, t, w),
               D \cup {[who |-> t, event |-> m.events[i].event, flags |-> w, index |-> i]})
<1> DEFINE f == m.events[i].event
           a == m.events[i].arg
           F == m.events[i].flags \cup w
           n == Flagged(m, i, F)
           g == Owned(h, a, t, w)
           x == [who |-> t, event |-> f, flags |-> w, index |-> i]
           E == D \cup {x}
<1>1. /\ D \subseteq Demand /\ h \in Arguments
      /\ Placed(m) /\ Backed(m, h) /\ Served(m, h, D) /\ AsksBut(m, i)
  BY DEF SoundBut
<1>2. f \in Descriptors /\ a \in Args /\ h[a] # None /\ m.events[i].flags \in SUBSET Dirs
  BY <1>1 DEF MainSet, Entry, Used, Backed
<1>3. /\ g \in Arguments /\ g[a] # None
      /\ \A d \in w : g[a][d] = t
      /\ \A d \in Dirs \ w : g[a][d] = h[a][d]
      /\ \A b \in Args \ {a} : g[b] = h[b]
  BY <1>1, <1>2, OwnedIs
<1> HIDE DEF g
<1>4. /\ n \in MainSet /\ n.max = m.max /\ n.es = m.es
      /\ n.events[i].event = f /\ n.events[i].flags = F /\ n.events[i].arg = a
      /\ \A j \in Slots \ {i} : n.events[j] = m.events[j]
  BY <1>2, FlaggedIs
<1> HIDE DEF n
<1>5. \A j \in Slots : /\ n.events[j].event = m.events[j].event
                       /\ n.events[j].arg = m.events[j].arg
                       /\ Used(n, j) = Used(m, j)
  BY <1>4 DEF Used
<1>6. /\ x \in Demand /\ x.who = t /\ x.event = f /\ x.flags = w /\ x.index = i
  BY <1>2 DEF Demand
<1> HIDE DEF x
<1>7. Placed(n)
  <2>1. m.max >= 0 => m.max \in Slots
    BY DEF MainSet
  <2>2. QED
    BY <1>1, <1>4, <1>5, <2>1 DEF Placed
<1>8. Backed(n, g)
  <2>1. ASSUME NEW j \in Slots, Used(n, j)
        PROVE  n.events[j].arg \in Args /\ g[n.events[j].arg] # None
    <3>1. m.events[j].arg \in Args /\ h[m.events[j].arg] # None
      BY <2>1, <1>1, <1>5 DEF Backed
    <3>2. QED
      BY <3>1, <1>3, <1>5
  <2>2. QED
    BY <2>1, <1>1, <1>5 DEF Backed
<1>9. Served(n, g, E)
  <2>1. ASSUME NEW y \in D
        PROVE  /\ n.events[y.index].event = y.event
               /\ y.flags \subseteq n.events[y.index].flags
               /\ \A d \in y.flags : g[n.events[y.index].arg][d] = y.who
    <3>1. /\ y \in Demand /\ y.index \in Slots /\ y.flags \in SUBSET Dirs
          /\ y.event \in Descriptors
          /\ m.events[y.index].event = y.event
          /\ y.flags \subseteq m.events[y.index].flags
          /\ \A d \in y.flags : h[m.events[y.index].arg][d] = y.who
      BY <1>1 DEF Served, Demand
    <3>2. CASE y.index = i
      <4>1. \A d \in y.flags : d \in Dirs \ w
        BY <3>1, <3>2
      <4>2. QED
        BY <3>1, <3>2, <4>1, <1>3, <1>4
    <3>3. CASE y.index # i
      <4>1. Used(m, y.index)
        BY <3>1 DEF Used
      <4>2. m.events[y.index].arg \in Args \ {a}
        BY <3>1, <3>3, <4>1, <1>1 DEF Backed
      <4>3. QED
        BY <3>1, <3>3, <4>2, <1>3, <1>4
    <3>4. QED
      BY <3>2, <3>3
  <2>2. /\ n.events[x.index].event = x.event
        /\ x.flags \subseteq n.events[x.index].flags
        /\ \A d \in x.flags : g[n.events[x.index].arg][d] = x.who
    BY <1>3, <1>4, <1>6
  <2>3. ASSUME NEW j \in Slots, Used(n, j), NEW d \in n.events[j].flags
        PROVE  \E y \in E : y.index = j /\ d \in y.flags
    <3>1. CASE j = i /\ d \in w
      BY <3>1, <1>6
    <3>2. CASE ~ (j = i /\ d \in w)
      <4>1. d \in m.events[j].flags /\ Used(m, j)
        BY <2>3, <3>2, <1>4, <1>5
      <4>2. QED
        BY <4>1, <1>1 DEF Served
    <3>3. QED
      BY <3>1, <3>2
  <2>4. ASSUME NEW y \in E, NEW z \in E, y.who = z.who, y.event = z.event
        PROVE  y = z
    <3>1. CASE y \in D /\ z \in D
      BY <2>4, <3>1, <1>1 DEF Served
    <3>2. CASE y = x \/ z = x
      BY <2>4, <3>2, <1>6
    <3>3. QED
      BY <3>1, <3>2
  <2>5. QED
    BY <2>1, <2>2, <2>3, <2>4 DEF Served
<1>10. AsksBut(n, i)
  <2>1. ASSUME NEW j \in Slots \ {i}, Used(n, j) PROVE Asks(n, j)
    BY <2>1, <1>1, <1>4, <1>5 DEF AsksBut, Asks
  <2>2. QED
    BY <2>1, <1>1, <1>4, <1>5 DEF AsksBut
<1>11. SoundBut(n, g, E, i)
  BY <1>1, <1>3, <1>4, <1>6, <1>7, <1>8, <1>9, <1>10 DEF SoundBut
<1>12. Used(n, i) /\ n.events[i].flags # {}
  BY <1>4, <1>5
<1>13. Sound(Settled(n, i), g, E)
  BY <1>4, <1>11, <1>12, Settles
<1>14. Asked(m, i, f, w) = Settled(n, i)
  BY AskedSettles DEF n
<1>15. QED
  BY <1>13, <1>14 DEF g, x

(* A new descriptor gets an entry and an argument of its own.              *)
LEMMA Adds ==
  ASSUME NEW m \in MainSet, NEW h, NEW D, Sound(m, h, D),
         NEW f \in Descriptors, NEW a \in Args, h[a] = None,
         Listed(m, f) = {}, Free(m) \in Slots
  PROVE  LET i == Free(m)
             n == Added(m, f, a)
         IN  /\ SoundBut(n, [h EXCEPT ![a] = [d \in Dirs |-> None]], D, i)
             /\ n.events[i] = [event |-> f, flags |-> {}, arg |-> a]
<1> DEFINE i == Free(m)
           n == Added(m, f, a)
           o == [d \in Dirs |-> None]
           g == [h EXCEPT ![a] = o]
<1>1. /\ D \subseteq Demand /\ h \in Arguments
      /\ Placed(m) /\ Backed(m, h) /\ Served(m, h, D) /\ AsksBut(m, -1)
  BY DEF Sound, SoundBut
<1>2. i \in 0 .. m.max + 1 /\ ~ Used(m, i) /\ m.max \in {-1} \cup Slots
  BY <1>1, FreeIs DEF MainSet
<1>3. /\ n \in MainSet /\ n.es = m.es
      /\ n.max = IF i > m.max THEN m.max + 1 ELSE m.max
      /\ n.events[i] = [event |-> f, flags |-> {}, arg |-> a]
      /\ \A j \in Slots \ {i} : n.events[j] = m.events[j]
  BY <1>1, AddedIs
<1>4. /\ g \in Arguments /\ g[a] # None
      /\ \A b \in Args \ {a} : g[b] = h[b]
  <2>1. o \in [Dirs -> Waiters \cup {None}]
    OBVIOUS
  <2>2. o # None
    BY <2>1
  <2> HIDE DEF o
  <2>3. QED
    BY <2>1, <2>2, <1>1 DEF Arguments
<1> HIDE DEF g, n, i
<1>5. i \in Slots /\ i \in Int
  BY <1>2 DEF i
<1>6. /\ \A j \in Slots : Used(n, j) <=> (j = i \/ Used(m, j))
      /\ n.events[i].event = f /\ n.events[i].flags = {} /\ n.events[i].arg = a
  <2>1. n.events[i].event = f /\ n.events[i].flags = {} /\ n.events[i].arg = a
    BY <1>3
  <2>2. Used(n, i)
    BY <2>1 DEF Used
  <2>3. \A j \in Slots \ {i} : Used(n, j) <=> Used(m, j)
    BY <1>3 DEF Used
  <2>4. QED
    BY <2>1, <2>2, <2>3
<1>7. \A j \in Slots : m.events[j].event # f
  <2> SUFFICES ASSUME NEW j \in Slots, m.events[j].event = f PROVE FALSE
    OBVIOUS
  <2>1. Used(m, j)
    BY DEF Used
  <2>2. j <= m.max /\ j \in 0 .. m.max
    BY <2>1, <1>1, <1>2 DEF Placed, Slots
  <2>3. QED
    BY <2>2 DEF Listed
<1>8. Placed(n)
  <2>1. \A j \in Slots : Used(n, j) => j <= n.max
    BY <1>1, <1>2, <1>3, <1>5, <1>6 DEF Placed, Slots
  <2>2. n.max >= 0 => Used(n, n.max)
    BY <1>1, <1>2, <1>3, <1>5, <1>6 DEF Placed, Slots
  <2>3. ASSUME NEW j \in Slots, NEW k \in Slots, Used(n, j),
               n.events[j].event = n.events[k].event
        PROVE  j = k
    <3>1. CASE j # i /\ k # i
      BY <2>3, <3>1, <1>1, <1>3, <1>6 DEF Placed
    <3>2. CASE j = i \/ k = i
      BY <2>3, <3>2, <1>3, <1>6, <1>7
    <3>3. QED
      BY <3>1, <3>2
  <2>4. QED
    BY <2>1, <2>2, <2>3 DEF Placed
<1>9. \A j \in Slots : Used(m, j) => m.events[j].arg \in Args \ {a}
  BY <1>1 DEF Backed
<1>10. Backed(n, g)
  <2>1. \A j \in Slots : Used(n, j) =>
          n.events[j].arg \in Args /\ g[n.events[j].arg] # None
    BY <1>1, <1>3, <1>4, <1>6, <1>9 DEF Backed
  <2>2. ASSUME NEW j \in Slots, NEW k \in Slots, Used(n, j), Used(n, k),
               n.events[j].arg = n.events[k].arg
        PROVE  j = k
    <3>1. CASE j # i /\ k # i
      BY <2>2, <3>1, <1>1, <1>3, <1>6 DEF Backed
    <3>2. CASE j = i \/ k = i
      BY <2>2, <3>2, <1>3, <1>6, <1>9
    <3>3. QED
      BY <3>1, <3>2
  <2>3. QED
    BY <2>1, <2>2 DEF Backed
<1>11. Served(n, g, D)
  <2>1. ASSUME NEW y \in D
        PROVE  y.index \in Slots \ {i} /\ Used(m, y.index)
    <3>1. y \in Demand /\ y.index \in Slots /\ y.event \in Descriptors
      BY <1>1 DEF Demand
    <3>2. Used(m, y.index)
      BY <3>1, <1>1 DEF Served, Used
    <3>3. QED
      BY <3>1, <3>2, <1>2 DEF i
  <2>2. \A y \in D :
          /\ n.events[y.index].event = y.event
          /\ y.flags \subseteq n.events[y.index].flags
          /\ \A d \in y.flags : g[n.events[y.index].arg][d] = y.who
    BY <2>1, <1>1, <1>3, <1>4, <1>9 DEF Served
  <2>3. \A j \in Slots : Used(n, j) =>
          \A d \in n.events[j].flags : \E x \in D : x.index = j /\ d \in x.flags
    BY <1>1, <1>3, <1>6 DEF Served
  <2>4. \A y, z \in D : y.who = z.who /\ y.event = z.event => y = z
    BY <1>1 DEF Served
  <2>5. QED
    BY <2>2, <2>3, <2>4 DEF Served
<1>12. AsksBut(n, i)
  <2>1. ASSUME NEW j \in Slots \ {i}, Used(n, j) PROVE Asks(n, j)
    <3>1. Used(m, j) /\ j \in Slots \ {-1}
      BY <2>1, <1>6 DEF Slots
    <3>2. QED
      BY <3>1, <1>1, <1>3 DEF AsksBut, Asks
  <2>2. ASSUME NEW e \in Descriptors, \A j \in Slots : n.events[j].event # e
        PROVE  n.es[e] = Nothing
    <3>1. \A j \in Slots : m.events[j].event # e
      <4> SUFFICES ASSUME NEW j \in Slots PROVE m.events[j].event # e
        OBVIOUS
      <4>1. CASE j = i
        BY <4>1, <1>2 DEF Used, i
      <4>2. CASE j # i
        BY <4>2, <2>2, <1>3
      <4>3. QED
        BY <4>1, <4>2
    <3>2. QED
      BY <3>1, <1>1, <1>3 DEF AsksBut
  <2>3. QED
    BY <2>1, <2>2 DEF AsksBut
<1>13. SoundBut(n, g, D, i)
  BY <1>1, <1>3, <1>4, <1>8, <1>10, <1>11, <1>12 DEF SoundBut
<1>14. QED
  BY <1>3, <1>13 DEF n, g, i, o

(* A thread's set is taken out of the main set.                            *)
LEMMA Leaves ==
  ASSUME NEW m \in MainSet, NEW h, NEW D, Sound(m, h, D), NEW x \in D,
         NEW p \in ThreadSet,
         p.event = x.event, p.flags = x.flags, p.index = x.index
  PROVE  Sound(Without(m, p), Freed(m, h, p), D \ {x})
<1> DEFINE i == x.index
           e == m.events[i]
           F == e.flags \ x.flags
           n == Flagged(m, i, F)
<1>1. i \in Slots /\ Used(m, i) /\ SoundBut(n, h, D \ {x}, i)
  BY FewerFlags
<1>2. e \in Entry /\ F \in SUBSET Dirs
  BY <1>1 DEF MainSet, Entry
<1> HIDE DEF F
<1>3. /\ n \in MainSet /\ n.max = m.max /\ n.es = m.es
      /\ n.events[i].event = e.event /\ n.events[i].flags = F
      /\ n.events[i].arg = e.arg
  BY <1>1, <1>2, FlaggedIs
<1>4. Used(n, i) /\ p # NoSet
  <2>1. p.event \in Descriptors /\ NoSet.event = None
    BY DEF ThreadSet, NoSet
  <2>2. QED
    BY <2>1, <1>1, <1>3 DEF Used
<1>5. CASE F # {}
  <2>1. Without(m, p) = [n EXCEPT !.es[e.event] = [flags |-> F, arg |-> e.arg]]
    BY <1>4, <1>5 DEF Without, Flagged, F
  <2>2. Without(m, p) = Settled(n, i)
    BY <2>1, <1>3 DEF Settled
  <2>3. ~ (e.flags \subseteq p.flags)
    BY <1>5 DEF F
  <2>4. Freed(m, h, p) = h
    BY <2>3 DEF Freed
  <2> HIDE DEF n
  <2>5. QED
    BY <2>2, <2>4, <1>1, <1>3, <1>4, <1>5, Settles
<1>6. CASE F = {}
  <2>1. Without(m, p) = Erased([n EXCEPT !.es[e.event] = Nothing], i)
    BY <1>4, <1>6 DEF Without, Flagged, F
  <2>2. Without(m, p) = Dropped(n, i)
    BY <2>1, <1>3 DEF Dropped
  <2>3. e.flags \subseteq p.flags
    BY <1>6 DEF F
  <2>4. Freed(m, h, p) = [h EXCEPT ![n.events[i].arg] = None]
    BY <2>3, <1>3, <1>4 DEF Freed
  <2> HIDE DEF n
  <2>5. n.events[i].flags = {}
    BY <1>3, <1>6
  <2>6. Sound(Dropped(n, i), [h EXCEPT ![n.events[i].arg] = None], D \ {x})
    BY <2>5, <1>1, <1>3, <1>4, Drops
  <2>7. QED
    BY <2>2, <2>4, <2>6
<1>7. QED
  BY <1>5, <1>6

-----------------------------------------------------------------------------
(* The demands of the threads.                                             *)

LEMMA DemandsAre ==
  ASSUME NEW s \in [Waiters -> ThreadSet \cup {NoSet}]
  PROVE  /\ \A t \in Waiters : s[t] # NoSet => Of(s, t) \in Demands(s)
         /\ \A x \in Demands(s) :
              /\ x.who \in Waiters /\ s[x.who] # NoSet /\ s[x.who] \in ThreadSet
              /\ x = Of(s, x.who) /\ x.event = s[x.who].event
              /\ x.flags = s[x.who].flags /\ x.index = s[x.who].index
BY DEF Demands, Of

LEMMA NoSetIsNone == NoSet \notin ThreadSet /\ NoSet.event \notin Descriptors
BY DEF NoSet, ThreadSet

LEMMA DemandsLeft ==
  ASSUME NEW s \in [Waiters -> ThreadSet \cup {NoSet}], NEW t \in Waiters
  PROVE  Demands([s EXCEPT ![t] = NoSet]) = Demands(s) \ {Of(s, t)}
<1> DEFINE r == [s EXCEPT ![t] = NoSet]
<1>1. r \in [Waiters -> ThreadSet \cup {NoSet}] /\ r[t] = NoSet
  OBVIOUS
<1>2. \A u \in Waiters \ {t} : r[u] = s[u]
  OBVIOUS
<1> HIDE DEF r
<1>3. \A u \in Waiters \ {t} : Of(r, u) = Of(s, u)
  BY <1>2 DEF Of
<1>4. Of(s, t).who = t
  BY DEF Of
<1>5. ASSUME NEW x \in Demands(r) PROVE x \in Demands(s) \ {Of(s, t)}
  <2>1. x.who \in Waiters \ {t} /\ r[x.who] # NoSet /\ x = Of(r, x.who)
    BY <1>1, DemandsAre
  <2>2. x = Of(s, x.who) /\ s[x.who] # NoSet
    BY <2>1, <1>2, <1>3
  <2>3. QED
    BY <2>1, <2>2, <1>4, DemandsAre
<1>6. ASSUME NEW x \in Demands(s) \ {Of(s, t)} PROVE x \in Demands(r)
  <2>1. x.who \in Waiters \ {t} /\ s[x.who] # NoSet /\ x = Of(s, x.who)
    BY DemandsAre
  <2>2. x = Of(r, x.who) /\ r[x.who] # NoSet
    BY <2>1, <1>2, <1>3
  <2>3. QED
    BY <2>1, <2>2, <1>1, DemandsAre
<1>7. QED
  BY <1>5, <1>6 DEF r

LEMMA DemandsChanged ==
  ASSUME NEW s \in [Waiters -> ThreadSet \cup {NoSet}], NEW t \in Waiters, NEW p \in ThreadSet
  PROVE  Demands([s EXCEPT ![t] = p]) =
           (Demands(s) \ {Of(s, t)})
             \cup {[who |-> t, event |-> p.event, flags |-> p.flags, index |-> p.index]}
<1> DEFINE r == [s EXCEPT ![t] = p]
           new == [who |-> t, event |-> p.event, flags |-> p.flags, index |-> p.index]
<1>1. r \in [Waiters -> ThreadSet \cup {NoSet}] /\ r[t] = p /\ r[t] # NoSet
  BY NoSetIsNone
<1>2. \A u \in Waiters \ {t} : r[u] = s[u]
  OBVIOUS
<1> HIDE DEF r
<1>3. \A u \in Waiters \ {t} : Of(r, u) = Of(s, u)
  BY <1>2 DEF Of
<1>4. Of(s, t).who = t /\ Of(r, t) = new
  BY <1>1 DEF Of
<1> HIDE DEF new
<1>5. ASSUME NEW x \in Demands(r) PROVE x \in (Demands(s) \ {Of(s, t)}) \cup {new}
  <2>1. x.who \in Waiters /\ r[x.who] # NoSet /\ x = Of(r, x.who)
    BY <1>1, DemandsAre
  <2>2. CASE x.who = t
    BY <2>1, <2>2, <1>4
  <2>3. CASE x.who # t
    <3>1. x = Of(s, x.who) /\ s[x.who] # NoSet
      BY <2>1, <2>3, <1>2, <1>3
    <3>2. QED
      BY <2>1, <2>3, <3>1, <1>4, DemandsAre
  <2>4. QED
    BY <2>2, <2>3
<1>6. ASSUME NEW x \in Demands(s) \ {Of(s, t)} PROVE x \in Demands(r)
  <2>1. x.who \in Waiters \ {t} /\ s[x.who] # NoSet /\ x = Of(s, x.who)
    BY DemandsAre
  <2>2. x = Of(r, x.who) /\ r[x.who] # NoSet
    BY <2>1, <1>2, <1>3
  <2>3. QED
    BY <2>1, <2>2, <1>1, DemandsAre
<1>7. new \in Demands(r)
  BY <1>1, <1>4, DemandsAre
<1>8. QED
  BY <1>5, <1>6, <1>7 DEF r, new

-----------------------------------------------------------------------------
(* The invariant: each way to wait and to leave keeps it.                  *)

LEMMA InitSound == EventsInit => EventsIInv
<1> SUFFICES ASSUME EventsInit PROVE EventsIInv
  OBVIOUS
<1>1. \A i \in Slots : main.events[i] = [event |-> None, flags |-> {}, arg |-> None]
  BY DEF EventsInit
<1>2. EventsTypeOK
  BY DEF EventsInit, EventsTypeOK, MainSet, Entry, Nothing
<1>3. Demands(set) = {}
  BY DEF EventsInit, Demands
<1>4. \A i \in Slots : ~ Used(main, i)
  BY <1>1 DEF Used
<1>5. main.max = -1 /\ \A f \in Descriptors : main.es[f] = Nothing
  BY DEF EventsInit
<1>6. Placed(main) /\ Backed(main, args)
  BY <1>4, <1>5 DEF Placed, Backed
<1>7. Served(main, args, Demands(set)) /\ AsksBut(main, -1)
  BY <1>3, <1>4, <1>5 DEF Served, AsksBut
<1>8. QED
  BY <1>2, <1>3, <1>6, <1>7 DEF EventsIInv, Sound, SoundBut, EventsTypeOK, Arguments

(* What is sound for the sets of the threads has the right types.          *)
LEMMA SoundIsInvariant ==
  ASSUME Sound(main', args', Demands(set')),
         set' \in [Waiters -> ThreadSet \cup {NoSet}]
  PROVE  EventsIInv'
BY DEF EventsIInv, EventsTypeOK, Sound, SoundBut, Arguments

LEMMA LeaveSound ==
  ASSUME EventsIInv, NEW t \in Waiters, Leave(t)
  PROVE  EventsIInv'
<1>1. /\ main \in MainSet /\ set \in [Waiters -> ThreadSet \cup {NoSet}]
      /\ Sound(main, args, Demands(set))
  BY DEF EventsIInv, EventsTypeOK
<1>2. set[t] # NoSet /\ set[t] \in ThreadSet
  BY <1>1 DEF Leave
<1>3. /\ Of(set, t) \in Demands(set) /\ Of(set, t).event = set[t].event
      /\ Of(set, t).flags = set[t].flags /\ Of(set, t).index = set[t].index
  BY <1>1, <1>2, DemandsAre DEF Of
<1>4. Sound(main', args', Demands(set) \ {Of(set, t)})
  BY <1>1, <1>2, <1>3, Leaves DEF Leave
<1>5. set' = [set EXCEPT ![t] = NoSet]
  BY DEF Leave
<1>6. Demands(set') = Demands(set) \ {Of(set, t)}
  BY <1>1, <1>5, DemandsLeft
<1>7. set' \in [Waiters -> ThreadSet \cup {NoSet}]
  BY <1>1, <1>5
<1>8. QED
  BY <1>4, <1>6, <1>7, SoundIsInvariant

(* The directions that other threads wait for are not asked for again.     *)
LEMMA NotAsked ==
  ASSUME NEW m \in MainSet, NEW h, NEW D \in SUBSET Demands(set), NEW i \in Slots,
         set \in [Waiters -> ThreadSet \cup {NoSet}],
         Served(m, h, D), Used(m, i),
         NEW t \in Waiters, NEW w \in SUBSET Dirs,
         MayWait(t, m.events[i].event, w),
         \A x \in D : ~ (x.who = t /\ x.event = m.events[i].event)
  PROVE  w \cap m.events[i].flags = {}
<1> SUFFICES ASSUME NEW d \in w, d \in m.events[i].flags PROVE FALSE
  OBVIOUS
<1>1. PICK x \in D : x.index = i /\ d \in x.flags
  BY DEF Served
<1>2. x.event = m.events[i].event
  BY <1>1 DEF Served
<1>3. /\ x.who \in Waiters \ {t} /\ set[x.who].event = m.events[i].event
      /\ d \in set[x.who].flags
  BY <1>1, <1>2, DemandsAre
<1>4. QED
  BY <1>3 DEF MayWait

LEMMA MergeSound ==
  ASSUME NEW m \in MainSet, NEW h, NEW i \in Slots, NEW t \in Waiters,
         NEW w \in SUBSET Dirs, w # {},
         set \in [Waiters -> ThreadSet \cup {NoSet}],
         SoundBut(m, h, Demands(set), i), Used(m, i),
         set[t].event # m.events[i].event, MayWait(t, m.events[i].event, w),
         Merge(t, m.events[i].event, w, i, m, h)
  PROVE  EventsIInv'
<1> DEFINE f == m.events[i].event
           D == Demands(set)
           new == [who |-> t, event |-> f, flags |-> w, index |-> i]
           p == [event |-> f, flags |-> w, index |-> i]
           asked == Asked(m, i, f, w)
           g == Owned(h, m.events[i].arg, t, w)
<1>1. f \in Descriptors
  BY DEF MainSet, Entry, Used
<1>2. \A x \in D : ~ (x.who = t /\ x.event = f)
  BY DemandsAre
<1>3. w \cap m.events[i].flags = {}
  <2>1. Served(m, h, D)
    BY DEF SoundBut
  <2>2. QED
    BY <2>1, <1>2, NotAsked
<1>4. Sound(asked, g, D \cup {new})
  BY <1>2, <1>3, MoreFlags
<1>5. asked \in MainSet
  BY <1>4 DEF Sound, SoundBut
<1>6. p \in ThreadSet /\ p.event = f /\ p.flags = w /\ p.index = i
  BY <1>1 DEF ThreadSet
<1>7. /\ main' = Without(asked, set[t]) /\ args' = Freed(asked, g, set[t])
      /\ set' = [set EXCEPT ![t] = p]
  BY DEF Merge
<1> HIDE DEF asked, g, p
<1>8. Demands(set') = (D \ {Of(set, t)}) \cup {new}
  <2>1. Demands(set') = (D \ {Of(set, t)}) \cup
          {[who |-> t, event |-> p.event, flags |-> p.flags, index |-> p.index]}
    BY <1>6, <1>7, DemandsChanged
  <2>2. QED
    BY <2>1, <1>6
<1>9. set' \in [Waiters -> ThreadSet \cup {NoSet}]
  BY <1>6, <1>7
<1>10. new # Of(set, t)
  <2>1. new.event = f /\ Of(set, t).event = set[t].event
    BY DEF Of
  <2>2. QED
    BY <2>1
<1>11. Sound(main', args', (D \cup {new}) \ {Of(set, t)})
  <2>1. CASE set[t] = NoSet
    <3>1. Of(set, t) \notin D
      BY <2>1, DemandsAre DEF Of
    <3>2. main' = asked /\ args' = g
      BY <2>1, <1>7 DEF Without, Freed
    <3>3. (D \cup {new}) \ {Of(set, t)} = D \cup {new}
      BY <3>1, <1>10
    <3>4. QED
      BY <3>2, <3>3, <1>4
  <2>2. CASE set[t] # NoSet
    <3>1. set[t] \in ThreadSet
      BY <2>2
    <3>2. /\ Of(set, t) \in D \cup {new} /\ Of(set, t).event = set[t].event
          /\ Of(set, t).flags = set[t].flags /\ Of(set, t).index = set[t].index
      BY <2>2, DemandsAre DEF Of
    <3> HIDE DEF D, new
    <3>3. QED
      BY <3>1, <3>2, <1>4, <1>5, <1>7, Leaves
  <2>3. QED
    BY <2>1, <2>2
<1>12. (D \cup {new}) \ {Of(set, t)} = (D \ {Of(set, t)}) \cup {new}
  BY <1>10
<1>13. QED
  BY <1>8, <1>9, <1>11, <1>12, SoundIsInvariant

LEMMA WaitNewSound ==
  ASSUME EventsIInv, NEW t \in Waiters, NEW f \in Descriptors, NEW d \in Dirs,
         WaitNew(t, f, {d})
  PROVE  EventsIInv'
<1>1. /\ main \in MainSet /\ set \in [Waiters -> ThreadSet \cup {NoSet}]
      /\ Sound(main, args, Demands(set))
  BY DEF EventsIInv, EventsTypeOK
<1>2. PICK a \in Args :
        /\ args[a] = None
        /\ Merge(t, f, {d}, Free(main), Added(main, f, a),
                 [args EXCEPT ![a] = [e \in Dirs |-> None]])
  BY DEF WaitNew
<1>3. /\ set[t].event # f /\ MayWait(t, f, {d})
      /\ Listed(main, f) = {} /\ Free(main) \in Slots
  BY DEF WaitNew
<1> DEFINE n == Added(main, f, a)
           h == [args EXCEPT ![a] = [e \in Dirs |-> None]]
<1>4. /\ SoundBut(n, h, Demands(set), Free(main))
      /\ n.events[Free(main)] = [event |-> f, flags |-> {}, arg |-> a]
  BY <1>1, <1>2, <1>3, Adds
<1>5. Merge(t, f, {d}, Free(main), n, h)
  BY <1>2
<1> HIDE DEF n, h
<1>6. n \in MainSet /\ n.events[Free(main)].event = f /\ Used(n, Free(main))
  BY <1>4 DEF SoundBut, Used
<1>7. {d} \in SUBSET Dirs /\ {d} # {}
  OBVIOUS
<1>8. QED
  BY <1>1, <1>3, <1>4, <1>5, <1>6, <1>7, MergeSound

LEMMA WaitListedSound ==
  ASSUME ~ LastShared, EventsIInv, NEW t \in Waiters, NEW f \in Descriptors, NEW d \in Dirs,
         WaitListed(t, f, {d})
  PROVE  EventsIInv'
<1> DEFINE i == Min(Listed(main, f))
           r == [Erased(main, i) EXCEPT !.events[i].event = f]
<1>1. /\ main \in MainSet /\ set \in [Waiters -> ThreadSet \cup {NoSet}]
      /\ Sound(main, args, Demands(set))
  BY DEF EventsIInv, EventsTypeOK
<1>2. /\ set[t].event # f /\ MayWait(t, f, {d}) /\ Listed(main, f) # {}
      /\ Merge(t, f, {d}, i, r, args)
  BY DEF WaitListed
<1>3. i \in Listed(main, f)
  <2>1. Listed(main, f) \in SUBSET Nat
    BY DEF Listed
  <2>2. QED
    BY <2>1, <1>2, LeastIs
<1> HIDE DEF i
<1>4. /\ Placed(main) /\ Served(main, args, Demands(set)) /\ AsksBut(main, -1)
      /\ main.max \in {-1} \cup Slots
  BY <1>1 DEF Sound, SoundBut, MainSet
<1>5. i \in Slots /\ main.events[i].event = f /\ Used(main, i)
  <2>1. i \in 0 .. main.max /\ main.events[i].event = f
    BY <1>3 DEF Listed
  <2>2. QED
    BY <2>1, <1>4 DEF Slots, Used
<1>6. i # main.max
  <2>1. i \in Slots \ {-1}
    BY <1>5 DEF Slots
  <2>2. main.events[i].flags # {}
    BY <2>1, <1>4, <1>5 DEF AsksBut, Asks
  <2>3. PICK x \in Demands(set) : x.index = i
    BY <2>2, <1>4, <1>5 DEF Served
  <2>4. x.event = f
    BY <2>3, <1>4, <1>5 DEF Served
  <2>5. x.who \in Waiters \ {t} /\ set[x.who].event = f
    BY <2>4, <1>1, <1>2, DemandsAre
  <2>6. main.max \notin Listed(main, f)
    BY <2>5, <1>2 DEF MayWait
  <2>7. QED
    BY <2>6, <1>3
<1>7. r = main
  <2> DEFINE e == main.events[i]
             gone == [e EXCEPT !.event = None]
             events == [main.events EXCEPT ![i] = gone]
  <2>1. /\ main = [events |-> main.events, max |-> main.max, es |-> main.es]
        /\ main.events \in [Slots -> Entry] /\ e \in Entry
    BY <1>1, <1>5 DEF MainSet
  <2>2. Erased(main, i) = [main EXCEPT !.events = events, !.max = main.max]
    BY <1>6 DEF Erased
  <2>3. [gone EXCEPT !.event = f] = e
    BY <2>1, <1>5 DEF Entry
  <2> HIDE DEF gone
  <2>4. events[i] = gone /\ [events EXCEPT ![i] = e] = main.events
    BY <2>1, <1>5
  <2> HIDE DEF e, events
  <2>5. /\ Erased(main, i).events = events /\ Erased(main, i).max = main.max
        /\ Erased(main, i).es = main.es
        /\ Erased(main, i) = [events |-> events, max |-> main.max, es |-> main.es]
    BY <2>1, <2>2
  <2>6. r = [events |-> [events EXCEPT ![i] = [events[i] EXCEPT !.event = f]],
             max |-> main.max, es |-> main.es]
    BY <2>5
  <2>7. QED
    BY <2>1, <2>3, <2>4, <2>6
<1>8. SoundBut(main, args, Demands(set), i)
  BY <1>1 DEF Sound, SoundBut, AsksBut, Slots
<1>9. Merge(t, f, {d}, i, main, args)
  BY <1>2, <1>7
<1>10. {d} \in SUBSET Dirs /\ {d} # {}
  OBVIOUS
<1>11. QED
  BY <1>1, <1>2, <1>5, <1>8, <1>9, <1>10, MergeSound

LEMMA WaitAgainSound ==
  ASSUME EventsIInv, NEW t \in Waiters, NEW f \in Descriptors, NEW d \in Dirs,
         WaitAgain(t, f, {d})
  PROVE  EventsIInv'
<1> DEFINE i == set[t].index
           old == set[t].flags
           w == {d}
           x == Of(set, t)
           F == main.events[i].flags \ old
           n == Flagged(main, i, F)
           D == Demands(set) \ {x}
           new == [who |-> t, event |-> f, flags |-> w, index |-> i]
<1>1. /\ main \in MainSet /\ set \in [Waiters -> ThreadSet \cup {NoSet}]
      /\ Sound(main, args, Demands(set))
  BY DEF EventsIInv, EventsTypeOK
<1>2. set[t].event = f /\ MayWait(t, f, w) /\ set' = [set EXCEPT ![t].flags = w]
  BY DEF WaitAgain
<1>3. set[t] \in ThreadSet /\ set[t] # NoSet
  BY <1>1, <1>2, NoSetIsNone
<1>4. /\ x \in Demands(set) /\ x.who = t /\ x.event = f /\ x.flags = old /\ x.index = i
  BY <1>1, <1>2, <1>3, DemandsAre DEF Of
<1> DEFINE p == [event |-> f, flags |-> w, index |-> i]
<1>5. p \in ThreadSet /\ p.event = f /\ p.flags = w /\ p.index = i
  BY <1>3 DEF ThreadSet
<1>6. set' = [set EXCEPT ![t] = p]
  <2>1. [set[t] EXCEPT !.flags = w] = p
    BY <1>2, <1>3 DEF ThreadSet
  <2> HIDE DEF p
  <2>2. QED
    BY <2>1, <1>2
<1> HIDE DEF p
<1>7. set' \in [Waiters -> ThreadSet \cup {NoSet}] /\ Demands(set') = D \cup {new}
  <2>1. set' \in [Waiters -> ThreadSet \cup {NoSet}]
    BY <1>1, <1>5, <1>6
  <2>2. Demands([set EXCEPT ![t] = p]) = (Demands(set) \ {Of(set, t)}) \cup
          {[who |-> t, event |-> p.event, flags |-> p.flags, index |-> p.index]}
    <3>1. set \in [Waiters -> ThreadSet \cup {NoSet}] /\ p \in ThreadSet
      BY <1>1, <1>5
    <3>2. QED
      BY <3>1, DemandsChanged
  <2>3. Demands(set') = D \cup
          {[who |-> t, event |-> p.event, flags |-> p.flags, index |-> p.index]}
    BY <2>2, <1>6
  <2>4. QED
    BY <2>1, <2>3, <1>5
<1>8. CASE w = old
  <2>1. main' = main /\ args' = args
    BY <1>8 DEF WaitAgain
  <2>2. new = x
    BY <1>8, <1>2 DEF Of
  <2>3. Demands(set') = Demands(set)
    BY <2>2, <1>4, <1>7
  <2>4. QED
    BY <2>1, <2>3, <1>1, <1>7, SoundIsInvariant
<1>9. CASE w # old
  <2>1. i \in Slots /\ Used(main, i) /\ SoundBut(n, args, D, i)
    BY <1>1, <1>4, FewerFlags
  <2>2. main.events[i].event = f
    BY <1>1, <1>4 DEF Sound, SoundBut, Served
  <2>3. F \in SUBSET Dirs
    BY <2>1, <1>1 DEF MainSet, Entry
  <2> HIDE DEF F
  <2>4. n \in MainSet /\ n.events[i].event = f /\ n.events[i].arg = main.events[i].arg
    BY <2>1, <2>2, <2>3, <1>1, FlaggedIs
  <2>5. main' = Asked(n, i, f, w) /\ args' = Owned(args, n.events[i].arg, t, w)
    BY <2>4, <1>9 DEF WaitAgain, Flagged, F
  <2> HIDE DEF n
  <2>6. Used(n, i)
    BY <2>4 DEF Used
  <2>7. \A y \in D : ~ (y.who = t /\ y.event = f)
    BY <1>1, DemandsAre
  <2>8. w \in SUBSET Dirs /\ w # {}
    OBVIOUS
  <2>9. w \cap n.events[i].flags = {}
    <3>1. Served(n, args, D) /\ D \in SUBSET Demands(set)
      BY <2>1 DEF SoundBut
    <3> HIDE DEF D, w
    <3>2. QED
      BY <3>1, <2>1, <2>4, <2>6, <2>7, <2>8, <1>1, <1>2, NotAsked
  <2> HIDE DEF D, w, i
  <2>10. Sound(main', args', D \cup {new})
    BY <2>1, <2>4, <2>5, <2>6, <2>7, <2>8, <2>9, MoreFlags
  <2>11. QED
    BY <2>10, <1>7, SoundIsInvariant
<1>10. QED
  BY <1>8, <1>9

LEMMA NextSound ==
  ASSUME ~ LastShared
  PROVE  EventsIInv /\ [EventsNext]_eventsVars => EventsIInv'
<1> SUFFICES ASSUME EventsIInv, [EventsNext]_eventsVars PROVE EventsIInv'
  OBVIOUS
<1>1. CASE UNCHANGED eventsVars
  <2>1. main' = main /\ args' = args /\ set' = set
    BY <1>1 DEF eventsVars
  <2>2. /\ Sound(main, args, Demands(set))
        /\ set \in [Waiters -> ThreadSet \cup {NoSet}]
    BY DEF EventsIInv, EventsTypeOK
  <2>3. QED
    BY <2>1, <2>2, SoundIsInvariant
<1>2. CASE EventsNext
  <2>1. CASE \E t \in Waiters : Leave(t)
    BY <2>1, LeaveSound
  <2>2. CASE \E t \in Waiters, f \in Descriptors, d \in Dirs : Wait(t, f, {d})
    BY <2>2, WaitAgainSound, WaitNewSound, WaitListedSound DEF Wait
  <2>3. QED
    BY <1>2, <2>1, <2>2 DEF EventsNext
<1>3. QED
  BY <1>1, <1>2

(* libtme/threads-sjlj.c, tme_sjlj_yield: if no two threads share the last *)
(* descriptor, the main set, the arguments and the sets of the threads     *)
(* always agree.                                                           *)
THEOREM EventsInvariance ==
  ASSUME ~ LastShared
  PROVE  EventsSpec => []EventsIInv
BY InitSound, NextSound, PTL DEF EventsSpec

LEMMA SoundServes == EventsIInv => EventsServed
<1> SUFFICES ASSUME EventsIInv, NEW f \in Descriptors, NEW d \in Dirs
             PROVE  /\ d \in main.es[f].flags <=> \E t \in Waiters : WaitsFor(t, f, d)
                    /\ d \in main.es[f].flags =>
                         /\ main.max >= 0
                         /\ args[main.es[f].arg] # None
                         /\ WaitsFor(args[main.es[f].arg][d], f, d)
  BY DEF EventsServed
<1>1. /\ main \in MainSet /\ set \in [Waiters -> ThreadSet \cup {NoSet}]
      /\ Placed(main) /\ Backed(main, args)
      /\ Served(main, args, Demands(set)) /\ AsksBut(main, -1)
  BY DEF EventsIInv, EventsTypeOK, Sound, SoundBut
<1>2. ASSUME NEW i \in Slots, main.events[i].event = f
      PROVE  /\ Used(main, i) /\ main.es[f].flags = main.events[i].flags
             /\ main.es[f].arg = main.events[i].arg
  <2>1. i \in Slots \ {-1} /\ Used(main, i)
    BY <1>2 DEF Slots, Used
  <2>2. Asks(main, i)
    BY <2>1, <1>1 DEF AsksBut
  <2>3. QED
    BY <2>1, <2>2, <1>2 DEF Asks
<1>3. ASSUME NEW t \in Waiters, WaitsFor(t, f, d) PROVE d \in main.es[f].flags
  <2>1. set[t].event = f /\ d \in set[t].flags
    BY <1>3 DEF WaitsFor
  <2>2. set[t] # NoSet /\ set[t] \in ThreadSet
    BY <2>1, <1>1, NoSetIsNone
  <2>3. /\ Of(set, t) \in Demands(set) /\ Of(set, t).event = f
        /\ d \in Of(set, t).flags /\ Of(set, t).index \in Slots
    BY <2>1, <2>2, <1>1, DemandsAre DEF Of, ThreadSet
  <2>4. /\ main.events[Of(set, t).index].event = f
        /\ d \in main.events[Of(set, t).index].flags
    BY <2>3, <1>1 DEF Served
  <2>5. QED
    BY <2>3, <2>4, <1>2
<1>4. ASSUME d \in main.es[f].flags
      PROVE  /\ main.max >= 0 /\ args[main.es[f].arg] # None
             /\ \E t \in Waiters : WaitsFor(t, f, d)
             /\ WaitsFor(args[main.es[f].arg][d], f, d)
  <2>1. main.es[f] # Nothing
    BY <1>4 DEF Nothing
  <2>2. PICK i \in Slots : main.events[i].event = f
    BY <2>1, <1>1 DEF AsksBut
  <2>3. /\ Used(main, i) /\ d \in main.events[i].flags
        /\ main.es[f].arg = main.events[i].arg
    BY <2>2, <1>2, <1>4
  <2>4. PICK x \in Demands(set) : x.index = i /\ d \in x.flags
    BY <2>3, <1>1 DEF Served
  <2>5. x.event = f /\ args[main.events[i].arg][d] = x.who
    BY <2>2, <2>4, <1>1 DEF Served
  <2>6. x.who \in Waiters /\ WaitsFor(x.who, f, d)
    BY <2>4, <2>5, <1>1, DemandsAre DEF WaitsFor
  <2>7. args[main.events[i].arg] # None
    BY <2>3, <1>1 DEF Backed
  <2>8. main.max >= 0
    BY <2>3, <1>1, SetsAssumption DEF Placed, Slots, MainSet
  <2>9. QED
    BY <2>3, <2>5, <2>6, <2>7, <2>8
<1>5. QED
  BY <1>3, <1>4

(* tme_sjlj_yield and tme_sjlj_threads_main_iter: the host looks for just  *)
(* what threads wait for, and its answers find them.                       *)
THEOREM WaitersServed ==
  ASSUME ~ LastShared
  PROVE  EventsSpec => []EventsServed
BY EventsInvariance, SoundServes, PTL
=============================================================================
