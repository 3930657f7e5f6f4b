-------------------------- MODULE SjljThreadsProofs --------------------------
(***************************************************************************)
(* Proofs about the cooperative scheduler, for any number of threads,      *)
(* conditions and descriptors and any modulus of the dispatch numbers:     *)
(* what the list operations do to the elements of a list and to their      *)
(* order, the inductive invariant, and that the lists, timeouts,           *)
(* descriptors and dispatch numbers of libtme/threads-sjlj.c implement     *)
(* CoopScheduler.                                                          *)
(***************************************************************************)
EXTENDS SjljThreads, TLAPS

-----------------------------------------------------------------------------
(* The lists.                                                              *)

(* The elements of a list, by position.                                    *)
LEMMA Elements ==
  ASSUME NEW T, NEW s \in Seq(T)
  PROVE  \A x : x \in ToSet(s) <=> \E i \in 1 .. Len(s) : x = s[i]
<1>1. DOMAIN s = 1 .. Len(s)
  OBVIOUS
<1>2. QED
  BY <1>1, Zenon DEF ToSet

(* A nonempty list is its head, which is not on the rest, and the rest.    *)
LEMMA HeadTail ==
  ASSUME NEW T, NEW s \in Seq(T), s # <<>>
  PROVE  /\ Head(s) \in T
         /\ Tail(s) \in Seq(T)
         /\ ToSet(s) = {Head(s)} \cup ToSet(Tail(s))
         /\ NoRepeats(s) => NoRepeats(Tail(s)) /\ Head(s) \notin ToSet(Tail(s))
<1> DEFINE h == Head(s)
           r == Tail(s)
<1>1. h = s[1] /\ h \in T /\ Len(s) \in Nat /\ Len(s) > 0
  OBVIOUS
<1>2. /\ r \in Seq(T)
      /\ Len(r) = Len(s) - 1
      /\ \A i \in 1 .. Len(s) - 1 : r[i] = s[i + 1]
  OBVIOUS
<1>3. \A x : x \in ToSet(s) <=> \E i \in 1 .. Len(s) : x = s[i]
  BY Elements
<1>4. \A x : x \in ToSet(r) <=> \E i \in 1 .. Len(r) : x = r[i]
  BY <1>2, Elements
<1> HIDE DEF h, r
<1>5. ToSet(s) = {h} \cup ToSet(r)
  <2>1. ASSUME NEW x, x \in ToSet(s)
        PROVE  x = h \/ x \in ToSet(r)
    <3>1. PICK i \in 1 .. Len(s) : x = s[i]
      BY <1>3, <2>1
    <3>2. CASE i = 1
      BY <1>1, <3>1, <3>2
    <3>3. CASE i # 1
      <4>1. i - 1 \in 1 .. Len(r) /\ x = r[i - 1]
        BY <1>1, <1>2, <3>1, <3>3
      <4>2. QED
        BY <1>4, <4>1
    <3>4. QED
      BY <3>2, <3>3
  <2>2. h \in ToSet(s)
    BY <1>1, <1>3
  <2>3. ASSUME NEW x, x \in ToSet(r)
        PROVE  x \in ToSet(s)
    <3>1. PICK i \in 1 .. Len(r) : x = r[i]
      BY <1>4, <2>3
    <3>2. i + 1 \in 1 .. Len(s) /\ x = s[i + 1]
      BY <1>1, <1>2, <3>1
    <3>3. QED
      BY <1>3, <3>2
  <2>4. QED
    BY <2>1, <2>2, <2>3
<1>6. ASSUME NoRepeats(s)
      PROVE  NoRepeats(r) /\ h \notin ToSet(r)
  <2>1. NoRepeats(r)
    BY <1>1, <1>2, <1>6 DEF NoRepeats
  <2>2. ASSUME NEW i \in 1 .. Len(r), h = r[i]
        PROVE  FALSE
    <3>1. i + 1 \in 1 .. Len(s) /\ 1 \in 1 .. Len(s) /\ s[i + 1] = s[1]
      BY <1>1, <1>2, <2>2
    <3>2. i + 1 = 1
      BY <1>6, <3>1 DEF NoRepeats
    <3>3. QED
      BY <1>1, <1>2, <3>2
  <2>3. QED
    BY <1>4, <2>1, <2>2
<1>7. QED
  BY <1>1, <1>2, <1>5, <1>6 DEF h, r

(* The positions of two lists joined.                                      *)
LEMMA JoinAt ==
  ASSUME NEW T, NEW s \in Seq(T), NEW u \in Seq(T)
  PROVE  /\ s \o u \in Seq(T)
         /\ Len(s \o u) = Len(s) + Len(u)
         /\ \A i \in 1 .. Len(s) + Len(u) :
              (s \o u)[i] = IF i <= Len(s) THEN s[i] ELSE u[i - Len(s)]
OBVIOUS

(* Two lists joined hold the elements of both.                             *)
LEMMA Join ==
  ASSUME NEW T, NEW s \in Seq(T), NEW u \in Seq(T)
  PROVE  /\ s \o u \in Seq(T)
         /\ ToSet(s \o u) = ToSet(s) \cup ToSet(u)
         /\ NoRepeats(s) /\ NoRepeats(u) /\ ToSet(s) \cap ToSet(u) = {}
              => NoRepeats(s \o u)
<1> DEFINE v == s \o u
<1>1. /\ v \in Seq(T)
      /\ Len(s) \in Nat /\ Len(u) \in Nat
      /\ Len(v) = Len(s) + Len(u)
      /\ \A i \in 1 .. Len(s) : v[i] = s[i]
      /\ \A i \in Len(s) + 1 .. Len(s) + Len(u) : v[i] = u[i - Len(s)]
      /\ \A i \in 1 .. Len(u) : v[i + Len(s)] = u[i]
  OBVIOUS
<1>2. \A x : x \in ToSet(s) <=> \E i \in 1 .. Len(s) : x = s[i]
  BY Elements
<1>3. \A x : x \in ToSet(u) <=> \E i \in 1 .. Len(u) : x = u[i]
  BY Elements
<1>4. \A x : x \in ToSet(v) <=> \E i \in 1 .. Len(v) : x = v[i]
  BY <1>1, Elements
<1> HIDE DEF v
<1>5. ToSet(v) = ToSet(s) \cup ToSet(u)
  <2>1. ASSUME NEW x, x \in ToSet(v)
        PROVE  x \in ToSet(s) \/ x \in ToSet(u)
    <3>1. PICK i \in 1 .. Len(v) : x = v[i]
      BY <1>4, <2>1
    <3>2. CASE i <= Len(s)
      BY <1>1, <1>2, <3>1, <3>2
    <3>3. CASE i > Len(s)
      <4>1. i - Len(s) \in 1 .. Len(u) /\ x = u[i - Len(s)]
        BY <1>1, <3>1, <3>3
      <4>2. QED
        BY <1>3, <4>1
    <3>4. QED
      BY <1>1, <3>2, <3>3
  <2>2. ASSUME NEW x, x \in ToSet(s) PROVE x \in ToSet(v)
    <3>1. PICK i \in 1 .. Len(s) : x = s[i]
      BY <1>2, <2>2
    <3>2. i \in 1 .. Len(v) /\ x = v[i]
      BY <1>1, <3>1
    <3>3. QED
      BY <1>4, <3>2
  <2>3. ASSUME NEW x, x \in ToSet(u) PROVE x \in ToSet(v)
    <3>1. PICK i \in 1 .. Len(u) : x = u[i]
      BY <1>3, <2>3
    <3>2. i + Len(s) \in 1 .. Len(v) /\ x = v[i + Len(s)]
      BY <1>1, <3>1
    <3>3. QED
      BY <1>4, <3>2
  <2>4. QED
    BY <2>1, <2>2, <2>3
<1>6. ASSUME NoRepeats(s), NoRepeats(u), ToSet(s) \cap ToSet(u) = {}
      PROVE  NoRepeats(v)
  <2>1. \A i \in 1 .. Len(s), j \in 1 .. Len(u) : s[i] # u[j]
    BY <1>2, <1>3, <1>6
  <2>2. ASSUME NEW i \in 1 .. Len(v), NEW j \in 1 .. Len(v), v[i] = v[j]
        PROVE  i = j
    <3>1. CASE i <= Len(s) /\ j <= Len(s)
      BY <1>1, <1>6, <2>2, <3>1 DEF NoRepeats
    <3>2. CASE i > Len(s) /\ j > Len(s)
      <4>1. /\ i - Len(s) \in 1 .. Len(u) /\ j - Len(s) \in 1 .. Len(u)
            /\ u[i - Len(s)] = u[j - Len(s)]
        BY <1>1, <2>2, <3>2
      <4>2. i - Len(s) = j - Len(s)
        BY <1>6, <4>1 DEF NoRepeats
      <4>3. QED
        BY <1>1, <4>2
    <3>3. CASE i <= Len(s) /\ j > Len(s)
      <4>1. i \in 1 .. Len(s) /\ j - Len(s) \in 1 .. Len(u)
            /\ s[i] = u[j - Len(s)]
        BY <1>1, <2>2, <3>3
      <4>2. QED
        BY <2>1, <4>1
    <3>4. CASE i > Len(s) /\ j <= Len(s)
      <4>1. j \in 1 .. Len(s) /\ i - Len(s) \in 1 .. Len(u)
        BY <1>1, <3>4
      <4>2. v[j] = s[j] /\ v[i] = u[i - Len(s)]
        BY <1>1, <3>4, <4>1
      <4>3. QED
        BY <2>1, <2>2, <4>1, <4>2
    <3>5. QED
      BY <1>1, <3>1, <3>2, <3>3, <3>4
  <2>3. QED
    BY <2>2 DEF NoRepeats
<1>7. QED
  BY <1>1, <1>5, <1>6 DEF v

(* A list of one element.                                                  *)
LEMMA Single ==
  ASSUME NEW T, NEW t \in T
  PROVE  <<t>> \in Seq(T) /\ ToSet(<<t>>) = {t} /\ NoRepeats(<<t>>)
<1> DEFINE s == <<t>>
<1>1. s \in Seq(T) /\ Len(s) = 1 /\ s[1] = t
  OBVIOUS
<1>2. \A x : x \in ToSet(s) <=> \E i \in 1 .. Len(s) : x = s[i]
  BY <1>1, Elements
<1> HIDE DEF s
<1>3. ToSet(s) = {t}
  BY <1>1, <1>2
<1>4. NoRepeats(s)
  BY <1>1 DEF NoRepeats
<1>5. QED
  BY <1>1, <1>3, <1>4 DEF s

(* Inserting at the head.                                                  *)
LEMMA Push ==
  ASSUME NEW T, NEW s \in Seq(T), NEW t \in T
  PROVE  /\ <<t>> \o s \in Seq(T)
         /\ ToSet(<<t>> \o s) = {t} \cup ToSet(s)
         /\ NoRepeats(s) /\ t \notin ToSet(s) => NoRepeats(<<t>> \o s)
<1> DEFINE u == <<t>>
<1>1. u \in Seq(T) /\ ToSet(u) = {t} /\ NoRepeats(u)
  BY Single
<1> HIDE DEF u
<1>2. /\ u \o s \in Seq(T)
      /\ ToSet(u \o s) = ToSet(u) \cup ToSet(s)
      /\ NoRepeats(u) /\ NoRepeats(s) /\ ToSet(u) \cap ToSet(s) = {}
            => NoRepeats(u \o s)
  BY <1>1, Join
<1>3. QED
  BY <1>1, <1>2, Zenon DEF u

(* Adding at the end.                                                      *)
LEMMA PushLast ==
  ASSUME NEW T, NEW s \in Seq(T), NEW t \in T
  PROVE  /\ Append(s, t) \in Seq(T)
         /\ ToSet(Append(s, t)) = {t} \cup ToSet(s)
         /\ NoRepeats(s) /\ t \notin ToSet(s) => NoRepeats(Append(s, t))
<1> DEFINE u == <<t>>
<1>1. u \in Seq(T) /\ ToSet(u) = {t} /\ NoRepeats(u)
  BY Single
<1>2. Append(s, t) = s \o u
  OBVIOUS
<1> HIDE DEF u
<1>3. /\ s \o u \in Seq(T)
      /\ ToSet(s \o u) = ToSet(s) \cup ToSet(u)
      /\ NoRepeats(s) /\ NoRepeats(u) /\ ToSet(s) \cap ToSet(u) = {}
            => NoRepeats(s \o u)
  BY <1>1, Join
<1>4. QED
  BY <1>1, <1>2, <1>3, Zenon

(* Inserting after the head.                                               *)
LEMMA PushSecond ==
  ASSUME NEW T, NEW s \in Seq(T), s # <<>>, NEW t \in T
  PROVE  LET u == <<Head(s), t>> \o Tail(s) IN
         /\ u \in Seq(T)
         /\ u # <<>> /\ Head(u) = Head(s)
         /\ ToSet(u) = {t} \cup ToSet(s)
         /\ ToSet(Tail(u)) = {t} \cup ToSet(Tail(s))
         /\ NoRepeats(s) /\ t \notin ToSet(s) => NoRepeats(u)
<1> DEFINE h == Head(s)
           r == Tail(s)
           v == <<t>> \o r
           u == <<h, t>> \o r
<1>1. /\ h \in T /\ r \in Seq(T)
      /\ ToSet(s) = {h} \cup ToSet(r)
      /\ NoRepeats(s) => NoRepeats(r) /\ h \notin ToSet(r)
  BY HeadTail
<1> HIDE DEF h, r
<1>2. u = <<h>> \o v
  BY <1>1
<1>3. /\ v \in Seq(T)
      /\ ToSet(v) = {t} \cup ToSet(r)
      /\ NoRepeats(r) /\ t \notin ToSet(r) => NoRepeats(v)
  BY <1>1, Push
<1> HIDE DEF u, v
<1>4. u # <<>> /\ Head(u) = h /\ Tail(u) = v
  BY <1>1, <1>2, <1>3
<1>5. /\ u \in Seq(T)
      /\ ToSet(u) = {h} \cup ToSet(v)
      /\ NoRepeats(v) /\ h \notin ToSet(v) => NoRepeats(u)
  BY <1>1, <1>2, <1>3, Push
<1>6. /\ ToSet(u) = {t} \cup ToSet(s)
      /\ NoRepeats(s) /\ t \notin ToSet(s) => NoRepeats(u)
  BY <1>1, <1>3, <1>5
<1>7. QED
  BY <1>3, <1>4, <1>5, <1>6 DEF h, r, u

(* Removing one element keeps the others, in their order.                  *)
LEMMA RemoveOne ==
  ASSUME NEW T, NEW s \in Seq(T), NoRepeats(s), NEW p \in 1 .. Len(s)
  PROVE  /\ RemoveAt(s, p) \in Seq(T)
         /\ ToSet(RemoveAt(s, p)) = ToSet(s) \ {s[p]}
         /\ NoRepeats(RemoveAt(s, p))
         /\ Len(RemoveAt(s, p)) = Len(s) - 1
         /\ \A i \in 1 .. Len(s) - 1 :
              RemoveAt(s, p)[i] = IF i < p THEN s[i] ELSE s[i + 1]
<1> DEFINE u == RemoveAt(s, p)
<1>1. /\ u \in Seq(T)
      /\ Len(s) \in Nat /\ Len(u) = Len(s) - 1
      /\ \A i \in 1 .. Len(s) - 1 : u[i] = IF i < p THEN s[i] ELSE s[i + 1]
  <2> DEFINE a == SubSeq(s, 1, p - 1)
             b == SubSeq(s, p + 1, Len(s))
  <2>1. Len(s) \in Nat /\ p \in Nat /\ p > 0 /\ p <= Len(s)
    OBVIOUS
  <2>2. /\ a \in Seq(T) /\ Len(a) = p - 1
        /\ \A i \in 1 .. p - 1 : a[i] = s[i]
    BY <2>1
  <2>3. /\ b \in Seq(T) /\ Len(b) = Len(s) - p
        /\ \A i \in 1 .. Len(s) - p : b[i] = s[i + p]
    BY <2>1
  <2>4. u = a \o b
    BY DEF RemoveAt
  <2> HIDE DEF a, b, u
  <2>5. /\ u \in Seq(T) /\ Len(u) = Len(s) - 1
        /\ \A i \in 1 .. Len(s) - 1 :
             u[i] = IF i <= p - 1 THEN a[i] ELSE b[i - (p - 1)]
    <3>1. /\ u \in Seq(T) /\ Len(u) = Len(a) + Len(b)
          /\ \A i \in 1 .. Len(a) + Len(b) :
               u[i] = IF i <= Len(a) THEN a[i] ELSE b[i - Len(a)]
      BY <2>2, <2>3, <2>4, JoinAt
    <3>2. Len(a) = p - 1 /\ Len(a) + Len(b) = Len(s) - 1
      BY <2>1, <2>2, <2>3
    <3>3. QED
      BY <3>1, <3>2, Zenon
  <2>6. ASSUME NEW i \in 1 .. Len(s) - 1
        PROVE  u[i] = IF i < p THEN s[i] ELSE s[i + 1]
    <3>1. CASE i < p
      BY <2>1, <2>2, <2>5, <3>1
    <3>2. CASE i >= p
      <4>1. i - (p - 1) \in 1 .. Len(s) - p /\ u[i] = b[i - (p - 1)]
        BY <2>1, <2>5, <3>2
      <4>2. u[i] = s[(i - (p - 1)) + p]
        BY <2>3, <4>1
      <4>3. (i - (p - 1)) + p = i + 1
        BY <2>1
      <4>4. QED
        BY <2>1, <3>2, <4>2, <4>3
    <3>3. QED
      BY <2>1, <3>1, <3>2
  <2>7. QED
    BY <2>1, <2>5, <2>6
<1>2. \A x : x \in ToSet(s) <=> \E i \in 1 .. Len(s) : x = s[i]
  BY Elements
<1>3. \A x : x \in ToSet(u) <=> \E i \in 1 .. Len(u) : x = u[i]
  BY <1>1, Elements
<1> HIDE DEF u
<1>4. ASSUME NEW x, x \in ToSet(u)
      PROVE  x \in ToSet(s) /\ x # s[p]
  <2>1. PICK i \in 1 .. Len(u) : x = u[i]
    BY <1>3, <1>4
  <2>2. CASE i < p
    <3>1. i \in 1 .. Len(s) /\ x = s[i] /\ i # p
      BY <1>1, <2>1, <2>2
    <3>2. QED
      BY <1>2, <3>1 DEF NoRepeats
  <2>3. CASE i >= p
    <3>1. i + 1 \in 1 .. Len(s) /\ x = s[i + 1] /\ i + 1 # p
      BY <1>1, <2>1, <2>3
    <3>2. QED
      BY <1>2, <3>1 DEF NoRepeats
  <2>4. QED
    BY <1>1, <2>2, <2>3
<1>5. ASSUME NEW x, x \in ToSet(s), x # s[p]
      PROVE  x \in ToSet(u)
  <2>1. PICK i \in 1 .. Len(s) : x = s[i]
    BY <1>2, <1>5
  <2>2. CASE i < p
    <3>1. i \in 1 .. Len(u) /\ x = u[i]
      BY <1>1, <2>1, <2>2
    <3>2. QED
      BY <1>3, <3>1
  <2>3. CASE i > p
    <3>1. i - 1 \in 1 .. Len(u) /\ x = u[i - 1]
      BY <1>1, <2>1, <2>3
    <3>2. QED
      BY <1>3, <3>1
  <2>4. QED
    BY <1>1, <1>5, <2>1, <2>2, <2>3
<1>6. NoRepeats(u)
  <2> DEFINE old(i) == IF i < p THEN i ELSE i + 1
  <2>1. \A i \in 1 .. Len(u) : old(i) \in 1 .. Len(s) /\ u[i] = s[old(i)]
    BY <1>1
  <2>2. \A i, j \in 1 .. Len(u) : old(i) = old(j) => i = j
    BY <1>1
  <2> HIDE DEF old
  <2>3. QED
    BY <2>1, <2>2 DEF NoRepeats
<1>7. QED
  BY <1>1, <1>4, <1>5, <1>6 DEF u

(* Unlinking removes the element and nothing else.                         *)
LEMMA UnlinkOne ==
  ASSUME NEW T, NEW s \in Seq(T), NoRepeats(s), NEW t
  PROVE  /\ Unlink(s, t) \in Seq(T)
         /\ ToSet(Unlink(s, t)) = ToSet(s) \ {t}
         /\ NoRepeats(Unlink(s, t))
<1>1. CASE t \in ToSet(s)
  <2> DEFINE p == CHOOSE i \in 1 .. Len(s) : s[i] = t
  <2>1. p \in 1 .. Len(s) /\ s[p] = t
    BY <1>1, Elements
  <2>2. Unlink(s, t) = RemoveAt(s, p)
    BY <1>1 DEF Unlink
  <2> HIDE DEF p
  <2>3. QED
    BY <2>1, <2>2, RemoveOne
<1>2. CASE t \notin ToSet(s)
  BY <1>2 DEF Unlink
<1>3. QED
  BY <1>1, <1>2

(* Inserting at a position.                                                *)
LEMMA InsertOne ==
  ASSUME NEW T, NEW s \in Seq(T), NEW t \in T, NEW p \in 1 .. Len(s) + 1
  PROVE  /\ InsertAt(s, p, t) \in Seq(T)
         /\ ToSet(InsertAt(s, p, t)) = {t} \cup ToSet(s)
         /\ NoRepeats(s) /\ t \notin ToSet(s) => NoRepeats(InsertAt(s, p, t))
         /\ Len(InsertAt(s, p, t)) = Len(s) + 1
         /\ \A i \in 1 .. Len(s) + 1 :
              InsertAt(s, p, t)[i] = IF i < p THEN s[i]
                                     ELSE IF i = p THEN t ELSE s[i - 1]
<1> DEFINE u == InsertAt(s, p, t)
<1>1. /\ u \in Seq(T)
      /\ Len(s) \in Nat /\ Len(u) = Len(s) + 1
      /\ \A i \in 1 .. Len(s) + 1 :
           u[i] = IF i < p THEN s[i] ELSE IF i = p THEN t ELSE s[i - 1]
  <2> DEFINE a == SubSeq(s, 1, p - 1)
             b == SubSeq(s, p, Len(s))
             c == a \o <<t>>
  <2>1. Len(s) \in Nat /\ p \in Nat /\ p > 0 /\ p <= Len(s) + 1
    OBVIOUS
  <2>2. /\ a \in Seq(T) /\ Len(a) = p - 1
        /\ \A i \in 1 .. p - 1 : a[i] = s[i]
    BY <2>1
  <2>3. /\ b \in Seq(T) /\ Len(b) = Len(s) - p + 1
        /\ \A i \in 1 .. Len(s) - p + 1 : b[i] = s[i + (p - 1)]
    BY <2>1
  <2>4. u = c \o b
    BY DEF InsertAt
  <2> HIDE DEF a, b, u
  <2>5. /\ c \in Seq(T) /\ Len(c) = p
        /\ \A i \in 1 .. p - 1 : c[i] = a[i]
        /\ c[p] = t
    BY <2>1, <2>2
  <2> HIDE DEF c
  <2>6. /\ u \in Seq(T) /\ Len(u) = Len(s) + 1
        /\ \A i \in 1 .. Len(s) + 1 : u[i] = IF i <= p THEN c[i] ELSE b[i - p]
    <3>1. /\ u \in Seq(T) /\ Len(u) = Len(c) + Len(b)
          /\ \A i \in 1 .. Len(c) + Len(b) :
               u[i] = IF i <= Len(c) THEN c[i] ELSE b[i - Len(c)]
      BY <2>3, <2>4, <2>5, JoinAt
    <3>2. Len(c) = p /\ Len(c) + Len(b) = Len(s) + 1
      BY <2>1, <2>3, <2>5
    <3>3. QED
      BY <3>1, <3>2, Zenon
  <2>7. ASSUME NEW i \in 1 .. Len(s) + 1
        PROVE  u[i] = IF i < p THEN s[i] ELSE IF i = p THEN t ELSE s[i - 1]
    <3>1. CASE i < p
      <4>1. i \in 1 .. p - 1 /\ u[i] = c[i]
        BY <2>1, <2>6, <3>1
      <4>2. QED
        BY <2>2, <2>5, <3>1, <4>1
    <3>2. CASE i = p
      BY <2>1, <2>5, <2>6, <3>2
    <3>3. CASE i > p
      <4>1. i - p \in 1 .. Len(s) - p + 1 /\ u[i] = b[i - p]
        BY <2>1, <2>6, <3>3
      <4>2. u[i] = s[(i - p) + (p - 1)]
        BY <2>3, <4>1
      <4>3. (i - p) + (p - 1) = i - 1
        BY <2>1
      <4>4. QED
        BY <2>1, <3>3, <4>2, <4>3
    <3>4. QED
      BY <2>1, <3>1, <3>2, <3>3
  <2>8. QED
    BY <2>1, <2>6, <2>7
<1>2. \A x : x \in ToSet(s) <=> \E i \in 1 .. Len(s) : x = s[i]
  BY Elements
<1>3. \A x : x \in ToSet(u) <=> \E i \in 1 .. Len(u) : x = u[i]
  BY <1>1, Elements
<1> HIDE DEF u
<1>4. ASSUME NEW x, x \in ToSet(u)
      PROVE  x = t \/ x \in ToSet(s)
  <2>1. PICK i \in 1 .. Len(u) : x = u[i]
    BY <1>3, <1>4
  <2>2. CASE i < p
    BY <1>1, <1>2, <2>1, <2>2
  <2>3. CASE i = p
    BY <1>1, <2>1, <2>3
  <2>4. CASE i > p
    <3>1. i - 1 \in 1 .. Len(s) /\ x = s[i - 1]
      BY <1>1, <2>1, <2>4
    <3>2. QED
      BY <1>2, <3>1
  <2>5. QED
    BY <1>1, <2>2, <2>3, <2>4
<1>5. t \in ToSet(u)
  BY <1>1, <1>3
<1>6. ASSUME NEW x, x \in ToSet(s)
      PROVE  x \in ToSet(u)
  <2>1. PICK i \in 1 .. Len(s) : x = s[i]
    BY <1>2, <1>6
  <2>2. CASE i < p
    BY <1>1, <1>3, <2>1, <2>2
  <2>3. CASE i >= p
    <3>1. i + 1 \in 1 .. Len(u) /\ x = u[i + 1]
      BY <1>1, <2>1, <2>3
    <3>2. QED
      BY <1>3, <3>1
  <2>4. QED
    BY <1>1, <2>2, <2>3
<1>7. ASSUME NoRepeats(s), t \notin ToSet(s)
      PROVE  NoRepeats(u)
  <2> DEFINE old(i) == IF i < p THEN i ELSE i - 1
  <2>1. \A i \in 1 .. Len(u) :
          i # p => old(i) \in 1 .. Len(s) /\ u[i] = s[old(i)] /\ u[i] # t
    BY <1>1, <1>2, <1>7
  <2>2. \A i, j \in 1 .. Len(u) : i # p /\ j # p /\ old(i) = old(j) => i = j
    BY <1>1
  <2>3. u[p] = t
    BY <1>1
  <2> HIDE DEF old
  <2>4. QED
    BY <1>7, <2>1, <2>2, <2>3 DEF NoRepeats
<1>8. QED
  BY <1>1, <1>4, <1>5, <1>6, <1>7 DEF u

-----------------------------------------------------------------------------
(* The scheduler.                                                          *)

USE BigAssumption, SleepsAssumption, NumbersAssumption, NullAssumption

(* The main program entering the loop keeps the invariant.                 *)
LEMMA StartStep ==
  ASSUME IInv, Start
  PROVE  IInv'
<1> USE DEF Start, lists, clock, loop, Active
<1>1. TypeOK'
  BY DEF IInv, TypeOK, Phases, Thread, PassShape, Numbered
<1>2. OnOneList'
  BY DEF IInv, OnOneList, PassShape, TypeOK
<1>3. PassShape'
  BY DEF IInv, PassShape
<1>4. TimeoutListed'
  BY DEF IInv, TimeoutListed, PassShape, TypeOK
<1>5. AllListed'
  BY DEF IInv, AllListed
<1>6. BlockedWaits'
  BY DEF IInv, BlockedWaits
<1>7. Turns'
  BY DEF IInv, Turns, PassShape, TypeOK
<1>8. QED
  BY <1>1, <1>2, <1>3, <1>4, <1>5, <1>6, <1>7 DEF IInv

(* So does the first half of main_iter, which changes no list.             *)
LEMMA MainIterStep ==
  ASSUME IInv, MainIter
  PROVE  IInv'
<1> USE DEF MainIter, lists, clock, loop, Active
<1>1. TypeOK'
  <2>1. wait' \in 0 .. Big
    <3>1. minTimeout \in 0 .. Big
      BY DEF IInv, TypeOK
    <3>2. CASE Registered = {}
      BY <3>2
    <3>3. CASE Registered # {}
      BY <3>1, <3>3 DEF SelectTimeout
    <3>4. QED
      BY <3>2, <3>3
  <2>2. QED
    BY <2>1 DEF IInv, TypeOK, Phases
<1>2. OnOneList'
  BY DEF IInv, OnOneList, PassShape, TypeOK
<1>3. PassShape'
  BY DEF IInv, PassShape
<1>4. TimeoutListed'
  BY DEF IInv, TimeoutListed, PassShape, TypeOK
<1>5. AllListed'
  BY DEF IInv, AllListed
<1>6. BlockedWaits'
  BY DEF IInv, BlockedWaits
<1>7. Turns'
  BY DEF IInv, Turns, PassShape, TypeOK
<1>8. QED
  BY <1>1, <1>2, <1>3, <1>4, <1>5, <1>6, <1>7 DEF IInv

(* Moving the runnable list to the empty dispatching list keeps the        *)
(* invariant.                                                              *)
LEMMA SelectReturnStep ==
  ASSUME IInv, SelectReturn
  PROVE  IInv'
<1> USE DEF SelectReturn, lists, clock, loop, Active
<1>1. TypeOK'
  BY DEF IInv, TypeOK, Phases, Thread, PassShape, Numbered
<1>2. OnOneList'
  BY DEF IInv, OnOneList, PassShape, TypeOK
<1>3. PassShape'
  BY DEF IInv, PassShape
<1>4. TimeoutListed'
  BY DEF IInv, TimeoutListed, PassShape, TypeOK
<1>5. AllListed'
  BY DEF IInv, AllListed
<1>6. BlockedWaits'
  BY DEF IInv, BlockedWaits
<1>7. Turns'
  BY DEF IInv, Turns, PassShape, TypeOK
<1>8. QED
  BY <1>1, <1>2, <1>3, <1>4, <1>5, <1>6, <1>7 DEF IInv

(* The end of the timeout loop keeps the invariant.                        *)
LEMMA TimeoutsDoneStep ==
  ASSUME IInv, TimeoutsDone
  PROVE  IInv'
<1> USE DEF TimeoutsDone, lists, clock, loop, Active
<1>1. TypeOK'
  BY DEF IInv, TypeOK, Phases, Thread, PassShape, Numbered
<1>2. OnOneList'
  BY DEF IInv, OnOneList, PassShape, TypeOK
<1>3. PassShape'
  BY DEF IInv, PassShape
<1>4. TimeoutListed'
  BY DEF IInv, TimeoutListed, PassShape, TypeOK
<1>5. AllListed'
  BY DEF IInv, AllListed
<1>6. BlockedWaits'
  BY DEF IInv, BlockedWaits
<1>7. Turns'
  BY DEF IInv, Turns, PassShape, TypeOK
<1>8. QED
  BY <1>1, <1>2, <1>3, <1>4, <1>5, <1>6, <1>7 DEF IInv

(* The end of the event loop keeps the invariant.                          *)
LEMMA EventsDoneStep ==
  ASSUME IInv, EventsDone
  PROVE  IInv'
<1> USE DEF EventsDone, lists, clock, loop, Active
<1>1. TypeOK'
  BY DEF IInv, TypeOK, Phases, Thread, PassShape, Numbered
<1>2. OnOneList'
  BY DEF IInv, OnOneList, PassShape, TypeOK
<1>3. PassShape'
  BY DEF IInv, PassShape
<1>4. TimeoutListed'
  BY DEF IInv, TimeoutListed, PassShape, TypeOK
<1>5. AllListed'
  BY DEF IInv, AllListed
<1>6. BlockedWaits'
  BY DEF IInv, BlockedWaits
<1>7. Turns'
  BY DEF IInv, Turns, PassShape, TypeOK
<1>8. QED
  BY <1>1, <1>2, <1>3, <1>4, <1>5, <1>6, <1>7 DEF IInv

(* Joining the rest of the pass and the runnable list keeps it.            *)
LEMMA DispatchEndStep ==
  ASSUME IInv, DispatchEnd
  PROVE  IInv'
<1> USE DEF DispatchEnd, lists, clock, loop, Active
<1>0. /\ runnable' \in Seq(Threads)
      /\ ToSet(runnable') = ToSet(dispatched) \cup ToSet(runnable)
      /\ NoRepeats(runnable')
  BY Join DEF IInv, TypeOK, OnOneList
<1>1. TypeOK'
  BY <1>0 DEF IInv, TypeOK, Phases, Thread, PassShape, Numbered
<1>2. OnOneList'
  <2>1. ToSet(<<>>) = {} /\ NoRepeats(<<>>)
    BY DEF ToSet, NoRepeats
  <2>2. QED
    BY <1>0, <2>1 DEF IInv, OnOneList
<1>3. PassShape'
  BY DEF IInv, PassShape
<1>4. TimeoutListed'
  BY DEF IInv, TimeoutListed, PassShape, TypeOK
<1>5. AllListed'
  BY DEF IInv, AllListed
<1>6. BlockedWaits'
  BY DEF IInv, BlockedWaits
<1>7. Turns'
  BY DEF IInv, Turns, PassShape, TypeOK
<1>8. QED
  BY <1>1, <1>2, <1>3, <1>4, <1>5, <1>6, <1>7 DEF IInv

(* The end of a broadcast keeps the invariant.                             *)
LEMMA BroadcastEndStep ==
  ASSUME IInv, BroadcastEnd
  PROVE  IInv'
<1> USE DEF BroadcastEnd, lists, clock, loop, Active
<1>1. TypeOK'
  BY DEF IInv, TypeOK, Phases, Thread, PassShape, Numbered
<1>2. OnOneList'
  BY DEF IInv, OnOneList, PassShape, TypeOK
<1>3. PassShape'
  BY DEF IInv, PassShape
<1>4. TimeoutListed'
  BY DEF IInv, TimeoutListed, PassShape, TypeOK
<1>5. AllListed'
  BY DEF IInv, AllListed
<1>6. BlockedWaits'
  BY DEF IInv, BlockedWaits
<1>7. Turns'
  BY DEF IInv, Turns, PassShape, TypeOK
<1>8. QED
  BY <1>1, <1>2, <1>3, <1>4, <1>5, <1>6, <1>7 DEF IInv

(* Time passing only lowers due times.                                     *)
LEMMA TickStep ==
  ASSUME IInv, Tick
  PROVE  IInv'
<1> USE DEF Tick, lists, clock, loop, Active
<1>0. /\ thread' \in [Threads -> Thread]
      /\ \A t \in Threads :
           /\ thread'[t].state = thread[t].state
           /\ thread'[t].cond = thread[t].cond
           /\ thread'[t].events = thread[t].events
           /\ thread'[t].sleep = thread[t].sleep
           /\ thread'[t].number = thread[t].number
  <2>1. thread \in [Threads -> Thread]
    BY DEF IInv, TypeOK
  <2>2. \A t \in Threads : thread'[t] = [thread[t] EXCEPT !.due = Less(@)]
    OBVIOUS
  <2>3. \A n \in 0 .. Big : Less(n) \in 0 .. Big
    BY DEF Less
  <2>4. \A t \in Threads : thread'[t] \in Thread
    BY <2>1, <2>2, <2>3 DEF Thread
  <2>5. QED
    BY <2>1, <2>2, <2>4 DEF Thread
<1>1. TypeOK'
  <2>1. Less(minTimeout) \in 0 .. Big /\ Less(wait) \in 0 .. Big
    BY DEF IInv, TypeOK, Less
  <2>2. QED
    BY <1>0, <2>1 DEF IInv, TypeOK
<1>2. OnOneList'
  BY <1>0 DEF IInv, OnOneList
<1>3. PassShape'
  BY DEF IInv, PassShape
<1>4. TimeoutListed'
  BY <1>0 DEF IInv, TimeoutListed, PassShape, TypeOK
<1>5. AllListed'
  BY <1>0 DEF IInv, AllListed
<1>6. BlockedWaits'
  BY <1>0 DEF IInv, BlockedWaits
<1>7. Turns'
  BY <1>0 DEF IInv, Turns, TypeOK
<1>8. QED
  BY <1>1, <1>2, <1>3, <1>4, <1>5, <1>6, <1>7 DEF IInv

(* A descriptor becoming ready touches no thread.                          *)
LEMMA FdReadyStep ==
  ASSUME IInv, NEW f \in Fds, FdReady(f)
  PROVE  IInv'
<1> USE DEF FdReady, lists, clock, loop, Active
<1>1. TypeOK'
  BY DEF IInv, TypeOK, Phases, Thread, PassShape, Numbered
<1>2. OnOneList'
  BY DEF IInv, OnOneList, PassShape, TypeOK
<1>3. PassShape'
  BY DEF IInv, PassShape
<1>4. TimeoutListed'
  BY DEF IInv, TimeoutListed, PassShape, TypeOK
<1>5. AllListed'
  BY DEF IInv, AllListed
<1>6. BlockedWaits'
  BY DEF IInv, BlockedWaits
<1>7. Turns'
  BY DEF IInv, Turns, PassShape, TypeOK
<1>8. QED
  BY <1>1, <1>2, <1>3, <1>4, <1>5, <1>6, <1>7 DEF IInv

(* A descriptor being drained touches no thread.                           *)
LEMMA FdDrainStep ==
  ASSUME IInv, NEW f \in Fds, FdDrain(f)
  PROVE  IInv'
<1> USE DEF FdDrain, lists, clock, loop, Active
<1>1. TypeOK'
  BY DEF IInv, TypeOK, Phases, Thread, PassShape, Numbered
<1>2. OnOneList'
  BY DEF IInv, OnOneList, PassShape, TypeOK
<1>3. PassShape'
  BY DEF IInv, PassShape
<1>4. TimeoutListed'
  BY DEF IInv, TimeoutListed, PassShape, TypeOK
<1>5. AllListed'
  BY DEF IInv, AllListed
<1>6. BlockedWaits'
  BY DEF IInv, BlockedWaits
<1>7. Turns'
  BY DEF IInv, Turns, PassShape, TypeOK
<1>8. QED
  BY <1>1, <1>2, <1>3, <1>4, <1>5, <1>6, <1>7 DEF IInv

(* Making a thread runnable puts it on one list, and among the threads that *)
(* still have a turn only if its number says it has had none.              *)
LEMMA MakeRunnableLists ==
  ASSUME IInv, phase \in {"setup", "run"}, NEW t \in Threads,
         thread[t].state # "RUNNABLE", NEW number, MakeRunnable(t, number)
  PROVE  /\ runnable' \in Seq(Threads) /\ NoRepeats(runnable')
         /\ dispatching' \in Seq(Threads) /\ NoRepeats(dispatching')
         /\ dispatched' = dispatched
         /\ ToSet(runnable') \cap ToSet(dispatched') = {}
         /\ ToSet(runnable') \cap ToSet(dispatching') = {}
         /\ ToSet(dispatched') \cap ToSet(dispatching') = {}
         /\ ToSet(runnable') \cup ToSet(dispatched') \cup ToSet(dispatching')
              = {u \in Threads : thread[u].state = "RUNNABLE"} \cup {t}
         /\ phase = "setup" => dispatching' = dispatching
         /\ phase = "run" =>
              /\ dispatching' # <<>> /\ Head(dispatching') = Head(dispatching)
              /\ \A u \in ToSet(Tail(dispatching')) :
                   \/ u \in ToSet(Tail(dispatching))
                   \/ u = t /\ number # dispatchNumber
<1>1. t \notin ToSet(runnable) /\ t \notin ToSet(dispatched)
      /\ t \notin ToSet(dispatching)
  BY DEF IInv, OnOneList
<1>2. Active # NoThread => phase = "run" /\ Active = Head(dispatching)
                           /\ dispatching # <<>>
  BY DEF Active, IInv, PassShape
<1>3. CASE Active # NoThread /\ number # dispatchNumber
  <2>1. /\ dispatching' \in Seq(Threads) /\ NoRepeats(dispatching')
        /\ dispatching' # <<>> /\ Head(dispatching') = Head(dispatching)
        /\ ToSet(dispatching') = {t} \cup ToSet(dispatching)
        /\ ToSet(Tail(dispatching')) = {t} \cup ToSet(Tail(dispatching))
    <3>1. dispatching' = <<Head(dispatching), t>> \o Tail(dispatching)
      BY <1>2, <1>3 DEF MakeRunnable
    <3>2. dispatching \in Seq(Threads) /\ dispatching # <<>>
          /\ NoRepeats(dispatching)
      BY <1>2, <1>3 DEF IInv, TypeOK, OnOneList
    <3>3. QED
      BY <1>1, <3>1, <3>2, PushSecond
  <2>2. runnable' = runnable /\ dispatched' = dispatched
    BY <1>3 DEF MakeRunnable
  <2>3. QED
    BY <1>1, <1>2, <1>3, <2>1, <2>2 DEF IInv, TypeOK, OnOneList
<1>4. CASE ~ (Active # NoThread /\ number # dispatchNumber)
  <2>1. runnable' = <<t>> \o runnable /\ dispatched' = dispatched
        /\ dispatching' = dispatching
    BY <1>4 DEF MakeRunnable
  <2>2. /\ runnable' \in Seq(Threads) /\ NoRepeats(runnable')
        /\ ToSet(runnable') = {t} \cup ToSet(runnable)
    BY <1>1, <2>1, Push DEF IInv, TypeOK, OnOneList
  <2>3. QED
    BY <1>1, <2>1, <2>2 DEF IInv, TypeOK, OnOneList, PassShape
<1>5. QED
  BY <1>3, <1>4

(* tme_sjlj_thread_create keeps the invariant.                             *)
LEMMA ThreadCreateStep ==
  ASSUME IInv, NEW t \in Threads, ThreadCreate(t)
  PROVE  IInv'
<1> USE DEF ThreadCreate, Calling, lists, clock, loop, Active
<1> DEFINE number == Before(dispatchNumber)
<1>a. number \in Numbered /\ number # dispatchNumber
  BY DEF IInv, TypeOK, Numbered, Before
<1>b. /\ thread[t].state = "NEW" /\ MakeRunnable(t, number)
      /\ phase \in {"setup", "run"} /\ all' = <<t>> \o all
      /\ UNCHANGED <<timeouts, dispatchNumber, clock, phase, loop, broadcasting,
                     ready, ran>>
      /\ thread' = [thread EXCEPT ![t].state = "RUNNABLE", ![t].number = number]
  OBVIOUS
<1> HIDE DEF number, ThreadCreate
<1>c. /\ thread' \in [Threads -> Thread]
      /\ thread'[t].state = "RUNNABLE" /\ thread'[t].number = number
      /\ \A u \in Threads :
           /\ u # t => thread'[u] = thread[u]
           /\ thread'[u].sleep = thread[u].sleep
           /\ thread'[u].cond = thread[u].cond
           /\ thread'[u].events = thread[u].events
  <2> DEFINE r == [thread[t] EXCEPT !.state = "RUNNABLE", !.number = number]
  <2>1. thread \in [Threads -> Thread] /\ thread[t] \in Thread
    BY DEF IInv, TypeOK
  <2>2. thread' = [thread EXCEPT ![t] = r]
    BY <1>b, <2>1
  <2>3. /\ r \in Thread /\ r.state = "RUNNABLE" /\ r.number = number
        /\ r.sleep = thread[t].sleep /\ r.cond = thread[t].cond
        /\ r.events = thread[t].events
    BY <1>a, <2>1 DEF Thread
  <2> HIDE DEF r, ThreadCreate
  <2>4. QED
    BY <2>1, <2>2, <2>3
<1>d. t \notin ToSet(all) /\ t \notin ran
  BY <1>b DEF IInv, AllListed, Turns
<1>e. all' \in Seq(Threads) /\ NoRepeats(all')
      /\ ToSet(all') = {t} \cup ToSet(all)
  BY <1>b, <1>d, Push DEF IInv, TypeOK, AllListed
<1>1. TypeOK'
  BY <1>b, <1>c, <1>e, MakeRunnableLists DEF IInv, TypeOK
<1>2. OnOneList'
  BY <1>b, <1>c, MakeRunnableLists DEF IInv, OnOneList
<1>3. PassShape'
  BY <1>b, MakeRunnableLists DEF IInv, PassShape
<1>4. TimeoutListed'
  BY <1>b, <1>c, MakeRunnableLists DEF IInv, TimeoutListed
<1>5. AllListed'
  BY <1>b, <1>c, <1>e DEF IInv, AllListed
<1>6. BlockedWaits'
  BY <1>c DEF IInv, BlockedWaits
<1>7. Turns'
  <2>1. \A u \in ran : u # t /\ thread'[u] = thread[u]
    BY <1>c, <1>d DEF IInv, TypeOK
  <2>2. CASE phase = "setup"
    BY <1>b, <2>1, <2>2 DEF IInv, Turns
  <2>3. CASE phase = "run"
    <3>1. /\ Head(dispatching') = Head(dispatching)
          /\ \A u \in ToSet(Tail(dispatching')) :
               u \in ToSet(Tail(dispatching)) \/ u = t
      BY <1>b, <2>3, MakeRunnableLists
    <3>2. QED
      BY <1>b, <1>d, <2>1, <2>3, <3>1 DEF IInv, Turns
  <2>4. QED
    BY <1>b, <2>2, <2>3
<1>8. QED
  BY <1>1, <1>2, <1>3, <1>4, <1>5, <1>6, <1>7 DEF IInv

(* One turn of the loop of tme_sjlj_cond_notify keeps the invariant.       *)
LEMMA NotifyStep ==
  ASSUME IInv, phase = "run", NEW c \in Conds, NEW t \in Threads, Notify(c, t),
         broadcasting' \in Conds \cup {NoCond}
  PROVE  IInv'
<1> USE DEF Notify, lists, clock, loop, Active
<1> DEFINE number == thread[t].number
<1>b. /\ thread[t].state = "BLOCKED" /\ MakeRunnable(t, number)
      /\ thread' = [thread EXCEPT ![t].state = "RUNNABLE"]
  BY DEF Notified, Waiting
<1>c. /\ thread' \in [Threads -> Thread]
      /\ thread'[t].state = "RUNNABLE"
      /\ \A u \in Threads :
           /\ u # t => thread'[u] = thread[u]
           /\ thread'[u].number = thread[u].number
           /\ thread'[u].sleep = thread[u].sleep
           /\ thread'[u].cond = thread[u].cond
           /\ thread'[u].events = thread[u].events
  <2> DEFINE r == [thread[t] EXCEPT !.state = "RUNNABLE"]
  <2>1. thread \in [Threads -> Thread] /\ thread[t] \in Thread
    BY DEF IInv, TypeOK
  <2>2. thread' = [thread EXCEPT ![t] = r]
    BY <1>b, <2>1
  <2>3. /\ r \in Thread /\ r.state = "RUNNABLE"
        /\ r.number = thread[t].number
        /\ r.sleep = thread[t].sleep /\ r.cond = thread[t].cond
        /\ r.events = thread[t].events
    BY <2>1 DEF Thread
  <2> HIDE DEF r, Notify
  <2>4. QED
    BY <2>1, <2>2, <2>3
<1>d. t \in ran => number = dispatchNumber
  BY DEF IInv, Turns
<1>e. phase' = phase /\ broadcasting' \in Conds \cup {NoCond}
      /\ UNCHANGED <<all, timeouts, dispatchNumber, clock, loop, ready, ran>>
  OBVIOUS
<1> HIDE DEF number, Notify
<1>1. TypeOK'
  BY <1>b, <1>c, <1>e, MakeRunnableLists DEF IInv, TypeOK
<1>2. OnOneList'
  BY <1>b, <1>c, <1>e, MakeRunnableLists DEF IInv, OnOneList
<1>3. PassShape'
  BY <1>b, <1>e, MakeRunnableLists DEF IInv, PassShape
<1>4. TimeoutListed'
  BY <1>b, <1>c, <1>e, MakeRunnableLists DEF IInv, TimeoutListed
<1>5. AllListed'
  BY <1>b, <1>c, <1>e DEF IInv, AllListed
<1>6. BlockedWaits'
  BY <1>c DEF IInv, BlockedWaits
<1>7. Turns'
  <2>1. /\ Head(dispatching') = Head(dispatching)
        /\ \A u \in ToSet(Tail(dispatching')) :
             \/ u \in ToSet(Tail(dispatching))
             \/ u = t /\ number # dispatchNumber
    BY <1>b, MakeRunnableLists
  <2>2. /\ Head(dispatching) \in ran /\ ToSet(Tail(dispatching)) \cap ran = {}
        /\ ran \subseteq Threads
        /\ \A u \in ran : thread[u].number = dispatchNumber
                          /\ thread[u].state # "NEW"
    BY DEF IInv, Turns, TypeOK
  <2>3. ToSet(Tail(dispatching')) \cap ran = {}
    BY <1>d, <2>1, <2>2
  <2>4. \A u \in ran : thread'[u].number = dispatchNumber
                      /\ thread'[u].state # "NEW"
    BY <1>c, <2>2
  <2>5. phase' = "run" /\ ran' = ran /\ dispatchNumber' = dispatchNumber
    BY <1>e
  <2>6. QED
    BY <2>1, <2>2, <2>3, <2>4, <2>5 DEF Turns
<1>8. QED
  BY <1>1, <1>2, <1>3, <1>4, <1>5, <1>6, <1>7 DEF IInv

(* Moving a thread to the head of the dispatching list before a pass.      *)
LEMMA MakeDispatchingLists ==
  ASSUME IInv, phase \in {"timeouts", "events"}, NEW t \in Threads,
         MakeDispatching(t)
  PROVE  /\ dispatching' \in Seq(Threads) /\ NoRepeats(dispatching')
         /\ runnable' = runnable /\ dispatched' = dispatched
         /\ ToSet(runnable') = {} /\ ToSet(dispatched') = {}
         /\ ToSet(dispatching') =
              {u \in Threads : thread[u].state = "RUNNABLE"} \cup {t}
         /\ thread' \in [Threads -> Thread]
         /\ thread'[t].state = "RUNNABLE"
         /\ \A u \in Threads :
              /\ u # t => thread'[u] = thread[u]
              /\ thread'[u].sleep = thread[u].sleep
              /\ thread'[u].events = thread[u].events
              /\ thread'[u].cond = thread[u].cond
              /\ thread'[u].number = thread[u].number
<1>1. runnable = <<>> /\ dispatched = <<>>
      /\ runnable' = runnable /\ dispatched' = dispatched
  BY DEF IInv, PassShape, MakeDispatching
<1>2. ToSet(<<>>) = {}
  BY DEF ToSet
<1>3. ToSet(dispatching) = {u \in Threads : thread[u].state = "RUNNABLE"}
  BY <1>1, <1>2 DEF IInv, OnOneList
<1>4. /\ Unlink(dispatching, t) \in Seq(Threads)
      /\ ToSet(Unlink(dispatching, t)) = ToSet(dispatching) \ {t}
      /\ NoRepeats(Unlink(dispatching, t))
  BY UnlinkOne DEF IInv, TypeOK, OnOneList
<1>5. /\ dispatching' \in Seq(Threads) /\ NoRepeats(dispatching')
      /\ ToSet(dispatching') = {t} \cup ToSet(Unlink(dispatching, t))
  BY <1>4, Push DEF MakeDispatching
<1>6. /\ thread' \in [Threads -> Thread]
      /\ thread'[t].state = "RUNNABLE"
      /\ \A u \in Threads :
           /\ u # t => thread'[u] = thread[u]
           /\ thread'[u].sleep = thread[u].sleep
           /\ thread'[u].events = thread[u].events
           /\ thread'[u].cond = thread[u].cond
           /\ thread'[u].number = thread[u].number
  <2> DEFINE r == [thread[t] EXCEPT !.state = "RUNNABLE"]
  <2>1. thread \in [Threads -> Thread] /\ thread[t] \in Thread
    BY DEF IInv, TypeOK
  <2>2. thread' = [thread EXCEPT ![t] = r]
    BY <2>1 DEF MakeDispatching
  <2>3. /\ r \in Thread /\ r.state = "RUNNABLE"
        /\ r.number = thread[t].number
        /\ r.sleep = thread[t].sleep /\ r.cond = thread[t].cond
        /\ r.events = thread[t].events
    BY <2>1 DEF Thread
  <2> HIDE DEF r
  <2>4. QED
    BY <2>1, <2>2, <2>3
<1>7. QED
  BY <1>1, <1>2, <1>3, <1>4, <1>5, <1>6

(* A thread whose event fired joins the pass, once.                        *)
LEMMA DispatchingEventStep ==
  ASSUME IInv, NEW f \in Fds, DispatchingEvent(f)
  PROVE  IInv'
<1> USE DEF DispatchingEvent, lists, clock, loop, Active
<1>0. PICK t \in Threads : thread[t].events = f /\ MakeDispatching(t)
  OBVIOUS
<1>a. MakeDispatching(t) /\ phase = "events"
      /\ thread[t].state \in {"BLOCKED", "RUNNABLE"}
  BY <1>0 DEF IInv, TypeOK, Thread, AllListed
<1>1. TypeOK'
  BY <1>a, MakeDispatchingLists DEF IInv, TypeOK, Phases
<1>2. OnOneList'
  BY <1>a, MakeDispatchingLists DEF IInv, OnOneList
<1>3. PassShape'
  BY <1>a, MakeDispatchingLists DEF IInv, PassShape
<1>4. TimeoutListed'
  BY <1>a, MakeDispatchingLists DEF IInv, TimeoutListed
<1>5. AllListed'
  BY <1>a, MakeDispatchingLists DEF IInv, AllListed
<1>6. BlockedWaits'
  BY <1>a, MakeDispatchingLists DEF IInv, BlockedWaits
<1>7. Turns'
  BY <1>a, MakeDispatchingLists DEF IInv, Turns, TypeOK
<1>8. QED
  BY <1>1, <1>2, <1>3, <1>4, <1>5, <1>6, <1>7 DEF IInv

(* A thread that timed out joins the pass, once, and stays on the timeout  *)
(* list.                                                                   *)
LEMMA DispatchingTimeoutStep ==
  ASSUME IInv, DispatchingTimeout
  PROVE  IInv'
<1> USE DEF DispatchingTimeout, lists, clock, loop, Active
<1> DEFINE t == timeouts[scan]
           Expired == thread[t].due = 0
<1>0. /\ t \in Threads /\ thread[t].due \in 0 .. Big
      /\ thread[t].state \in {"BLOCKED", "RUNNABLE"}
  <2>1. t \in Threads /\ scan \in 1 .. Len(timeouts)
    <3>1. scan \in Nat /\ scan >= 1
      BY DEF IInv, TypeOK
    <3>2. QED
      BY <3>1 DEF IInv, TypeOK
  <2>2. t \in ToSet(timeouts)
    BY <2>1, Elements DEF IInv, TypeOK
  <2>3. QED
    BY <2>1, <2>2 DEF IInv, TypeOK, Thread, TimeoutListed, AllListed
<1>a. Expired => MakeDispatching(t) /\ UNCHANGED minTimeout
  OBVIOUS
<1>b. ~ Expired => /\ UNCHANGED <<lists, thread>>
                   /\ minTimeout' \in {minTimeout, thread[t].due}
  OBVIOUS
<1>c. /\ phase = "timeouts" /\ phase' = phase /\ scan' = scan + 1
      /\ UNCHANGED <<all, timeouts, dispatchNumber, wait, fired,
                     broadcasting, ready, ran>>
  OBVIOUS
<1> HIDE DEF DispatchingTimeout, t
<1>1. TypeOK'
  <2>1. CASE Expired
    BY <1>0, <1>a, <1>c, <2>1, MakeDispatchingLists DEF IInv, TypeOK, Phases
  <2>2. CASE ~ Expired
    BY <1>0, <1>b, <1>c, <2>2 DEF IInv, TypeOK, Phases
  <2>3. QED
    BY <2>1, <2>2
<1>2. OnOneList'
  <2>1. CASE Expired
    BY <1>0, <1>a, <1>c, <2>1, MakeDispatchingLists DEF IInv, OnOneList
  <2>2. CASE ~ Expired
    BY <1>0, <1>b, <1>c, <2>2 DEF IInv, OnOneList
  <2>3. QED
    BY <2>1, <2>2
<1>3. PassShape'
  <2>1. CASE Expired
    BY <1>0, <1>a, <1>c, <2>1, MakeDispatchingLists DEF IInv, PassShape
  <2>2. CASE ~ Expired
    BY <1>0, <1>b, <1>c, <2>2 DEF IInv, PassShape
  <2>3. QED
    BY <2>1, <2>2
<1>4. TimeoutListed'
  <2>1. CASE Expired
    BY <1>0, <1>a, <1>c, <2>1, MakeDispatchingLists DEF IInv, TimeoutListed
  <2>2. CASE ~ Expired
    BY <1>0, <1>b, <1>c, <2>2 DEF IInv, TimeoutListed
  <2>3. QED
    BY <2>1, <2>2
<1>5. AllListed'
  <2>1. CASE Expired
    BY <1>0, <1>a, <1>c, <2>1, MakeDispatchingLists DEF IInv, AllListed
  <2>2. CASE ~ Expired
    BY <1>0, <1>b, <1>c, <2>2 DEF IInv, AllListed
  <2>3. QED
    BY <2>1, <2>2
<1>6. BlockedWaits'
  <2>1. CASE Expired
    BY <1>0, <1>a, <1>c, <2>1, MakeDispatchingLists DEF IInv, BlockedWaits
  <2>2. CASE ~ Expired
    BY <1>0, <1>b, <1>c, <2>2 DEF IInv, BlockedWaits
  <2>3. QED
    BY <2>1, <2>2
<1>7. Turns'
  <2>1. CASE Expired
    BY <1>0, <1>a, <1>c, <2>1, MakeDispatchingLists DEF IInv, Turns, TypeOK
  <2>2. CASE ~ Expired
    BY <1>0, <1>b, <1>c, <2>2 DEF IInv, Turns, TypeOK
  <2>3. QED
    BY <2>1, <2>2
<1>8. QED
  BY <1>1, <1>2, <1>3, <1>4, <1>5, <1>6, <1>7 DEF IInv

(* A thread that gets its turn leaves the timeout list and takes the       *)
(* number of the pass.                                                     *)
LEMMA DispatchStep ==
  ASSUME IInv, Dispatch
  PROVE  IInv'
<1> USE DEF Dispatch, lists, clock, loop, Active
<1> DEFINE t == Head(dispatching)
<1>a. /\ t \in Threads /\ t \in ToSet(dispatching)
      /\ Tail(dispatching) \in Seq(Threads)
      /\ ToSet(Tail(dispatching)) = ToSet(dispatching) \ {t}
      /\ thread[t].state = "RUNNABLE"
  BY HeadTail DEF IInv, TypeOK, OnOneList
<1>b. /\ timeouts' \in Seq(Threads) /\ NoRepeats(timeouts')
      /\ ToSet(timeouts') = ToSet(timeouts) \ {t}
  BY UnlinkOne DEF IInv, TypeOK, TimeoutListed
<1>c. /\ thread' \in [Threads -> Thread]
      /\ thread'[t].number = dispatchNumber
      /\ \A u \in Threads :
           /\ u # t => thread'[u] = thread[u]
           /\ thread'[u].state = thread[u].state
           /\ thread'[u].cond = thread[u].cond
           /\ thread'[u].events = thread[u].events
           /\ thread'[u].sleep = thread[u].sleep
  <2> DEFINE r == [thread[t] EXCEPT !.number = dispatchNumber, !.due = 0]
  <2>1. thread \in [Threads -> Thread] /\ thread[t] \in Thread
        /\ dispatchNumber \in Numbered /\ 0 \in 0 .. Big
    BY <1>a DEF IInv, TypeOK
  <2>2. thread' = [thread EXCEPT ![t] = r]
    BY <2>1
  <2>3. /\ r \in Thread /\ r.state = thread[t].state
        /\ r.number = dispatchNumber
        /\ r.sleep = thread[t].sleep /\ r.cond = thread[t].cond
        /\ r.events = thread[t].events
    BY <2>1 DEF Thread
  <2> HIDE DEF r, t, Dispatch
  <2>4. QED
    BY <1>a, <2>1, <2>2, <2>3
<1> HIDE DEF t
<1>d. /\ phase = "dispatch" /\ phase' = "run" /\ ran' = ran \cup {t}
      /\ t = Head(dispatching) /\ dispatching # <<>>
      /\ UNCHANGED <<all, lists, dispatchNumber, clock, loop, broadcasting,
                     ready>>
  BY DEF t
<1> HIDE DEF Dispatch
<1>1. TypeOK'
  BY <1>a, <1>b, <1>c, <1>d DEF IInv, TypeOK, Phases
<1>2. OnOneList'
  BY <1>c, <1>d DEF IInv, OnOneList
<1>3. PassShape'
  BY <1>d DEF IInv, PassShape
<1>4. TimeoutListed'
  BY <1>b, <1>c, <1>d DEF IInv, TimeoutListed
<1>5. AllListed'
  BY <1>c, <1>d DEF IInv, AllListed
<1>6. BlockedWaits'
  BY <1>c, <1>d DEF IInv, BlockedWaits
<1>7. Turns'
  BY <1>a, <1>c, <1>d DEF IInv, Turns, TypeOK
<1>8. QED
  BY <1>1, <1>2, <1>3, <1>4, <1>5, <1>6, <1>7 DEF IInv

(* tme_sjlj_yield keeps the invariant if whoever waits for a descriptor    *)
(* also sleeps.                                                            *)
LEMMA YieldStep ==
  ASSUME IInv, NEW c \in Conds \cup {NoCond}, NEW f \in Fds \cup {NoFd},
         NEW s \in 0 .. Big, f # NoFd => s # 0, Yield(c, f, s)
  PROVE  IInv'
<1> USE DEF Yield, Yielding, lists, clock, loop, Active
<1> DEFINE t == Active
           blocked == c # NoCond \/ f # NoFd \/ s # 0
<1>a. /\ t \in Threads /\ dispatching # <<>>
      /\ Tail(dispatching) \in Seq(Threads)
      /\ NoRepeats(Tail(dispatching))
      /\ ToSet(Tail(dispatching)) = ToSet(dispatching) \ {t}
      /\ t \in ToSet(dispatching)
      /\ thread[t].state = "RUNNABLE"
      /\ t = Head(dispatching) /\ t # NoThread
  BY HeadTail DEF IInv, TypeOK, OnOneList, PassShape
<1>b. /\ thread' \in [Threads -> Thread]
      /\ \A u \in Threads : u # t => thread'[u] = thread[u]
      /\ thread'[t].state = IF blocked THEN "BLOCKED" ELSE "RUNNABLE"
      /\ thread'[t].cond = c /\ thread'[t].events = f
      /\ thread'[t].sleep = (s # 0)
      /\ thread'[t].number = thread[t].number
  <2> DEFINE r == Yielded(thread[t], c, f, s)
  <2>1. thread' = [thread EXCEPT ![t] = r]
    OBVIOUS
  <2>2. thread \in [Threads -> Thread]
    BY DEF IInv, TypeOK
  <2>3. thread[t] \in Thread
    BY <1>a, <2>2
  <2> HIDE DEF t, Yield
  <2>4. /\ r \in Thread
        /\ r.state = IF blocked THEN "BLOCKED" ELSE "RUNNABLE"
        /\ r.cond = c /\ r.events = f /\ r.sleep = (s # 0)
        /\ r.number = thread[t].number
    BY <2>3 DEF Thread, Yielded, Blocks
  <2> HIDE DEF r
  <2>5. QED
    BY <1>a, <2>1, <2>2, <2>4
<1>c. blocked = (c # NoCond \/ f # NoFd \/ s # 0)
  OBVIOUS
<1>d. /\ phase = "run" /\ phase' = "dispatch"
      /\ dispatching' = Tail(dispatching)
      /\ UNCHANGED <<all, runnable, dispatchNumber, clock, loop, broadcasting,
                     ready, ran>>
      /\ dispatched' \in Seq(Threads) /\ NoRepeats(dispatched')
      /\ ToSet(dispatched') = ToSet(dispatched) \cup (IF blocked THEN {} ELSE {t})
  <2>1. t \notin ToSet(dispatched)
    BY <1>a DEF IInv, OnOneList
  <2>2. dispatched' = IF blocked THEN dispatched ELSE Append(dispatched, t)
    BY DEF Blocks
  <2>3. dispatched \in Seq(Threads) /\ NoRepeats(dispatched)
    BY DEF IInv, TypeOK, OnOneList
  <2> HIDE DEF blocked, t
  <2>4. QED
    BY <1>a, <2>1, <2>2, <2>3, PushLast
<1>e. /\ timeouts' \in Seq(Threads) /\ NoRepeats(timeouts')
      /\ ToSet(timeouts') = ToSet(timeouts) \cup (IF s # 0 THEN {t} ELSE {})
  <2>1. timeouts \in Seq(Threads) /\ NoRepeats(timeouts) /\ t \notin ToSet(timeouts)
    BY DEF IInv, TypeOK, TimeoutListed
  <2>2. CASE s # 0
    <3>1. PICK p \in 1 .. Len(timeouts) + 1 : timeouts' = InsertAt(timeouts, p, t)
      BY <2>2
    <3> HIDE DEF t
    <3>2. QED
      BY <1>a, <2>1, <2>2, <3>1, InsertOne
  <2>3. CASE s = 0
    BY <2>1, <2>3
  <2>4. QED
    BY <2>2, <2>3
<1> HIDE DEF t, blocked, Yield
<1>1. TypeOK'
  BY <1>a, <1>b, <1>c, <1>d, <1>e DEF IInv, TypeOK, Phases
<1>2. OnOneList'
  BY <1>a, <1>b, <1>c, <1>d DEF IInv, OnOneList
<1>3. PassShape'
  BY <1>d DEF IInv, PassShape
<1>4. TimeoutListed'
  <2>1. Active' = NoThread
    BY <1>d DEF Active
  <2>2. ToSet(timeouts) = {u \in Threads \ {t} : thread[u].sleep}
    BY DEF IInv, TimeoutListed, t
  <2>3. {u \in Threads : thread'[u].sleep /\ u # NoThread}
          = {u \in Threads \ {t} : thread[u].sleep} \cup (IF s # 0 THEN {t} ELSE {})
    BY <1>a, <1>b
  <2>4. QED
    BY <1>e, <2>1, <2>2, <2>3 DEF TimeoutListed
<1>5. AllListed'
  BY <1>a, <1>b, <1>c, <1>d DEF IInv, AllListed
<1>6. BlockedWaits'
  <2>1. \A u \in Threads \ {t} : u \in Threads /\ thread'[u] = thread[u]
    BY <1>b
  <2>2. thread'[t].state = "BLOCKED" => c # NoCond \/ s # 0
    BY <1>b, <1>c
  <2>3. QED
    BY <1>b, <2>1, <2>2 DEF IInv, BlockedWaits
<1>7. Turns'
  BY <1>a, <1>b, <1>c, <1>d DEF IInv, Turns, TypeOK
<1>8. QED
  BY <1>1, <1>2, <1>3, <1>4, <1>5, <1>6, <1>7 DEF IInv

(* A thread that exits leaves every list.                                  *)
LEMMA ExitStep ==
  ASSUME IInv, Exit
  PROVE  IInv'
<1> USE DEF Exit, Yielding, lists, clock, loop, Active
<1> DEFINE t == Active
<1>a. /\ t \in Threads /\ dispatching # <<>>
      /\ Tail(dispatching) \in Seq(Threads)
      /\ NoRepeats(Tail(dispatching))
      /\ ToSet(Tail(dispatching)) = ToSet(dispatching) \ {t}
      /\ t \in ToSet(dispatching)
      /\ thread[t].state = "RUNNABLE"
      /\ t = Head(dispatching) /\ t # NoThread
  BY HeadTail DEF IInv, TypeOK, OnOneList, PassShape
<1>b. /\ thread' \in [Threads -> Thread]
      /\ \A u \in Threads : u # t => thread'[u] = thread[u]
      /\ thread'[t].state = "EXITED"
      /\ thread'[t].events = NoFd
      /\ thread'[t].sleep = FALSE
      /\ thread'[t].number = thread[t].number
  <2>1. thread' = [thread EXCEPT ![t] = [@ EXCEPT !.state  = "EXITED",
                                                  !.cond   = NoCond,
                                                  !.events = NoFd,
                                                  !.sleep  = FALSE]]
    OBVIOUS
  <2>2. thread \in [Threads -> Thread]
    BY DEF IInv, TypeOK
  <2> HIDE DEF t, Exit
  <2> DEFINE r == [thread[t] EXCEPT !.state  = "EXITED",
                                    !.cond   = NoCond,
                                    !.events = NoFd,
                                    !.sleep  = FALSE]
  <2>3. thread[t] \in Thread
    BY <1>a, <2>2
  <2>4. thread' = [thread EXCEPT ![t] = r]
    BY <1>a, <2>1, <2>2
  <2>5. /\ r \in Thread /\ r.state = "EXITED" /\ r.events = NoFd
        /\ r.sleep = FALSE /\ r.number = thread[t].number
    BY <2>3 DEF Thread
  <2> HIDE DEF r
  <2>6. QED
    BY <1>a, <2>2, <2>4, <2>5
<1>c. all' \in Seq(Threads) /\ NoRepeats(all') /\ ToSet(all') = ToSet(all) \ {t}
  BY UnlinkOne DEF IInv, TypeOK, AllListed
<1>d. /\ phase = "run" /\ phase' = "dispatch"
      /\ dispatching' = Tail(dispatching)
      /\ UNCHANGED <<timeouts, runnable, dispatched, dispatchNumber, clock, loop,
                     broadcasting, ready, ran>>
  OBVIOUS
<1>e. t \notin ToSet(timeouts)
  BY DEF IInv, TimeoutListed
<1> HIDE DEF t, Exit
<1>1. TypeOK'
  BY <1>a, <1>b, <1>c, <1>d, <1>e DEF IInv, TypeOK, Phases
<1>2. OnOneList'
  BY <1>a, <1>b, <1>c, <1>d DEF IInv, OnOneList
<1>3. PassShape'
  BY <1>d DEF IInv, PassShape
<1>4. TimeoutListed'
  BY <1>a, <1>b, <1>c, <1>d, <1>e DEF IInv, TimeoutListed
<1>5. AllListed'
  BY <1>a, <1>b, <1>c, <1>d DEF IInv, AllListed
<1>6. BlockedWaits'
  BY <1>b, <1>c DEF IInv, BlockedWaits
<1>7. Turns'
  BY <1>a, <1>b, <1>c, <1>d DEF IInv, Turns, TypeOK
<1>8. QED
  BY <1>1, <1>2, <1>3, <1>4, <1>5, <1>6, <1>7 DEF IInv

(* The invariant holds when the program starts.                            *)
LEMMA InitIInv == Init => IInv
<1> SUFFICES ASSUME Init PROVE IInv
  OBVIOUS
<1> USE DEF Init
<1>1. ToSet(<<>>) = {} /\ NoRepeats(<<>>)
  BY DEF ToSet, NoRepeats
<1>2. TypeOK
  BY DEF TypeOK, Thread, Phases, Numbered
<1>3. OnOneList /\ TimeoutListed
  BY <1>1 DEF OnOneList, TimeoutListed
<1>4. AllListed /\ BlockedWaits
  BY <1>1 DEF AllListed, BlockedWaits
<1>5. PassShape /\ Turns
  BY DEF PassShape, Turns
<1>6. QED
  BY <1>2, <1>3, <1>4, <1>5 DEF IInv

(* The invariant is inductive.                                             *)
LEMMA NextIInv == IInv /\ [Next]_vars => IInv'
<1> SUFFICES ASSUME IInv, [Next]_vars PROVE IInv'
  OBVIOUS
<1>1. CASE Scheduler
  BY <1>1, StartStep, MainIterStep, SelectReturnStep, DispatchingTimeoutStep,
     TimeoutsDoneStep, DispatchingEventStep, EventsDoneStep, DispatchStep,
     DispatchEndStep DEF Scheduler
<1>2. CASE Calls
  <2>1. ASSUME NEW t \in Threads, ThreadCreate(t) PROVE IInv'
    BY <2>1, ThreadCreateStep
  <2>2. ASSUME NEW c \in Conds, NEW b \in BOOLEAN, CondNotify(c, b)
        PROVE  IInv'
    BY <2>2, NotifyStep DEF CondNotify
  <2>3. CASE BroadcastNext
    BY <2>3, NotifyStep DEF BroadcastNext, IInv, TypeOK
  <2>4. CASE BroadcastEnd
    BY <2>4, BroadcastEndStep
  <2>5. QED
    BY <1>2, <2>1, <2>2, <2>3, <2>4 DEF Calls
<1>3. CASE LeaveProcessor
  <2>1. ASSUME NEW c \in Conds \cup {NoCond}, NEW f \in Fds \cup {NoFd},
               NEW s \in 0 .. Big, f # NoFd => s # 0, Yield(c, f, s)
        PROVE  IInv'
    BY <2>1, YieldStep
  <2>2. /\ Sleeps \subseteq 0 .. Big /\ Big \in 0 .. Big /\ 0 \in 0 .. Big
        /\ \A s \in Sleeps \cup {Big} : s # 0
    OBVIOUS
  <2>3. CASE PlainYield \/ \E c \in Conds : CondWaitYield(c)
    BY <2>1, <2>2, <2>3 DEF PlainYield, CondWaitYield
  <2>4. CASE (\E c \in Conds, s \in Sleeps : CondSleepYield(c, s))
               \/ \E s \in Sleeps : SleepYield(s)
    BY <2>1, <2>2, <2>4 DEF CondSleepYield, SleepYield
  <2>5. CASE \E f \in Fds, s \in Sleeps \cup {Big} : EventWait(f, s)
    BY <2>1, <2>2, <2>5 DEF EventWait
  <2>6. CASE Exit
    BY <2>6, ExitStep
  <2>7. QED
    BY <1>3, <2>3, <2>4, <2>5, <2>6 DEF LeaveProcessor
<1>4. CASE Host
  BY <1>4, TickStep, FdReadyStep, FdDrainStep DEF Host
<1>5. CASE UNCHANGED vars
  BY <1>5 DEF vars, lists, clock, loop, IInv, TypeOK, OnOneList, PassShape,
     TimeoutListed, AllListed, BlockedWaits, Turns, Active
<1>6. QED
  BY <1>1, <1>2, <1>3, <1>4, <1>5 DEF Next

(* The inductive invariant holds in every reachable state.                 *)
THEOREM Invariance == Spec => []IInv
<1>1. Init => IInv
  BY InitIInv
<1>2. IInv /\ [Next]_vars => IInv'
  BY NextIInv
<1>3. QED
  BY <1>1, <1>2, PTL DEF Spec

(* Type correctness of threads-sjlj.c's lists and fields.                  *)
THEOREM TypeCorrect == Spec => []TypeOK
<1>1. IInv => TypeOK
  BY DEF IInv
<1>2. QED
  BY <1>1, Invariance, PTL

(* A thread that can run is on exactly one list, once, and a blocked one   *)
(* on none, however _tme_sjlj_change_state moves threads about.            *)
THEOREM ListsAgree == Spec => []OnOneList
<1>1. IInv => OnOneList
  BY DEF IInv
<1>2. QED
  BY <1>1, Invariance, PTL

(* The assertions of tme_sjlj_dispatch and tme_sjlj_yield on the timeout   *)
(* list never fail.                                                        *)
THEOREM TimeoutsAgree == Spec => []TimeoutListed
<1>1. IInv => TimeoutListed
  BY DEF IInv
<1>2. QED
  BY <1>1, Invariance, PTL

(* No blocked thread is beyond the reach of both notifications and the     *)
(* timeout list.                                                           *)
THEOREM Reachability == Spec => []NobodyStranded
<1>1. IInv => NobodyStranded
  <2> SUFFICES ASSUME IInv, NEW t \in Threads, thread[t].state = "BLOCKED"
               PROVE  \/ thread[t].cond # NoCond /\ t \in ToSet(all)
                      \/ t \in ToSet(timeouts)
    BY DEF NobodyStranded
  <2>1. t \in ToSet(all)
    BY DEF IInv, AllListed
  <2>2. t # Active
    <3>1. CASE phase = "run"
      BY <3>1, HeadTail DEF Active, IInv, TypeOK, PassShape, OnOneList
    <3>2. CASE phase # "run"
      BY <3>2 DEF Active
    <3>3. QED
      BY <3>1, <3>2
  <2>3. thread[t].sleep => t \in ToSet(timeouts)
    BY <2>2 DEF IInv, TimeoutListed
  <2>4. QED
    BY <2>1, <2>3 DEF IInv, BlockedWaits
<1>2. QED
  BY <1>1, Invariance, PTL

(* No thread is dispatched twice in a pass, whatever the modulus of the    *)
(* dispatch numbers.                                                       *)
THEOREM OneTurnPerPass == Spec => []DispatchOnce
<1>1. IInv => DispatchOnce
  BY DEF IInv, Turns, DispatchOnce
<1>2. QED
  BY <1>1, Invariance, PTL

----------------------------------------------------------------------------
(* The order of the timeout list.                                          *)

(* A step that leaves the list and the due times alone leaves it sorted.   *)
LEMMA SortedFrame ==
  ASSUME IInv, TimeoutsSorted, UNCHANGED timeouts,
         \A t \in Threads : thread'[t].due = thread[t].due
  PROVE  TimeoutsSorted'
<1>1. timeouts \in Seq(Threads)
  BY DEF IInv, TypeOK
<1>2. \A i \in DOMAIN timeouts : timeouts[i] \in Threads
  BY <1>1
<1>3. QED
  BY <1>2 DEF TimeoutsSorted

(* Time passes for all sleepers alike, and those that are due stay due.    *)
LEMMA SortedTick ==
  ASSUME IInv, TimeoutsSorted, Tick
  PROVE  TimeoutsSorted'
<1>1. /\ timeouts \in Seq(Threads) /\ timeouts' = timeouts
      /\ thread \in [Threads -> Thread]
  BY DEF IInv, TypeOK, Tick
<1>2. \A i \in DOMAIN timeouts :
        /\ thread[timeouts[i]].due \in 0 .. Big
        /\ thread'[timeouts[i]].due = Less(thread[timeouts[i]].due)
  BY <1>1 DEF Tick, Thread
<1>3. \A m, n \in 0 .. Big : m <= n => Less(m) <= Less(n)
  BY DEF Less
<1>4. QED
  BY <1>1, <1>2, <1>3 DEF TimeoutsSorted

(* Unlinking one thread leaves the others in order.                        *)
LEMMA SortedDispatch ==
  ASSUME IInv, TimeoutsSorted, Dispatch
  PROVE  TimeoutsSorted'
<1> DEFINE t == Head(dispatching)
<1>1. /\ timeouts \in Seq(Threads) /\ NoRepeats(timeouts)
      /\ thread \in [Threads -> Thread]
      /\ timeouts' = Unlink(timeouts, t)
      /\ thread' = [thread EXCEPT ![t].number = dispatchNumber, ![t].due = 0]
  BY DEF IInv, TypeOK, TimeoutListed, Dispatch
<1> HIDE DEF t
<1>2. \A u \in Threads \ {t} : thread'[u].due = thread[u].due
  BY <1>1
<1>3. CASE t \in ToSet(timeouts)
  <2> DEFINE p == CHOOSE i \in 1 .. Len(timeouts) : timeouts[i] = t
             old(i) == IF i < p THEN i ELSE i + 1
  <2>1. p \in 1 .. Len(timeouts) /\ timeouts[p] = t
    BY <1>1, <1>3, Elements
  <2>2. timeouts' = RemoveAt(timeouts, p)
    BY <1>1, <1>3 DEF Unlink
  <2> HIDE DEF p
  <2>3. /\ timeouts' \in Seq(Threads) /\ Len(timeouts') = Len(timeouts) - 1
        /\ \A i \in 1 .. Len(timeouts) - 1 :
             timeouts'[i] = IF i < p THEN timeouts[i] ELSE timeouts[i + 1]
    BY <1>1, <2>1, <2>2, RemoveOne
  <2>4. \A i \in 1 .. Len(timeouts') :
          old(i) \in 1 .. Len(timeouts) /\ old(i) # p
            /\ timeouts'[i] = timeouts[old(i)]
    BY <1>1, <2>1, <2>3
  <2>5. \A i, j \in 1 .. Len(timeouts') : i < j => old(i) < old(j)
    BY <1>1, <2>1, <2>3
  <2> HIDE DEF old
  <2>6. \A i \in 1 .. Len(timeouts') :
          thread'[timeouts'[i]].due = thread[timeouts[old(i)]].due
    <3>1. \A i \in 1 .. Len(timeouts') : timeouts[old(i)] \in Threads \ {t}
      BY <1>1, <2>1, <2>4 DEF NoRepeats
    <3>2. QED
      BY <1>2, <2>4, <3>1
  <2>7. DOMAIN timeouts' = 1 .. Len(timeouts') /\ DOMAIN timeouts = 1 .. Len(timeouts)
    BY <1>1, <2>3
  <2>8. QED
    BY <2>4, <2>5, <2>6, <2>7 DEF TimeoutsSorted
<1>4. CASE t \notin ToSet(timeouts)
  <2>1. timeouts' = timeouts
    BY <1>1, <1>4 DEF Unlink
  <2>2. \A i \in DOMAIN timeouts : timeouts[i] \in Threads \ {t}
    BY <1>1, <1>4, Elements
  <2>3. QED
    BY <1>2, <2>1, <2>2 DEF TimeoutsSorted
<1>5. QED
  BY <1>3, <1>4

(* TimeoutPlace is where the order of the list asks the new sleeper to be. *)
LEMMA SortedYield ==
  ASSUME IInv, TimeoutsSorted, NEW c, NEW f, NEW s \in 0 .. Big, Yield(c, f, s)
  PROVE  TimeoutsSorted'
<1> DEFINE t == Active
<1>1. /\ timeouts \in Seq(Threads)
      /\ thread \in [Threads -> Thread]
      /\ t \in Threads /\ t \notin ToSet(timeouts)
      /\ thread' = [thread EXCEPT ![t] = Yielded(@, c, f, s)]
  BY HeadTail DEF IInv, TypeOK, TimeoutListed, PassShape, OnOneList, Yield,
                  Yielding, Active
<1>2. s # 0 => \E p \in 1 .. Len(timeouts) + 1 :
                 TimeoutPlace(s, p) /\ timeouts' = InsertAt(timeouts, p, t)
  BY DEF Yield
<1>3. s = 0 => timeouts' = timeouts
  BY DEF Yield
<1> HIDE DEF t
<1>4. /\ \A u \in Threads \ {t} : thread'[u].due = thread[u].due
      /\ thread'[t].due = s
  BY <1>1 DEF Yielded, Thread
<1>5. \A i \in 1 .. Len(timeouts) : /\ timeouts[i] \in Threads \ {t}
                                    /\ thread[timeouts[i]].due \in 0 .. Big
  BY <1>1, Elements DEF Thread
<1>6. CASE s = 0
  <2>1. DOMAIN timeouts = 1 .. Len(timeouts)
    BY <1>1
  <2>2. QED
    BY <1>3, <1>4, <1>5, <1>6, <2>1 DEF TimeoutsSorted
<1>7. CASE s # 0
  <2>1. PICK p \in 1 .. Len(timeouts) + 1 :
          TimeoutPlace(s, p) /\ timeouts' = InsertAt(timeouts, p, t)
    BY <1>2, <1>7
  <2>2. /\ timeouts' \in Seq(Threads) /\ Len(timeouts') = Len(timeouts) + 1
        /\ \A i \in 1 .. Len(timeouts) + 1 :
             timeouts'[i] = IF i < p THEN timeouts[i]
                            ELSE IF i = p THEN t ELSE timeouts[i - 1]
    <3> DEFINE u == InsertAt(timeouts, p, t)
    <3>1. /\ u \in Seq(Threads) /\ Len(u) = Len(timeouts) + 1
          /\ \A i \in 1 .. Len(timeouts) + 1 :
               u[i] = IF i < p THEN timeouts[i]
                      ELSE IF i = p THEN t ELSE timeouts[i - 1]
      <4>1. timeouts \in Seq(Threads)
        BY <1>1
      <4>2. t \in Threads
        BY <1>1
      <4>3. p \in 1 .. Len(timeouts) + 1
        OBVIOUS
      <4>4. QED
        BY ONLY <4>1, <4>2, <4>3, InsertOne
    <3>2. timeouts' = u
      BY <2>1
    <3> HIDE DEF u
    <3>3. QED
      BY <3>1, <3>2
  <2> DEFINE due(i) == thread[timeouts[i]].due
  <2>3. \A i \in 1 .. Len(timeouts') :
          thread'[timeouts'[i]].due = IF i < p THEN due(i)
                                      ELSE IF i = p THEN s ELSE due(i - 1)
    <3> SUFFICES ASSUME NEW i \in 1 .. Len(timeouts')
                 PROVE  thread'[timeouts'[i]].due = IF i < p THEN due(i)
                                      ELSE IF i = p THEN s ELSE due(i - 1)
      OBVIOUS
    <3>1. CASE i < p
      BY <1>1, <1>4, <1>5, <2>2, <3>1
    <3>2. CASE i = p
      BY <1>1, <1>4, <2>2, <3>2
    <3>3. CASE i > p
      <4>1. i - 1 \in 1 .. Len(timeouts) /\ timeouts'[i] = timeouts[i - 1]
        BY <1>1, <2>1, <2>2, <3>3
      <4>2. QED
        BY <1>4, <1>5, <3>3, <4>1
    <3>4. QED
      BY <1>1, <2>1, <3>1, <3>2, <3>3
  <2>4. \A i, j \in 1 .. Len(timeouts) : i < j => due(i) <= due(j)
    <3>1. DOMAIN timeouts = 1 .. Len(timeouts)
      BY <1>1
    <3>2. QED
      BY <3>1 DEF TimeoutsSorted
  <2>5. \A i \in 1 .. Len(timeouts) : due(i) \in Int
    BY <1>5
  <2>6. \A i \in 1 .. Len(timeouts) : i < p => due(i) <= s
    BY <1>1, <2>1 DEF TimeoutPlace
  <2>7. \A i \in 1 .. Len(timeouts) : i >= p => s <= due(i)
    <3> SUFFICES ASSUME NEW i \in 1 .. Len(timeouts), i >= p
                 PROVE  s <= due(i)
      OBVIOUS
    <3>1. p \in 1 .. Len(timeouts) /\ due(p) > s
      BY <1>1, <2>1 DEF TimeoutPlace
    <3>2. due(p) <= due(i)
      BY <1>1, <2>4, <2>5, <3>1
    <3>3. QED
      BY <2>5, <3>1, <3>2
  <2> HIDE DEF due
  <2>8. ASSUME NEW i \in 1 .. Len(timeouts'), NEW j \in 1 .. Len(timeouts'),
               i < j
        PROVE  thread'[timeouts'[i]].due <= thread'[timeouts'[j]].due
    <3>1. CASE j < p
      <4>1. i \in 1 .. Len(timeouts) /\ j \in 1 .. Len(timeouts) /\ i < p
        BY <1>1, <2>1, <2>2, <2>8, <3>1
      <4>2. QED
        BY <2>3, <2>4, <2>8, <3>1, <4>1
    <3>2. CASE j = p
      BY <1>1, <2>1, <2>2, <2>3, <2>6, <2>8, <3>2
    <3>3. CASE i = p
      <4>1. j - 1 \in 1 .. Len(timeouts) /\ j - 1 >= p
        BY <1>1, <2>1, <2>2, <2>8, <3>3
      <4>2. QED
        BY <1>1, <2>3, <2>7, <2>8, <3>3, <4>1
    <3>4. CASE i < p /\ j > p
      <4>1. i \in 1 .. Len(timeouts) /\ j - 1 \in 1 .. Len(timeouts) /\ i < j - 1
        BY <1>1, <2>1, <2>2, <2>8, <3>4
      <4>2. QED
        BY <1>1, <2>3, <2>4, <2>8, <3>4, <4>1
    <3>5. CASE i > p
      <4>1. i - 1 \in 1 .. Len(timeouts) /\ j - 1 \in 1 .. Len(timeouts)
            /\ i - 1 < j - 1
        BY <1>1, <2>1, <2>2, <2>8, <3>5
      <4>2. due(i - 1) <= due(j - 1)
        BY <2>4, <4>1
      <4>3. thread'[timeouts'[i]].due = due(i - 1)
            /\ thread'[timeouts'[j]].due = due(j - 1)
        BY <1>1, <2>1, <2>2, <2>3, <2>8, <3>5
      <4>4. QED
        BY <4>2, <4>3
    <3>6. QED
      BY <1>1, <2>1, <2>2, <2>8, <3>1, <3>2, <3>3, <3>4, <3>5
  <2>9. DOMAIN timeouts' = 1 .. Len(timeouts')
    BY <2>2
  <2>10. QED
    BY <2>8, <2>9 DEF TimeoutsSorted
<1>8. QED
  BY <1>6, <1>7

(* Every step leaves the timeout list sorted.                              *)
LEMMA SortedNext ==
  IInv /\ TimeoutsSorted /\ [Next]_vars => TimeoutsSorted'
<1> SUFFICES ASSUME IInv, TimeoutsSorted, [Next]_vars PROVE TimeoutsSorted'
  OBVIOUS
<1>1. thread \in [Threads -> Thread]
  BY DEF IInv, TypeOK
<1>2. CASE Dispatch
  BY <1>2, SortedDispatch
<1>3. CASE Tick
  BY <1>3, SortedTick
<1>4. ASSUME NEW c, NEW f, NEW s \in 0 .. Big, Yield(c, f, s)
      PROVE  TimeoutsSorted'
  BY <1>4, SortedYield
<1>5. CASE Start \/ MainIter \/ SelectReturn \/ TimeoutsDone \/ EventsDone
             \/ DispatchEnd \/ BroadcastEnd \/ UNCHANGED vars
  BY <1>5, SortedFrame DEF Start, MainIter, SelectReturn, TimeoutsDone,
     EventsDone, DispatchEnd, BroadcastEnd, vars
<1>6. ASSUME NEW t, MakeDispatching(t)
      PROVE  \A u \in Threads : thread'[u].due = thread[u].due
  BY <1>1, <1>6 DEF MakeDispatching, Thread
<1>7. CASE DispatchingTimeout
  BY <1>6, <1>7, SortedFrame DEF DispatchingTimeout
<1>8. ASSUME NEW f \in Fds,
             DispatchingEvent(f) \/ FdReady(f) \/ FdDrain(f)
      PROVE  TimeoutsSorted'
  BY <1>6, <1>8, SortedFrame DEF DispatchingEvent, FdReady, FdDrain
<1>9. ASSUME NEW t \in Threads, ThreadCreate(t)
      PROVE  TimeoutsSorted'
  BY <1>1, <1>9, SortedFrame DEF ThreadCreate, Thread
<1>10. ASSUME NEW c, NEW t \in Threads, Notify(c, t)
       PROVE  TimeoutsSorted'
  BY <1>1, <1>10, SortedFrame DEF Notify, Thread
<1>11. CASE Exit
  BY <1>1, <1>11, SortedFrame DEF Exit, Thread
<1>12. CASE Scheduler
  BY <1>2, <1>5, <1>7, <1>8, <1>12 DEF Scheduler
<1>13. CASE Calls
  BY <1>5, <1>9, <1>10, <1>13 DEF Calls, CondNotify, BroadcastNext
<1>14. CASE LeaveProcessor
  <2>1. Sleeps \subseteq 0 .. Big /\ Big \in 0 .. Big /\ 0 \in 0 .. Big
    OBVIOUS
  <2>2. QED
    BY <1>4, <1>11, <1>14, <2>1 DEF LeaveProcessor, PlainYield, CondWaitYield,
       CondSleepYield, SleepYield, EventWait
<1>15. CASE Host
  BY <1>3, <1>8, <1>15 DEF Host
<1>16. QED
  BY <1>5, <1>12, <1>13, <1>14, <1>15 DEF Next

(* The timeout list stays sorted: the loop of tme_sjlj_yield inserts where *)
(* the order asks for, and nothing else disturbs it.                       *)
THEOREM TimeoutsOrdered == Spec => []TimeoutsSorted
<1>1. Init => TimeoutsSorted
  BY DEF Init, TimeoutsSorted
<1>2. IInv /\ TimeoutsSorted /\ [Next]_vars => TimeoutsSorted'
  BY SortedNext
<1>3. QED
  BY <1>1, <1>2, Invariance, PTL DEF Spec

-----------------------------------------------------------------------------
(* The refinement: each action is a step of the abstract scheduler or      *)
(* changes nothing that it shows.                                          *)

(* Where a thread is decides its abstract status.                          *)
LEMMA StatusCases ==
  ASSUME IInv, NEW t \in Threads
  PROVE  /\ Active # NoThread <=> phase = "run"
         /\ phase = "run" => /\ Active = Head(dispatching)
                             /\ Active \in ToSet(dispatching)
                             /\ Active \in Threads
         /\ Status(t) = "running" <=> t = Active
         /\ Status(t) = "turn" <=> t \in ToSet(dispatching) /\ t # Active
         /\ Status(t) = "later" <=> t \in ToSet(dispatched) \cup ToSet(runnable)
         /\ Status(t) = "absent" <=> thread[t].state = "NEW"
         /\ Status(t) = "gone" <=> thread[t].state = "EXITED"
         /\ Status(t) = "blocked" <=> thread[t].state = "BLOCKED"
<1>1. /\ phase = "run" => /\ Active = Head(dispatching)
                          /\ Active \in ToSet(dispatching)
                          /\ Active \in Threads
      /\ phase # "run" => Active = NoThread
  BY HeadTail DEF IInv, TypeOK, PassShape, Active
<1>2. /\ t \in ToSet(dispatching) => /\ thread[t].state = "RUNNABLE"
                                     /\ t \notin ToSet(dispatched)
                                     /\ t \notin ToSet(runnable)
      /\ t \in ToSet(dispatched) \cup ToSet(runnable) =>
           thread[t].state = "RUNNABLE"
      /\ thread[t].state = "RUNNABLE" =>
           t \in ToSet(dispatching) \cup ToSet(dispatched) \cup ToSet(runnable)
  BY DEF IInv, OnOneList
<1>3. thread[t].state \in {"NEW", "BLOCKED", "RUNNABLE", "EXITED"}
  BY DEF IInv, TypeOK, Thread
<1>4. t # NoThread
  OBVIOUS
<1>5. CASE t = Active
  BY <1>1, <1>2, <1>4, <1>5 DEF Status
<1>6. CASE t # Active
  BY <1>1, <1>2, <1>3, <1>6 DEF Status
<1>7. QED
  BY <1>5, <1>6

(* What the abstract scheduler does not see.                               *)
LEMMA Unseen ==
  ASSUME \A t \in Threads : Status(t)' = Status(t), ran' = ran
  PROVE  UNCHANGED Abstract!vars
BY DEF Abstract!vars

(* A status that changes while the others stay.                            *)
LEMMA OneChange ==
  ASSUME NEW t \in Threads, NEW s, Status(t)' = s,
         \A u \in Threads \ {t} : Status(u)' = Status(u)
  PROVE  Abstract!Become(t, s)
BY DEF Abstract!Become

(* A created or woken thread is admitted to this pass or the next.         *)
LEMMA Admission ==
  ASSUME NEW t \in Threads,
         Status(t) \in {"absent", "blocked"},
         Status(t)' \in {"turn", "later"},
         Status(t)' = "turn" => t \notin ran,
         \A u \in Threads \ {t} : Status(u)' = Status(u),
         ran' = ran
  PROVE  Abstract!Next
<1>1. Abstract!Become(t, Status(t)')
  BY OneChange
<1>2. [u \in Threads |-> Status(u)][t] \in {"absent", "blocked"}
  OBVIOUS
<1>3. Abstract!Admit(t)
  BY <1>1, <1>2 DEF Abstract!Admit
<1>4. QED
  BY <1>3 DEF Abstract!Next

(* Lists that hold what they held, and threads in the same state, show     *)
(* nothing new.                                                            *)
LEMMA SameLists ==
  ASSUME IInv, IInv',
         Active' = Active,
         ToSet(dispatching') = ToSet(dispatching),
         ToSet(dispatched') \cup ToSet(runnable')
           = ToSet(dispatched) \cup ToSet(runnable),
         \A t \in Threads : thread'[t].state = thread[t].state,
         ran' = ran
  PROVE  UNCHANGED Abstract!vars
<1>1. ASSUME NEW t \in Threads
      PROVE  Status(t)' = Status(t)
  BY Zenon DEF Status
<1>2. QED
  BY <1>1, Unseen

(* The first half of a pass, the end of its loops and of a broadcast, and  *)
(* the host, move nobody.                                                  *)
LEMMA StillSteps ==
  ASSUME IInv, IInv',
         \/ Start \/ MainIter \/ TimeoutsDone \/ EventsDone \/ BroadcastEnd
         \/ Tick \/ (\E f \in Fds : FdReady(f) \/ FdDrain(f))
         \/ UNCHANGED vars
  PROVE  UNCHANGED Abstract!vars
<1>1. UNCHANGED <<runnable, dispatched, dispatching, ran>>
  BY DEF Start, MainIter, TimeoutsDone, EventsDone, BroadcastEnd, Tick,
         FdReady, FdDrain, vars, lists
<1>2. (phase = "run") <=> (phase' = "run")
  BY DEF Start, MainIter, TimeoutsDone, EventsDone, BroadcastEnd, Tick,
         FdReady, FdDrain, vars
<1>3. ASSUME NEW t \in Threads PROVE thread'[t].state = thread[t].state
  <2>1. thread[t] \in Thread
    BY DEF IInv, TypeOK
  <2>2. CASE Tick
    BY <2>1, <2>2 DEF Tick, Thread
  <2>3. CASE ~ Tick
    BY <2>3 DEF Start, MainIter, TimeoutsDone, EventsDone, BroadcastEnd,
                FdReady, FdDrain, vars
  <2>4. QED
    BY <2>2, <2>3
<1>4. Active' = Active
  BY <1>1, <1>2 DEF Active
<1>5. QED
  BY <1>1, <1>3, <1>4, SameLists

(* The end of a pass joins two lists of threads that wait for the next.    *)
LEMMA DispatchEndStill ==
  ASSUME IInv, IInv', DispatchEnd
  PROVE  UNCHANGED Abstract!vars
<1>1. ToSet(runnable') = ToSet(dispatched) \cup ToSet(runnable)
  BY Join DEF IInv, TypeOK, DispatchEnd
<1>2. ToSet(dispatched') = {}
  BY DEF DispatchEnd, ToSet
<1>3. Active' = Active
  BY DEF DispatchEnd, Active
<1>4. /\ dispatching' = dispatching /\ ran' = ran
      /\ \A t \in Threads : thread'[t].state = thread[t].state
  BY DEF DispatchEnd
<1>5. QED
  BY <1>1, <1>2, <1>3, <1>4, SameLists

(* MakeRunnable puts a thread among those that have a turn in this pass    *)
(* only if its number is not that of the pass, else among those that wait  *)
(* for the next.                                                           *)
LEMMA Placed ==
  ASSUME IInv, phase \in {"setup", "run"}, phase' = phase,
         NEW t \in Threads, thread[t].state # "RUNNABLE",
         NEW number, MakeRunnable(t, number)
  PROVE  /\ Active' = Active
         /\ \/ /\ ToSet(dispatching') = {t} \cup ToSet(dispatching)
               /\ ToSet(runnable') = ToSet(runnable)
               /\ number # dispatchNumber
               /\ phase = "run"
            \/ /\ ToSet(dispatching') = ToSet(dispatching)
               /\ ToSet(runnable') = {t} \cup ToSet(runnable)
         /\ dispatched' = dispatched
<1>1. CASE Active # NoThread /\ number # dispatchNumber
  <2>1. /\ phase = "run" /\ dispatching # <<>>
        /\ dispatching \in Seq(Threads)
        /\ dispatching' = <<Head(dispatching), t>> \o Tail(dispatching)
    BY <1>1 DEF Active, IInv, TypeOK, PassShape, MakeRunnable
  <2>2. /\ ToSet(dispatching') = {t} \cup ToSet(dispatching)
        /\ Head(dispatching') = Head(dispatching)
    BY <2>1, PushSecond
  <2>3. runnable' = runnable /\ dispatched' = dispatched
    BY <1>1 DEF MakeRunnable
  <2>4. QED
    BY <1>1, <2>1, <2>2, <2>3 DEF Active
<1>2. CASE ~ (Active # NoThread /\ number # dispatchNumber)
  <2>1. /\ runnable' = <<t>> \o runnable
        /\ dispatching' = dispatching /\ dispatched' = dispatched
    BY <1>2 DEF MakeRunnable
  <2>2. ToSet(runnable') = {t} \cup ToSet(runnable)
    BY <2>1, Push DEF IInv, TypeOK
  <2>3. QED
    BY <2>1, <2>2 DEF Active
<1>3. QED
  BY <1>1, <1>2

(* A thread made runnable by a call is admitted, and to this pass only if  *)
(* it has had no turn in it.                                               *)
LEMMA RunnableAdmits ==
  ASSUME IInv, IInv', phase \in {"setup", "run"}, phase' = phase,
         NEW t \in Threads, thread[t].state \in {"NEW", "BLOCKED"},
         NEW number, MakeRunnable(t, number),
         number # dispatchNumber => t \notin ran,
         \A u \in Threads \ {t} : thread'[u].state = thread[u].state,
         ran' = ran
  PROVE  Abstract!Next
<1>1. /\ Active' = Active
      /\ \/ /\ ToSet(dispatching') = {t} \cup ToSet(dispatching)
            /\ ToSet(runnable') = ToSet(runnable)
            /\ number # dispatchNumber
            /\ phase = "run"
         \/ /\ ToSet(dispatching') = ToSet(dispatching)
            /\ ToSet(runnable') = {t} \cup ToSet(runnable)
      /\ dispatched' = dispatched
  BY Placed
<1>2. Status(t) \in {"absent", "blocked"}
  BY StatusCases
<1>3. t # Active
  BY <1>2, StatusCases
<1>4. ASSUME NEW u \in Threads \ {t}
      PROVE  Status(u)' = Status(u)
  <2>1. /\ u \in ToSet(dispatching') <=> u \in ToSet(dispatching)
        /\ u \in ToSet(dispatched') \cup ToSet(runnable')
             <=> u \in ToSet(dispatched) \cup ToSet(runnable)
        /\ thread'[u].state = thread[u].state
    BY <1>1
  <2>2. QED
    BY <1>1, <2>1, Zenon DEF Status
<1>5. /\ Status(t)' \in {"turn", "later"}
      /\ Status(t)' = "turn" => t \notin ran
  <2>1. CASE t \in ToSet(dispatching')
    <3>1. t \notin ToSet(dispatching)
      BY <1>2, <1>3, StatusCases
    <3>2. number # dispatchNumber
      BY <1>1, <2>1, <3>1
    <3>3. Status(t)' = "turn"
      BY <1>1, <1>3, <2>1 DEF Status
    <3>4. QED
      BY <3>2, <3>3
  <2>2. CASE t \notin ToSet(dispatching')
    <3>1. t \in ToSet(runnable')
      BY <1>1, <2>2
    <3>2. Status(t)' = "later"
      BY <1>1, <1>3, <2>2, <3>1 DEF Status
    <3>3. QED
      BY <3>2
  <2>3. QED
    BY <2>1, <2>2
<1>6. QED
  BY <1>2, <1>4, <1>5, Admission

(* Creating a thread admits it.                                            *)
LEMMA CreateAdmits ==
  ASSUME IInv, IInv', NEW t \in Threads, ThreadCreate(t)
  PROVE  Abstract!Next
<1>1. /\ phase \in {"setup", "run"} /\ phase' = phase /\ ran' = ran
      /\ thread[t].state = "NEW"
      /\ MakeRunnable(t, Before(dispatchNumber))
      /\ \A u \in Threads \ {t} : thread'[u].state = thread[u].state
  BY DEF ThreadCreate, Calling, IInv, TypeOK
<1>2. t \notin ran
  BY <1>1 DEF IInv, Turns
<1>3. QED
  BY <1>1, <1>2, RunnableAdmits

(* Notifying a thread admits it: the number of the pass is on every thread *)
(* that has had its turn.                                                  *)
LEMMA NotifyAdmits ==
  ASSUME IInv, IInv', phase = "run", NEW c, NEW t \in Threads, Notify(c, t)
  PROVE  Abstract!Next
<1>1. /\ phase' = phase /\ ran' = ran
      /\ thread[t].state = "BLOCKED"
      /\ MakeRunnable(t, thread[t].number)
      /\ \A u \in Threads \ {t} : thread'[u].state = thread[u].state
  BY DEF Notify, Notified, Waiting, IInv, TypeOK
<1>2. thread[t].number # dispatchNumber => t \notin ran
  BY DEF IInv, Turns
<1>3. QED
  BY <1>1, <1>2, RunnableAdmits

(* A thread that a timeout or a descriptor moves to the dispatching list   *)
(* is admitted to the pass that is about to begin, unless it is on the     *)
(* list already: a notification came first.                                *)
LEMMA DispatchingAdmits ==
  ASSUME IInv, IInv', phase \in {"timeouts", "events"}, phase' = phase,
         NEW t \in Threads, thread[t].state \in {"BLOCKED", "RUNNABLE"},
         MakeDispatching(t), ran' = ran
  PROVE  Abstract!Next \/ UNCHANGED Abstract!vars
<1>1. /\ dispatching' = <<t>> \o Unlink(dispatching, t)
      /\ runnable' = runnable /\ dispatched' = dispatched
      /\ \A u \in Threads \ {t} : thread'[u].state = thread[u].state
      /\ thread'[t].state = "RUNNABLE"
  BY DEF MakeDispatching, IInv, TypeOK, Thread
<1>2. ToSet(dispatching') = {t} \cup ToSet(dispatching)
  <2>1. dispatching \in Seq(Threads) /\ NoRepeats(dispatching)
    BY DEF IInv, TypeOK, OnOneList
  <2>2. /\ Unlink(dispatching, t) \in Seq(Threads)
        /\ ToSet(Unlink(dispatching, t)) = ToSet(dispatching) \ {t}
    BY <2>1, UnlinkOne
  <2>3. QED
    BY <1>1, <2>2, Push
<1>3. Active = NoThread /\ Active' = NoThread
  BY DEF Active
<1>4. ran = {} /\ ToSet(runnable) = {} /\ ToSet(dispatched) = {}
  BY DEF IInv, Turns, PassShape, ToSet
<1>5. CASE thread[t].state = "RUNNABLE"
  <2>1. t \in ToSet(dispatching)
    BY <1>4, <1>5 DEF IInv, OnOneList
  <2>2. /\ ToSet(dispatching') = ToSet(dispatching)
        /\ \A u \in Threads : thread'[u].state = thread[u].state
    BY <1>1, <1>2, <1>5, <2>1
  <2>3. QED
    BY <1>1, <1>3, <2>2, SameLists
<1>6. CASE thread[t].state = "BLOCKED"
  <2>1. Status(t) = "blocked"
    BY <1>6, StatusCases
  <2>2. Status(t)' = "turn"
    BY <1>2, <1>3 DEF Status
  <2>3. ASSUME NEW u \in Threads \ {t}
        PROVE  Status(u)' = Status(u)
    <3>1. u \in ToSet(dispatching') <=> u \in ToSet(dispatching)
      BY <1>2
    <3>2. QED
      BY <1>1, <1>3, <3>1, Zenon DEF Status
  <2>4. QED
    BY <1>4, <2>1, <2>2, <2>3, Admission
<1>7. QED
  BY <1>5, <1>6

(* Only threads that have not exited are on the timeout list.              *)
LEMMA TimeoutAdmits ==
  ASSUME IInv, IInv', DispatchingTimeout
  PROVE  Abstract!Next \/ UNCHANGED Abstract!vars
<1>1. PICK t \in Threads : t = timeouts[scan] /\ t \in ToSet(timeouts)
  <2>1. timeouts \in Seq(Threads) /\ scan \in 1 .. Len(timeouts)
    BY DEF IInv, TypeOK, DispatchingTimeout
  <2>2. QED
    BY <2>1, Elements
<1>2. thread[t].sleep
  BY <1>1 DEF IInv, TimeoutListed
<1>3. thread[t].state \in {"BLOCKED", "RUNNABLE"}
  <2>1. thread[t] \in Thread
    BY <1>1 DEF IInv, TypeOK
  <2>2. QED
    BY <1>1, <1>2, <2>1 DEF IInv, AllListed, Thread
<1>4. phase = "timeouts" /\ phase' = phase /\ ran' = ran
  BY DEF DispatchingTimeout
<1>5. CASE thread[t].due = 0
  <2>1. MakeDispatching(t)
    BY <1>1, <1>5 DEF DispatchingTimeout
  <2>2. QED
    BY <1>1, <1>3, <1>4, <2>1, DispatchingAdmits
<1>6. CASE thread[t].due # 0
  <2>1. UNCHANGED <<runnable, dispatched, dispatching, thread>>
    BY <1>1, <1>6 DEF DispatchingTimeout, lists
  <2>2. Active' = Active
    BY <1>4, <2>1 DEF Active
  <2>3. QED
    BY <1>4, <2>1, <2>2, SameLists
<1>7. QED
  BY <1>5, <1>6

(* Nor do threads that have exited wait for a descriptor.                  *)
LEMMA EventAdmits ==
  ASSUME IInv, IInv', NEW f \in Fds, DispatchingEvent(f)
  PROVE  Abstract!Next \/ UNCHANGED Abstract!vars
<1>1. PICK t \in Threads : thread[t].events = f /\ MakeDispatching(t)
  BY DEF DispatchingEvent
<1>2. thread[t].state \in {"BLOCKED", "RUNNABLE"}
  <2>1. thread[t] \in Thread /\ f # NoFd
    BY DEF IInv, TypeOK
  <2>2. QED
    BY <1>1, <2>1 DEF IInv, AllListed, Thread
<1>3. phase = "events" /\ phase' = phase /\ ran' = ran
  BY DEF DispatchingEvent
<1>4. QED
  BY <1>1, <1>2, <1>3, DispatchingAdmits

(* The new pass gives a turn to everybody who waited for it.               *)
LEMMA SelectReturnNextPass ==
  ASSUME IInv, IInv', SelectReturn
  PROVE  Abstract!Next
<1>1. /\ phase = "select" /\ phase' = "timeouts"
      /\ dispatching' = runnable /\ runnable' = <<>>
      /\ dispatched' = dispatched /\ thread' = thread /\ ran' = {}
  BY DEF SelectReturn
<1>2. Active = NoThread /\ Active' = NoThread
  BY <1>1 DEF Active
<1>3. /\ ToSet(dispatching) = {} /\ ToSet(dispatched) = {}
      /\ ToSet(runnable') = {}
  BY <1>1 DEF IInv, PassShape, ToSet
<1>4. ASSUME NEW t \in Threads
      PROVE  /\ Status(t) # "turn" /\ Status(t) # "running"
             /\ Status(t)' = IF Status(t) = "later" THEN "turn" ELSE Status(t)
  <2>1. Status(t) # "turn" /\ Status(t) # "running"
    BY <1>2, <1>3, StatusCases
  <2>2. CASE t \in ToSet(runnable)
    <3>1. Status(t) = "later"
      BY <2>2, StatusCases
    <3>2. Status(t)' = "turn"
      BY <1>1, <1>2, <2>2 DEF Status
    <3>3. QED
      BY <2>1, <3>1, <3>2
  <2>3. CASE t \notin ToSet(runnable)
    <3>1. Status(t) # "later"
      BY <1>3, <2>3, StatusCases
    <3>2. Status(t)' = Status(t)
      BY <1>1, <1>2, <1>3, <2>3 DEF Status
    <3>3. QED
      BY <2>1, <3>1, <3>2
  <2>4. QED
    BY <2>2, <2>3
<1>5. Abstract!NextPass
  <2>1. Abstract!In("turn") = {} /\ Abstract!In("running") = {}
    BY <1>4 DEF Abstract!In
  <2>2. QED
    BY <1>1, <1>4, <2>1 DEF Abstract!NextPass
<1>6. QED
  BY <1>5 DEF Abstract!Next

(* The dispatcher runs the first thread that has a turn; nobody runs then. *)
LEMMA DispatchRuns ==
  ASSUME IInv, IInv', Dispatch
  PROVE  Abstract!Next
<1>1. PICK t \in Threads : t = Head(dispatching) /\ t \in ToSet(dispatching)
  BY HeadTail DEF IInv, TypeOK, Dispatch
<1>2. /\ phase = "dispatch" /\ phase' = "run"
      /\ UNCHANGED <<runnable, dispatched, dispatching>>
      /\ ran' = ran \cup {t}
      /\ thread' = [thread EXCEPT ![t].number = dispatchNumber, ![t].due = 0]
  BY <1>1 DEF Dispatch, lists
<1>3. Active = NoThread /\ Active' = t /\ t # NoThread
  BY <1>1, <1>2 DEF Active
<1>4. \A u \in Threads : thread'[u].state = thread[u].state
  <2>1. thread \in [Threads -> Thread]
    BY DEF IInv, TypeOK
  <2>2. \A u \in Threads \ {t} : thread'[u] = thread[u]
    BY <1>2, <2>1
  <2>3. thread'[t] = [thread[t] EXCEPT !.number = dispatchNumber, !.due = 0]
    BY <1>2, <2>1
  <2>4. thread'[t].state = thread[t].state
    BY <2>1, <2>3 DEF Thread
  <2>5. QED
    BY <2>2, <2>4
<1>5. Status(t) = "turn" /\ Status(t)' = "running"
  BY <1>1, <1>3 DEF Status
<1>6. ASSUME NEW u \in Threads \ {t}
      PROVE  Status(u)' = Status(u)
  <2>1. u # NoThread
    OBVIOUS
  <2>2. QED
    BY <1>2, <1>3, <1>4, <2>1 DEF Status
<1>7. Abstract!Run(t)
  <2>1. \A u \in Threads : Status(u) # "running"
    BY <1>3, StatusCases
  <2>2. Abstract!In("running") = {}
    BY <2>1 DEF Abstract!In
  <2>3. Abstract!Become(t, "running")
    BY <1>1, <1>5, <1>6, OneChange
  <2>4. QED
    BY <1>2, <1>1, <1>5, <2>2, <2>3 DEF Abstract!Run
<1>8. QED
  BY <1>1, <1>7 DEF Abstract!Next

(* The running thread, and only it, leaves the processor.                  *)
LEMMA Departure ==
  ASSUME IInv, IInv', phase = "run", phase' = "dispatch",
         dispatching' = Tail(dispatching),
         runnable' = runnable,
         ToSet(dispatched') \subseteq ToSet(dispatched) \cup {Active},
         ToSet(dispatched) \subseteq ToSet(dispatched'),
         \A u \in Threads \ {Active} : thread'[u].state = thread[u].state,
         thread'[Active].state # "NEW",
         ran' = ran
  PROVE  Abstract!Next
<1>1. PICK t \in Threads :
        /\ t = Active
        /\ ToSet(dispatching) = {t} \cup ToSet(Tail(dispatching))
        /\ t \notin ToSet(Tail(dispatching))
  BY HeadTail DEF IInv, TypeOK, PassShape, OnOneList, Active
<1>2. Active' = NoThread
  BY DEF Active
<1>3. ASSUME NEW u \in Threads \ {t}
      PROVE  Status(u)' = Status(u)
  <2>1. /\ u \in ToSet(dispatching') <=> u \in ToSet(dispatching)
        /\ u \in ToSet(dispatched') \cup ToSet(runnable')
             <=> u \in ToSet(dispatched) \cup ToSet(runnable)
        /\ thread'[u].state = thread[u].state
        /\ u # Active /\ u # Active'
    BY <1>1, <1>2
  <2>2. QED
    BY <2>1, Zenon DEF Status
<1>4. Status(t) = "running"
  BY <1>1 DEF Status
<1>5. Status(t)' \in {"later", "blocked", "gone"}
  <2>1. t # Active' /\ t \notin ToSet(dispatching')
    BY <1>1, <1>2
  <2>2. thread'[t].state # "NEW"
    BY <1>1
  <2>3. QED
    BY <2>1, <2>2 DEF Status
<1>6. Abstract!Leave(t)
  <2>1. Abstract!Become(t, Status(t)')
    BY <1>1, <1>3, OneChange
  <2>2. QED
    BY <1>1, <1>4, <1>5, <2>1 DEF Abstract!Leave
<1>7. QED
  BY <1>1, <1>6 DEF Abstract!Next

(* A yield of any kind is such a departure.                                *)
LEMMA YieldLeaves ==
  ASSUME IInv, IInv', NEW c, NEW f, NEW s, Yield(c, f, s)
  PROVE  Abstract!Next
<1>1. /\ phase = "run" /\ phase' = "dispatch"
      /\ dispatching' = Tail(dispatching)
      /\ runnable' = runnable /\ ran' = ran
      /\ dispatched' = dispatched \/ dispatched' = Append(dispatched, Active)
      /\ thread' = [thread EXCEPT ![Active] = Yielded(@, c, f, s)]
  BY DEF Yield, Yielding
<1>2. Active \in Threads
  BY <1>1, HeadTail DEF IInv, TypeOK, PassShape, Active
<1>3. /\ ToSet(dispatched') \subseteq ToSet(dispatched) \cup {Active}
      /\ ToSet(dispatched) \subseteq ToSet(dispatched')
  <2>1. dispatched \in Seq(Threads)
    BY DEF IInv, TypeOK
  <2>2. ToSet(Append(dispatched, Active)) = {Active} \cup ToSet(dispatched)
    BY <1>2, <2>1, PushLast
  <2>3. QED
    BY <1>1, <2>2
<1>4. /\ \A u \in Threads \ {Active} : thread'[u].state = thread[u].state
      /\ thread'[Active].state # "NEW"
  BY <1>1, <1>2 DEF IInv, TypeOK, Thread, Yielded
<1>5. QED
  BY <1>1, <1>3, <1>4, Departure

(* And so is an exit.                                                      *)
LEMMA ExitLeaves ==
  ASSUME IInv, IInv', Exit
  PROVE  Abstract!Next
<1>1. /\ phase = "run" /\ phase' = "dispatch"
      /\ dispatching' = Tail(dispatching)
      /\ runnable' = runnable /\ dispatched' = dispatched /\ ran' = ran
      /\ thread' = [thread EXCEPT ![Active] = [@ EXCEPT !.state  = "EXITED",
                                                        !.cond   = NoCond,
                                                        !.events = NoFd,
                                                        !.sleep  = FALSE]]
  BY DEF Exit, Yielding
<1>2. Active \in Threads
  BY <1>1, HeadTail DEF IInv, TypeOK, PassShape, Active
<1>3. /\ \A u \in Threads \ {Active} : thread'[u].state = thread[u].state
      /\ thread'[Active].state # "NEW"
  BY <1>1, <1>2 DEF IInv, TypeOK, Thread
<1>4. QED
  BY <1>1, <1>3, Departure

(* Every step of the scheduler is a step of the abstract one, or stutters. *)
LEMMA NextRefines ==
  IInv /\ IInv' /\ [Next]_vars => [Abstract!Next]_(Abstract!vars)
<1> SUFFICES ASSUME IInv, IInv', [Next]_vars
             PROVE  Abstract!Next \/ UNCHANGED Abstract!vars
  OBVIOUS
<1>1. CASE Start \/ MainIter \/ TimeoutsDone \/ EventsDone \/ BroadcastEnd
             \/ UNCHANGED vars
  BY <1>1, StillSteps
<1>2. CASE Scheduler
  BY <1>1, <1>2, SelectReturnNextPass, TimeoutAdmits, EventAdmits,
     DispatchRuns, DispatchEndStill DEF Scheduler
<1>3. CASE Calls
  BY <1>1, <1>3, CreateAdmits, NotifyAdmits DEF Calls, CondNotify, BroadcastNext
<1>4. CASE LeaveProcessor
  BY <1>4, YieldLeaves, ExitLeaves DEF LeaveProcessor, PlainYield,
     CondWaitYield, CondSleepYield, SleepYield, EventWait
<1>5. CASE Host
  BY <1>5, StillSteps DEF Host
<1>6. QED
  BY <1>1, <1>2, <1>3, <1>4, <1>5 DEF Next

(* What tme_sjlj_threads_main_iter, tme_sjlj_dispatch and tme_sjlj_yield   *)
(* do with the lists is what a cooperative scheduler promises, for any     *)
(* number of threads.                                                      *)
THEOREM SchedulerRefines == Spec => Cooperates
<1>1. Init => Abstract!Init
  <2> SUFFICES ASSUME Init PROVE Abstract!Init
    OBVIOUS
  <2>1. \A t \in Threads : Status(t) = "absent"
    BY DEF Init, Status, Active, ToSet
  <2>2. QED
    BY <2>1 DEF Init, Abstract!Init
<1>2. IInv /\ IInv' /\ [Next]_vars => [Abstract!Next]_(Abstract!vars)
  BY NextRefines
<1>3. QED
  BY <1>1, <1>2, Invariance, PTL DEF Spec, Cooperates, Abstract!Spec
=============================================================================
