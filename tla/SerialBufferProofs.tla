------------------------- MODULE SerialBufferProofs -------------------------
(***************************************************************************)
(* Proofs about the serial buffers, for any size of them, any characters   *)
(* and flags, and any counts.  First come facts about the operations of    *)
(* generic/serial.c on a ring, that PosixSerialProofs uses too, and about  *)
(* least and greatest numbers, on which they rest; then a buffer whose     *)
(* users ask for the free space is a bounded queue.                        *)
(***************************************************************************)
EXTENDS SerialBuffer, SerialLoops, TLAPS, WellFoundedInduction

(* The smaller of two numbers.                                             *)
LEMMA MinOfTwo ==
  ASSUME NEW a \in Int, NEW b \in Int
  PROVE  Min({a, b}) = IF a <= b THEN a ELSE b
<1> DEFINE m == IF a <= b THEN a ELSE b
<1>1. m \in {a, b} /\ \A y \in {a, b} : m <= y
  OBVIOUS
<1>2. \A x \in {a, b} : (\A y \in {a, b} : x <= y) => x = m
  OBVIOUS
<1>3. QED
  BY <1>1, <1>2 DEF Min

(* Numbers that have a property have a least one, and so a greatest where  *)
(* they are bounded: what Max of a set of slots is.                        *)

LEMMA LeastExists ==
  ASSUME NEW T \in SUBSET Nat, T # {}
  PROVE  \E m \in T : \A k \in T : m <= k
<1> DEFINE R == OpToRel(<, Nat)
<1>1. R = {p \in Nat \X Nat : p[1] < p[2]}
  BY DEF OpToRel
<1>2. IsWellFoundedOn(R, Nat)
  BY NatLessThanWellFounded
<1> HIDE DEF R
<1>3. PICK m \in T : \A k \in T : <<k, m>> \notin R
  BY <1>2, WFMin
<1>4. \A k \in T : ~(k < m)
  BY <1>1, <1>3
<1>5. QED
  BY <1>4

LEMMA GreatestExists ==
  ASSUME NEW m \in Nat, NEW S \in SUBSET (0 .. m), S # {}
  PROVE  Max(S) \in S /\ \A k \in S : k <= Max(S)
<1> DEFINE T == {n \in Nat : \A k \in S : k <= n}
<1>1. PICK x \in T : \A n \in T : x <= n
  <2>1. m \in T
    OBVIOUS
  <2>2. T \in SUBSET Nat /\ T # {}
    BY <2>1
  <2> HIDE DEF T
  <2>3. QED
    BY <2>2, LeastExists
<1>2. x \in Nat /\ \A k \in S : k <= x
  OBVIOUS
<1>3. x \in S
  <2> SUFFICES ASSUME x \notin S PROVE FALSE
    OBVIOUS
  <2>1. PICK k \in S : TRUE
    OBVIOUS
  <2>2. \A j \in S : j <= x - 1
    BY <1>2
  <2>3. x - 1 \in Nat
    BY <1>2, <2>1, <2>2
  <2>4. x - 1 \in T
    BY <2>2, <2>3
  <2>5. x <= x - 1
    BY <1>1, <2>4
  <2>6. QED
    BY <1>2, <2>5
<1>4. \E y \in S : \A k \in S : y >= k
  BY <1>2, <1>3
<1>5. QED
  BY <1>4 DEF Max

-----------------------------------------------------------------------------
(* The operations on a ring.                                               *)

LEMMA WrapIs ==
  ASSUME NEW i \in Int
  PROVE  Wrap(i) \in 0 .. Size - 1 /\ (i \in 0 .. Size - 1 => Wrap(i) = i)
BY SizeAssumption DEF Wrap

LEMMA BusyIs ==
  ASSUME NEW r \in Ring
  PROVE  SpaceBusy(r) \in 0 .. Size - 1 /\ (SpaceBusy(r) = 0 <=> IsEmpty(r))
BY SizeAssumption DEF SpaceBusy, IsEmpty, Ring

LEMMA TakenIs ==
  ASSUME NEW r \in Ring, NEW n \in Nat
  PROVE  Taken(r, n) \in 0 .. n
<1>1. SpaceFree(r) \in Nat
  BY BusyIs, SizeAssumption DEF SpaceFree
<1>2. Min({n, SpaceFree(r)}) \in 0 .. n
  BY <1>1, MinOfTwo
<1>3. QED
  BY <1>2 DEF Taken

(* What is taken is typed, and only the head moves.                        *)
LEMMA CopyInTyped ==
  ASSUME NEW r \in Ring, NEW n \in Nat, NEW bytes \in [1 .. n -> Bytes], Len(bytes) = n,
         NEW flags \in Flags, NEW overrun \in BOOLEAN
  PROVE  CopyIn(r, bytes, flags, overrun) \in Ring
<1> DEFINE k == Taken(r, n)
           head == Wrap(r.head + k)
           at(i) == {j \in 1 .. k : Wrap(r.head + j - 1) = i}
           mark(i) == IF overrun /\ k < n /\ i = head THEN {"OVERRUN"} ELSE {}
           slot == [i \in 0 .. Size - 1 |->
                      IF at(i) # {}
                      THEN [byte |-> bytes[Max(at(i))], flags |-> flags \cup mark(i)]
                      ELSE [r.slot[i] EXCEPT !.flags = @ \cup mark(i)]]
<1>1. CopyIn(r, bytes, flags, overrun) = [r EXCEPT !.head = head, !.slot = slot]
  BY DEF CopyIn
<1>2. k \in 0 .. n
  BY TakenIs
<1>3. head \in 0 .. Size - 1
  <2>1. r.head + k \in Int
    BY <1>2, SizeAssumption DEF Ring
  <2>2. QED
    BY <2>1, WrapIs
<1>4. ASSUME NEW i \in 0 .. Size - 1
      PROVE  slot[i] \in Slot
  <2>1. \A f \in Flags : f \cup mark(i) \in Flags \cup {g \cup {"OVERRUN"} : g \in Flags}
    BY Zenon
  <2>2. CASE at(i) # {}
    <3>1. at(i) \in SUBSET (0 .. n) /\ \A j \in at(i) : j \in 1 .. n
      BY <1>2
    <3>2. Max(at(i)) \in at(i)
      <4> HIDE DEF at
      <4>1. QED
        BY <2>2, <3>1, GreatestExists
    <3>3. bytes[Max(at(i))] \in Bytes
      BY <3>1, <3>2
    <3>4. slot[i] = [byte |-> bytes[Max(at(i))], flags |-> flags \cup mark(i)]
      BY <2>2
    <3> HIDE DEF at, mark, slot
    <3>5. QED
      BY <2>1, <3>3, <3>4 DEF Slot
  <2>3. CASE at(i) = {}
    <3>1. r.slot[i] \in Slot
      BY DEF Ring
    <3>2. r.slot[i].flags \cup mark(i) \in Flags \cup {g \cup {"OVERRUN"} : g \in Flags}
      <4>1. CASE r.slot[i].flags \in Flags
        BY <2>1, <4>1
      <4>2. CASE r.slot[i].flags \in {g \cup {"OVERRUN"} : g \in Flags}
        <5>1. PICK g \in Flags : r.slot[i].flags = g \cup {"OVERRUN"}
          BY <4>2
        <5>2. mark(i) \subseteq {"OVERRUN"}
          OBVIOUS
        <5>3. r.slot[i].flags \cup mark(i) = g \cup {"OVERRUN"}
          BY <5>1, <5>2
        <5>4. QED
          BY <5>3
      <4>3. QED
        BY <3>1, <4>1, <4>2 DEF Slot
    <3>3. slot[i] = [r.slot[i] EXCEPT !.flags = @ \cup mark(i)]
      BY <2>3
    <3> HIDE DEF at, mark, slot
    <3>4. QED
      BY <3>1, <3>2, <3>3 DEF Slot
  <2>4. QED
    BY <2>2, <2>3
<1>5. slot \in [0 .. Size - 1 -> Slot]
  <2>1. slot = [i \in 0 .. Size - 1 |-> slot[i]]
    BY Zenon
  <2> HIDE DEF slot
  <2>2. QED
    BY <1>4, <2>1
<1> HIDE DEF slot, head
<1>6. QED
  BY <1>1, <1>3, <1>5 DEF Ring

(* What a ring gives has the flags of the first character; and it gives    *)
(* something if it has something.                                          *)
LEMMA GivenIs ==
  ASSUME NEW r \in Ring, NEW n \in Nat
  PROVE  /\ Given(r, n) \in 0 .. n /\ Given(r, n) <= SpaceBusy(r)
         /\ Given(r, n) = 0 /\ n > 0 => IsEmpty(r)
         /\ \A i \in 0 .. Given(r, n) - 1 :
              r.slot[Wrap(r.tail + i)].flags = r.slot[r.tail].flags
<1> DEFINE m == Min({n, SpaceBusy(r)})
           S == {k \in 0 .. m : \A i \in 0 .. k - 1 :
                   r.slot[Wrap(r.tail + i)].flags = r.slot[r.tail].flags}
<1>1. m \in 0 .. n /\ m <= SpaceBusy(r) /\ (m = 0 => n = 0 \/ SpaceBusy(r) = 0)
  <2>1. SpaceBusy(r) \in Nat
    BY BusyIs, SizeAssumption
  <2>2. QED
    BY <2>1, MinOfTwo
<1> HIDE DEF m
<1>2. 0 \in S
  BY <1>1
<1>3. m > 0 => 1 \in S
  <2>1. \A i \in 0 .. 0 : Wrap(r.tail + i) = r.tail
    BY WrapIs, SizeAssumption DEF Ring
  <2>2. QED
    BY <1>1, <2>1
<1>4. Given(r, n) = Max(S)
  BY DEF Given, m
<1>5. S \in SUBSET (0 .. m) /\ S # {}
  BY <1>2
<1>6. \A k \in S : \A i \in 0 .. k - 1 :
        r.slot[Wrap(r.tail + i)].flags = r.slot[r.tail].flags
  OBVIOUS
<1> HIDE DEF S
<1>7. Max(S) \in S /\ Max(S) \in 0 .. m /\ \A k \in S : k <= Max(S)
  <2>1. m \in Nat
    BY <1>1
  <2>2. Max(S) \in S /\ \A k \in S : k <= Max(S)
    BY <1>5, <2>1, GreatestExists
  <2>3. QED
    BY <1>5, <2>2
<1>8. Max(S) = 0 => ~(m > 0)
  BY <1>1, <1>3, <1>7
<1>9. SpaceBusy(r) \in Nat
  BY BusyIs, SizeAssumption
<1>10. Given(r, n) \in 0 .. n /\ Given(r, n) <= SpaceBusy(r)
  BY <1>1, <1>4, <1>7, <1>9
<1>11. Given(r, n) = 0 /\ n > 0 => IsEmpty(r)
  BY <1>1, <1>4, <1>8, BusyIs
<1>12. QED
  BY <1>4, <1>6, <1>7, <1>10, <1>11

LEMMA CopyOutTyped ==
  ASSUME NEW r \in Ring, NEW n \in Nat
  PROVE  /\ CopyOut(r, n) \in Ring
         /\ n > 0 /\ Given(r, n) = 0 => IsEmpty(CopyOut(r, n))
<1>1. Given(r, n) \in Nat /\ r.tail \in 0 .. Size - 1 /\ r.tail \in Int
  BY GivenIs, SizeAssumption DEF Ring
<1>2. /\ Wrap(r.tail + Given(r, n)) \in 0 .. Size - 1
      /\ Given(r, n) = 0 => Wrap(r.tail + Given(r, n)) = r.tail
  BY <1>1, WrapIs
<1>3. CopyOut(r, n) = [r EXCEPT !.tail = Wrap(r.tail + Given(r, n))]
  BY DEF CopyOut
<1>4. QED
  BY <1>2, <1>3, GivenIs DEF Ring, IsEmpty

-----------------------------------------------------------------------------
(* The places of the characters.                                           *)

(* Two steps round the ring.                                               *)
LEMMA WrapOnce ==
  ASSUME NEW i \in 0 .. Size + Size - 1
  PROVE  Wrap(i) = IF i < Size THEN i ELSE i - Size
BY SizeAssumption DEF Wrap

(* The head is as far behind the tail as there are characters.             *)
LEMMA HeadIs ==
  ASSUME NEW r \in Ring
  PROVE  /\ r.head = Wrap(r.tail + SpaceBusy(r))
         /\ SpaceFree(r) \in 0 .. Size - 1
         /\ IsFull(r) <=> SpaceFree(r) = 0
<1>1. r.head \in 0 .. Size - 1 /\ r.tail \in 0 .. Size - 1 /\ Size \in Nat /\ Size > 1
  BY SizeAssumption DEF Ring
<1>2. Wrap(r.head + 1) = IF r.head + 1 < Size THEN r.head + 1 ELSE 0
  BY <1>1, WrapOnce
<1>3. SpaceBusy(r) = IF r.head >= r.tail THEN r.head - r.tail ELSE Size - (r.tail - r.head)
  BY DEF SpaceBusy
<1>4. r.tail + SpaceBusy(r) \in 0 .. Size + Size - 1
  BY <1>1, <1>3
<1>5. r.head = Wrap(r.tail + SpaceBusy(r))
  BY <1>1, <1>3, <1>4, WrapOnce
<1>6. SpaceFree(r) \in 0 .. Size - 1 /\ (IsFull(r) <=> SpaceFree(r) = 0)
  BY <1>1, <1>2, <1>3 DEF SpaceFree, IsFull
<1>7. QED
  BY <1>5, <1>6

(* The place of a character in the ring, from the tail on.                 *)
LEMMA PlaceIs ==
  ASSUME NEW t \in 0 .. Size - 1, NEW a \in Nat, NEW b \in Nat, a + b < Size
  PROVE  /\ Wrap(Wrap(t + a) + b) = Wrap(t + (a + b))
         /\ Wrap(t + a) \in 0 .. Size - 1
<1>1. /\ Wrap(t + a) = IF t + a < Size THEN t + a ELSE t + a - Size
      /\ Wrap(t + (a + b)) = IF t + (a + b) < Size THEN t + (a + b) ELSE t + (a + b) - Size
  BY SizeAssumption, WrapOnce
<1>2. Wrap(t + a) \in 0 .. Size - 1
  BY <1>1, SizeAssumption
<1>3. Wrap(Wrap(t + a) + b) = IF Wrap(t + a) + b < Size THEN Wrap(t + a) + b
                              ELSE Wrap(t + a) + b - Size
  BY <1>2, SizeAssumption, WrapOnce
<1>4. QED
  BY <1>1, <1>2, <1>3, SizeAssumption

(* Different characters have different places.                             *)
LEMMA PlacesDiffer ==
  ASSUME NEW t \in 0 .. Size - 1, NEW i \in Nat, NEW j \in Nat, i < j, j < Size
  PROVE  Wrap(t + i) # Wrap(t + j)
<1>1. t + i \in 0 .. Size + Size - 1 /\ t + j \in 0 .. Size + Size - 1
  BY SizeAssumption
<1>2. Wrap(t + i) = IF t + i < Size THEN t + i ELSE t + i - Size
  BY <1>1, SizeAssumption, WrapOnce
<1>3. Wrap(t + j) = IF t + j < Size THEN t + j ELSE t + j - Size
  BY <1>1, SizeAssumption, WrapOnce
<1>4. QED
  BY <1>2, <1>3, SizeAssumption

-----------------------------------------------------------------------------
(* What the operations do to the characters.                               *)

(* The i-th character of a ring, counted from 0.                           *)
Nth(r, i) == r.slot[Wrap(r.tail + i)]

LEMMA NthTyped ==
  ASSUME NEW r \in Ring, NEW i \in Nat
  PROVE  Nth(r, i) \in Slot
<1>1. r.tail + i \in Int
  BY SizeAssumption DEF Ring
<1>2. QED
  BY <1>1, WrapIs DEF Nth, Ring

(* A full ring takes nothing, and keeps what it has.                       *)
LEMMA CopyInFull ==
  ASSUME NEW r \in Ring, IsFull(r), NEW bytes, Len(bytes) \in Nat, NEW flags,
         NEW overrun \in BOOLEAN
  PROVE  /\ SpaceBusy(CopyIn(r, bytes, flags, overrun)) = SpaceBusy(r)
         /\ \A i \in 0 .. SpaceBusy(r) - 1 :
              Nth(CopyIn(r, bytes, flags, overrun), i) = Nth(r, i)
<1> DEFINE n == Taken(r, Len(bytes))
           head == Wrap(r.head + n)
           at(i) == {k \in 1 .. n : Wrap(r.head + k - 1) = i}
           mark(i) == IF overrun /\ n < Len(bytes) /\ i = head THEN {"OVERRUN"} ELSE {}
           slot == [i \in 0 .. Size - 1 |->
                      IF at(i) # {}
                      THEN [byte |-> bytes[Max(at(i))], flags |-> flags \cup mark(i)]
                      ELSE [r.slot[i] EXCEPT !.flags = @ \cup mark(i)]]
           s == CopyIn(r, bytes, flags, overrun)
<1>1. s = [r EXCEPT !.head = head, !.slot = slot]
  BY DEF CopyIn
<1>2. n = 0
  BY DEF Taken
<1>3. r.head \in 0 .. Size - 1 /\ r.tail \in 0 .. Size - 1 /\ r.head + 0 = r.head
  BY SizeAssumption DEF Ring
<1>4. head = r.head
  BY <1>2, <1>3, WrapIs, SizeAssumption
<1>5. \A i : at(i) = {}
  BY <1>2
<1>6. ASSUME NEW i \in 0 .. Size - 1, i # r.head
      PROVE  slot[i] = r.slot[i]
  <2>1. mark(i) = {}
    BY <1>4, <1>6
  <2>2. slot[i] = [r.slot[i] EXCEPT !.flags = @ \cup {}]
    BY <1>5, <2>1
  <2>3. r.slot[i] \in Slot
    BY DEF Ring
  <2> HIDE DEF slot
  <2>4. QED
    BY <2>2, <2>3 DEF Slot
<1> HIDE DEF slot, head
<1>7. s.head = r.head /\ s.tail = r.tail /\ s.slot = slot
  BY <1>1, <1>4 DEF Ring
<1> HIDE DEF s
<1>8. SpaceBusy(s) = SpaceBusy(r)
  BY <1>7 DEF SpaceBusy
<1>9. ASSUME NEW i \in 0 .. SpaceBusy(r) - 1
      PROVE  Nth(s, i) = Nth(r, i)
  <2>1. SpaceBusy(r) \in 0 .. Size - 1 /\ i \in Nat
    BY BusyIs, SizeAssumption
  <2>2. Wrap(r.tail + i) \in 0 .. Size - 1
    <3>1. i + 0 < Size
      BY <2>1, SizeAssumption
    <3>2. QED
      BY <1>3, <2>1, <3>1, PlaceIs
  <2>3. Wrap(r.tail + i) # r.head
    <3>1. SpaceBusy(r) \in Nat /\ i < SpaceBusy(r) /\ SpaceBusy(r) < Size
      BY <2>1, SizeAssumption
    <3>2. Wrap(r.tail + i) # Wrap(r.tail + SpaceBusy(r))
      BY <1>3, <2>1, <3>1, PlacesDiffer
    <3>3. QED
      BY <3>2, HeadIs
  <2>4. QED
    BY <1>6, <1>7, <2>2, <2>3 DEF Nth
<1>10. QED
  BY <1>8, <1>9 DEF s

(* A ring with room for them takes all characters, behind those it has.    *)
LEMMA CopyInRoom ==
  ASSUME NEW r \in Ring, NEW n \in Nat, n > 0, n <= SpaceFree(r),
         NEW bytes, Len(bytes) = n, NEW flags, NEW overrun \in BOOLEAN
  PROVE  /\ SpaceBusy(CopyIn(r, bytes, flags, overrun)) = SpaceBusy(r) + n
         /\ \A i \in 0 .. SpaceBusy(r) - 1 :
              Nth(CopyIn(r, bytes, flags, overrun), i) = Nth(r, i)
         /\ \A k \in 1 .. n :
              Nth(CopyIn(r, bytes, flags, overrun), SpaceBusy(r) + k - 1)
                = [byte |-> bytes[k], flags |-> flags]
<1> DEFINE head == Wrap(r.head + n)
           at(i) == {k \in 1 .. n : Wrap(r.head + k - 1) = i}
           mark(i) == IF overrun /\ n < n /\ i = head THEN {"OVERRUN"} ELSE {}
           slot == [i \in 0 .. Size - 1 |->
                      IF at(i) # {}
                      THEN [byte |-> bytes[Max(at(i))], flags |-> flags \cup mark(i)]
                      ELSE [r.slot[i] EXCEPT !.flags = @ \cup mark(i)]]
           s == CopyIn(r, bytes, flags, overrun)
           b == SpaceBusy(r)
<1>1. /\ b \in 0 .. Size - 1 /\ b + n < Size /\ b \in Nat
      /\ r.tail \in 0 .. Size - 1 /\ r.head = Wrap(r.tail + b) /\ ~IsFull(r)
  <2>1. b \in 0 .. Size - 1 /\ r.head = Wrap(r.tail + b) /\ r.tail \in 0 .. Size - 1
    BY BusyIs, HeadIs DEF Ring
  <2>2. ~IsFull(r)
    BY HeadIs, SizeAssumption
  <2>3. b + n < Size
    BY <2>1, SizeAssumption DEF SpaceFree
  <2>4. QED
    BY <2>1, <2>2, <2>3, SizeAssumption
<1>2. Taken(r, n) = n
  <2>1. SpaceFree(r) \in Int
    BY HeadIs
  <2>2. Min({n, SpaceFree(r)}) = n
    BY <2>1, MinOfTwo
  <2>3. QED
    BY <1>1, <2>2 DEF Taken
<1>3. s = [r EXCEPT !.head = head, !.slot = slot]
  BY <1>2 DEF CopyIn
<1>4. \A i : mark(i) = {}
  OBVIOUS
<1> DEFINE place(i) == Wrap(r.tail + i)
<1>5. \A i \in 0 .. b + n : place(i) \in 0 .. Size - 1
  <2> SUFFICES ASSUME NEW i \in 0 .. b + n PROVE place(i) \in 0 .. Size - 1
    OBVIOUS
  <2>1. i \in Nat /\ i + 0 < Size
    BY <1>1, SizeAssumption
  <2>2. QED
    BY <1>1, <2>1, PlaceIs
<1>6. \A i, j \in 0 .. b + n : i < j => place(i) # place(j)
  <2> SUFFICES ASSUME NEW i \in 0 .. b + n, NEW j \in 0 .. b + n, i < j
               PROVE  place(i) # place(j)
    OBVIOUS
  <2>1. i \in Nat /\ j \in Nat /\ j < Size
    BY <1>1, SizeAssumption
  <2>2. QED
    BY <1>1, <2>1, PlacesDiffer
<1>7. \A k \in 1 .. n : Wrap(r.head + k - 1) = place(b + k - 1)
  <2> SUFFICES ASSUME NEW k \in 1 .. n PROVE Wrap(r.head + k - 1) = place(b + k - 1)
    OBVIOUS
  <2>1. /\ k - 1 \in Nat /\ b + (k - 1) < Size /\ b + (k - 1) = b + k - 1
        /\ r.head + (k - 1) = r.head + k - 1
    BY <1>1, SizeAssumption DEF Ring
  <2>2. Wrap(Wrap(r.tail + b) + (k - 1)) = Wrap(r.tail + (b + (k - 1)))
    BY <1>1, <2>1, PlaceIs
  <2>3. QED
    BY <1>1, <2>1, <2>2
<1> HIDE DEF place
<1>8. ASSUME NEW i \in 0 .. b - 1
      PROVE  slot[place(i)] = r.slot[place(i)]
  <2>1. place(i) \in 0 .. Size - 1
    BY <1>1, <1>5
  <2>2. at(place(i)) = {}
    <3> SUFFICES ASSUME NEW k \in 1 .. n, Wrap(r.head + k - 1) = place(i) PROVE FALSE
      OBVIOUS
    <3>1. i \in 0 .. b + n /\ b + k - 1 \in 0 .. b + n /\ i < b + k - 1
      BY <1>1
    <3>2. QED
      BY <1>6, <1>7, <3>1
  <2>3. slot[place(i)] = [r.slot[place(i)] EXCEPT !.flags = @ \cup {}]
    BY <1>4, <2>1, <2>2
  <2>4. r.slot[place(i)] \in Slot
    BY <2>1 DEF Ring
  <2> HIDE DEF slot
  <2>5. QED
    BY <2>3, <2>4 DEF Slot
<1>9. ASSUME NEW k \in 1 .. n
      PROVE  slot[place(b + k - 1)] = [byte |-> bytes[k], flags |-> flags]
  <2> DEFINE p == place(b + k - 1)
  <2>1. p \in 0 .. Size - 1
    BY <1>1, <1>5
  <2>2. at(p) = {k}
    <3>1. k \in at(p)
      BY <1>7
    <3>2. ASSUME NEW j \in 1 .. n, Wrap(r.head + j - 1) = p
          PROVE  j = k
      <4>1. /\ b + j - 1 \in 0 .. b + n /\ b + k - 1 \in 0 .. b + n
            /\ j < k => b + j - 1 < b + k - 1
            /\ k < j => b + k - 1 < b + j - 1
        BY <1>1
      <4>2. place(b + j - 1) = place(b + k - 1)
        BY <1>7, <3>2
      <4>3. ~(j < k) /\ ~(k < j)
        BY <1>6, <4>1, <4>2
      <4>4. QED
        BY <4>3
    <3>3. QED
      BY <3>1, <3>2
  <2>3. Max({k}) = k
    <3>1. k \in Nat /\ {k} \in SUBSET (0 .. k) /\ {k} # {}
      OBVIOUS
    <3>2. Max({k}) \in {k}
      BY <3>1, GreatestExists
    <3>3. QED
      BY <3>2
  <2>4. slot[p] = [byte |-> bytes[Max(at(p))], flags |-> flags \cup mark(p)]
    BY <2>1, <2>2
  <2> HIDE DEF slot, at, mark, p
  <2>5. flags \cup mark(p) = flags
    BY <1>4
  <2>6. slot[p] = [byte |-> bytes[k], flags |-> flags]
    BY <2>2, <2>3, <2>4, <2>5
  <2>7. QED
    BY <2>6 DEF p
<1>10. head = place(b + n)
  <2>1. Wrap(Wrap(r.tail + b) + n) = Wrap(r.tail + (b + n))
    BY <1>1, PlaceIs
  <2>2. QED
    BY <1>1, <2>1 DEF place
<1> HIDE DEF slot, head, at, mark
<1>11. s.head = place(b + n) /\ s.tail = r.tail /\ s.slot = slot
  BY <1>3, <1>10 DEF Ring
<1> HIDE DEF s
<1>12. SpaceBusy(s) = b + n
  <2>1. place(b + n) = IF r.tail + (b + n) < Size THEN r.tail + (b + n)
                       ELSE r.tail + (b + n) - Size
    <3>1. r.tail + (b + n) \in 0 .. Size + Size - 1
      BY <1>1, SizeAssumption
    <3> HIDE DEF b
    <3>2. Wrap(r.tail + (b + n)) = IF r.tail + (b + n) < Size THEN r.tail + (b + n)
                                   ELSE r.tail + (b + n) - Size
      BY <1>1, <3>1, SizeAssumption, WrapOnce
    <3>3. QED
      BY <3>2 DEF place
  <2>2. SpaceBusy(s) = IF place(b + n) >= r.tail THEN place(b + n) - r.tail
                       ELSE Size - (r.tail - place(b + n))
    BY <1>11 DEF SpaceBusy
  <2> HIDE DEF b
  <2>3. QED
    BY <1>1, <2>1, <2>2, SizeAssumption
<1>13. \A i \in 0 .. b - 1 : Nth(s, i) = Nth(r, i)
  BY <1>8, <1>11 DEF Nth, place
<1>14. \A k \in 1 .. n : Nth(s, b + k - 1) = [byte |-> bytes[k], flags |-> flags]
  BY <1>9, <1>11 DEF Nth, place
<1>15. QED
  BY <1>12, <1>13, <1>14 DEF s

(* Some characters less, from the front.                                   *)
LEMMA CopyOutLess ==
  ASSUME NEW r \in Ring, NEW n \in Nat
  PROVE  /\ SpaceBusy(CopyOut(r, n)) = SpaceBusy(r) - Given(r, n)
         /\ \A i \in 0 .. SpaceBusy(r) - Given(r, n) - 1 :
              Nth(CopyOut(r, n), i) = Nth(r, Given(r, n) + i)
<1> DEFINE k == Given(r, n)
           b == SpaceBusy(r)
           s == CopyOut(r, n)
<1>1. /\ k \in Nat /\ k <= b /\ b \in Nat /\ b < Size
      /\ r.tail \in 0 .. Size - 1 /\ r.head = Wrap(r.tail + b)
  <2>1. k \in Nat /\ k <= b
    BY GivenIs
  <2>2. b \in Nat /\ b < Size
    BY BusyIs, SizeAssumption
  <2> HIDE DEF k, b
  <2>3. QED
    BY <2>1, <2>2, HeadIs DEF Ring, b
<1>2. s = [r EXCEPT !.tail = Wrap(r.tail + k)]
  BY DEF CopyOut
<1> HIDE DEF k
<1>3. s.tail = Wrap(r.tail + k) /\ s.head = r.head /\ s.slot = r.slot
  BY <1>2 DEF Ring
<1> HIDE DEF s
<1>4. SpaceBusy(s) = b - k
  <2>1. SpaceBusy(s) = IF r.head >= s.tail THEN r.head - s.tail ELSE Size - (s.tail - r.head)
    BY <1>3 DEF SpaceBusy
  <2> HIDE DEF b
  <2>2. r.tail + k \in 0 .. Size + Size - 1 /\ r.tail + b \in 0 .. Size + Size - 1
    BY <1>1, SizeAssumption
  <2>3. Wrap(r.tail + k) = IF r.tail + k < Size THEN r.tail + k ELSE r.tail + k - Size
    BY <1>1, <2>2, SizeAssumption, WrapOnce
  <2>4. Wrap(r.tail + b) = IF r.tail + b < Size THEN r.tail + b ELSE r.tail + b - Size
    BY <1>1, <2>2, SizeAssumption, WrapOnce
  <2>5. QED
    BY <1>1, <1>3, <2>1, <2>3, <2>4, SizeAssumption
<1> HIDE DEF b
<1>5. ASSUME NEW i \in 0 .. b - k - 1
      PROVE  Nth(s, i) = Nth(r, k + i)
  <2>1. i \in Nat /\ k + i < Size
    BY <1>1, SizeAssumption
  <2>2. Wrap(Wrap(r.tail + k) + i) = Wrap(r.tail + (k + i))
    BY <1>1, <2>1, PlaceIs
  <2>3. QED
    BY <1>3, <2>2 DEF Nth
<1>6. QED
  BY <1>4, <1>5 DEF s, b, k

-----------------------------------------------------------------------------
(* The queue that a ring stands for.                                       *)
Held(r) == FirstChars(r, SpaceBusy(r))

LEMMA FirstCharsIs ==
  ASSUME NEW r \in Ring, NEW n \in Nat
  PROVE  /\ FirstChars(r, n) \in Seq(Slot) /\ Len(FirstChars(r, n)) = n
         /\ \A i \in 1 .. n : FirstChars(r, n)[i] = Nth(r, i - 1)
<1>1. r.tail \in Int
  BY SizeAssumption DEF Ring
<1>2. ASSUME NEW i \in 1 .. n
      PROVE  /\ r.slot[Wrap(r.tail + i - 1)] = Nth(r, i - 1)
             /\ Nth(r, i - 1) \in Slot
  <2>1. i - 1 \in Nat /\ r.tail + i - 1 = r.tail + (i - 1)
    BY <1>1
  <2>2. QED
    BY <2>1, NthTyped DEF Nth
<1>3. FirstChars(r, n) = [i \in 1 .. n |-> Nth(r, i - 1)]
  BY <1>2 DEF FirstChars
<1>4. QED
  BY <1>2, <1>3

LEMMA HeldIs ==
  ASSUME NEW r \in Ring
  PROVE  /\ SpaceBusy(r) \in Nat /\ SpaceBusy(r) <= Size - 1
         /\ Held(r) \in Seq(Slot) /\ Len(Held(r)) = SpaceBusy(r)
         /\ \A i \in 1 .. SpaceBusy(r) : Held(r)[i] = Nth(r, i - 1)
<1>1. SpaceBusy(r) \in Nat /\ SpaceBusy(r) <= Size - 1
  BY BusyIs, SizeAssumption
<1>2. QED
  BY <1>1, FirstCharsIs DEF Held

(* Rings that hold the same characters stand for the same queue.           *)
LEMMA SameHeld ==
  ASSUME NEW r \in Ring, NEW s \in Ring, SpaceBusy(s) = SpaceBusy(r),
         \A i \in 0 .. SpaceBusy(r) - 1 : Nth(s, i) = Nth(r, i)
  PROVE  Held(s) = Held(r)
<1>1. \A i \in 1 .. SpaceBusy(r) : Held(s)[i] = Held(r)[i]
  <2> SUFFICES ASSUME NEW i \in 1 .. SpaceBusy(r) PROVE Held(s)[i] = Held(r)[i]
    OBVIOUS
  <2>1. i - 1 \in 0 .. SpaceBusy(r) - 1
    BY HeldIs
  <2>2. QED
    BY <2>1, HeldIs
<1>2. QED
  BY <1>1, HeldIs

-----------------------------------------------------------------------------
(* Types.                                                                  *)

LEMMA BytesTyped ==
  ASSUME NEW bytes \in Texts
  PROVE  \E n \in Nat : n > 0 /\ bytes \in [1 .. n -> Bytes] /\ Len(bytes) = n
<1> DEFINE n == Len(bytes)
<1>1. bytes \in Seq(Bytes) /\ bytes # <<>>
  BY TextsAssumption
<1>2. n \in Nat /\ bytes \in [1 .. n -> Bytes] /\ n # 0
  BY <1>1
<1> HIDE DEF n
<1>3. n > 0 /\ Len(bytes) = n
  BY <1>2 DEF n
<1>4. QED
  BY <1>2, <1>3

LEMMA InitTyped == BufferInit => BufferTypeOK
BY DEF BufferInit, BufferTypeOK

LEMMA NextTyped == BufferTypeOK /\ [BufferNext]_bufferVars => BufferTypeOK'
<1> SUFFICES ASSUME BufferTypeOK, [BufferNext]_bufferVars PROVE BufferTypeOK'
  OBVIOUS
<1>1. CASE UNCHANGED bufferVars
  BY <1>1 DEF bufferVars, BufferTypeOK
<1>2. ASSUME NEW bytes \in Texts, NEW f \in Flags,
             NEW overrun \in BOOLEAN, Copyin(bytes, f, overrun)
      PROVE  BufferTypeOK'
  <2>1. ring' = CopyIn(ring, bytes, f, overrun) /\ got' = got
    BY <1>2 DEF Copyin
  <2>2. PICK n \in Nat : bytes \in [1 .. n -> Bytes] /\ Len(bytes) = n
    BY BytesTyped
  <2>3. CopyIn(ring, bytes, f, overrun) \in Ring
    BY <2>2, CopyInTyped DEF BufferTypeOK
  <2>4. QED
    BY <2>1, <2>3 DEF BufferTypeOK
<1>3. ASSUME NEW n \in 0 .. MaxCount, NEW peek \in BOOLEAN, Copyout(n, peek)
      PROVE  BufferTypeOK'
  <2>1. ring \in Ring /\ n \in Nat
    BY DEF BufferTypeOK
  <2>2. Given(ring, n) \in Nat
    BY <2>1, GivenIs
  <2>3. got' \in Seq(Slot)
    BY <1>3, <2>1, <2>2, FirstCharsIs DEF Copyout
  <2>4. ring' \in Ring
    BY <1>3, <2>1, CopyOutTyped DEF Copyout
  <2>5. QED
    BY <2>3, <2>4 DEF BufferTypeOK
<1>4. QED
  BY <1>1, <1>2, <1>3 DEF BufferNext

(* A buffer keeps its shape, whether its users ask for space or not.       *)
THEOREM BufferTypeCorrect == BufferSpec => []BufferTypeOK
BY InitTyped, NextTyped, PTL DEF BufferSpec

-----------------------------------------------------------------------------
(* The refinement.                                                         *)

(* Characters that fit, or a single one, come to the end of what is held,  *)
(* with their flags, or are not taken.                                     *)
LEMMA PutBehind ==
  ASSUME NEW r \in Ring, NEW s \in Ring, NEW n \in Nat, n > 0,
         NEW bytes \in [1 .. n -> Bytes], Len(bytes) = n, n = 1 \/ n <= SpaceFree(r),
         NEW f \in Flags, NEW overrun \in BOOLEAN, s = CopyIn(r, bytes, f, overrun)
  PROVE  \/ Held(s) = Held(r)
         \/ /\ Len(Held(s)) \in Len(Held(r)) + 1 .. Size - 1
            /\ IsPrefix(Held(r), Held(s)) /\ Held(s) \in Seq(Slot)
            /\ LET new == SubSeq(Held(s), Len(Held(r)) + 1, Len(Held(s)))
               IN \A c \in Range(new) : c.flags = Head(new).flags
<1> DEFINE b == SpaceBusy(r)
<1>1. CASE IsFull(r)
  <2>1. /\ SpaceBusy(s) = SpaceBusy(r)
        /\ \A i \in 0 .. SpaceBusy(r) - 1 : Nth(s, i) = Nth(r, i)
    BY <1>1, CopyInFull
  <2>2. QED
    BY <2>1, SameHeld
<1>2. CASE ~IsFull(r)
  <2>1. n <= SpaceFree(r)
    BY <1>2, HeadIs
  <2>2. /\ SpaceBusy(s) = b + n
        /\ \A i \in 0 .. b - 1 : Nth(s, i) = Nth(r, i)
        /\ \A k \in 1 .. n : Nth(s, b + k - 1) = [byte |-> bytes[k], flags |-> f]
    BY <2>1, CopyInRoom
  <2> DEFINE q == Held(r)
             p == Held(s)
  <2>3. /\ b \in Nat /\ b + n <= Size - 1
        /\ q \in Seq(Slot) /\ Len(q) = b /\ p \in Seq(Slot) /\ Len(p) = b + n
        /\ \A i \in 1 .. b : q[i] = Nth(r, i - 1)
        /\ \A i \in 1 .. b + n : p[i] = Nth(s, i - 1)
    BY <2>2, HeldIs
  <2> HIDE DEF q, p, b
  <2>4. \A i \in 1 .. b : p[i] = q[i]
    <3> SUFFICES ASSUME NEW i \in 1 .. b PROVE p[i] = q[i]
      OBVIOUS
    <3>1. i - 1 \in 0 .. b - 1 /\ i \in 1 .. b + n
      BY <2>3
    <3>2. QED
      BY <2>2, <2>3, <3>1
  <2>5. IsPrefix(q, p)
    BY <2>3, <2>4 DEF IsPrefix
  <2> DEFINE new == SubSeq(p, b + 1, b + n)
  <2>6. /\ new \in Seq(Slot) /\ Len(new) = n
        /\ \A k \in 1 .. n : new[k] = p[b + k]
    BY <2>3
  <2>7. \A k \in 1 .. n : new[k].flags = f
    <3> SUFFICES ASSUME NEW k \in 1 .. n PROVE new[k].flags = f
      OBVIOUS
    <3>1. b + k \in 1 .. b + n /\ b + k - 1 = (b + k) - 1
      BY <2>3
    <3>2. p[b + k] = [byte |-> bytes[k], flags |-> f]
      BY <2>2, <2>3, <3>1
    <3>3. new[k] = p[b + k]
      BY <2>6
    <3> HIDE DEF new
    <3>4. QED
      BY <3>2, <3>3
  <2>8. \A c \in Range(new) : c.flags = Head(new).flags
    <3> HIDE DEF new
    <3>1. Head(new) = new[1] /\ DOMAIN new = 1 .. n /\ 1 \in 1 .. n
      BY <2>6
    <3>2. QED
      BY <2>7, <3>1 DEF Range
  <2>9. SubSeq(p, Len(q) + 1, Len(p)) = new
    BY <2>3
  <2>10. Len(p) \in Len(q) + 1 .. Size - 1
    BY <2>3
  <2> HIDE DEF new
  <2>11. QED
    BY <2>3, <2>5, <2>8, <2>9, <2>10 DEF p, q
<1>3. QED
  BY <1>1, <1>2

(* What is given is the front of what is held, and has the same flags; the *)
(* rest stays.                                                             *)
LEMMA TakenInFront ==
  ASSUME NEW r \in Ring, NEW n \in Nat, NEW k, k = Given(r, n)
  PROVE  /\ k \in 0 .. Len(Held(r))
         /\ FirstChars(r, k) = SubSeq(Held(r), 1, k)
         /\ LET s == SubSeq(Held(r), 1, k)
            IN \A c \in Range(s) : c.flags = Head(s).flags
         /\ Held(CopyOut(r, n)) = SubSeq(Held(r), k + 1, Len(Held(r)))
<1> DEFINE b == SpaceBusy(r)
           q == Held(r)
           o == CopyOut(r, n)
           p == Held(o)
           g == FirstChars(r, k)
<1>1. /\ k \in Nat /\ k <= b
      /\ \A i \in 0 .. k - 1 : Nth(r, i).flags = r.slot[r.tail].flags
  BY GivenIs DEF Nth
<1>2. /\ b \in Nat /\ q \in Seq(Slot) /\ Len(q) = b
      /\ \A i \in 1 .. b : q[i] = Nth(r, i - 1)
  BY HeldIs
<1>3. /\ g \in Seq(Slot) /\ Len(g) = k
      /\ \A i \in 1 .. k : g[i] = Nth(r, i - 1)
  BY <1>1, FirstCharsIs
<1>4. /\ SpaceBusy(o) = b - k
      /\ \A i \in 0 .. b - k - 1 : Nth(o, i) = Nth(r, k + i)
  BY CopyOutLess
<1>5. /\ p \in Seq(Slot) /\ Len(p) = SpaceBusy(o)
      /\ \A i \in 1 .. SpaceBusy(o) : p[i] = Nth(o, i - 1)
  <2>1. o \in Ring
    BY CopyOutTyped
  <2> HIDE DEF o
  <2>2. QED
    BY <2>1, HeldIs
<1> HIDE DEF q, p, b, g, o
<1>6. g = SubSeq(q, 1, k)
  <2>1. Len(SubSeq(q, 1, k)) = k /\ SubSeq(q, 1, k) \in Seq(Slot)
    BY <1>1, <1>2
  <2>2. \A i \in 1 .. k : SubSeq(q, 1, k)[i] = g[i]
    BY <1>1, <1>2, <1>3
  <2>3. QED
    BY <1>3, <2>1, <2>2
<1>7. \A c \in Range(g) : c.flags = Head(g).flags
  <2>1. \A i \in 1 .. k : g[i].flags = r.slot[r.tail].flags
    <3> SUFFICES ASSUME NEW i \in 1 .. k PROVE g[i].flags = r.slot[r.tail].flags
      OBVIOUS
    <3>1. i - 1 \in 0 .. k - 1
      BY <1>1
    <3>2. QED
      BY <1>1, <1>3, <3>1
  <2>2. DOMAIN g = 1 .. k /\ (k # 0 => Head(g) = g[1] /\ 1 \in 1 .. k)
    BY <1>1, <1>3
  <2>3. k # 0 \/ 1 .. k = {}
    BY <1>1
  <2>4. QED
    BY <2>1, <2>2, <2>3 DEF Range
<1>8. k \in 0 .. Len(q)
  BY <1>1, <1>2
<1> DEFINE rest == SubSeq(q, k + 1, Len(q))
<1>9. /\ Len(rest) = b - k /\ rest \in Seq(Slot)
      /\ \A i \in 1 .. b - k : rest[i] = q[k + i]
  <2>1. k \in 0 .. b /\ b \in Nat /\ Len(q) = b /\ q \in Seq(Slot)
    BY <1>1, <1>2
  <2>2. Len(rest) = b - k /\ rest \in Seq(Slot)
    BY <2>1
  <2>3. \A i \in 1 .. b - k : rest[i] = q[k + i]
    BY <2>1
  <2>4. QED
    BY <2>2, <2>3
<1>10. \A i \in 1 .. b - k : p[i] = q[k + i]
  <2> SUFFICES ASSUME NEW i \in 1 .. b - k PROVE p[i] = q[k + i]
    OBVIOUS
  <2>1. i - 1 \in 0 .. b - k - 1 /\ k + i \in 1 .. b /\ k + (i - 1) = (k + i) - 1
    BY <1>1, <1>2
  <2>2. QED
    BY <1>2, <1>4, <1>5, <2>1
<1>11. p = rest
  <2> HIDE DEF rest
  <2>1. Len(p) = b - k
    BY <1>4, <1>5
  <2>2. QED
    BY <1>5, <1>9, <1>10, <2>1
<1>12. QED
  BY <1>6, <1>7, <1>8, <1>11 DEF q, g, p, o

(* Copying in is putting characters at the end of the queue, or nothing.   *)
LEMMA CopyinPuts ==
  ASSUME Checked, BufferTypeOK, BufferTypeOK', NEW bytes \in Texts,
         NEW f \in Flags, NEW overrun \in BOOLEAN, Copyin(bytes, f, overrun)
  PROVE  Queue!Put \/ UNCHANGED <<Held(ring), got>>
<1>1. /\ ring \in Ring /\ ring' \in Ring /\ got' = got
      /\ ring' = CopyIn(ring, bytes, f, overrun)
      /\ Len(bytes) = 1 \/ Len(bytes) <= SpaceFree(ring)
  BY DEF BufferTypeOK, Copyin
<1>2. PICK n \in Nat : n > 0 /\ bytes \in [1 .. n -> Bytes] /\ Len(bytes) = n
  BY BytesTyped
<1> DEFINE q == Held(ring)
           p == Held(ring')
           new == SubSeq(p, Len(q) + 1, Len(p))
<1>3. \/ p = q
      \/ /\ Len(p) \in Len(q) + 1 .. Size - 1
         /\ IsPrefix(q, p) /\ p \in Seq(Slot)
         /\ \A c \in Range(new) : c.flags = Head(new).flags
  BY <1>1, <1>2, PutBehind
<1>4. q = FirstChars(ring, SpaceBusy(ring)) /\ p = FirstChars(ring', SpaceBusy(ring'))
  BY DEF Held
<1> HIDE DEF q, p
<1>5. (\A c \in Range(new) : c.flags = Head(new).flags) => Queue!SameFlags(new)
  BY Zenon DEF Queue!SameFlags, Queue!Range, Range
<1>6. CASE p = q
  BY <1>1, <1>6 DEF p, q
<1>7. CASE p # q
  BY <1>1, <1>3, <1>4, <1>5, <1>7 DEF Queue!Put, Queue!IsPrefix, IsPrefix
<1>8. QED
  BY <1>6, <1>7

(* Copying out looks at the front of the queue, or takes it: characters    *)
(* that arrived with the same flags.                                       *)
LEMMA CopyoutTakes ==
  ASSUME BufferTypeOK, NEW n \in 0 .. MaxCount, NEW peek \in BOOLEAN, Copyout(n, peek)
  PROVE  Queue!Look \/ Queue!Take
<1> DEFINE k == Given(ring, n)
           q == Held(ring)
           p == Held(ring')
           s == SubSeq(q, 1, k)
<1>1. /\ ring \in Ring /\ n \in Nat /\ got' = FirstChars(ring, k)
      /\ ring' = IF peek THEN ring ELSE CopyOut(ring, n)
  BY DEF BufferTypeOK, Copyout
<1>2. /\ k \in 0 .. Len(q) /\ got' = s
      /\ \A c \in Range(s) : c.flags = Head(s).flags
      /\ p = IF peek THEN q ELSE SubSeq(q, k + 1, Len(q))
  BY <1>1, TakenInFront
<1>3. q = FirstChars(ring, SpaceBusy(ring)) /\ p = FirstChars(ring', SpaceBusy(ring'))
  BY DEF Held
<1> HIDE DEF q, p, k
<1>4. Queue!SameFlags(s)
  <2> HIDE DEF s
  <2>1. QED
    BY <1>2, Zenon DEF Queue!SameFlags, Queue!Range, Range
<1>5. Queue!Answer(k)
  BY <1>2, <1>3, <1>4 DEF Queue!Answer
<1>6. CASE peek
  BY <1>2, <1>3, <1>5, <1>6 DEF Queue!Look
<1>7. CASE ~peek
  BY <1>2, <1>3, <1>5, <1>7 DEF Queue!Take
<1>8. QED
  BY <1>6, <1>7

LEMMA InitQueue == BufferInit => Queue!Init
<1> SUFFICES ASSUME BufferInit PROVE Queue!Init
  OBVIOUS
<1>1. SpaceBusy(ring) = 0 /\ ring \in Ring /\ got = <<>>
  BY DEF BufferInit, SpaceBusy
<1>2. FirstChars(ring, 0) \in Seq(Slot) /\ Len(FirstChars(ring, 0)) = 0
  BY <1>1, FirstCharsIs
<1>3. FirstChars(ring, 0) = <<>>
  BY <1>2
<1>4. QED
  BY <1>1, <1>3 DEF Queue!Init

(* generic/serial.c: whoever asks for the free space, or copies in one     *)
(* character at a time, sees a bounded queue.  Nothing is lost, reordered  *)
(* or given twice where the pieces wrap around, and no answer mixes flags. *)
THEOREM QueueKept ==
  ASSUME Checked
  PROVE  BufferSpec => KeepsQueue
<1>1. BufferTypeOK /\ BufferTypeOK' /\ [BufferNext]_bufferVars
        => [Queue!Put \/ Queue!Look \/ Queue!Take]_<<Held(ring), got>>
  <2> SUFFICES ASSUME BufferTypeOK, BufferTypeOK', [BufferNext]_bufferVars
               PROVE  \/ Queue!Put \/ Queue!Look \/ Queue!Take
                      \/ UNCHANGED <<Held(ring), got>>
    OBVIOUS
  <2>1. CASE UNCHANGED bufferVars
    BY <2>1 DEF bufferVars
  <2>2. CASE BufferNext
    BY <2>2, CopyinPuts, CopyoutTakes DEF BufferNext
  <2>3. QED
    BY <2>1, <2>2
<1>2. QED
  BY <1>1, InitQueue, BufferTypeCorrect, PTL DEF BufferSpec, KeepsQueue, Queue!Spec, Held

-----------------------------------------------------------------------------
(* The loops of the code.  Pointers first.                                 *)

(* What a pointer is masked to is its distance from a multiple of the size. *)
LEMMA WrapOf ==
  ASSUME NEW q \in Int, NEW r \in 0 .. Size - 1
  PROVE  Wrap(Size * q + r) = r
<1> DEFINE x == Size * q + r
           p == x \div Size
           m == x % Size
           d == p - q
           t == Size * d
<1>1. Size \in Nat /\ Size > 0
  BY SizeAssumption
<1>2. x \in Int
  BY <1>1
<1>3. p \in Int /\ m \in 0 .. Size - 1 /\ x = Size * p + m
  <2> HIDE DEF x
  <2>1. QED
    BY <1>1, <1>2
<1>4. d \in Int
  BY <1>3
<1>5. t = r - m
  <2>1. Size * d = Size * p - Size * q
    <3> HIDE DEF p
    <3>1. QED
      BY <1>1, <1>3
  <2>2. Size * p \in Int /\ Size * q \in Int
    <3> HIDE DEF p
    <3>1. QED
      BY <1>1, <1>3
  <2> HIDE DEF p, m
  <2>3. QED
    BY <1>1, <1>3, <2>1, <2>2
<1>6. d >= 1 => t >= Size
  <2> HIDE DEF d
  <2>1. QED
    BY <1>1, <1>4
<1>7. d <= -1 => t <= -Size
  <2> HIDE DEF d
  <2>1. QED
    BY <1>1, <1>4
<1>8. d = 0
  <2> HIDE DEF d, t, m
  <2>1. QED
    BY <1>1, <1>3, <1>4, <1>5, <1>6, <1>7
<1>9. t = 0
  <2> HIDE DEF d
  <2>1. QED
    BY <1>1, <1>8
<1>10. m = r
  <2> HIDE DEF t, m
  <2>1. QED
    BY <1>1, <1>3, <1>5, <1>9
<1>11. QED
  BY <1>10 DEF Wrap

(* A pointer that goes on, up to the end of the buffer.                    *)
LEMMA WrapPlus ==
  ASSUME NEW i \in Int, NEW m \in Nat, Wrap(i) + m <= Size
  PROVE  Wrap(i + m) = IF Wrap(i) + m = Size THEN 0 ELSE Wrap(i) + m
<1> DEFINE q == i \div Size
           w == i % Size
<1>1. Size \in Nat /\ Size > 1
  BY SizeAssumption
<1>2. q \in Int /\ w \in 0 .. Size - 1 /\ i = Size * q + w /\ Size * q \in Int
  BY <1>1
<1>3. Wrap(i) = w
  BY DEF Wrap
<1> HIDE DEF q, w
<1>4. w \in Int /\ w + m <= Size
  BY <1>1, <1>2, <1>3
<1>5. CASE w + m < Size
  <2>1. w + m \in 0 .. Size - 1 /\ i + m = Size * q + (w + m)
    BY <1>1, <1>2, <1>5
  <2>2. Wrap(i + m) = w + m
    BY <1>2, <2>1, WrapOf
  <2>3. QED
    BY <1>1, <1>3, <1>4, <1>5, <2>2
<1>6. CASE w + m = Size
  <2>1. Size * (q + 1) = Size * q + Size
    BY <1>1, <1>2
  <2>2. i + m = Size * (q + 1) + 0 /\ q + 1 \in Int /\ 0 \in 0 .. Size - 1
    BY <1>1, <1>2, <1>6, <2>1
  <2>3. Wrap(i + m) = 0
    BY <2>2, WrapOf
  <2>4. QED
    BY <1>1, <1>3, <1>4, <1>6, <2>3
<1>7. QED
  BY <1>1, <1>4, <1>5, <1>6

-----------------------------------------------------------------------------
(* The turns of the loop of copyin, as they follow one another.            *)

(* A turn copies one character or more, up to the end of the buffer or to  *)
(* the slot before the tail, and no more than the closed form takes.       *)
LEMMA PieceFits ==
  ASSUME NEW r \in Ring, NEW n \in Nat, NEW done \in 0 .. Taken(r, n), done < n,
         NEW h, h = Wrap(r.head + done), Wrap(h + 1) # r.tail,
         r.tail = 0 => done = 0 \/ h = 0,
         NEW sp, sp = IF h >= r.tail THEN Size - h ELSE r.tail - h - 1,
         NEW k, k = Min({sp, n - done})
  PROVE  /\ k \in Nat /\ k > 0 /\ sp > 0 /\ k <= n - done /\ h + k <= Size
         /\ done + k \in 0 .. Taken(r, n)
         /\ Wrap(r.head + (done + k)) = Wrap(h + k)
         /\ r.tail = 0 => done + k = n \/ Wrap(h + k) = 0
<1>1. /\ r.head \in 0 .. Size - 1 /\ r.tail \in 0 .. Size - 1
      /\ Size \in Nat /\ Size > 1 /\ done \in Nat
  BY SizeAssumption, TakenIs DEF Ring
<1>2. h \in 0 .. Size - 1 /\ (done = 0 => h = r.head)
  BY <1>1, WrapIs
<1>3. ~IsFull(r)
  <2>1. SUFFICES ASSUME IsFull(r) PROVE FALSE
    OBVIOUS
  <2>2. done = 0
    BY <2>1 DEF Taken
  <2>3. QED
    BY <1>2, <2>1, <2>2 DEF IsFull
<1>4. /\ sp \in Int /\ n - done \in Nat
      /\ k = IF sp <= n - done THEN sp ELSE n - done
  <2>1. sp \in Int /\ n - done \in Nat
    BY <1>1, <1>2
  <2>2. QED
    BY <2>1, MinOfTwo
<1>5. sp > 0 /\ h + sp <= Size /\ done + k \in 0 .. Taken(r, n)
  <2>1. CASE r.tail = 0
    BY <1>1, <1>2, <1>3, <1>4, <2>1 DEF Taken
  <2>2. CASE r.tail # 0
    <3> DEFINE free == SpaceFree(r)
    <3>1. free = IF r.head >= r.tail THEN Size - 1 - r.head + r.tail
                 ELSE r.tail - r.head - 1
      BY <1>1 DEF SpaceFree, SpaceBusy
    <3>2. Taken(r, n) = IF n <= free THEN n ELSE free
      <4>1. free \in Int
        BY <1>1, <3>1
      <4>2. QED
        BY <1>3, <2>2, <4>1, MinOfTwo DEF Taken
    <3> HIDE DEF free
    <3>3. done <= free
      BY <1>1, <3>1, <3>2
    <3>4. h = IF r.head + done < Size THEN r.head + done ELSE r.head + done - Size
      <4>1. r.head + done \in 0 .. Size + Size - 1
        BY <1>1, <3>1, <3>3
      <4>2. QED
        BY <1>1, <4>1, WrapOnce
    <3>5. h < r.tail => h + 1 # r.tail
      BY <1>1, <1>2, WrapIs
    <3>6. sp > 0 /\ done + sp <= free
      <4>1. CASE h >= r.tail
        <5>1. sp = Size - h
          BY <1>1, <1>2, <4>1
        <5>2. r.head + done < Size /\ h = r.head + done /\ r.head >= r.tail
          BY <1>1, <3>1, <3>3, <3>4, <4>1
        <5>3. QED
          BY <1>1, <2>2, <3>1, <5>1, <5>2
      <4>2. CASE h < r.tail
        <5>1. sp = r.tail - h - 1
          BY <1>1, <1>2, <4>2
        <5>2. done + sp = free
          BY <1>1, <3>1, <3>3, <3>4, <4>2, <5>1
        <5>3. QED
          BY <1>1, <1>2, <3>3, <3>5, <4>2, <5>1, <5>2
      <4>3. QED
        BY <1>1, <1>2, <4>1, <4>2
    <3>7. QED
      BY <1>1, <1>2, <1>4, <3>1, <3>2, <3>6
  <2>3. QED
    BY <2>1, <2>2
<1>6. Wrap(r.head + (done + k)) = Wrap(h + k)
  <2>1. r.head + done \in Int /\ k \in Nat /\ h + k <= Size
    BY <1>1, <1>2, <1>4, <1>5
  <2>2. (r.head + done) + k = r.head + (done + k)
    BY <1>1, <2>1
  <2>3. Wrap((r.head + done) + k) = IF h + k = Size THEN 0 ELSE h + k
    BY <2>1, WrapPlus
  <2>4. Wrap(h) = h
    BY <1>2, WrapIs
  <2>5. Wrap(h + k) = IF h + k = Size THEN 0 ELSE h + k
    BY <1>2, <2>1, <2>4, WrapPlus
  <2>6. QED
    BY <2>2, <2>3, <2>5
<1>7. r.tail = 0 => done + k = n \/ Wrap(h + k) = 0
  <2>1. SUFFICES ASSUME r.tail = 0, k = Size - h PROVE Wrap(h + k) = 0
    BY <1>1, <1>2, <1>4
  <2>2. h + k = 0 + Size /\ Wrap(0) = 0 /\ Wrap(0) + Size <= Size
    BY <1>1, <1>2, <2>1, WrapIs
  <2>3. Wrap(0 + Size) = 0
    BY <1>1, <2>2, WrapPlus
  <2>4. QED
    BY <2>2, <2>3
<1>8. /\ k \in Nat /\ k > 0 /\ k <= n - done /\ h + k <= Size
  <2>1. n - done > 0
    BY <1>1
  <2>2. (k = sp /\ sp <= n - done) \/ (k = n - done /\ n - done <= sp)
    BY <1>4
  <2>3. k \in Int /\ k > 0 /\ k <= n - done /\ k <= sp
    BY <1>4, <1>5, <2>1, <2>2
  <2>4. QED
    BY <1>1, <1>2, <1>4, <1>5, <2>3
<1>9. QED
  BY <1>5, <1>6, <1>7, <1>8

(* The loop ends where the closed form does.                               *)
LEMMA LastTurn ==
  ASSUME NEW r \in Ring, NEW n \in Nat, NEW done \in 0 .. Taken(r, n),
         NEW h, h = Wrap(r.head + done),
         r.tail = 0 => done = 0 \/ done = n \/ h = 0,
         done = n \/ Wrap(h + 1) = r.tail
  PROVE  done = Taken(r, n)
<1>1. /\ r.head \in 0 .. Size - 1 /\ r.tail \in 0 .. Size - 1
      /\ Size \in Nat /\ Size > 1 /\ done \in Nat /\ Taken(r, n) \in 0 .. n
  BY SizeAssumption, TakenIs DEF Ring
<1>2. h \in 0 .. Size - 1 /\ (done = 0 => h = r.head)
  BY <1>1, WrapIs
<1>3. CASE done = n
  BY <1>1, <1>3
<1>4. CASE IsFull(r)
  BY <1>1, <1>4 DEF Taken
<1>5. CASE done # n /\ ~IsFull(r)
  <2>1. Wrap(h + 1) = r.tail
    BY <1>5
  <2>2. done # 0
    BY <1>2, <1>5, <2>1 DEF IsFull
  <2>3. r.tail # 0
    <3>1. SUFFICES ASSUME r.tail = 0 PROVE FALSE
      OBVIOUS
    <3>2. h = 0
      BY <1>5, <2>2, <3>1
    <3>3. Wrap(1) = 1
      BY <1>1, WrapIs
    <3>4. QED
      BY <2>1, <3>1, <3>2, <3>3
  <2> DEFINE free == SpaceFree(r)
  <2>4. free = IF r.head >= r.tail THEN Size - 1 - r.head + r.tail
               ELSE r.tail - r.head - 1
    BY <1>1 DEF SpaceFree, SpaceBusy
  <2>5. Taken(r, n) = IF n <= free THEN n ELSE free
    <3>1. free \in Int
      BY <1>1, <2>4
    <3>2. QED
      BY <1>5, <2>3, <3>1, MinOfTwo DEF Taken
  <2> HIDE DEF free
  <2>6. done <= free
    BY <1>1, <2>4, <2>5
  <2>7. h = IF r.head + done < Size THEN r.head + done ELSE r.head + done - Size
    <3>1. r.head + done \in 0 .. Size + Size - 1
      BY <1>1, <2>4, <2>6
    <3>2. QED
      BY <1>1, <3>1, WrapOnce
  <2>8. h + 1 = r.tail \/ (h + 1 = Size /\ r.tail = 0)
    <3>1. h + 1 \in 0 .. Size + Size - 1
      BY <1>1, <1>2
    <3>2. Wrap(h + 1) = IF h + 1 < Size THEN h + 1 ELSE h + 1 - Size
      BY <1>1, <1>2, <3>1, WrapOnce
    <3>3. QED
      BY <1>1, <1>2, <2>1, <3>2
  <2>9. QED
    BY <1>1, <1>2, <2>3, <2>4, <2>5, <2>6, <2>7, <2>8
<1>6. QED
  BY <1>3, <1>4, <1>5

(* A piece that is stored from the head on: each of its slots gets the     *)
(* last of the characters that came to it so far, the others keep theirs.  *)
LEMMA PieceStored ==
  ASSUME NEW r \in Ring, NEW data, NEW flags, NEW done \in Nat, NEW k \in Nat,
         NEW h, h = Wrap(r.head + done), h + k <= Size
  PROVE  \A i \in 0 .. Size - 1 :
           SlotsAfter(r, data, flags, done + k)[i]
             = IF i \in h .. h + k - 1
               THEN [byte |-> data[done + 1 + (i - h)], flags |-> flags]
               ELSE SlotsAfter(r, data, flags, done)[i]
<1> DEFINE at(m, i) == {j \in 1 .. m : Wrap(r.head + j - 1) = i}
           new(i) == IF i \in h .. h + k - 1
                     THEN [byte |-> data[done + 1 + (i - h)], flags |-> flags]
                     ELSE SlotsAfter(r, data, flags, done)[i]
<1>1. Size \in Nat /\ Size > 1 /\ r.head \in Int /\ r.head + done \in Int
  BY SizeAssumption DEF Ring
<1>2. h \in 0 .. Size - 1
  BY <1>1, WrapIs
<1>3. ASSUME NEW j \in done + 1 .. done + k
      PROVE  Wrap(r.head + j - 1) = h + (j - done - 1)
  <2> DEFINE m == j - done - 1
  <2>1. m \in Nat /\ h + m < Size /\ r.head + j - 1 = (r.head + done) + m
    BY <1>1, <1>2
  <2> HIDE DEF m
  <2>2. Wrap((r.head + done) + m) = h + m
    BY <1>1, <1>2, <2>1, WrapPlus
  <2>3. QED
    BY <2>1, <2>2 DEF m
<1>4. ASSUME NEW i \in 0 .. Size - 1, i \in h .. h + k - 1
      PROVE  /\ at(done + k, i) # {}
             /\ Max(at(done + k, i)) = done + 1 + (i - h)
  <2> DEFINE last == done + 1 + (i - h)
  <2>1. /\ last \in done + 1 .. done + k /\ last \in 1 .. done + k
        /\ h + (last - done - 1) = i
    BY <1>2, <1>4
  <2> HIDE DEF last
  <2>2. last \in at(done + k, i)
    BY <1>3, <2>1
  <2>3. \A j \in at(done + k, i) : j <= last
    <3> SUFFICES ASSUME NEW j \in at(done + k, i), j > last PROVE FALSE
      BY <2>1
    <3>1. j \in done + 1 .. done + k /\ Wrap(r.head + j - 1) = i
      BY <2>1
    <3>2. h + (j - done - 1) = i
      BY <1>3, <3>1
    <3>3. QED
      BY <1>2, <2>1, <3>1, <3>2
  <2>4. at(done + k, i) \in SUBSET (0 .. done + k) /\ done + k \in Nat
    BY <1>1
  <2> HIDE DEF at
  <2>5. Max(at(done + k, i)) \in at(done + k, i)
        /\ last <= Max(at(done + k, i))
    BY <2>2, <2>4, GreatestExists
  <2>6. Max(at(done + k, i)) <= last /\ Max(at(done + k, i)) \in Int
    BY <2>3, <2>4, <2>5
  <2>7. QED
    BY <2>1, <2>2, <2>5, <2>6 DEF last
<1>5. ASSUME NEW i \in 0 .. Size - 1, i \notin h .. h + k - 1
      PROVE  at(done + k, i) = at(done, i)
  <2>1. ASSUME NEW j \in 1 .. done + k, j \notin 1 .. done, Wrap(r.head + j - 1) = i
        PROVE  FALSE
    <3>1. j \in done + 1 .. done + k
      BY <2>1
    <3>2. h + (j - done - 1) = i
      BY <1>3, <2>1, <3>1
    <3>3. QED
      BY <1>2, <1>5, <3>1, <3>2
  <2>2. \A j \in 1 .. done : j \in 1 .. done + k
    BY <1>1
  <2>3. QED
    BY <2>1, <2>2
<1>6. \A m : SlotsAfter(r, data, flags, m)
            = [i \in 0 .. Size - 1 |->
                 IF at(m, i) # {} THEN [byte |-> data[Max(at(m, i))], flags |-> flags]
                 ELSE r.slot[i]]
  BY DEF SlotsAfter
<1> HIDE DEF at
<1>7. ASSUME NEW i \in 0 .. Size - 1
      PROVE  (IF at(done + k, i) # {}
              THEN [byte |-> data[Max(at(done + k, i))], flags |-> flags]
              ELSE r.slot[i]) = new(i)
  <2>1. CASE i \in h .. h + k - 1
    BY <1>4, <2>1
  <2>2. CASE i \notin h .. h + k - 1
    <3>1. SlotsAfter(r, data, flags, done)[i]
            = IF at(done, i) # {} THEN [byte |-> data[Max(at(done, i))], flags |-> flags]
              ELSE r.slot[i]
      BY <1>6
    <3>2. QED
      BY <1>5, <2>2, <3>1
  <2>3. QED
    BY <2>1, <2>2
<1>8. QED
  BY <1>6, <1>7

-----------------------------------------------------------------------------
(* The turns of the loop of copyout.                                       *)

LEMMA GivenMost ==
  ASSUME NEW r \in Ring, NEW n \in Nat, NEW k \in Nat, k <= n, k <= SpaceBusy(r),
         \A i \in 0 .. k - 1 : r.slot[Wrap(r.tail + i)].flags = r.slot[r.tail].flags
  PROVE  k <= Given(r, n)
<1> DEFINE m == Min({n, SpaceBusy(r)})
           S == {j \in 0 .. m : \A i \in 0 .. j - 1 :
                   r.slot[Wrap(r.tail + i)].flags = r.slot[r.tail].flags}
<1>1. SpaceBusy(r) \in Nat
  BY BusyIs, SizeAssumption
<1>2. m \in Nat /\ k <= m
  BY <1>1, MinOfTwo
<1> HIDE DEF m
<1>3. k \in S /\ S \in SUBSET (0 .. m) /\ S # {}
  BY <1>2
<1> HIDE DEF S
<1>4. k <= Max(S)
  BY <1>2, <1>3, GreatestExists
<1>5. QED
  BY <1>4 DEF Given, S, m

(* A turn gives characters up to the end of the buffer, to the head, or to *)
(* the first with other flags; and where it gives none, all was given.     *)
LEMMA PieceGives ==
  ASSUME NEW r \in Ring, NEW n \in Nat, NEW done \in 0 .. Given(r, n), done < n,
         NEW t, t = Wrap(r.tail + done), t # r.head,
         NEW c, c = IF t > r.head THEN Size - t ELSE r.head - t,
         NEW k, k = Alike(r.slot, t, Min({c, n - done}), r.slot[r.tail].flags)
  PROVE  /\ c > 0 /\ k \in Nat /\ k <= n - done /\ t + k <= Size
         /\ \A i \in t .. t + k - 1 : r.slot[i].flags = r.slot[r.tail].flags
         /\ \A i \in 0 .. k - 1 : Wrap(r.tail + (done + i)) = t + i
         /\ done + k \in 0 .. Given(r, n)
         /\ Wrap(r.tail + (done + k)) = Wrap(t + k)
         /\ k = 0 => done = Given(r, n)
<1> DEFINE b == SpaceBusy(r)
           g == Given(r, n)
           fl == r.slot[r.tail].flags
           m == Min({c, n - done})
           S == {j \in 0 .. m : \A i \in t .. t + j - 1 : r.slot[i].flags = fl}
<1>1. /\ r.head \in 0 .. Size - 1 /\ r.tail \in 0 .. Size - 1
      /\ Size \in Nat /\ Size > 1 /\ b \in 0 .. Size - 1
      /\ r.head = Wrap(r.tail + b)
      /\ b = IF r.head >= r.tail THEN r.head - r.tail ELSE Size - (r.tail - r.head)
  <2>1. r.head \in 0 .. Size - 1 /\ r.tail \in 0 .. Size - 1 /\ Size \in Nat /\ Size > 1
    BY SizeAssumption DEF Ring
  <2>2. b \in 0 .. Size - 1 /\ r.head = Wrap(r.tail + b)
    BY BusyIs, HeadIs
  <2>3. b = IF r.head >= r.tail THEN r.head - r.tail ELSE Size - (r.tail - r.head)
    BY DEF SpaceBusy
  <2> HIDE DEF b
  <2>4. QED
    BY <2>1, <2>2, <2>3
<1>2. /\ g \in 0 .. n /\ g <= b
      /\ \A i \in 0 .. g - 1 : r.slot[Wrap(r.tail + i)].flags = fl
  BY GivenIs
<1> HIDE DEF b, g, fl
<1>3. done \in Nat /\ done <= g /\ n - done \in Nat /\ n - done > 0
  BY <1>2 DEF g
<1>4. t = IF r.tail + done < Size THEN r.tail + done ELSE r.tail + done - Size
  <2>1. r.tail + done \in 0 .. Size + Size - 1
    BY <1>1, <1>2, <1>3
  <2>2. QED
    BY <1>1, <2>1, WrapOnce
<1>5. done < b
  <2>1. done # b
    BY <1>1
  <2>2. g \in Int /\ b \in Int /\ done \in Int /\ done <= g /\ g <= b
    BY <1>1, <1>2, <1>3
  <2>3. QED
    BY <2>1, <2>2
<1>6. /\ t \in 0 .. Size - 1 /\ c \in Nat /\ c > 0 /\ t + c <= Size /\ done + c <= b
  BY <1>1, <1>3, <1>4, <1>5
<1>7. m \in Nat /\ m > 0 /\ m <= c /\ m <= n - done
  <2>1. m = IF c <= n - done THEN c ELSE n - done
    BY <1>3, <1>6, MinOfTwo
  <2>2. (m = c /\ c <= n - done) \/ (m = n - done /\ n - done <= c)
    BY <1>3, <1>6, <2>1
  <2> HIDE DEF m
  <2>3. QED
    BY <1>3, <1>6, <2>2
<1>8. k = Max(S)
  BY DEF fl, Alike
<1> HIDE DEF m
<1>9. 0 \in S /\ S \in SUBSET (0 .. m)
  BY <1>6, <1>7
<1>10. \A j \in S : \A i \in t .. t + j - 1 : r.slot[i].flags = fl
  OBVIOUS
<1>11. r.slot[t].flags = fl => 1 \in S
  BY <1>6, <1>7
<1> HIDE DEF S
<1>12. k \in S /\ k \in 0 .. m /\ \A j \in S : j <= k
  BY <1>7, <1>8, <1>9, GreatestExists
<1>13. k \in Nat /\ k <= n - done /\ t + k <= Size /\ done + k <= b /\ done + k <= n
  <2>1. k \in Nat /\ k <= m
    BY <1>7, <1>12
  <2>2. QED
    BY <1>1, <1>3, <1>6, <1>7, <2>1
<1>14. ASSUME NEW i \in 0 .. k, t + i < Size
       PROVE  Wrap(r.tail + (done + i)) = t + i
  <2> DEFINE p == r.tail + done
  <2>1. r.tail + (done + i) = p + i /\ p \in Int /\ i \in Nat /\ Wrap(p) = t
    BY <1>1, <1>3, <1>13
  <2> HIDE DEF p
  <2>2. Wrap(p) + i <= Size /\ Wrap(p) + i # Size
    BY <1>1, <1>6, <1>14, <2>1
  <2>3. Wrap(p + i) = Wrap(p) + i
    BY <2>1, <2>2, WrapPlus
  <2>4. QED
    BY <2>1, <2>3
<1>15. \A i \in 0 .. k - 1 : Wrap(r.tail + (done + i)) = t + i
  <2> SUFFICES ASSUME NEW i \in 0 .. k - 1 PROVE Wrap(r.tail + (done + i)) = t + i
    OBVIOUS
  <2>1. i \in 0 .. k /\ t + i < Size
    BY <1>1, <1>6, <1>13
  <2>2. QED
    BY <1>14, <2>1
<1>16. \A i \in 0 .. (done + k) - 1 : r.slot[Wrap(r.tail + i)].flags = fl
  <2> SUFFICES ASSUME NEW i \in 0 .. (done + k) - 1
               PROVE  r.slot[Wrap(r.tail + i)].flags = fl
    OBVIOUS
  <2>1. CASE i < done
    <3>1. i \in 0 .. g - 1
      BY <1>2, <1>3, <2>1
    <3>2. QED
      BY <1>2, <3>1
  <2>2. CASE i >= done
    <3>1. /\ i - done \in 0 .. k - 1 /\ done + (i - done) = i
          /\ t + (i - done) \in t .. t + k - 1
      BY <1>3, <1>6, <1>13, <2>2
    <3>2. Wrap(r.tail + i) = t + (i - done)
      BY <1>15, <3>1
    <3>3. QED
      BY <1>10, <1>12, <3>1, <3>2
  <2>3. QED
    BY <1>3, <1>13, <2>1, <2>2
<1>17. done + k <= g /\ done + k \in Nat
  <2> DEFINE z == done + k
  <2>1. z \in Nat /\ z <= n /\ z <= b
    BY <1>3, <1>13
  <2>2. \A i \in 0 .. z - 1 : r.slot[Wrap(r.tail + i)].flags = fl
    BY <1>16
  <2> HIDE DEF z
  <2>3. z <= Given(r, n)
    BY <2>1, <2>2, GivenMost DEF b, fl
  <2>4. QED
    BY <2>1, <2>3 DEF z, g
<1>18. k = 0 => done = g
  <2> SUFFICES ASSUME k = 0, done < g PROVE FALSE
    BY <1>2, <1>3
  <2>1. done \in 0 .. g - 1
    BY <1>2, <1>3
  <2>2. r.slot[t].flags = fl
    BY <1>2, <2>1
  <2>3. 1 <= k
    BY <1>11, <1>12, <2>2
  <2>4. QED
    BY <2>3
<1>19. Wrap(r.tail + (done + k)) = Wrap(t + k)
  <2>1. r.tail + (done + k) = (r.tail + done) + k /\ r.tail + done \in Int
    BY <1>1, <1>3, <1>13
  <2>2. Wrap((r.tail + done) + k) = IF t + k = Size THEN 0 ELSE t + k
    BY <1>13, <2>1, WrapPlus
  <2>3. Wrap(t) = t
    BY <1>6, WrapIs
  <2>4. Wrap(t + k) = IF t + k = Size THEN 0 ELSE t + k
    BY <1>6, <1>13, <2>3, WrapPlus
  <2>5. QED
    BY <2>1, <2>2, <2>4
<1>20. \A i \in t .. t + k - 1 : r.slot[i].flags = r.slot[r.tail].flags
  BY <1>10, <1>12 DEF fl
<1>21. /\ done + k \in 0 .. Given(r, n)
       /\ k = 0 => done = Given(r, n)
  <2>1. g \in Int
    BY <1>2
  <2>2. done + k \in 0 .. g
    BY <1>17, <2>1
  <2>3. QED
    BY <1>18, <2>2 DEF g
<1>22. QED
  BY <1>6, <1>13, <1>15, <1>19, <1>20, <1>21

-----------------------------------------------------------------------------
(* The steps of the loops.  The operations of the instance are those of    *)
(* SerialRing.                                                             *)

LEMMA SameCopyIn ==
  ASSUME NEW r, NEW bytes, NEW flags, NEW overrun
  PROVE  Atomic!CopyIn(r, bytes, flags, overrun) = CopyIn(r, bytes, flags, overrun)
BY DEF CopyIn, Taken, SpaceFree, SpaceBusy, IsFull, Wrap, Min, Max,
       Atomic!CopyIn, Atomic!Taken, Atomic!SpaceFree, Atomic!SpaceBusy, Atomic!IsFull,
       Atomic!Wrap, Atomic!Min, Atomic!Max

LEMMA SameGiven ==
  ASSUME NEW r, NEW n
  PROVE  /\ Atomic!Given(r, n) = Given(r, n)
         /\ Atomic!FirstChars(r, n) = FirstChars(r, n)
         /\ Atomic!CopyOut(r, n) = CopyOut(r, n)
BY DEF Given, FirstChars, CopyOut, SpaceBusy, Wrap, Min, Max,
       Atomic!Given, Atomic!FirstChars, Atomic!CopyOut, Atomic!SpaceBusy, Atomic!Wrap,
       Atomic!Min, Atomic!Max

LEMMA InShape ==
  ASSUME LoopTypeOK, call.op = "copyin"
  PROVE  /\ call.before \in Ring /\ call.head \in 0 .. Size - 1 /\ call.resid \in Nat
         /\ call.data \in Inputs /\ call.flags \in Flags /\ call.overrun \in BOOLEAN
         /\ call \in [op : {"copyin"}, before : Ring, head : 0 .. Size - 1, resid : Nat,
             data : Inputs, flags : Flags, overrun : BOOLEAN]
BY DEF LoopTypeOK, NoCall

LEMMA OutShape ==
  ASSUME LoopTypeOK, call.op = "copyout"
  PROVE  /\ call.before \in Ring /\ call.tail \in 0 .. Size - 1 /\ call.resid \in Nat
         /\ call.count \in 0 .. MaxAsk /\ call.peek \in BOOLEAN /\ call.data \in Seq(Slot)
         /\ call \in [op : {"copyout"}, before : Ring, tail : 0 .. Size - 1, resid : Nat,
             count : 0 .. MaxAsk, peek : BOOLEAN, data : Seq(Slot),
             flags : {s.flags : s \in Slot}]
BY DEF LoopTypeOK, NoCall

LEMMA DoneIs ==
  ASSUME NEW n \in Nat, NEW resid \in Nat, NEW m \in 0 .. n, n - resid \in 0 .. m
  PROVE  /\ n - resid \in Nat /\ n - resid <= n /\ n - (n - resid) = resid
         /\ resid = 0 <=> n - resid = n
         /\ resid > 0 <=> n - resid < n
OBVIOUS

LEMMA InputsTyped ==
  ASSUME NEW data \in Inputs
  PROVE  Len(data) \in Nat /\ data \in [1 .. Len(data) -> Bytes]
BY InputsAssumption

LEMMA LoopsInvInit == LoopsInit => LoopInv /\ Atomic!BufferInit
BY DEF LoopsInit, LoopInv, LoopTypeOK, InSoFar, OutSoFar, NoCall, Atomic!BufferInit, Seen,
  Ring, Slot, Atomic!Ring, Atomic!Slot

(* The abstract step of a step: what the call does as it ends, or nothing. *)
CallStep ==
  \/ call.op = "copyin" /\ Atomic!Copyin(call.data, call.flags, call.overrun)
  \/ call.op = "copyout" /\ Atomic!Copyout(call.count, call.peek)
  \/ UNCHANGED <<Seen, given>>

(* What is left to copy gets less.                                         *)
TurnShortens == call'.resid \in 0 .. call.resid - 1

LEMMA StartInKeeps ==
  ASSUME LoopInv, NEW data \in Inputs, NEW flags \in Flags, NEW overrun \in BOOLEAN,
         StartIn(data, flags, overrun)
  PROVE  LoopInv' /\ CallStep
<1> DEFINE c == [op |-> "copyin", before |-> buffer, head |-> buffer.head,
                 resid |-> Len(data), data |-> data, flags |-> flags, overrun |-> overrun]
<1>1. /\ call.op = "none" /\ call' = c /\ buffer' = buffer /\ given' = given
      /\ buffer \in Ring /\ given \in Seq(Slot) /\ Len(data) \in Nat
  BY InputsTyped DEF StartIn, LoopInv, LoopTypeOK
<1>2. /\ c.op = "copyin" /\ c.before = buffer /\ c.head = buffer.head
      /\ c.resid = Len(data) /\ c.data = data
      /\ c \in [op : {"copyin"}, before : Ring, head : 0 .. Size - 1, resid : Nat,
                 data : Inputs, flags : Flags, overrun : BOOLEAN]
  BY <1>1 DEF Ring
<1> HIDE DEF c
<1>3. LoopTypeOK'
  BY <1>1, <1>2 DEF LoopTypeOK
<1>4. InSoFar'
  <2>1. Len(data) - Len(data) = 0 /\ 0 \in 0 .. Taken(buffer, Len(data))
    BY <1>1, TakenIs
  <2>2. buffer.head = Wrap(buffer.head + 0)
    <3>1. buffer.head \in 0 .. Size - 1 /\ buffer.head + 0 = buffer.head
      BY <1>1, SizeAssumption DEF Ring
    <3>2. QED
      BY <3>1, WrapIs, SizeAssumption
  <2>3. \A f : buffer = [buffer EXCEPT !.slot = SlotsAfter(buffer, data, f, 0)]
    <3>1. \A f : SlotsAfter(buffer, data, f, 0) = [i \in 0 .. Size - 1 |-> buffer.slot[i]]
      BY DEF SlotsAfter
    <3>2. buffer.slot = [i \in 0 .. Size - 1 |-> buffer.slot[i]]
      BY <1>1 DEF Ring
    <3>3. QED
      BY <1>1, <3>1, <3>2 DEF Ring
  <2>4. QED
    BY <1>1, <1>2, <2>1, <2>2, <2>3 DEF InSoFar
<1>5. OutSoFar'
  BY <1>1, <1>2 DEF OutSoFar
<1>6. CallStep
  BY <1>1, <1>2 DEF CallStep, Seen
<1>7. QED
  BY <1>3, <1>4, <1>5, <1>6 DEF LoopInv

LEMMA StartOutKeeps ==
  ASSUME LoopInv, NEW n \in 0 .. MaxAsk, NEW peek \in BOOLEAN, StartOut(n, peek)
  PROVE  LoopInv' /\ CallStep
<1> DEFINE c == [op |-> "copyout", before |-> buffer, tail |-> buffer.tail,
                 resid |-> n, count |-> n, peek |-> peek, data |-> <<>>,
                 flags |-> buffer.slot[buffer.tail].flags]
<1>1. /\ call.op = "none" /\ call' = c /\ buffer' = buffer /\ given' = given
      /\ buffer \in Ring /\ given \in Seq(Slot) /\ n \in Nat
  BY DEF StartOut, LoopInv, LoopTypeOK
<1>2. buffer.slot[buffer.tail].flags \in {s.flags : s \in Slot}
  BY <1>1 DEF Ring
<1>3. /\ c.op = "copyout" /\ c.before = buffer /\ c.tail = buffer.tail
      /\ c.resid = n /\ c.count = n /\ c.data = <<>>
      /\ c.flags = buffer.slot[buffer.tail].flags
      /\ c \in [op : {"copyout"}, before : Ring, tail : 0 .. Size - 1, resid : Nat,
                 count : 0 .. MaxAsk, peek : BOOLEAN, data : Seq(Slot),
                 flags : {s.flags : s \in Slot}]
  <2>1. <<>> \in Seq(Slot) /\ buffer.tail \in 0 .. Size - 1
    BY <1>1 DEF Ring
  <2>2. QED
    BY <1>1, <1>2, <2>1
<1> HIDE DEF c
<1>4. LoopTypeOK'
  BY <1>1, <1>3 DEF LoopTypeOK
<1>5. OutSoFar'
  <2>1. n - n = 0 /\ 0 \in 0 .. Given(buffer, n)
    BY <1>1, GivenIs
  <2>2. buffer.tail = Wrap(buffer.tail + 0)
    <3>1. buffer.tail \in 0 .. Size - 1 /\ buffer.tail + 0 = buffer.tail
      BY <1>1, SizeAssumption DEF Ring
    <3>2. QED
      BY <3>1, WrapIs, SizeAssumption
  <2>3. FirstChars(buffer, 0) = <<>>
    <3>1. FirstChars(buffer, 0) \in Seq(Slot) /\ Len(FirstChars(buffer, 0)) = 0
      BY <1>1, FirstCharsIs
    <3>2. QED
      BY <3>1
  <2>4. QED
    BY <1>1, <1>3, <2>1, <2>2, <2>3 DEF OutSoFar
<1>6. InSoFar'
  BY <1>1, <1>3 DEF InSoFar
<1>7. CallStep
  BY <1>1, <1>3 DEF CallStep, Seen
<1>8. QED
  BY <1>4, <1>5, <1>6, <1>7 DEF LoopInv

LEMMA InPieceKeeps ==
  ASSUME LoopInv, InPiece
  PROVE  LoopInv' /\ CallStep /\ TurnShortens
<1> DEFINE r == call.before
           data == call.data
           n == Len(data)
           h == call.head
           k == InPieceLen
           done == n - call.resid
           slot == [i \in 0 .. Size - 1 |->
                      IF i \in h .. h + k - 1
                      THEN [byte |-> data[done + 1 + (i - h)], flags |-> call.flags]
                      ELSE buffer.slot[i]]
           c == [call EXCEPT !.head = Wrap(h + k), !.resid = call.resid - k]
<1>1. /\ call.op = "copyin" /\ call.resid > 0 /\ Wrap(h + 1) # buffer.tail
      /\ buffer' = [buffer EXCEPT !.slot = slot] /\ call' = c /\ given' = given
  BY DEF InPiece, HeadBlocked
<1>2. /\ r \in Ring /\ h \in 0 .. Size - 1 /\ call.resid \in Nat /\ data \in Inputs
      /\ call.flags \in Flags /\ call.overrun \in BOOLEAN
      /\ call \in [op : {"copyin"}, before : Ring, head : 0 .. Size - 1, resid : Nat,
                    data : Inputs, flags : Flags, overrun : BOOLEAN]
      /\ n \in Nat /\ data \in [1 .. n -> Bytes]
      /\ buffer \in Ring /\ given \in Seq(Slot)
  BY <1>1, InShape, InputsTyped DEF LoopInv, LoopTypeOK
<1>3. /\ done \in 0 .. Taken(r, n) /\ h = Wrap(r.head + done)
      /\ r.tail = 0 => done = 0 \/ call.resid = 0 \/ h = 0
      /\ buffer = [r EXCEPT !.slot = SlotsAfter(r, data, call.flags, done)]
  BY <1>1 DEF LoopInv, InSoFar
<1>4. /\ buffer.tail = r.tail /\ buffer.head = r.head
      /\ buffer.slot = SlotsAfter(r, data, call.flags, done)
  BY <1>2, <1>3 DEF Ring
<1>5. done \in Nat /\ done < n /\ n - done = call.resid
  <2>1. Taken(r, n) \in 0 .. n
    BY <1>2, TakenIs
  <2> HIDE DEF r, n
  <2>2. QED
    BY <1>1, <1>2, <1>3, <2>1, DoneIs
<1> DEFINE sp == IF h >= r.tail THEN Size - h ELSE r.tail - h - 1
<1>6. k = Min({sp, n - done})
  BY <1>4, <1>5 DEF InPieceLen, SpaceAhead
<1> HIDE DEF k, done
<1>7. /\ k \in Nat /\ k > 0 /\ k <= n - done /\ h + k <= Size
      /\ done + k \in 0 .. Taken(r, n)
      /\ Wrap(r.head + (done + k)) = Wrap(h + k)
      /\ r.tail = 0 => done + k = n \/ Wrap(h + k) = 0
  <2>1. Wrap(h + 1) # r.tail /\ (r.tail = 0 => done = 0 \/ h = 0)
    BY <1>1, <1>3, <1>4
  <2>2. sp = IF h >= r.tail THEN Size - h ELSE r.tail - h - 1
    OBVIOUS
  <2>3. r \in Ring /\ n \in Nat /\ done \in 0 .. Taken(r, n) /\ done < n
        /\ h = Wrap(r.head + done)
    BY <1>2, <1>3, <1>5 DEF done
  <2> HIDE DEF r, n, h, sp
  <2>4. QED
    BY <1>6, <2>1, <2>2, <2>3, PieceFits
<1>8. SlotsAfter(r, data, call.flags, done + k) = slot
  <2> HIDE DEF r, data, n, h
  <2>0. r \in Ring /\ done \in Nat /\ k \in Nat /\ h = Wrap(r.head + done) /\ h + k <= Size
    BY <1>2, <1>3, <1>5, <1>7
  <2>1. \A i \in 0 .. Size - 1 :
          SlotsAfter(r, data, call.flags, done + k)[i]
            = IF i \in h .. h + k - 1
              THEN [byte |-> data[done + 1 + (i - h)], flags |-> call.flags]
              ELSE SlotsAfter(r, data, call.flags, done)[i]
    BY <2>0, PieceStored
  <2>2. SlotsAfter(r, data, call.flags, done + k)
          = [i \in 0 .. Size - 1 |-> SlotsAfter(r, data, call.flags, done + k)[i]]
    BY DEF SlotsAfter
  <2>3. QED
    BY <1>4, <2>1, <2>2
<1>9. slot \in [0 .. Size - 1 -> Slot]
  <2> SUFFICES ASSUME NEW i \in 0 .. Size - 1
               PROVE  slot[i] \in Slot
    BY DEF Ring
  <2>1. CASE i \in h .. h + k - 1
    <3>1. done + 1 + (i - h) \in 1 .. n
      <4>1. i - h \in 0 .. k - 1
        BY <1>2, <1>7, <2>1, SizeAssumption
      <4>2. n \in Nat /\ k \in Nat /\ k <= n - done
        BY <1>2, <1>7
      <4> HIDE DEF n, h
      <4>3. QED
        BY <1>5, <4>1, <4>2
    <3>2. data[done + 1 + (i - h)] \in Bytes
      BY <1>2, <3>1
    <3>3. slot[i] = [byte |-> data[done + 1 + (i - h)], flags |-> call.flags]
      BY <2>1
    <3> HIDE DEF slot
    <3>4. QED
      BY <1>2, <3>2, <3>3 DEF Slot
  <2>2. CASE i \notin h .. h + k - 1
    BY <1>2, <2>2 DEF Ring
  <2>3. QED
    BY <2>1, <2>2
<1>10. /\ c.op = "copyin" /\ c.before = r /\ c.data = data /\ c.flags = call.flags
       /\ c.overrun = call.overrun /\ c.head = Wrap(h + k) /\ c.resid = call.resid - k
       /\ c \in [op : {"copyin"}, before : Ring, head : 0 .. Size - 1, resid : Nat,
                 data : Inputs, flags : Flags, overrun : BOOLEAN]
  <2>1. Wrap(h + k) \in 0 .. Size - 1
    <3>1. h + k \in Int
      BY <1>2, <1>7, SizeAssumption
    <3>2. QED
      BY <3>1, WrapIs
  <2>2. call.resid - k \in Nat
    BY <1>2, <1>5, <1>7
  <2>3. QED
    BY <1>1, <1>2, <2>1, <2>2
<1> HIDE DEF slot, c
<1>11. buffer' \in Ring /\ buffer' = [r EXCEPT !.slot = slot]
  BY <1>1, <1>2, <1>3, <1>9 DEF Ring
<1>12. LoopTypeOK'
  BY <1>1, <1>2, <1>10, <1>11 DEF LoopTypeOK
<1>13. InSoFar'
  <2>1. n - (call.resid - k) = done + k
    BY <1>2, <1>5, <1>7 DEF done
  <2>2. r.tail = 0 => done + k = 0 \/ call.resid - k = 0 \/ Wrap(h + k) = 0
    BY <1>5, <1>7
  <2>3. /\ call'.op = "copyin" /\ call'.before = r /\ call'.data = data
        /\ call'.flags = call.flags /\ call'.head = Wrap(h + k)
        /\ call'.resid = call.resid - k
    BY <1>1, <1>10
  <2>4. /\ Len(call'.data) - call'.resid = done + k
        /\ Len(call'.data) = n
    BY <2>1, <2>3
  <2>5. buffer' = [r EXCEPT !.slot = SlotsAfter(r, data, call.flags, done + k)]
    BY <1>8, <1>11
  <2> HIDE DEF r, data, n, h
  <2>6. QED
    BY <1>7, <2>2, <2>3, <2>4, <2>5 DEF InSoFar
<1>14. OutSoFar' /\ CallStep
  BY <1>1, <1>10 DEF OutSoFar, CallStep, Seen
<1>15. TurnShortens
  <2>1. call.resid - k \in 0 .. call.resid - 1
    BY <1>2, <1>5, <1>7
  <2>2. QED
    BY <1>1, <1>10, <2>1 DEF TurnShortens
<1>16. QED
  BY <1>12, <1>13, <1>14, <1>15 DEF LoopInv

(* A slot that gets more flags.                                            *)
LEMMA FlagsAdded ==
  ASSUME NEW x, NEW b, NEW f, NEW m, x = [byte |-> b, flags |-> f]
  PROVE  [x EXCEPT !.flags = @ \cup m] = [byte |-> b, flags |-> f \cup m]
<1> DEFINE g == f \cup m
           y == [x EXCEPT !.flags = g]
           z == [byte |-> b, flags |-> g]
           T == [byte : {b}, flags : {f, g}]
<1>1. x.flags = f
  OBVIOUS
<1> HIDE DEF g
<1>2. y \in T /\ z \in T /\ y.byte = z.byte /\ y.flags = z.flags
  OBVIOUS
<1> HIDE DEF y, z
<1>3. y = z
  BY <1>2
<1>4. QED
  BY <1>1, <1>3 DEF y, z, g

(* The end of copyin is the abstract step.                                 *)
LEMMA EndInKeeps ==
  ASSUME LoopInv, EndIn
  PROVE  LoopInv' /\ CallStep
<1> DEFINE r == call.before
           data == call.data
           n == Len(data)
           h == call.head
           done == n - call.resid
           mark == IF call.resid > 0 /\ call.overrun THEN {"OVERRUN"} ELSE {}
           s == CopyIn(r, data, call.flags, call.overrun)
<1>1. /\ call.op = "copyin" /\ (call.resid = 0 \/ Wrap(h + 1) = buffer.tail)
      /\ buffer' = [buffer EXCEPT !.head = h, !.slot[h].flags = @ \cup mark]
      /\ call' = NoCall /\ given' = given
  BY DEF EndIn, HeadBlocked
<1>2. /\ r \in Ring /\ h \in 0 .. Size - 1 /\ call.resid \in Nat /\ data \in Inputs
      /\ call.flags \in Flags /\ call.overrun \in BOOLEAN
      /\ n \in Nat /\ data \in [1 .. n -> Bytes]
      /\ buffer \in Ring /\ given \in Seq(Slot)
  BY <1>1, InShape, InputsTyped DEF LoopInv, LoopTypeOK
<1>3. /\ done \in 0 .. Taken(r, n) /\ h = Wrap(r.head + done)
      /\ r.tail = 0 => done = 0 \/ call.resid = 0 \/ h = 0
      /\ buffer = [r EXCEPT !.slot = SlotsAfter(r, data, call.flags, done)]
  BY <1>1 DEF LoopInv, InSoFar
<1>4. /\ buffer.tail = r.tail /\ buffer.head = r.head
      /\ buffer.slot = SlotsAfter(r, data, call.flags, done)
  BY <1>2, <1>3 DEF Ring
<1>5. /\ done \in Nat /\ (call.resid = 0 <=> done = n) /\ (call.resid > 0 <=> done < n)
  <2>1. Taken(r, n) \in 0 .. n
    BY <1>2, TakenIs
  <2> HIDE DEF r, n
  <2>2. QED
    BY <1>2, <1>3, <2>1, DoneIs
<1>6. done = Taken(r, n)
  <2>1. /\ r.tail = 0 => done = 0 \/ done = n \/ h = 0
        /\ done = n \/ Wrap(h + 1) = r.tail
    BY <1>1, <1>3, <1>4, <1>5
  <2> HIDE DEF r, n, h, done
  <2>2. QED
    BY <1>2, <1>3, <2>1, LastTurn
<1> DEFINE at(i) == {j \in 1 .. done : Wrap(r.head + j - 1) = i}
           markAt(i) == IF call.overrun /\ done < n /\ i = h THEN {"OVERRUN"} ELSE {}
           after == SlotsAfter(r, data, call.flags, done)
           slot == [i \in 0 .. Size - 1 |->
                      IF at(i) # {}
                      THEN [byte |-> data[Max(at(i))], flags |-> call.flags \cup markAt(i)]
                      ELSE [r.slot[i] EXCEPT !.flags = @ \cup markAt(i)]]
<1>7. s = [r EXCEPT !.head = h, !.slot = slot]
  BY <1>3, <1>6, Zenon DEF CopyIn
<1>8. ASSUME NEW i \in 0 .. Size - 1
      PROVE  after[i] = IF at(i) # {}
                        THEN [byte |-> data[Max(at(i))], flags |-> call.flags]
                        ELSE r.slot[i]
  BY DEF SlotsAfter
<1>9. markAt(h) = mark /\ \A i : i # h => markAt(i) = {}
  BY <1>5
<1>10. after \in [0 .. Size - 1 -> Slot]
  BY <1>2, <1>4 DEF Ring
<1> HIDE DEF at, markAt, after, mark
<1>11. ASSUME NEW i \in 0 .. Size - 1
       PROVE  slot[i] = [after[i] EXCEPT !.flags = @ \cup markAt(i)]
  <2>1. CASE at(i) # {}
    <3>1. after[i] = [byte |-> data[Max(at(i))], flags |-> call.flags]
      BY <1>8, <2>1
    <3>2. slot[i] = [byte |-> data[Max(at(i))], flags |-> call.flags \cup markAt(i)]
      BY <2>1
    <3> DEFINE x == after[i]
               b == data[Max(at(i))]
               m == markAt(i)
    <3>3. x = [byte |-> b, flags |-> call.flags]
      BY <3>1
    <3>4. slot[i] = [byte |-> b, flags |-> call.flags \cup m]
      BY <3>2
    <3> HIDE DEF x, b, m
    <3>5. [x EXCEPT !.flags = @ \cup m] = [byte |-> b, flags |-> call.flags \cup m]
      BY <3>3, FlagsAdded
    <3>6. slot[i] = [x EXCEPT !.flags = @ \cup m]
      BY <3>4, <3>5
    <3>7. QED
      BY <3>6 DEF x, m
  <2>2. CASE at(i) = {}
    BY <1>8, <2>2
  <2>3. QED
    BY <2>1, <2>2
<1> HIDE DEF slot
<1>12. slot = [after EXCEPT ![h].flags = @ \cup mark]
  <2> DEFINE new == [after EXCEPT ![h] = [after[h] EXCEPT !.flags = @ \cup mark]]
  <2>1. ASSUME NEW i \in 0 .. Size - 1
        PROVE  slot[i] = new[i]
    <3>1. CASE i = h
      BY <1>9, <1>10, <1>11, <3>1
    <3>2. CASE i # h
      <4>1. slot[i] = [after[i] EXCEPT !.flags = @ \cup {}]
        BY <1>9, <1>11, <3>2
      <4>2. after[i] \in Slot
        BY <1>10
      <4>3. slot[i] = after[i]
        BY <4>1, <4>2 DEF Slot
      <4>4. QED
        BY <1>10, <3>2, <4>3
    <3>3. QED
      BY <3>1, <3>2
  <2>2. slot = [i \in 0 .. Size - 1 |-> slot[i]]
    BY DEF slot
  <2>3. new = [i \in 0 .. Size - 1 |-> new[i]]
    BY <1>10
  <2> HIDE DEF new
  <2>4. slot = new
    BY <2>1, <2>2, <2>3
  <2>5. QED
    BY <2>4 DEF new
<1>13. buffer' = s
  <2>1. buffer' = [buffer EXCEPT !.head = h, !.slot = [after EXCEPT ![h].flags = @ \cup mark]]
    BY <1>1, <1>2, <1>4 DEF Ring, after
  <2>2. buffer' = [buffer EXCEPT !.head = h, !.slot = slot]
    BY <1>12, <2>1
  <2>3. QED
    BY <1>2, <1>3, <1>7, <2>2 DEF Ring
<1>14. s \in Ring
  BY <1>2, CopyInTyped
<1>15. CallStep
  <2>1. Seen = r /\ Seen' = buffer'
    BY <1>1 DEF Seen, NoCall
  <2>2. Seen' = Atomic!CopyIn(Seen, data, call.flags, call.overrun)
    BY <1>13, <2>1, SameCopyIn
  <2>3. QED
    BY <1>1, <2>2 DEF CallStep, Atomic!Copyin
<1>16. LoopInv'
  BY <1>1, <1>2, <1>13, <1>14 DEF LoopInv, LoopTypeOK, InSoFar, OutSoFar, NoCall
<1>17. QED
  BY <1>15, <1>16

LEMMA Joined ==
  ASSUME NEW S, NEW a \in Seq(S), NEW b \in Seq(S)
  PROVE  /\ a \o b \in Seq(S) /\ Len(a \o b) = Len(a) + Len(b)
         /\ \A i \in 1 .. Len(a) : (a \o b)[i] = a[i]
         /\ \A i \in Len(a) + 1 .. Len(a) + Len(b) : (a \o b)[i] = b[i - Len(a)]
OBVIOUS

LEMMA OutPieceKeeps ==
  ASSUME LoopInv, OutPiece
  PROVE  LoopInv' /\ CallStep /\ TurnShortens
<1> DEFINE r == call.before
           n == call.count
           t == call.tail
           k == OutPieceLen
           done == n - call.resid
           fl == r.slot[r.tail].flags
           piece == [i \in 1 .. k |-> [byte |-> buffer.slot[t + i - 1].byte,
                                       flags |-> call.flags]]
           c == [call EXCEPT !.data = call.data \o piece, !.tail = Wrap(t + k),
                             !.resid = call.resid - k]
<1>1. /\ call.op = "copyout" /\ call.resid # 0 /\ t # buffer.head
      /\ buffer' = buffer /\ call' = c /\ given' = given
  BY DEF OutPiece, OutDone
<1>2. /\ r \in Ring /\ t \in 0 .. Size - 1 /\ call.resid \in Nat
      /\ n \in 0 .. MaxAsk /\ n \in Nat /\ call.data \in Seq(Slot)
      /\ call \in [op : {"copyout"}, before : Ring, tail : 0 .. Size - 1, resid : Nat,
             count : 0 .. MaxAsk, peek : BOOLEAN, data : Seq(Slot),
             flags : {s.flags : s \in Slot}]
      /\ buffer \in Ring /\ given \in Seq(Slot)
  BY <1>1, OutShape DEF LoopInv, LoopTypeOK
<1>3. /\ buffer = r /\ done \in 0 .. Given(r, n) /\ t = Wrap(r.tail + done)
      /\ call.flags = fl /\ call.data = FirstChars(r, done)
  BY <1>1 DEF LoopInv, OutSoFar
<1>4. done \in Nat /\ done < n /\ n - done = call.resid
  <2>1. Given(r, n) \in 0 .. n /\ call.resid > 0
    BY <1>1, <1>2, GivenIs
  <2> HIDE DEF r, n
  <2>2. QED
    BY <1>2, <1>3, <2>1, DoneIs
<1> DEFINE ahead == IF t > r.head THEN Size - t ELSE r.head - t
<1>5. k = Alike(r.slot, t, Min({ahead, n - done}), fl)
  BY <1>3, <1>4 DEF OutPieceLen, CharsAhead
<1> HIDE DEF k, done
<1>6. /\ k \in Nat /\ k <= n - done /\ t + k <= Size
      /\ \A i \in t .. t + k - 1 : r.slot[i].flags = fl
      /\ \A i \in 0 .. k - 1 : Wrap(r.tail + (done + i)) = t + i
      /\ done + k \in 0 .. Given(r, n)
      /\ Wrap(r.tail + (done + k)) = Wrap(t + k)
  <2>1. ahead = IF t > r.head THEN Size - t ELSE r.head - t
    OBVIOUS
  <2>2. r \in Ring /\ n \in Nat /\ done \in 0 .. Given(r, n) /\ done < n
        /\ t = Wrap(r.tail + done) /\ t # r.head
    BY <1>1, <1>2, <1>3, <1>4 DEF done
  <2>3. k = Alike(r.slot, t, Min({ahead, n - done}), r.slot[r.tail].flags)
    BY <1>5
  <2> HIDE DEF r, n, t, ahead, fl
  <2>4. QED
    BY <2>1, <2>2, <2>3, PieceGives DEF fl
<1>7. ASSUME NEW i \in 1 .. k
      PROVE  /\ piece[i] = Nth(r, done + i - 1) /\ piece[i] \in Slot
  <2>1. i - 1 \in 0 .. k - 1 /\ t + (i - 1) \in t .. t + k - 1 /\ t + i - 1 = t + (i - 1)
        /\ done + i - 1 = done + (i - 1) /\ done + (i - 1) \in Nat
    <3>1. t \in Int /\ k \in Nat /\ done \in Nat
      BY <1>2, <1>4, <1>6, SizeAssumption
    <3> HIDE DEF t
    <3>2. QED
      BY <3>1
  <2>2. Wrap(r.tail + (done + (i - 1))) = t + (i - 1) /\ r.slot[t + (i - 1)].flags = fl
    BY <1>6, <2>1
  <2>3. Nth(r, done + (i - 1)) = r.slot[t + (i - 1)] /\ Nth(r, done + (i - 1)) \in Slot
    BY <1>2, <2>1, <2>2, NthTyped DEF Nth
  <2>4. piece[i] = [byte |-> r.slot[t + (i - 1)].byte, flags |-> fl]
    BY <1>3, <2>1
  <2> DEFINE s == r.slot[t + (i - 1)]
  <2>5. s \in Slot /\ s.flags = fl /\ piece[i] = [byte |-> s.byte, flags |-> fl]
    BY <2>2, <2>3, <2>4
  <2> HIDE DEF s, fl, piece
  <2>6. piece[i] = s
    BY <2>5 DEF Slot
  <2>7. QED
    BY <2>1, <2>3, <2>6 DEF s
<1>8. /\ piece \in Seq(Slot) /\ Len(piece) = k
      /\ \A i \in 1 .. k : piece[i] = Nth(r, done + i - 1)
  <2>1. piece = [i \in 1 .. k |-> piece[i]]
    OBVIOUS
  <2> HIDE DEF piece
  <2>2. piece \in [1 .. k -> Slot]
    BY <1>7, <2>1
  <2>3. QED
    BY <1>6, <1>7, <2>2
<1> HIDE DEF piece
<1>9. call.data \o piece = FirstChars(r, done + k)
  <2> DEFINE d == call.data
             q == FirstChars(r, done + k)
  <2>1. /\ d \in Seq(Slot) /\ Len(d) = done
        /\ \A i \in 1 .. done : d[i] = Nth(r, i - 1)
    BY <1>2, <1>3, <1>4, FirstCharsIs
  <2>2. /\ q \in Seq(Slot) /\ Len(q) = done + k
        /\ \A i \in 1 .. done + k : q[i] = Nth(r, i - 1)
    <3>1. done + k \in Nat
      BY <1>4, <1>6
    <3>2. QED
      BY <1>2, <3>1, FirstCharsIs
  <2> HIDE DEF d, q
  <2>3. /\ d \o piece \in Seq(Slot) /\ Len(d \o piece) = done + k
        /\ \A i \in 1 .. done : (d \o piece)[i] = d[i]
        /\ \A i \in done + 1 .. done + k : (d \o piece)[i] = piece[i - done]
    <3>1. piece \in Seq(Slot) /\ Len(piece) = k
      BY <1>8
    <3>2. d \in Seq(Slot) /\ Len(d) = done
      BY <2>1
    <3>3. QED
      BY <3>1, <3>2, Joined
  <2>4. ASSUME NEW i \in 1 .. done + k
        PROVE  (d \o piece)[i] = q[i]
    <3>1. CASE i <= done
      <4>1. i \in 1 .. done
        BY <1>4, <3>1
      <4>2. (d \o piece)[i] = d[i]
        BY <2>3, <4>1
      <4>3. QED
        BY <2>1, <2>2, <4>1, <4>2
    <3>2. CASE i > done
      <4>1. i - done \in 1 .. k /\ done + (i - done) - 1 = i - 1
            /\ i \in done + 1 .. done + k
        BY <1>4, <1>6, <3>2
      <4>2. piece[i - done] = Nth(r, i - 1)
        BY <1>8, <4>1
      <4>3. (d \o piece)[i] = piece[i - done]
        BY <2>3, <4>1
      <4>4. q[i] = Nth(r, i - 1)
        BY <2>2
      <4>5. QED
        BY <4>2, <4>3, <4>4
    <3>3. i \in Int /\ done \in Int
      BY <1>4
    <3>4. i <= done \/ i > done
      BY <3>3
    <3>5. QED
      BY <3>1, <3>2, <3>4, Zenon
  <2>5. d \o piece = q
    BY <2>2, <2>3, <2>4
  <2>6. QED
    BY <2>5 DEF d, q
<1>10. /\ c.op = "copyout" /\ c.before = r /\ c.count = n /\ c.flags = fl
       /\ c.data = FirstChars(r, done + k) /\ c.tail = Wrap(t + k)
       /\ c.resid = call.resid - k
       /\ c \in [op : {"copyout"}, before : Ring, tail : 0 .. Size - 1, resid : Nat,
             count : 0 .. MaxAsk, peek : BOOLEAN, data : Seq(Slot),
             flags : {s.flags : s \in Slot}]
  <2>1. Wrap(t + k) \in 0 .. Size - 1
    <3>1. t + k \in Int
      BY <1>2, <1>6, SizeAssumption
    <3>2. QED
      BY <3>1, WrapIs
  <2>2. call.resid - k \in Nat
    BY <1>2, <1>4, <1>6
  <2>3. call.data \o piece \in Seq(Slot)
    BY <1>2, <1>8
  <2> DEFINE e == call.data \o piece
  <2>4. e \in Seq(Slot) /\ e = FirstChars(r, done + k)
    BY <1>9, <2>3
  <2> HIDE DEF e
  <2>5. c = [call EXCEPT !.data = e, !.tail = Wrap(t + k), !.resid = call.resid - k]
    BY DEF e
  <2> HIDE DEF c
  <2>6. QED
    BY <1>1, <1>2, <1>3, <2>1, <2>2, <2>4, <2>5
<1> HIDE DEF c
<1>11. LoopTypeOK'
  BY <1>1, <1>2, <1>10 DEF LoopTypeOK
<1>12. OutSoFar'
  <2>1. n - (call.resid - k) = done + k
    BY <1>2, <1>4, <1>6 DEF done
  <2>2. /\ call'.op = "copyout" /\ call'.before = r /\ call'.count = n
        /\ call'.flags = fl /\ call'.tail = Wrap(t + k)
        /\ call'.data = FirstChars(r, done + k)
        /\ call'.count - call'.resid = done + k
        /\ buffer' = r
    BY <1>1, <1>3, <1>10, <2>1
  <2> HIDE DEF r, n, t
  <2>3. QED
    BY <1>6, <2>2 DEF OutSoFar, fl
<1>13. InSoFar' /\ CallStep
  BY <1>1, <1>10 DEF InSoFar, CallStep, Seen
<1>14. TurnShortens
  <2>1. k # 0
    BY DEF k, OutPiece, OutDone
  <2>2. call.resid - k \in 0 .. call.resid - 1
    BY <1>2, <1>4, <1>6, <2>1
  <2>3. QED
    BY <1>1, <1>10, <2>2 DEF TurnShortens
<1>15. QED
  BY <1>11, <1>12, <1>13, <1>14 DEF LoopInv

(* The end of copyout is the abstract step.                                *)
LEMMA EndOutKeeps ==
  ASSUME LoopInv, EndOut
  PROVE  LoopInv' /\ CallStep
<1> DEFINE r == call.before
           n == call.count
           t == call.tail
           k == OutPieceLen
           done == n - call.resid
           fl == r.slot[r.tail].flags
<1>1. /\ call.op = "copyout" /\ (call.resid = 0 \/ t = buffer.head \/ k = 0)
      /\ buffer' = IF call.peek THEN buffer ELSE [buffer EXCEPT !.tail = t]
      /\ call' = NoCall /\ given' = call.data
  BY DEF EndOut, OutDone
<1>2. /\ r \in Ring /\ t \in 0 .. Size - 1 /\ call.resid \in Nat /\ n \in Nat
      /\ call.peek \in BOOLEAN /\ call.data \in Seq(Slot) /\ buffer \in Ring
  BY <1>1, OutShape DEF LoopInv, LoopTypeOK
<1>3. /\ buffer = r /\ done \in 0 .. Given(r, n) /\ t = Wrap(r.tail + done)
      /\ call.flags = fl /\ call.data = FirstChars(r, done)
  BY <1>1 DEF LoopInv, OutSoFar
<1>4. done \in Nat /\ done <= n /\ n - done = call.resid /\ (call.resid = 0 <=> done = n)
  <2>1. Given(r, n) \in 0 .. n
    BY <1>2, GivenIs
  <2> HIDE DEF r, n
  <2>2. QED
    BY <1>2, <1>3, <2>1, DoneIs
<1> DEFINE ahead == IF t > r.head THEN Size - t ELSE r.head - t
<1>5. k = Alike(r.slot, t, Min({ahead, n - done}), fl)
  BY <1>3, <1>4 DEF OutPieceLen, CharsAhead
<1>6. Given(r, n) \in 0 .. n /\ Given(r, n) <= SpaceBusy(r) /\ SpaceBusy(r) \in 0 .. Size - 1
  BY <1>2, GivenIs, BusyIs
<1> HIDE DEF k, done
<1>7. done = Given(r, n)
  <2>1. CASE done = n
    BY <1>3, <1>4, <1>6, <2>1
  <2>2. CASE t = r.head
    <3>1. r.head = Wrap(r.tail + SpaceBusy(r)) /\ r.tail \in 0 .. Size - 1
      BY <1>2, HeadIs DEF Ring
    <3>2. done <= SpaceBusy(r) /\ SpaceBusy(r) \in Nat /\ SpaceBusy(r) < Size
      BY <1>3, <1>4, <1>6, SizeAssumption
    <3>3. ~(done < SpaceBusy(r))
      BY <1>3, <1>4, <2>2, <3>1, <3>2, PlacesDiffer
    <3>4. QED
      BY <1>3, <1>4, <1>6, <3>2, <3>3
  <2>3. CASE done # n /\ t # r.head
    <3>1. ahead = IF t > r.head THEN Size - t ELSE r.head - t
      OBVIOUS
    <3>2. r \in Ring /\ n \in Nat /\ done \in 0 .. Given(r, n) /\ done < n
          /\ t = Wrap(r.tail + done) /\ t # r.head
      BY <1>2, <1>3, <1>4, <2>3
    <3>3. k = Alike(r.slot, t, Min({ahead, n - done}), r.slot[r.tail].flags)
      BY <1>5
    <3>4. k = 0
      BY <1>1, <1>3, <1>4, <2>3
    <3> HIDE DEF r, n, t, ahead, fl
    <3>5. QED
      BY <3>1, <3>2, <3>3, <3>4, PieceGives
  <2>4. QED
    BY <2>1, <2>2, <2>3
<1>8. /\ buffer' = IF call.peek THEN r ELSE CopyOut(r, n)
      /\ given' = FirstChars(r, Given(r, n))
  BY <1>1, <1>3, <1>7 DEF CopyOut
<1>9. CopyOut(r, n) \in Ring
  BY <1>2, CopyOutTyped
<1>10. CallStep
  <2>1. Seen = r /\ Seen' = buffer'
    BY <1>1 DEF Seen, NoCall
  <2>2. /\ Seen' = IF call.peek THEN Seen ELSE Atomic!CopyOut(Seen, n)
        /\ given' = Atomic!FirstChars(Seen, Atomic!Given(Seen, n))
    BY <1>8, <2>1, SameGiven
  <2>3. QED
    BY <1>1, <2>2 DEF CallStep, Atomic!Copyout
<1>11. LoopInv'
  BY <1>1, <1>2, <1>8, <1>9 DEF LoopInv, LoopTypeOK, InSoFar, OutSoFar, NoCall
<1>12. QED
  BY <1>10, <1>11

LEMMA LoopsKeep == LoopInv /\ [LoopsNext]_loopVars => LoopInv' /\ CallStep
<1> SUFFICES ASSUME LoopInv, [LoopsNext]_loopVars PROVE LoopInv' /\ CallStep
  OBVIOUS
<1>1. CASE UNCHANGED loopVars
  BY <1>1 DEF loopVars, LoopInv, LoopTypeOK, InSoFar, OutSoFar, CallStep, Seen
<1>2. CASE LoopsNext
  BY <1>2, StartInKeeps, InPieceKeeps, EndInKeeps, StartOutKeeps, OutPieceKeeps, EndOutKeeps
     DEF LoopsNext
<1>3. QED
  BY <1>1, <1>2

(* Between the turns of a loop the buffer has what the closed form gives   *)
(* for as many characters as were copied so far.                           *)
THEOREM LoopInvariant == LoopsSpec => []LoopInv
<1>1. LoopInv /\ [LoopsNext]_loopVars => LoopInv'
  BY LoopsKeep
<1>2. QED
  BY <1>1, LoopsInvInit, PTL DEF LoopsSpec

(* The loops of generic/serial.c do, piece by piece, what the closed forms *)
(* do in one step with the same arguments.                                 *)
THEOREM LoopsImplement == LoopsSpec => LoopsAtomic
<1>1. LoopInv /\ [LoopsNext]_loopVars
        => [\/ call.op = "copyin" /\ Atomic!Copyin(call.data, call.flags, call.overrun)
            \/ call.op = "copyout" /\ Atomic!Copyout(call.count, call.peek)]_<<Seen, given>>
  BY LoopsKeep DEF CallStep
<1>2. QED
  BY <1>1, LoopInvariant, LoopsInvInit, PTL DEF LoopsSpec, LoopsAtomic

(* So a buffer that is copied to and from by the loops is a SerialBuffer   *)
(* whose users need not ask for space.                                     *)
THEOREM LoopsRefine == LoopsSpec => Atomic!BufferSpec
<1>1. LoopInv /\ [LoopsNext]_loopVars => [Atomic!BufferNext]_(Atomic!bufferVars)
  <2> SUFFICES ASSUME LoopInv, [LoopsNext]_loopVars
               PROVE  [Atomic!BufferNext]_(Atomic!bufferVars)
    OBVIOUS
  <2>1. CASE call.op = "copyin" /\ Atomic!Copyin(call.data, call.flags, call.overrun)
    <3>1. call.data \in Inputs /\ call.flags \in Flags /\ call.overrun \in BOOLEAN
      BY <2>1, InShape DEF LoopInv
    <3>2. QED
      BY <2>1, <3>1 DEF Atomic!BufferNext
  <2>2. CASE call.op = "copyout" /\ Atomic!Copyout(call.count, call.peek)
    <3>1. call.count \in 0 .. MaxAsk /\ call.peek \in BOOLEAN
      BY <2>2, OutShape DEF LoopInv
    <3>2. QED
      BY <2>2, <3>1 DEF Atomic!BufferNext
  <2>3. CASE UNCHANGED <<Seen, given>>
    BY <2>3 DEF Atomic!bufferVars
  <2>4. QED
    BY LoopsKeep, <2>1, <2>2, <2>3 DEF CallStep
<1>2. QED
  BY <1>1, LoopInvariant, LoopsInvInit, PTL DEF LoopsSpec, Atomic!BufferSpec

(* The assertions of the loops hold: a turn finds slots or characters.     *)
THEOREM LoopsAdvance == LoopsSpec => [](SpaceFound /\ CharsFound)
<1>1. LoopInv => SpaceFound
  <2> SUFFICES ASSUME LoopInv, call.op = "copyin", call.resid > 0, ~HeadBlocked
               PROVE  SpaceAhead > 0
    BY DEF SpaceFound
  <2> DEFINE r == call.before
             n == Len(call.data)
             h == call.head
             done == n - call.resid
             sp == IF h >= r.tail THEN Size - h ELSE r.tail - h - 1
             k == Min({sp, n - done})
  <2>1. /\ r \in Ring /\ call.resid \in Nat /\ n \in Nat /\ buffer.tail = r.tail
        /\ done \in 0 .. Taken(r, n) /\ h = Wrap(r.head + done)
        /\ r.tail = 0 => done = 0 \/ call.resid = 0 \/ h = 0
    BY InShape, InputsTyped DEF LoopInv, InSoFar, Ring
  <2>2. done < n /\ (r.tail = 0 => done = 0 \/ h = 0)
    <3>1. Taken(r, n) \in 0 .. n
      BY <2>1, TakenIs
    <3> HIDE DEF r, n, h
    <3>2. QED
      BY <2>1, <3>1, DoneIs
  <2>3. Wrap(h + 1) # r.tail
    BY <2>1 DEF HeadBlocked
  <2>4. SpaceAhead = sp
    BY <2>1 DEF SpaceAhead
  <2>5. sp = (IF h >= r.tail THEN Size - h ELSE r.tail - h - 1) /\ k = Min({sp, n - done})
    OBVIOUS
  <2> HIDE DEF r, n, h, done, sp, k
  <2>6. sp > 0
    BY <2>1, <2>2, <2>3, <2>5, PieceFits
  <2>7. QED
    BY <2>4, <2>6
<1>2. LoopInv => CharsFound
  <2> SUFFICES ASSUME LoopInv, call.op = "copyout", call.resid > 0, call.tail # buffer.head
               PROVE  CharsAhead > 0
    BY DEF CharsFound
  <2> DEFINE r == call.before
             n == call.count
             t == call.tail
             done == n - call.resid
             c == IF t > r.head THEN Size - t ELSE r.head - t
             k == Alike(r.slot, t, Min({c, n - done}), r.slot[r.tail].flags)
  <2>1. /\ r \in Ring /\ call.resid \in Nat /\ n \in Nat /\ buffer = r
        /\ done \in 0 .. Given(r, n) /\ t = Wrap(r.tail + done)
    BY OutShape DEF LoopInv, OutSoFar
  <2>2. done < n
    <3>1. Given(r, n) \in 0 .. n
      BY <2>1, GivenIs
    <3> HIDE DEF r, n
    <3>2. QED
      BY <2>1, <3>1, DoneIs
  <2>3. CharsAhead = c /\ t # r.head
    BY <2>1 DEF CharsAhead
  <2>4. /\ c = IF t > r.head THEN Size - t ELSE r.head - t
        /\ k = Alike(r.slot, t, Min({c, n - done}), r.slot[r.tail].flags)
    OBVIOUS
  <2> HIDE DEF r, n, t, done, c, k
  <2>5. c > 0
    BY <2>1, <2>2, <2>3, <2>4, PieceGives
  <2>6. QED
    BY <2>3, <2>5
<1>3. QED
  BY <1>1, <1>2, LoopInvariant, PTL

(* Each turn copies a character at least, and never more than is left: both *)
(* loops end after as many turns as there are characters, at the latest.    *)
THEOREM LoopsEnd == LoopsSpec => [][InPiece \/ OutPiece => TurnShortens]_loopVars
<1>1. LoopInv /\ [LoopsNext]_loopVars => [InPiece \/ OutPiece => TurnShortens]_loopVars
  BY InPieceKeeps, OutPieceKeeps
<1>2. QED
  BY <1>1, LoopInvariant, PTL DEF LoopsSpec

-----------------------------------------------------------------------------
(* The loops and the queue.                                                *)

(* What is copied in was asked for.                                        *)
Asked == call.op = "copyin" =>
           Len(call.data) = 1 \/ Len(call.data) <= SpaceFree(call.before)

LEMMA AskedKept ==
  ASSUME LoopInv, Asked, [LoopsNext /\ AsksFirst]_loopVars
  PROVE  Asked'
<1>1. CASE UNCHANGED loopVars
  BY <1>1 DEF loopVars, Asked
<1>2. ASSUME NEW data \in Inputs, NEW f \in Flags, NEW o \in BOOLEAN, StartIn(data, f, o),
             AsksFirst
      PROVE  Asked'
  <2>1. Len(data) = 1 \/ Len(data) <= SpaceFree(buffer)
    BY <1>2 DEF AsksFirst, Fitting
  <2>2. call'.data = data /\ call'.before = buffer
    BY <1>2 DEF StartIn
  <2>3. QED
    BY <2>1, <2>2 DEF Asked
<1>3. CASE InPiece
  <2>1. call.op = "copyin" /\ call'.data = call.data /\ call'.before = call.before
    BY <1>3, InShape DEF InPiece, LoopInv
  <2>2. QED
    BY <2>1 DEF Asked
<1>4. CASE OutPiece
  <2>1. call'.op = "copyout"
    BY <1>4, OutShape DEF OutPiece, LoopInv
  <2>2. QED
    BY <2>1 DEF Asked
<1>5. CASE EndIn \/ EndOut
  BY <1>5 DEF EndIn, EndOut, NoCall, Asked
<1>6. ASSUME NEW n \in 0 .. MaxAsk, NEW peek \in BOOLEAN, StartOut(n, peek)
      PROVE  Asked'
  BY <1>6 DEF StartOut, Asked
<1>7. QED
  BY <1>1, <1>2, <1>3, <1>4, <1>5, <1>6 DEF LoopsNext

LEMMA CallsQueue ==
  ASSUME LoopInv, LoopInv', Asked, CallStep
  PROVE  [LoopQueue!Put \/ LoopQueue!Look \/ LoopQueue!Take]_<<Held(Seen), given>>
<1> DEFINE q == Held(Seen)
           p == Held(Seen')
<1>1. Seen \in Ring /\ Seen' \in Ring
  BY DEF LoopInv, LoopTypeOK, Seen, NoCall
<1>2. q = FirstChars(Seen, SpaceBusy(Seen)) /\ p = FirstChars(Seen', SpaceBusy(Seen'))
  BY DEF Held
<1>3. CASE call.op = "copyin" /\ Atomic!Copyin(call.data, call.flags, call.overrun)
  <2> DEFINE new == SubSeq(p, Len(q) + 1, Len(p))
             data == call.data
  <2>1. /\ Seen = call.before /\ given' = given
        /\ Seen' = CopyIn(Seen, data, call.flags, call.overrun)
    BY <1>3, SameCopyIn DEF Atomic!Copyin, Seen
  <2>2. /\ data \in Inputs /\ call.flags \in Flags /\ call.overrun \in BOOLEAN
        /\ Len(data) = 1 \/ Len(data) <= SpaceFree(Seen)
    BY <1>3, <2>1, InShape DEF LoopInv, Asked
  <2>3. Len(data) \in Nat /\ Len(data) > 0 /\ data \in [1 .. Len(data) -> Bytes]
    <3>1. data \in Seq(Bytes) /\ data # <<>>
      BY <2>2, InputsAssumption
    <3>2. Len(data) # 0
      BY <3>1
    <3>3. QED
      BY <2>2, <3>2, InputsTyped
  <2> HIDE DEF data
  <2>4. \/ p = q
        \/ /\ Len(p) \in Len(q) + 1 .. Size - 1
           /\ IsPrefix(q, p) /\ p \in Seq(Slot)
           /\ \A c \in Range(new) : c.flags = Head(new).flags
    BY <1>1, <2>1, <2>2, <2>3, PutBehind
  <2> HIDE DEF q, p
  <2>5. (\A c \in Range(new) : c.flags = Head(new).flags) => LoopQueue!SameFlags(new)
    BY Zenon DEF LoopQueue!SameFlags, LoopQueue!Range, Range
  <2>6. CASE p = q
    BY <2>1, <2>6 DEF p, q
  <2>7. CASE p # q
    <3>1. LoopQueue!Put
      BY <1>2, <2>1, <2>4, <2>5, <2>7 DEF LoopQueue!Put, LoopQueue!IsPrefix, IsPrefix
    <3>2. QED
      BY <3>1
  <2>8. QED
    BY <2>6, <2>7
<1>4. CASE call.op = "copyout" /\ Atomic!Copyout(call.count, call.peek)
  <2> DEFINE n == call.count
             k == Given(Seen, n)
             s == SubSeq(q, 1, k)
  <2>1. /\ given' = FirstChars(Seen, k)
        /\ Seen' = IF call.peek THEN Seen ELSE CopyOut(Seen, n)
    BY <1>4, SameGiven DEF Atomic!Copyout
  <2>2. n \in Nat /\ call.peek \in BOOLEAN
    BY <1>4, OutShape DEF LoopInv
  <2>3. /\ k \in 0 .. Len(q) /\ given' = s
        /\ \A c \in Range(s) : c.flags = Head(s).flags
        /\ p = IF call.peek THEN q ELSE SubSeq(q, k + 1, Len(q))
    BY <1>1, <2>1, <2>2, TakenInFront
  <2> HIDE DEF q, p, k
  <2>4. LoopQueue!SameFlags(s)
    <3> HIDE DEF s
    <3>1. QED
      BY <2>3, Zenon DEF LoopQueue!SameFlags, LoopQueue!Range, Range
  <2>5. LoopQueue!Answer(k)
    BY <1>2, <2>3, <2>4 DEF LoopQueue!Answer
  <2>6. LoopQueue!Look \/ LoopQueue!Take
    <3>1. CASE call.peek
      BY <1>2, <2>3, <2>5, <3>1 DEF LoopQueue!Look
    <3>2. CASE ~call.peek
      BY <1>2, <2>3, <2>5, <3>2 DEF LoopQueue!Take
    <3>3. QED
      BY <3>1, <3>2
  <2>7. QED
    BY <2>6
<1>5. CASE UNCHANGED <<Seen, given>>
  BY <1>5 DEF q, p
<1>6. QED
  BY <1>3, <1>4, <1>5 DEF CallStep

(* The code as it is written is the bounded queue for users that ask.      *)
THEOREM LoopsKeepQueue == LoopsSpec /\ [][AsksFirst]_loopVars => LoopQueue!Spec
<1>1. LoopsInit => LoopInv /\ Asked /\ LoopQueue!Init
  <2> SUFFICES ASSUME LoopsInit PROVE LoopInv /\ Asked /\ LoopQueue!Init
    OBVIOUS
  <2>1. call.op = "none" /\ Seen = buffer /\ buffer \in Ring /\ given = <<>>
        /\ SpaceBusy(buffer) = 0
    BY DEF LoopsInit, NoCall, Seen, SpaceBusy
  <2>2. FirstChars(buffer, 0) \in Seq(Slot) /\ Len(FirstChars(buffer, 0)) = 0
    BY <2>1, FirstCharsIs
  <2>3. FirstChars(buffer, 0) = <<>>
    BY <2>2
  <2>4. LoopQueue!Init
    BY <2>1, <2>3 DEF LoopQueue!Init
  <2>5. QED
    BY <2>1, <2>4, LoopsInvInit DEF Asked
<1>2. LoopInv /\ Asked /\ [LoopsNext]_loopVars /\ [AsksFirst]_loopVars
        => /\ LoopInv' /\ Asked'
           /\ [LoopQueue!Put \/ LoopQueue!Look \/ LoopQueue!Take]_<<Held(Seen), given>>
  <2> SUFFICES ASSUME LoopInv, Asked, [LoopsNext]_loopVars, [AsksFirst]_loopVars
               PROVE  /\ LoopInv' /\ Asked'
                      /\ [LoopQueue!Put \/ LoopQueue!Look \/ LoopQueue!Take]_<<Held(Seen), given>>
    OBVIOUS
  <2>1. [LoopsNext /\ AsksFirst]_loopVars
    OBVIOUS
  <2>2. LoopInv' /\ CallStep
    BY LoopsKeep
  <2>3. Asked'
    BY <2>1, AskedKept
  <2>4. QED
    BY <2>2, <2>3, CallsQueue
<1>3. QED
  BY <1>1, <1>2, PTL DEF LoopsSpec, LoopQueue!Spec, Held
=============================================================================
