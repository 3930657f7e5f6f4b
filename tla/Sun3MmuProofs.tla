---------------------------- MODULE Sun3MmuProofs ----------------------------
(***************************************************************************)
(* Proofs about the MMU of the Sun-3, for any contexts, segments, PMEGs,   *)
(* entries and sizes of the rings: what the entries of the CPU and of the  *)
(* bus masters hold is what the maps say.                                  *)
(***************************************************************************)
EXTENDS Sun3Mmu, TLAPS

USE MmuAssumption, Sun3Assumption

-----------------------------------------------------------------------------
(* The rings of tokens.                                                    *)

(* An empty ring is a ring that holds nothing.                             *)
LEMMA EmptyRingHolds ==
  ASSUME NEW n \in Nat \ {0}
  PROVE  EmptyRing(n) \in RingOf(n) /\ Held(EmptyRing(n)) = {}
BY DEF EmptyRing, RingOf, Held

(* What a ring holds are entries.                                          *)
LEMMA HeldEntries ==
  ASSUME NEW n \in Nat \ {0}, NEW ring \in RingOf(n)
  PROVE  Held(ring) \subseteq Entries
BY DEF RingOf, Held

(* After a push a ring holds the new entry, and every other one that it    *)
(* held and that was not evicted.                                          *)
LEMMA PushedHolds ==
  ASSUME NEW n \in Nat \ {0}, NEW ring \in RingOf(n), NEW e \in Entries
  PROVE  /\ Pushed(ring, e) \in RingOf(n)
         /\ e \in Held(Pushed(ring, e))
         /\ \A x \in Held(ring) \ Evicted(ring, e) : x \in Held(Pushed(ring, e))
<1> DEFINE p == Pushed(ring, e)
<1>1. /\ DOMAIN ring = 1 .. n /\ DOMAIN p = 1 .. n
      /\ \A i \in 1 .. n : p[i] = IF i + 1 \in 1 .. n THEN ring[i + 1] ELSE e
  BY DEF Pushed, RingOf
<1>2. p \in RingOf(n)
  BY DEF Pushed, RingOf
<1>3. p[n] = e
  BY <1>1
<1>4. e \in Held(p)
  BY <1>1, <1>3 DEF Held
<1>5. ASSUME NEW x \in Held(ring) \ Evicted(ring, e)
      PROVE  x \in Held(p)
  <2>1. PICK i \in 1 .. n : x = ring[i] /\ x # NoEntry
    BY <1>1 DEF Held
  <2>2. CASE i = 1
    BY <2>1, <2>2, <1>4 DEF Evicted
  <2>3. CASE i # 1
    <3>1. i - 1 \in 1 .. n /\ p[i - 1] = ring[i]
      BY <1>1, <2>3
    <3>2. QED
      BY <3>1, <2>1, <1>1 DEF Held
  <2>4. QED
    BY <2>2, <2>3
<1>6. QED
  BY <1>2, <1>4, <1>5

-----------------------------------------------------------------------------
(* A fill.                                                                 *)

(* A fill does not change whom a page table entry allows what, and marks   *)
(* the page.                                                               *)
LEMMA TouchedSays ==
  ASSUME NEW q \in Pte, NEW who \in Accessors, NEW access \in {RO, RW}
  PROVE  LET t == Touched(q, who, access)
         IN  /\ t \in Pte
             /\ t.valid = q.valid /\ t.frame = q.frame /\ t.prot = q.prot
             /\ q.ref => t.ref
             /\ q.mod => t.mod
             /\ (q.valid /\ q.prot[who] >= access) => t.ref /\ (access = RW => t.mod)
BY DEF Touched, Pte

(* A place of the maps has a PMEG and a page table entry.                  *)
LEMMA PlaceTypes ==
  ASSUME TypeOK, NEW ctx \in Contexts, NEW page \in Page
  PROVE  /\ page[1] \in Segments /\ page[2] \in Indices
         /\ PmegAt(ctx, page) \in Pmegs
         /\ Lookup(ctx, page) \in Pte
         /\ Lookup(ctx, page) = pte[PmegAt(ctx, page)][page[2]]
BY DEF TypeOK, MmuTypeOK, PmegAt, Lookup, Page

-----------------------------------------------------------------------------
(* The inductive invariant.                                                *)

(* Entries that the MMU filled from its maps.                              *)
Mapped(f) == f.kind \in {"page", "invalid", "proterr"}

(* Such an entry says what the maps say of the context it was filled in.   *)
AllAgree ==
    \A e \in Entries :
        (tlb[e] # NoFilling /\ Mapped(tlb[e])) => Agrees(tlb[e], tlb[e].context)

(* Who has which kind of entry: the PROM only the CPU, and a bus master    *)
(* those that are disabled while system DVMA is.                           *)
Labelled ==
    \A e \in Entries : tlb[e] # NoFilling =>
        /\ tlb[e].kind = "prom" =>
              e \in CpuEntries /\ tlb[e].codes = {"SP"} /\ ~tlb[e].notBoot
        /\ (Mapped(tlb[e]) /\ "SP" \in tlb[e].codes) => tlb[e].notBoot
        /\ tlb[e].kind = "disabled" <=> e \in DvmaEntries /\ ~sdvma

IInv ==
    /\ TypeOK /\ Remembered /\ AllAgree /\ Labelled /\ ChangesRecorded

(* What is found at the page of f is as good for it as before.             *)
Same(q, r) ==
    /\ r.valid = q.valid /\ r.frame = q.frame /\ r.prot = q.prot
    /\ q.ref => r.ref
    /\ q.mod => r.mod

Unharmed(f) == Same(Lookup(f.context, f.page), Lookup(f.context, f.page)')

(* An entry agrees with maps that are the same at its page.                *)
LEMMA SurvivorAgrees ==
  ASSUME NEW f, NEW ctx, Agrees(f, ctx),
         Same(Lookup(ctx, f.page), Lookup(ctx, f.page)')
  PROVE  Agrees(f, ctx)'
BY DEF Agrees, Allows, Same

(* A step in which entries only go, and that leaves the maps the same for  *)
(* those that stay, keeps what is said of each entry alone.                *)
LEMMA OnlyLosses ==
  ASSUME IInv,
         \A e \in Entries : tlb'[e] = tlb[e] \/ tlb'[e] = NoFilling,
         \A e \in Entries : (tlb'[e] # NoFilling /\ Mapped(tlb[e])) => Unharmed(tlb[e]),
         \A e \in DvmaEntries : tlb'[e] # NoFilling => sdvma' = sdvma
  PROVE  AllAgree' /\ Labelled' /\ ChangesRecorded'
<1>1. AllAgree'
  <2> SUFFICES ASSUME NEW e \in Entries, tlb'[e] # NoFilling, Mapped(tlb'[e])
               PROVE  Agrees(tlb[e], tlb[e].context)'
    BY DEF AllAgree
  <2>1. tlb'[e] = tlb[e]
    OBVIOUS
  <2>2. Agrees(tlb[e], tlb[e].context)
    BY <2>1 DEF IInv, AllAgree
  <2>3. Unharmed(tlb[e])
    BY <2>1
  <2> DEFINE f == tlb[e]
  <2>4. \A g, c : (Agrees(g, c) /\ Same(Lookup(c, g.page), Lookup(c, g.page)')) => Agrees(g, c)'
    BY SurvivorAgrees
  <2>5. QED
    BY <2>1, <2>2, <2>3, <2>4 DEF Unharmed
<1>2. Labelled'
  BY DEF IInv, Labelled, Mapped
<1>3. ChangesRecorded'
  BY DEF IInv, ChangesRecorded, Unharmed, Same, Mapped
<1>4. QED
  BY <1>1, <1>2, <1>3

-----------------------------------------------------------------------------
(* Changes of the maps.                                                    *)

(* Invalidating the tokens of some entries lets the others be.             *)
LEMMA InvalidatedLoses ==
  ASSUME TypeOK, NEW gone, tlb' = Invalidated(gone)
  PROVE  /\ tlb' \in [Entries -> Sun3Filling \cup {NoFilling}]
         /\ \A e \in Entries : tlb'[e] = tlb[e] \/ tlb'[e] = NoFilling
         /\ \A e \in Entries : tlb'[e] # NoFilling => e \notin gone /\ tlb'[e] = tlb[e]
BY DEF Invalidated, TypeOK

(* What was remembered of the entries that stay, when nothing changes but  *)
(* the ring of a PMEG, which is emptied, and that it no longer says which  *)
(* entries are gone.                                                       *)
LEMMA PmegForgets ==
  ASSUME IInv, NEW p \in Pmegs, PmegInvalidate(p)
  PROVE  /\ pmegTlbs' \in [Pmegs -> RingOf(PmegTlbs)]
         /\ \A e \in Entries :
               (tlb'[e] # NoFilling /\ Mapped(tlb[e])) =>
                  /\ PmegAt(tlb[e].context, tlb[e].page) # p
                  /\ e \in Held(pmegTlbs[PmegAt(tlb[e].context, tlb[e].page)])
         /\ \A q \in Pmegs \ {p} : pmegTlbs'[q] = pmegTlbs[q]
<1>1. pmegTlbs' \in [Pmegs -> RingOf(PmegTlbs)]
  BY EmptyRingHolds DEF PmegInvalidate, IInv, TypeOK, MmuTypeOK
<1>2. \A q \in Pmegs \ {p} : pmegTlbs'[q] = pmegTlbs[q]
  BY DEF PmegInvalidate, IInv, TypeOK, MmuTypeOK
<1>3. ASSUME NEW e \in Entries, tlb'[e] # NoFilling, Mapped(tlb[e])
      PROVE  /\ PmegAt(tlb[e].context, tlb[e].page) # p
             /\ e \in Held(pmegTlbs[PmegAt(tlb[e].context, tlb[e].page)])
  <2>1. tlb'[e] = tlb[e] /\ e \notin Held(pmegTlbs[p])
    BY <1>3, InvalidatedLoses DEF PmegInvalidate, IInv
  <2>2. e \in Held(pmegTlbs[PmegAt(tlb[e].context, tlb[e].page)])
    BY <1>3, <2>1 DEF IInv, Remembered, Mapped
  <2>3. QED
    BY <2>1, <2>2
<1>4. QED
  BY <1>1, <1>2, <1>3

(* What an entry that is not invalid holds.                                *)
LEMMA FillingTypes ==
  ASSUME TypeOK, NEW e \in Entries, tlb[e] # NoFilling
  PROVE  /\ tlb[e] \in Sun3Filling
         /\ tlb[e].context \in Contexts /\ tlb[e].page \in Page
BY DEF TypeOK, Sun3Filling

(* A page table entry as the program writes it.                            *)
LEMMA PteOfTypes ==
  ASSUME NEW raw \in RawPtes
  PROVE  PteOf(raw) \in Pte
BY DEF PteOf, Pte, RawPte, RO, RW, ERROR

(* Writing a page table entry: it is of one PMEG, whose entries all go.    *)
LEMMA WritePteStep ==
  ASSUME IInv, NEW page \in Page, NEW raw \in RawPtes, WritePte(page, raw)
  PROVE  IInv'
<1> DEFINE p == PmegAt(context, page)
<1>1. p \in Pmegs /\ page[2] \in Indices
  BY PlaceTypes DEF IInv, TypeOK
<1>2. /\ PmegInvalidate(p)
      /\ pte' = [pte EXCEPT ![p][page[2]] = PteOf(raw)]
      /\ UNCHANGED <<segmap, contextTlbs, context, notBoot, sdvma, sdvmaTlbs>>
  BY DEF WritePte, PteSet, regs
<1>3. TypeOK'
  <2>1. pte' \in [Pmegs -> [Indices -> Pte]]
    BY <1>1, <1>2, PteOfTypes DEF IInv, TypeOK, MmuTypeOK
  <2>2. tlb' \in [Entries -> Sun3Filling \cup {NoFilling}]
    BY <1>2, InvalidatedLoses DEF PmegInvalidate, IInv
  <2>3. QED
    BY <1>1, <1>2, <2>1, <2>2, PmegForgets DEF IInv, TypeOK, MmuTypeOK
<1>4. \A e \in Entries : tlb'[e] = tlb[e] \/ tlb'[e] = NoFilling
  BY <1>2, InvalidatedLoses DEF PmegInvalidate, IInv
<1>5. Remembered'
  <2> SUFFICES ASSUME NEW e \in Entries, tlb'[e] # NoFilling, tlb'[e].kind # "prom"
               PROVE  /\ tlb[e].kind # "disabled" =>
                           e \in Held(pmegTlbs'[PmegAt(tlb[e].context, tlb[e].page)'])
                      /\ e \in DvmaEntries => e \in Held(sdvmaTlbs')
                      /\ (e \in DvmaEntries /\ tlb[e].kind # "disabled") =>
                           \/ SameInAllContexts(tlb[e].page)'
                           \/ tlb[e].context = context' /\ e \in Held(contextTlbs')
    BY <1>4 DEF Remembered
  <2>1. tlb'[e] = tlb[e] /\ tlb[e] \in Sun3Filling /\ tlb[e].context \in Contexts /\ tlb[e].page \in Page
    BY <1>4, FillingTypes DEF IInv
  <2> DEFINE q == PmegAt(tlb[e].context, tlb[e].page)
  <2>2. q' = q /\ SameInAllContexts(tlb[e].page)' = SameInAllContexts(tlb[e].page)
    BY <1>2, <2>1 DEF PmegAt, SameInAllContexts
  <2>3. ASSUME tlb[e].kind # "disabled"
        PROVE  e \in Held(pmegTlbs'[q])
    <3>1. Mapped(tlb[e])
      BY <2>1, <2>3 DEF Mapped, Sun3Filling
    <3>2. q # p /\ e \in Held(pmegTlbs[q]) /\ q \in Pmegs
      BY <1>1, <1>2, <2>1, <3>1, PmegForgets, PlaceTypes DEF IInv
    <3>3. QED
      BY <1>1, <1>2, <3>2, PmegForgets
  <2>4. QED
    BY <1>2, <2>1, <2>2, <2>3 DEF IInv, Remembered
<1>6. \A e \in Entries : (tlb'[e] # NoFilling /\ Mapped(tlb[e])) => Unharmed(tlb[e])
  <2> SUFFICES ASSUME NEW e \in Entries, tlb'[e] # NoFilling, Mapped(tlb[e])
               PROVE  Unharmed(tlb[e])
    OBVIOUS
  <2>1. tlb'[e] = tlb[e] /\ tlb[e].context \in Contexts /\ tlb[e].page \in Page
    BY <1>4, FillingTypes DEF IInv
  <2>2. PmegAt(tlb[e].context, tlb[e].page) # p /\ PmegAt(tlb[e].context, tlb[e].page) \in Pmegs
    BY <1>1, <1>2, <2>1, PmegForgets, PlaceTypes DEF IInv
  <2>3. Lookup(tlb[e].context, tlb[e].page)' = Lookup(tlb[e].context, tlb[e].page)
    BY <1>1, <1>2, <2>1, <2>2 DEF Lookup, PmegAt, IInv, TypeOK, MmuTypeOK
  <2>4. QED
    BY <2>1, <2>3 DEF Unharmed, Same
<1>7. QED
  BY <1>2, <1>3, <1>4, <1>5, <1>6, OnlyLosses DEF IInv

(* Writing a segment map entry: what was found through the old PMEG goes,  *)
(* in all contexts, and the pages of other segments are found where they   *)
(* were.                                                                   *)
LEMMA WriteSegmapStep ==
  ASSUME IInv, NEW page \in Page, NEW new \in Pmegs, WriteSegmap(page, new)
  PROVE  IInv'
<1> DEFINE p == PmegAt(context, page)
<1>1. p \in Pmegs /\ page[1] \in Segments /\ context \in Contexts
  BY PlaceTypes DEF IInv, TypeOK
<1>2. /\ PmegInvalidate(p)
      /\ segmap' = [segmap EXCEPT ![context][page[1]] = new]
      /\ UNCHANGED <<pte, contextTlbs, context, notBoot, sdvma, sdvmaTlbs>>
  BY DEF WriteSegmap, SegmapSet, regs
<1>3. TypeOK'
  <2>1. segmap' \in [Contexts -> [Segments -> Pmegs]]
    BY <1>1, <1>2 DEF IInv, TypeOK, MmuTypeOK
  <2>2. tlb' \in [Entries -> Sun3Filling \cup {NoFilling}]
    BY <1>2, InvalidatedLoses DEF PmegInvalidate, IInv
  <2>3. QED
    BY <1>1, <1>2, <2>1, <2>2, PmegForgets DEF IInv, TypeOK, MmuTypeOK
<1>4. \A e \in Entries : tlb'[e] = tlb[e] \/ tlb'[e] = NoFilling
  BY <1>2, InvalidatedLoses DEF PmegInvalidate, IInv
<1>5. \A ctx \in Contexts, at \in Page :
         PmegAt(ctx, at)' = IF ctx = context /\ at[1] = page[1] THEN new ELSE PmegAt(ctx, at)
  BY <1>1, <1>2, PlaceTypes DEF PmegAt, IInv, TypeOK, MmuTypeOK
<1>6. ASSUME NEW e \in Entries, tlb'[e] # NoFilling, Mapped(tlb[e])
      PROVE  LET q == PmegAt(tlb[e].context, tlb[e].page)
             IN  q' = q /\ q # p /\ q \in Pmegs /\ e \in Held(pmegTlbs[q])
  <2>1. tlb'[e] = tlb[e] /\ tlb[e].context \in Contexts /\ tlb[e].page \in Page
    BY <1>4, <1>6, FillingTypes DEF IInv
  <2> DEFINE q == PmegAt(tlb[e].context, tlb[e].page)
  <2>2. q # p /\ e \in Held(pmegTlbs[q]) /\ q \in Pmegs
    BY <1>1, <1>2, <1>6, <2>1, PmegForgets, PlaceTypes DEF IInv
  <2>3. ~(tlb[e].context = context /\ tlb[e].page[1] = page[1])
    BY <2>2 DEF PmegAt
  <2>4. q' = q
    BY <2>1, <2>3, <1>5
  <2>5. QED
    BY <2>2, <2>4
<1>7. Remembered'
  <2> SUFFICES ASSUME NEW e \in Entries, tlb'[e] # NoFilling, tlb'[e].kind # "prom"
               PROVE  /\ tlb[e].kind # "disabled" =>
                           e \in Held(pmegTlbs'[PmegAt(tlb[e].context, tlb[e].page)'])
                      /\ e \in DvmaEntries => e \in Held(sdvmaTlbs')
                      /\ (e \in DvmaEntries /\ tlb[e].kind # "disabled") =>
                           \/ SameInAllContexts(tlb[e].page)'
                           \/ tlb[e].context = context' /\ e \in Held(contextTlbs')
    BY <1>4 DEF Remembered
  <2>1. tlb'[e] = tlb[e] /\ tlb[e] \in Sun3Filling /\ tlb[e].context \in Contexts /\ tlb[e].page \in Page
    BY <1>4, FillingTypes DEF IInv
  <2> DEFINE q == PmegAt(tlb[e].context, tlb[e].page)
  <2>2. e \in DvmaEntries => e \in Held(sdvmaTlbs')
    BY <1>2, <2>1 DEF IInv, Remembered
  <2>3. CASE tlb[e].kind = "disabled"
    BY <2>2, <2>3
  <2>4. CASE tlb[e].kind # "disabled"
    <3>1. Mapped(tlb[e])
      BY <2>1, <2>4 DEF Mapped, Sun3Filling
    <3>2. q' = q /\ q # p /\ q \in Pmegs /\ e \in Held(pmegTlbs[q])
      BY <3>1, <1>6
    <3>3. e \in Held(pmegTlbs'[q'])
      BY <1>1, <1>2, <3>2, PmegForgets
    <3>4. ASSUME e \in DvmaEntries, SameInAllContexts(tlb[e].page)
          PROVE  SameInAllContexts(tlb[e].page)'
      <4>1. PmegAt(context, tlb[e].page) = q
        BY <3>4, <2>1, <1>1 DEF SameInAllContexts
      <4>2. tlb[e].page[1] # page[1]
        BY <4>1, <3>2 DEF PmegAt
      <4>3. QED
        BY <3>4, <4>2, <2>1, <1>5 DEF SameInAllContexts
    <3>5. QED
      BY <1>2, <2>1, <2>2, <2>4, <3>3, <3>4 DEF IInv, Remembered
  <2>5. QED
    BY <2>3, <2>4
<1>8. \A e \in Entries : (tlb'[e] # NoFilling /\ Mapped(tlb[e])) => Unharmed(tlb[e])
  <2> SUFFICES ASSUME NEW e \in Entries, tlb'[e] # NoFilling, Mapped(tlb[e])
               PROVE  Unharmed(tlb[e])
    OBVIOUS
  <2>1. tlb'[e] = tlb[e] /\ tlb[e].context \in Contexts /\ tlb[e].page \in Page
    BY <1>4, FillingTypes DEF IInv
  <2>2. PmegAt(tlb[e].context, tlb[e].page)' = PmegAt(tlb[e].context, tlb[e].page)
    BY <1>6
  <2>3. Lookup(tlb[e].context, tlb[e].page)' = Lookup(tlb[e].context, tlb[e].page)
    BY <1>2, <2>1, <2>2 DEF Lookup
  <2>4. QED
    BY <2>1, <2>3 DEF Unharmed, Same
<1>9. QED
  BY <1>2, <1>3, <1>4, <1>7, <1>8, OnlyLosses DEF IInv

(* Changes of the registers leave the maps, and so what every entry that   *)
(* stays says; it remains to see that it is where it must be remembered.   *)
LEMMA RegistersStep ==
  ASSUME IInv, TypeOK', UNCHANGED <<segmap, pte, pmegTlbs>>,
         \A e \in Entries : tlb'[e] = tlb[e] \/ tlb'[e] = NoFilling,
         \A e \in DvmaEntries : tlb'[e] # NoFilling =>
            /\ sdvma' = sdvma
            /\ e \in Held(sdvmaTlbs) => e \in Held(sdvmaTlbs')
            /\ \/ context' = context /\ contextTlbs' = contextTlbs
               \/ e \notin Held(contextTlbs)
  PROVE  IInv'
<1>1. \A ctx, at : /\ PmegAt(ctx, at)' = PmegAt(ctx, at)
                   /\ Lookup(ctx, at)' = Lookup(ctx, at)
                   /\ SameInAllContexts(at)' = SameInAllContexts(at)
  BY DEF PmegAt, Lookup, SameInAllContexts
<1>2. Remembered'
  BY <1>1 DEF IInv, Remembered
<1>3. \A e \in Entries : (tlb'[e] # NoFilling /\ Mapped(tlb[e])) => Unharmed(tlb[e])
  BY <1>1 DEF Unharmed, Same
<1>4. QED
  BY <1>2, <1>3, OnlyLosses DEF IInv

(* The context register: entries of bus masters that depend on the context *)
(* go.                                                                     *)
LEMMA WriteContextStep ==
  ASSUME IInv, NEW c \in Contexts, WriteContext(c)
  PROVE  IInv'
<1>1. TypeOK'
  BY EmptyRingHolds, InvalidatedLoses
  DEF WriteContext, ContextSwitched, IInv, TypeOK, MmuTypeOK
<1>2. QED
  BY <1>1, InvalidatedLoses, RegistersStep DEF WriteContext, ContextSwitched, IInv

(* The enable register: the boot state is part of the context, and the     *)
(* entries for system DVMA go when its bit changes.                        *)
LEMMA WriteEnableStep ==
  ASSUME IInv, NEW boots \in BOOLEAN, NEW on \in BOOLEAN, WriteEnable(boots, on)
  PROVE  IInv'
<1> DEFINE gone == SdvmaChange(on) \cup IF boots # notBoot THEN Held(contextTlbs) ELSE {}
<1>1. /\ tlb' = Invalidated(gone)
      /\ \A e \in Entries : tlb'[e] # NoFilling => e \notin gone /\ tlb'[e] = tlb[e]
      /\ \A e \in Entries : tlb'[e] = tlb[e] \/ tlb'[e] = NoFilling
      /\ tlb' \in [Entries -> Sun3Filling \cup {NoFilling}]
  BY InvalidatedLoses DEF WriteEnable, IInv
<1>2. TypeOK'
  BY <1>1, EmptyRingHolds DEF WriteEnable, IInv, TypeOK, MmuTypeOK
<1>3. ASSUME NEW e \in DvmaEntries, tlb'[e] # NoFilling
      PROVE  /\ sdvma' = sdvma
             /\ e \in Held(sdvmaTlbs) => e \in Held(sdvmaTlbs')
             /\ \/ context' = context /\ contextTlbs' = contextTlbs
                \/ e \notin Held(contextTlbs)
  <2>1. e \notin gone /\ tlb[e] # NoFilling
    BY <1>1, <1>3
  <2>2. e \in Held(sdvmaTlbs)
    BY <2>1 DEF IInv, Remembered, Labelled
  <2>3. on = sdvma
    BY <2>1, <2>2 DEF SdvmaChange
  <2>4. QED
    BY <2>1, <2>3 DEF WriteEnable
<1>4. QED
  BY <1>1, <1>2, <1>3, RegistersStep DEF WriteEnable

(* The memory error test leaves no entry.                                  *)
LEMMA MemerrTestStep ==
  ASSUME IInv, MemerrTest
  PROVE  IInv'
<1>1. \A e \in Entries : tlb'[e] = NoFilling
  BY DEF MemerrTest, TlbsInvalidate, Invalidated
<1>2. TypeOK'
  BY InvalidatedLoses DEF MemerrTest, TlbsInvalidate, regs, IInv, TypeOK, MmuTypeOK
<1>3. QED
  BY <1>1, <1>2, RegistersStep DEF MemerrTest, TlbsInvalidate

-----------------------------------------------------------------------------
(* Fills.                                                                  *)

(* What a fill finds agrees with the maps, is good for the access it was   *)
(* made for, and shows in the page table entry.                            *)
LEMMA FillingGood ==
  ASSUME TypeOK, NEW ctx \in Contexts, NEW page \in Page, NEW code \in Codes,
         NEW access \in {RO, RW}, notBoot \/ code # "SP"
  PROVE  LET f == Sun3FillingOf(ctx, page, code, access)
             t == Touched(Lookup(ctx, page), Accessor(code), access)
         IN  /\ f \in Sun3Filling /\ Mapped(f)
             /\ f.page = page /\ f.context = ctx
             /\ code \in f.codes /\ Cycle(access) \in f.cycles
             /\ "SP" \in f.codes => f.notBoot
             /\ Agrees(f, ctx)
             /\ f.kind = "page" => t.ref /\ ("WRITE" \in f.cycles => t.mod)
<1> DEFINE q == Lookup(ctx, page)
           who == Accessor(code)
           m == FillingOf(q, page, who, access)
           f == Sun3FillingOf(ctx, page, code, access)
<1>1. q \in Pte /\ who \in Accessors 
  BY PlaceTypes DEF Accessor, Accessors
<1>2. q.prot \in [Accessors -> {ERROR, RO, RW}] /\ q.frame \in Nat /\ q.valid \in BOOLEAN
      /\ q.ref \in BOOLEAN /\ q.mod \in BOOLEAN
  BY <1>1 DEF Pte
<1>3. /\ f.kind = m.kind /\ f.page = m.page /\ f.frame = m.frame /\ f.cycles = m.cycles
      /\ f.context = ctx /\ f.notBoot = notBoot
      /\ f.codes = {c \in Codes : Accessor(c) \in m.codes /\ (notBoot \/ c # "SP")}
  BY DEF Sun3FillingOf
<1>4. /\ m.page = page /\ who \in m.codes /\ m.codes \subseteq Accessors
      /\ m.kind \in {"page", "invalid", "proterr"}
      /\ m.frame \in Nat
      /\ m.cycles \subseteq {"READ", "WRITE"} /\ Cycle(access) \in m.cycles
  BY <1>1, <1>2
  DEF FillingOf, ValidFor, Denied, Writable, Other, Accessors, Cycle, RO, RW, ERROR
<1>5. f \in Sun3Filling
  <2>1. f.codes \subseteq Codes
    BY <1>3, <1>4 DEF Codes
  <2>2. f.kind \in {"page", "invalid", "proterr", "prom", "disabled"} /\ f.page \in Page
        /\ f.cycles \subseteq {"READ", "WRITE"} /\ f.frame \in Nat /\ f.notBoot \in BOOLEAN
    BY <1>3, <1>4 DEF TypeOK
  <2>3. f = [kind |-> f.kind, page |-> f.page, frame |-> f.frame, codes |-> f.codes,
             cycles |-> f.cycles, context |-> f.context, notBoot |-> f.notBoot]
    BY DEF Sun3FillingOf
  <2>4. QED
    BY <1>3, <2>1, <2>2, <2>3 DEF Sun3Filling
<1>6. code \in f.codes /\ ("SP" \in f.codes => f.notBoot)
  BY <1>1, <1>3, <1>4
<1>7. \A c \in f.codes : Accessor(c) \in m.codes
  BY <1>3, <1>4 DEF Accessor, Accessors
<1>8. Agrees(f, ctx)
  <2>1. CASE ~q.valid
    BY <2>1, <1>3, <1>4 DEF FillingOf, Agrees
  <2>2. CASE q.valid /\ q.prot[who] < access
    <3>1. f.kind = "proterr" /\ m.cycles = Denied(q, who)
      BY <2>2, <1>3 DEF FillingOf
    <3>2. \A cycle \in f.cycles : ~Allows(q, code, cycle)
      BY <2>2, <3>1, <1>1, <1>2, <1>3 DEF Denied, Allows, ERROR, RO, RW
    <3>3. QED
      BY <2>2, <3>1, <3>2, <1>3, <1>4, <1>6 DEF Agrees
  <2>3. CASE q.valid /\ ~(q.prot[who] < access)
    <3>1. /\ f.kind = "page" /\ m.frame = q.frame /\ m.codes = ValidFor(q, who)
          /\ m.cycles = {"READ"} \cup {c \in {"WRITE"} : Writable(q, who, access)}
      BY <2>3, <1>3 DEF FillingOf
    <3>2. \A a \in m.codes : q.prot[a] >= q.prot[who]
      BY <3>1, <1>1, <1>2 DEF ValidFor, Other, Accessors, ERROR, RO, RW
    <3>3. \A c \in f.codes, cycle \in f.cycles : Allows(q, c, cycle)
      BY <2>3, <3>1, <3>2, <1>1, <1>2, <1>3, <1>4, <1>7 DEF Allows, Writable, ERROR, RO, RW
    <3>4. QED
      BY <2>3, <3>1, <3>3, <1>3, <1>4 DEF Agrees
  <2>4. QED
    BY <2>1, <2>2, <2>3
<1>9. f.kind = "page" => LET t == Touched(q, who, access)
                         IN  t.ref /\ ("WRITE" \in f.cycles => t.mod)
  <2> SUFFICES ASSUME f.kind = "page"
               PROVE  LET t == Touched(q, who, access)
                      IN  t.ref /\ ("WRITE" \in f.cycles => t.mod)
    OBVIOUS
  <2>1. /\ q.valid /\ ~(q.prot[who] < access)
        /\ "WRITE" \in f.cycles => Writable(q, who, access)
    BY <1>3 DEF FillingOf
  <2>2. q.prot[who] >= access
    BY <2>1, <1>1, <1>2 DEF ERROR, RO, RW
  <2>3. QED
    BY <2>1, <2>2, <1>1, TouchedSays DEF Writable
<1>10. QED
  BY <1>3, <1>4, <1>5, <1>6, <1>8, <1>9 DEF Mapped

(* A fill from the maps keeps the invariant if its caller's rings lose     *)
(* nobody that they do not say is gone, and have the new entry where a bus *)
(* master needs it.                                                        *)
LEMMA TlbFillStep ==
  ASSUME IInv, NEW e \in Entries, NEW page \in Page, NEW code \in Codes,
         NEW access \in {RO, RW}, NEW gone, notBoot \/ code # "SP",
         TlbFill(e, context, page, Accessor(code), access, gone,
                 Sun3FillingOf(context, page, code, access)),
         UNCHANGED regs,
         contextTlbs' \in RingOf(ContextTlbs), sdvmaTlbs' \in RingOf(SdvmaTlbs),
         \A x \in DvmaEntries \ gone :
            /\ x \in Held(sdvmaTlbs) => x \in Held(sdvmaTlbs')
            /\ x \in Held(contextTlbs) => x \in Held(contextTlbs'),
         e \in DvmaEntries => /\ sdvma /\ e \in Held(sdvmaTlbs')
                              /\ SameInAllContexts(page) \/ e \in Held(contextTlbs')
  PROVE  IInv'
<1> DEFINE p == PmegAt(context, page)
           new == Sun3FillingOf(context, page, code, access)
           old == Lookup(context, page)
           touched == Touched(old, Accessor(code), access)
           lost == gone \cup Evicted(pmegTlbs[p], e)
<1>1. /\ context \in Contexts /\ p \in Pmegs /\ page[2] \in Indices
      /\ old \in Pte /\ old = pte[p][page[2]]
      /\ pmegTlbs[p] \in RingOf(PmegTlbs) /\ PmegTlbs \in Nat \ {0}
      /\ Accessor(code) \in Accessors
  BY PlaceTypes DEF IInv, TypeOK, MmuTypeOK, Accessor, Accessors
<1>2. /\ pmegTlbs' = [pmegTlbs EXCEPT ![p] = Pushed(pmegTlbs[p], e)]
      /\ pte' = [pte EXCEPT ![p][page[2]] = touched]
      /\ tlb' = [Invalidated(lost) EXCEPT ![e] = new]
      /\ UNCHANGED <<segmap, context, notBoot, sdvma>>
  BY <1>1 DEF TlbFill, regs
<1>3. /\ new \in Sun3Filling /\ Mapped(new) /\ new.page = page /\ new.context = context
      /\ "SP" \in new.codes => new.notBoot
      /\ Agrees(new, context)
      /\ new.kind = "page" => touched.ref /\ ("WRITE" \in new.cycles => touched.mod)
  BY <1>1, FillingGood DEF IInv
<1>4. touched \in Pte /\ Same(old, touched)
  BY <1>1, TouchedSays DEF Same
<1>5. /\ tlb'[e] = new
      /\ \A x \in Entries \ {e} : /\ tlb'[x] = tlb[x] \/ tlb'[x] = NoFilling
                                  /\ tlb'[x] # NoFilling => x \notin lost
  BY <1>2 DEF Invalidated
<1>6. TypeOK'
  <2>1. pte' \in [Pmegs -> [Indices -> Pte]]
    BY <1>1, <1>2, <1>4 DEF IInv, TypeOK, MmuTypeOK
  <2>2. tlb' \in [Entries -> Sun3Filling \cup {NoFilling}]
    BY <1>2, <1>3 DEF Invalidated, IInv, TypeOK
  <2>3. pmegTlbs' \in [Pmegs -> RingOf(PmegTlbs)]
    BY <1>1, <1>2, PushedHolds DEF IInv, TypeOK, MmuTypeOK
  <2>4. QED
    BY <1>2, <2>1, <2>2, <2>3 DEF IInv, TypeOK, MmuTypeOK
<1>7. \A ctx, at : /\ PmegAt(ctx, at)' = PmegAt(ctx, at)
                   /\ SameInAllContexts(at)' = SameInAllContexts(at)
  BY <1>2 DEF PmegAt, SameInAllContexts
<1>8. \A ctx \in Contexts, at \in Page : Same(Lookup(ctx, at), Lookup(ctx, at)')
  <2> SUFFICES ASSUME NEW ctx \in Contexts, NEW at \in Page
               PROVE  Same(Lookup(ctx, at), Lookup(ctx, at)')
    OBVIOUS
  <2>1. /\ PmegAt(ctx, at) \in Pmegs /\ at[2] \in Indices
        /\ Lookup(ctx, at) = pte[PmegAt(ctx, at)][at[2]]
        /\ Lookup(ctx, at)' = pte'[PmegAt(ctx, at)][at[2]]
    BY <1>7, PlaceTypes DEF IInv, Lookup
  <2>2. CASE PmegAt(ctx, at) = p /\ at[2] = page[2]
    BY <1>1, <1>2, <1>4, <2>1, <2>2 DEF IInv, TypeOK, MmuTypeOK
  <2>3. CASE ~(PmegAt(ctx, at) = p /\ at[2] = page[2])
    <3>1. Lookup(ctx, at)' = Lookup(ctx, at)
      BY <1>1, <1>2, <2>1, <2>3 DEF IInv, TypeOK, MmuTypeOK
    <3>2. QED
      BY <3>1 DEF Same
  <2>4. QED
    BY <2>2, <2>3
<1>9. Lookup(context, page)' = touched
  BY <1>1, <1>2, <1>7 DEF Lookup, IInv, TypeOK, MmuTypeOK
<1> HIDE DEF p, new, old, touched, lost
<1>10. Remembered'
  <2> SUFFICES ASSUME NEW x \in Entries, tlb'[x] # NoFilling, tlb'[x].kind # "prom"
               PROVE  /\ tlb'[x].kind # "disabled" =>
                           x \in Held(pmegTlbs'[PmegAt(tlb[x].context, tlb[x].page)'])
                      /\ x \in DvmaEntries => x \in Held(sdvmaTlbs')
                      /\ (x \in DvmaEntries /\ tlb'[x].kind # "disabled") =>
                           \/ SameInAllContexts(tlb[x].page)'
                           \/ tlb'[x].context = context' /\ x \in Held(contextTlbs')
    BY DEF Remembered
  <2>1. CASE x = e
    <3>1. e \in Held(pmegTlbs'[p])
      BY <1>1, <1>2, PushedHolds DEF IInv, TypeOK, MmuTypeOK
    <3>2. QED
      BY <2>1, <3>1, <1>2, <1>3, <1>5, <1>7 DEF p
  <2>2. CASE x # e
    <3>1. /\ tlb'[x] = tlb[x] /\ x \notin gone /\ x \notin Evicted(pmegTlbs[p], e)
          /\ tlb[x].context \in Contexts /\ tlb[x].page \in Page
      BY <2>2, <1>5, FillingTypes DEF IInv, lost
    <3> DEFINE q == PmegAt(tlb[x].context, tlb[x].page)
    <3>2. q \in Pmegs /\ PmegAt(tlb[x].context, tlb[x].page)' = q
      BY <3>1, <1>7, PlaceTypes DEF IInv
    <3>3. ASSUME tlb[x].kind # "disabled"
          PROVE  x \in Held(pmegTlbs'[q])
      <4>1. x \in Held(pmegTlbs[q])
        BY <3>1, <3>3 DEF IInv, Remembered
      <4>2. CASE q = p
        <5>1. pmegTlbs'[p] = Pushed(pmegTlbs[p], e)
          BY <1>1, <1>2 DEF IInv, TypeOK, MmuTypeOK
        <5>2. QED
          BY <1>1, <3>1, <4>1, <4>2, <5>1, PushedHolds
      <4>3. CASE q # p
        BY <1>2, <3>2, <4>1, <4>3 DEF IInv, TypeOK, MmuTypeOK
      <4>4. QED
        BY <4>2, <4>3
    <3>4. QED
      BY <1>2, <1>7, <3>1, <3>2, <3>3 DEF IInv, Remembered
  <2>3. QED
    BY <2>1, <2>2
<1>11. AllAgree'
  <2> SUFFICES ASSUME NEW x \in Entries, tlb'[x] # NoFilling, Mapped(tlb'[x])
               PROVE  Agrees(tlb[x], tlb[x].context)'
    BY DEF AllAgree
  <2>1. \A f, c : (Agrees(f, c) /\ Same(Lookup(c, f.page), Lookup(c, f.page)')) => Agrees(f, c)'
    BY SurvivorAgrees
  <2>2. CASE x = e
    BY <2>1, <2>2, <1>1, <1>3, <1>5, <1>8
  <2>3. CASE x # e
    <3>1. /\ tlb'[x] = tlb[x] /\ tlb[x].context \in Contexts /\ tlb[x].page \in Page
          /\ Agrees(tlb[x], tlb[x].context)
      BY <2>3, <1>5, FillingTypes DEF IInv, AllAgree
    <3>2. QED
      BY <3>1, <2>1, <1>8
  <2>4. QED
    BY <2>2, <2>3
<1>12. Labelled'
  BY <1>2, <1>3, <1>5 DEF IInv, Labelled, Mapped
<1>13. ChangesRecorded'
  <2> SUFFICES ASSUME NEW x \in Entries, tlb'[x] # NoFilling, tlb'[x].kind = "page"
               PROVE  LET q == Lookup(tlb[x].context, tlb[x].page)'
                      IN  q.ref /\ ("WRITE" \in tlb'[x].cycles => q.mod)
    BY DEF ChangesRecorded
  <2>1. CASE x = e
    BY <2>1, <1>2, <1>3, <1>5, <1>9
  <2>2. CASE x # e
    <3>1. /\ tlb'[x] = tlb[x] /\ tlb[x].context \in Contexts /\ tlb[x].page \in Page
      BY <2>2, <1>5, FillingTypes DEF IInv
    <3>2. QED
      BY <3>1, <1>8 DEF IInv, ChangesRecorded, Same
  <2>3. QED
    BY <2>1, <2>2
<1>14. QED
  BY <1>6, <1>10, <1>11, <1>12, <1>13 DEF IInv

(* A fill for the CPU.                                                     *)
LEMMA CpuFillStep ==
  ASSUME IInv, NEW e \in CpuEntries, NEW page \in Page, NEW code \in Codes,
         NEW access \in {RO, RW}, CpuFill(e, code, page, access)
  PROVE  IInv'
<1>1. /\ e \in Entries /\ e \notin DvmaEntries
      /\ notBoot \/ code # "SP"
      /\ contextTlbs' \in RingOf(ContextTlbs) /\ sdvmaTlbs' \in RingOf(SdvmaTlbs)
  BY DEF CpuFill, IInv, TypeOK, MmuTypeOK
<1>2. QED
  BY <1>1, TlbFillStep DEF CpuFill

(* An entry for the PROM, of which the maps and the rings know nothing.    *)
LEMMA PromFillStep ==
  ASSUME IInv, NEW e \in CpuEntries, NEW page \in Page, NEW access \in {RO, RW},
         PromFill(e, page, access)
  PROVE  IInv'
<1> DEFINE new == PromFilling(page)
<1>1. /\ tlb' = [tlb EXCEPT ![e] = new] /\ e \in Entries /\ ~notBoot
      /\ UNCHANGED <<segmap, pte, pmegTlbs, contextTlbs, context, notBoot, sdvma, sdvmaTlbs>>
  BY DEF PromFill, regs
<1>2. new \in Sun3Filling /\ ~Mapped(new)
  BY DEF PromFilling, Sun3Filling, Mapped, Codes, IInv, TypeOK
<1>3. /\ new.kind = "prom" /\ new.codes = {"SP"} /\ new.notBoot = notBoot
  BY DEF PromFilling
<1> HIDE DEF new
<1>4. TypeOK'
  BY <1>1, <1>2 DEF IInv, TypeOK, MmuTypeOK
<1>5. tlb'[e] = new /\ \A x \in Entries \ {e} : tlb'[x] = tlb[x]
  BY <1>1 DEF IInv, TypeOK
<1>6. \A ctx, at : /\ PmegAt(ctx, at)' = PmegAt(ctx, at)
                   /\ Lookup(ctx, at)' = Lookup(ctx, at)
                   /\ SameInAllContexts(at)' = SameInAllContexts(at)
  BY <1>1 DEF PmegAt, Lookup, SameInAllContexts
<1>7. Remembered'
  BY <1>1, <1>3, <1>5, <1>6 DEF IInv, Remembered
<1>8. AllAgree'
  <2> SUFFICES ASSUME NEW x \in Entries, tlb'[x] # NoFilling, Mapped(tlb'[x])
               PROVE  Agrees(tlb[x], tlb[x].context)'
    BY DEF AllAgree
  <2>1. tlb'[x] = tlb[x] /\ Agrees(tlb[x], tlb[x].context)
    BY <1>2, <1>5 DEF IInv, AllAgree
  <2>2. \A f, c : (Agrees(f, c) /\ Same(Lookup(c, f.page), Lookup(c, f.page)')) => Agrees(f, c)'
    BY SurvivorAgrees
  <2>3. QED
    BY <2>1, <2>2, <1>6 DEF Same
<1>9. Labelled'
  BY <1>1, <1>2, <1>3, <1>5 DEF IInv, Labelled, Mapped
<1>10. ChangesRecorded'
  BY <1>3, <1>5, <1>6 DEF IInv, ChangesRecorded
<1>11. QED
  BY <1>4, <1>7, <1>8, <1>9, <1>10 DEF IInv

(* An entry that only makes faults, while system DVMA is disabled.         *)
LEMMA DisabledFillStep ==
  ASSUME IInv, NEW e \in DvmaEntries, NEW page \in DvmaPages, NEW access \in {RO, RW},
         DisabledFill(e, page, access)
  PROVE  IInv'
<1> DEFINE lost == Evicted(sdvmaTlbs, e)
           new == [kind |-> "disabled", page |-> page, frame |-> 0, codes |-> {"SD"},
                   cycles |-> {"READ", "WRITE"}, context |-> context, notBoot |-> notBoot]
<1>1. /\ tlb' = [Invalidated(lost) EXCEPT ![e] = new] /\ e \in Entries /\ ~sdvma
      /\ sdvmaTlbs' = Pushed(sdvmaTlbs, e)
      /\ UNCHANGED <<segmap, pte, pmegTlbs, contextTlbs, context, notBoot, sdvma>>
  BY DEF DisabledFill, regs
<1>2. new \in Sun3Filling /\ ~Mapped(new) /\ page \in Page
  BY DEF Sun3Filling, Mapped, Codes, IInv, TypeOK
<1>3. new.kind = "disabled"
  OBVIOUS
<1> HIDE DEF new, lost
<1>4. /\ tlb'[e] = new
      /\ \A x \in Entries \ {e} : /\ tlb'[x] = tlb[x] \/ tlb'[x] = NoFilling
                                  /\ tlb'[x] # NoFilling => x \notin lost
  BY <1>1 DEF Invalidated
<1>5. /\ sdvmaTlbs' \in RingOf(SdvmaTlbs) /\ e \in Held(sdvmaTlbs')
      /\ \A x \in Held(sdvmaTlbs) \ lost : x \in Held(sdvmaTlbs')
  BY <1>1, PushedHolds DEF IInv, TypeOK, lost
<1>6. TypeOK'
  <2>1. tlb' \in [Entries -> Sun3Filling \cup {NoFilling}]
    BY <1>1, <1>2 DEF Invalidated, IInv, TypeOK
  <2>2. QED
    BY <1>1, <1>5, <2>1 DEF IInv, TypeOK, MmuTypeOK
<1>7. \A ctx, at : /\ PmegAt(ctx, at)' = PmegAt(ctx, at)
                   /\ Lookup(ctx, at)' = Lookup(ctx, at)
                   /\ SameInAllContexts(at)' = SameInAllContexts(at)
  BY <1>1 DEF PmegAt, Lookup, SameInAllContexts
<1>8. Remembered'
  <2> SUFFICES ASSUME NEW x \in Entries, tlb'[x] # NoFilling, tlb'[x].kind # "prom"
               PROVE  /\ tlb'[x].kind # "disabled" =>
                           x \in Held(pmegTlbs'[PmegAt(tlb[x].context, tlb[x].page)'])
                      /\ x \in DvmaEntries => x \in Held(sdvmaTlbs')
                      /\ (x \in DvmaEntries /\ tlb'[x].kind # "disabled") =>
                           \/ SameInAllContexts(tlb[x].page)'
                           \/ tlb'[x].context = context' /\ x \in Held(contextTlbs')
    BY DEF Remembered
  <2>1. CASE x = e
    BY <2>1, <1>3, <1>4, <1>5
  <2>2. CASE x # e
    BY <2>2, <1>1, <1>4, <1>5, <1>7 DEF IInv, Remembered
  <2>3. QED
    BY <2>1, <2>2
<1>9. AllAgree'
  <2> SUFFICES ASSUME NEW x \in Entries, tlb'[x] # NoFilling, Mapped(tlb'[x])
               PROVE  Agrees(tlb[x], tlb[x].context)'
    BY DEF AllAgree
  <2>1. tlb'[x] = tlb[x] /\ Agrees(tlb[x], tlb[x].context)
    BY <1>2, <1>4 DEF IInv, AllAgree
  <2>2. \A f, c : (Agrees(f, c) /\ Same(Lookup(c, f.page), Lookup(c, f.page)')) => Agrees(f, c)'
    BY SurvivorAgrees
  <2>3. QED
    BY <2>1, <2>2, <1>7 DEF Same
<1>10. Labelled'
  BY <1>1, <1>2, <1>3, <1>4 DEF IInv, Labelled, Mapped
<1>11. ChangesRecorded'
  BY <1>3, <1>4, <1>7 DEF IInv, ChangesRecorded
<1>12. QED
  BY <1>6, <1>8, <1>9, <1>10, <1>11 DEF IInv

(* A fill for system DVMA that the maps answer.                            *)
LEMMA DvmaFillStep ==
  ASSUME IInv, NEW e \in DvmaEntries, NEW page \in DvmaPages, NEW access \in {RO, RW},
         DvmaFill(e, page, access)
  PROVE  IInv'
<1> DEFINE gone == Evicted(sdvmaTlbs, e) \cup ContextEvicted(e, page)
<1>1. /\ e \in Entries /\ page \in Page /\ "SD" \in Codes /\ "SD" # "SP"
      /\ Accessor("SD") = "SYSTEM"
      /\ sdvma /\ UNCHANGED regs
      /\ TlbFill(e, context, page, "SYSTEM", access, gone,
                 Sun3FillingOf(context, page, "SD", access))
      /\ sdvmaTlbs' = Pushed(sdvmaTlbs, e)
      /\ contextTlbs' = IF SameInAllContexts(page) THEN contextTlbs ELSE Pushed(contextTlbs, e)
  BY DEF DvmaFill, Codes, Accessor, ContextAdd
<1>2. /\ sdvmaTlbs' \in RingOf(SdvmaTlbs) /\ e \in Held(sdvmaTlbs')
      /\ \A x \in Held(sdvmaTlbs) \ gone : x \in Held(sdvmaTlbs')
  BY <1>1, PushedHolds DEF IInv, TypeOK
<1>3. /\ contextTlbs' \in RingOf(ContextTlbs)
      /\ SameInAllContexts(page) \/ e \in Held(contextTlbs')
      /\ \A x \in Held(contextTlbs) \ gone : x \in Held(contextTlbs')
  BY <1>1, PushedHolds DEF IInv, TypeOK, MmuTypeOK, ContextEvicted
<1>4. QED
  BY <1>1, <1>2, <1>3, TlbFillStep

-----------------------------------------------------------------------------
(* The theorems.                                                           *)

(* At first there are no entries.                                          *)
LEMMA InitIInv ==
  ASSUME Init
  PROVE  IInv
<1>1. \A e \in Entries : tlb[e] = NoFilling
  BY DEF Init, MmuInit
<1>2. NullPte \in Pte
  BY DEF NullPte, Pte, ERROR
<1>3. TypeOK
  BY <1>2, EmptyRingHolds DEF Init, MmuInit, TypeOK, MmuTypeOK
<1>4. QED
  BY <1>1, <1>3 DEF IInv, Remembered, AllAgree, Labelled, ChangesRecorded

(* Every step keeps the invariant.                                         *)
LEMMA NextIInv ==
  ASSUME IInv, [Next]_vars
  PROVE  IInv'
<1>1. CASE Control
  BY <1>1, WritePteStep, WriteSegmapStep, WriteContextStep, WriteEnableStep, MemerrTestStep
  DEF Control
<1>2. CASE Fill
  BY <1>2, CpuFillStep, PromFillStep, DisabledFillStep, DvmaFillStep DEF Fill
<1>3. CASE UNCHANGED vars
  <2>1. TypeOK'
    BY <1>3 DEF vars, mmuVars, regs, IInv, TypeOK, MmuTypeOK
  <2>2. QED
    BY <1>3, <2>1, RegistersStep DEF vars, mmuVars, regs
<1>4. QED
  BY <1>1, <1>2, <1>3 DEF Next

(* So the invariant holds always.                                          *)
THEOREM Sun3Invariance == Spec => []IInv
BY InitIInv, NextIInv, PTL DEF Spec

(* The maps, the rings and what the entries hold keep their types (the     *)
(* tables of sun-mmu.c, the registers of sun3-control.c).                  *)
THEOREM Sun3TypeCorrect == Spec => []TypeOK
<1>1. IInv => TypeOK
  BY DEF IInv
<1>2. QED
  BY <1>1, Sun3Invariance, PTL

(* Every entry that depends on the maps is in the rings in which the       *)
(* changes of the maps, of the context and of the enable register look for *)
(* it, although the rings forget (tme_sun_mmu_tlb_fill and                 *)
(* tme_sun_mmu_tlbs_context_add of sun-mmu.c).                             *)
THEOREM EntriesRemembered == Spec => []Remembered
<1>1. IInv => Remembered
  BY DEF IInv
<1>2. QED
  BY <1>1, Sun3Invariance, PTL

(* What an entry of the CPU says of its bus context is what the maps say   *)
(* now, for any maps, any number of entries and rings of any size: no      *)
(* translation or protection outlives its change.                          *)
THEOREM CpuEntriesAgree == Spec => []CpuAgrees
<1>1. IInv => CpuAgrees
  <2> SUFFICES ASSUME IInv, NEW e \in CpuEntries, tlb[e] # NoFilling
               PROVE  IF tlb[e].kind = "prom" THEN tlb[e].codes = {"SP"} /\ ~tlb[e].notBoot
                      ELSE /\ Agrees(tlb[e], tlb[e].context)
                           /\ "SP" \in tlb[e].codes => tlb[e].notBoot
    BY DEF CpuAgrees
  <2>1. tlb[e].kind \in {"page", "invalid", "proterr", "prom", "disabled"}
    BY FillingTypes DEF IInv, Sun3Filling
  <2>2. tlb[e].kind # "disabled"
    BY DEF IInv, Labelled
  <2>3. QED
    BY <2>1, <2>2 DEF IInv, Labelled, AllAgree, Mapped
<1>2. QED
  BY <1>1, Sun3Invariance, PTL

(* An entry of a bus master, which has no tag, says what the maps say of   *)
(* the context that is current now, or that system DVMA is disabled.       *)
THEOREM DvmaEntriesAgree == Spec => []DvmaAgrees
<1>1. IInv => DvmaAgrees
  <2> SUFFICES ASSUME IInv, NEW e \in DvmaEntries, tlb[e] # NoFilling
               PROVE  IF tlb[e].kind = "disabled" THEN ~sdvma
                      ELSE sdvma /\ Agrees(tlb[e], context)
    BY DEF DvmaAgrees
  <2>1. /\ tlb[e].kind \in {"page", "invalid", "proterr", "prom", "disabled"}
        /\ tlb[e].context \in Contexts /\ context \in Contexts
    BY FillingTypes DEF IInv, Sun3Filling, TypeOK
  <2>2. tlb[e].kind # "prom"
    BY DEF IInv, Labelled
  <2>3. CASE tlb[e].kind = "disabled"
    BY <2>3 DEF IInv, Labelled
  <2>4. CASE tlb[e].kind # "disabled"
    <3>1. sdvma /\ Agrees(tlb[e], tlb[e].context)
      BY <2>1, <2>2, <2>4 DEF IInv, Labelled, AllAgree, Mapped
    <3>2. PmegAt(tlb[e].context, tlb[e].page) = PmegAt(context, tlb[e].page)
      BY <2>1, <2>2, <2>4 DEF IInv, Remembered, SameInAllContexts
    <3>3. Lookup(tlb[e].context, tlb[e].page) = Lookup(context, tlb[e].page)
      BY <3>2 DEF Lookup
    <3>4. QED
      BY <2>4, <3>1, <3>3 DEF Agrees
  <2>5. QED
    BY <2>3, <2>4
<1>2. QED
  BY <1>1, Sun3Invariance, PTL

(* Pages that can be read or written through an entry are marked           *)
(* referenced and modified, so that a system that clears the bits is told  *)
(* of the next access.                                                     *)
THEOREM UseIsRecorded == Spec => []ChangesRecorded
<1>1. IInv => ChangesRecorded
  BY DEF IInv
<1>2. QED
  BY <1>1, Sun3Invariance, PTL

(* A fill for an access leaves an entry that applies to it, so that the    *)
(* loop of the CPU ends, for every access but a write to the PROM in the   *)
(* boot state; and for such a write no fill ever does.                     *)
THEOREM FillsSuffice == Spec => []FillSuffices
<1>1. IInv => FillSuffices
  <2> SUFFICES ASSUME IInv, NEW page \in Page, NEW code \in Codes, NEW access \in {RO, RW}
               PROVE  LET f == IF notBoot \/ code # "SP"
                               THEN Sun3FillingOf(context, page, code, access)
                               ELSE PromFilling(page)
                      IN  AppliesTo(f, code, page, access) <=> ~WritesProm(code, access)
    BY DEF FillSuffices
  <2>1. CASE notBoot \/ code # "SP"
    <3> DEFINE f == Sun3FillingOf(context, page, code, access)
    <3>1. /\ f.page = page /\ f.context = context
          /\ code \in f.codes /\ Cycle(access) \in f.cycles
      BY <2>1, FillingGood DEF IInv, TypeOK
    <3>2. f.notBoot = notBoot
      BY DEF Sun3FillingOf
    <3>3. ~WritesProm(code, access)
      BY <2>1 DEF WritesProm
    <3> HIDE DEF f
    <3>4. QED
      BY <2>1, <3>1, <3>2, <3>3 DEF AppliesTo, f
  <2>2. CASE ~notBoot /\ code = "SP"
    <3>1. Cycle(access) \in PromFilling(page).cycles <=> access # RW
      BY DEF PromFilling, Cycle, RO, RW
    <3>2. QED
      BY <2>2, <3>1 DEF PromFilling, AppliesTo, WritesProm
  <2>3. QED
    BY <2>1, <2>2
<1>2. QED
  BY <1>1, Sun3Invariance, PTL
=============================================================================
