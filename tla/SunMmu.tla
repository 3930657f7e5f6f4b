------------------------------- MODULE SunMmu -------------------------------
(***************************************************************************)
(* The classic two-level Sun MMU, machine/sun/sun-mmu.c, shared by the     *)
(* Sun machines: a segment map gives each segment of each context a PMEG,  *)
(* and a PMEG holds the page table entries of a segment.                   *)
(*                                                                         *)
(* Those who use the MMU keep what a fill returned in TLB entries of their *)
(* own, and go on using an entry until its token is invalidated.  The MMU  *)
(* remembers the tokens in rings of a fixed size: one for each PMEG, and   *)
(* one for the entries that depend on the current context.  A token that a *)
(* full ring forgets is invalidated.                                       *)
(*                                                                         *)
(* An address is a page, a pair of a segment and an index in it.  The      *)
(* address hole of some machines is left out: its PTE never changes and is *)
(* never remembered.                                                       *)
(***************************************************************************)
EXTENDS Integers, FiniteSets

CONSTANTS Contexts, Segments, Indices, Pmegs,
          LastPmeg,     \* the PMEG of all segments at first
          Entries,      \* TLB entries, named by their tokens
          PmegTlbs,     \* TME_SUN_MMU_PMEG_TLBS
          ContextTlbs,  \* TME_SUN_MMU_CONTEXT_TLBS
          NoEntry, NoFilling

\* Protections, in the order the code relies on.
ERROR == 1
RO == 2
RW == 3

Page == Segments \X Indices
Accessors == {"SYSTEM", "USER"}
Other(who) == IF who = "SYSTEM" THEN "USER" ELSE "SYSTEM"

Pte == [valid: BOOLEAN, frame: Nat, prot: [Accessors -> {ERROR, RO, RW}],
        ref: BOOLEAN, mod: BOOLEAN]
NullPte == [valid |-> FALSE, frame |-> 0, prot |-> [a \in Accessors |-> ERROR],
            ref |-> FALSE, mod |-> FALSE]

ASSUME MmuAssumption ==
    /\ PmegTlbs \in Nat \ {0} /\ ContextTlbs \in Nat \ {0}
    /\ LastPmeg \in Pmegs
    /\ NoEntry \notin Entries

VARIABLES segmap, pte,
          pmegTlbs,     \* the ring of each PMEG
          contextTlbs,  \* the ring of the current context
          tlb           \* what each TLB entry holds, or NoFilling when its
                        \* token is invalid

mmuVars == <<segmap, pte, pmegTlbs, contextTlbs, tlb>>

(* What a fill puts into an entry: the kind of cycle handler, the page it  *)
(* is of, where that is, and the accessors and cycles it is good for.      *)
Filling == [kind: {"page", "invalid", "proterr"}, page: Page, frame: Nat,
            codes: SUBSET Accessors, cycles: SUBSET {"READ", "WRITE"}]

(* A ring has a fixed number of places, here in the order in which its     *)
(* head comes to them.                                                     *)
RingOf(n) == [1 .. n -> Entries \cup {NoEntry}]
EmptyRing(n) == [i \in 1 .. n |-> NoEntry]

MmuInit ==
    /\ segmap = [c \in Contexts |-> [s \in Segments |-> LastPmeg]]
    /\ pte = [p \in Pmegs |-> [i \in Indices |-> NullPte]]
    /\ pmegTlbs = [p \in Pmegs |-> EmptyRing(PmegTlbs)]
    /\ contextTlbs = EmptyRing(ContextTlbs)
    /\ tlb = [e \in Entries |-> NoFilling]

PmegAt(ctx, page) == segmap[ctx][page[1]]
Lookup(ctx, page) == pte[PmegAt(ctx, page)][page[2]]

Held(ring) == {ring[i] : i \in DOMAIN ring} \ {NoEntry}

(* Invalidating the tokens of a set of entries.                            *)
Invalidated(es) == [e \in Entries |-> IF e \in es THEN NoFilling ELSE tlb[e]]

(* Mutant: the token in the way is overwritten and not invalidated.        *)
EvictedNone(ring, e) == {}

(* Putting entry e at the head of a ring evicts who is there, unless that  *)
(* is e itself.                                                            *)
Evicted(ring, e) == {ring[1]} \ {NoEntry, e}
Pushed(ring, e) == [i \in DOMAIN ring |-> IF i + 1 \in DOMAIN ring THEN ring[i + 1] ELSE e]

(* Forgetting all entries of a PMEG, before it changes.                    *)
PmegInvalidate(p) ==
    /\ pmegTlbs' = [pmegTlbs EXCEPT ![p] = EmptyRing(PmegTlbs)]
    /\ tlb' = Invalidated(Held(pmegTlbs[p]))

PteSet(ctx, page, new) ==
    /\ PmegInvalidate(PmegAt(ctx, page))
    /\ pte' = [pte EXCEPT ![PmegAt(ctx, page)][page[2]] = new]
    /\ UNCHANGED <<segmap, contextTlbs>>

(* Mutant: the entries of the new PMEG are invalidated, not the old ones.  *)
SegmapSetNew(ctx, page, p) ==
    /\ PmegInvalidate(p)
    /\ segmap' = [segmap EXCEPT ![ctx][page[1]] = p]
    /\ UNCHANGED <<pte, contextTlbs>>

(* The mapping that is lost is what entries depend on; nothing depends on  *)
(* the new PMEG yet.                                                       *)
SegmapSet(ctx, page, p) ==
    /\ PmegInvalidate(PmegAt(ctx, page))
    /\ segmap' = [segmap EXCEPT ![ctx][page[1]] = p]
    /\ UNCHANGED <<pte, contextTlbs>>

(* The accessors a fill of a valid page by who is good for.                *)
ValidFor(q, who) ==
    {who} \cup {a \in {Other(who)} : q.prot[a] >= q.prot[who]}

(* Mutant: a read of a writable page is good for writing already.         *)
WritableAtOnce(q, who, access) == q.prot[who] = RW

(* Whether an entry may also be written through: not before the modified   *)
(* bit is set, so that the first write comes back for a fill.              *)
Writable(q, who, access) == q.prot[who] = RW /\ (access = RW \/ q.mod)

(* Mutant: an entry for protection errors is for writing only.             *)
DeniedWrites(q, who) == {"WRITE"}

(* The cycles that make a protection error, when there is one.             *)
Denied(q, who) == IF q.prot[who] = ERROR THEN {"READ", "WRITE"} ELSE {"WRITE"}

(* What a fill for an access, RO or RW, by who finds at page.              *)
FillingOf(q, page, who, access) ==
    LET good == IF q.valid THEN ValidFor(q, who) ELSE Accessors
        of(kind, cycles) == [kind |-> kind, page |-> page, codes |-> good,
                             frame |-> IF kind = "page" THEN q.frame ELSE 0,
                             cycles |-> cycles]
    IN  IF ~q.valid THEN of("invalid", {"READ", "WRITE"})
        ELSE IF q.prot[who] < access
        THEN of("proterr", Denied(q, who))
        ELSE of("page", {"READ"} \cup {c \in {"WRITE"} : Writable(q, who, access)})

(* The page table entry after a fill: a fill that allows the access sets   *)
(* the referenced bit, and the modified bit if it is a write.              *)
Touched(q, who, access) ==
    IF q.valid /\ q.prot[who] >= access
    THEN [q EXCEPT !.ref = TRUE, !.mod = @ \/ access = RW]
    ELSE q

(* A fill of e remembers it in the PMEG of the page; gone are the other    *)
(* entries the caller's rings evicted, new is what the caller makes of it. *)
TlbFill(e, ctx, page, who, access, gone, new) ==
    LET p == PmegAt(ctx, page)
    IN  /\ pmegTlbs' = [pmegTlbs EXCEPT ![p] = Pushed(@, e)]
        /\ pte' = [pte EXCEPT ![p][page[2]] = Touched(@, who, access)]
        /\ tlb' = [Invalidated(gone \cup Evicted(pmegTlbs[p], e))
                     EXCEPT ![e] = new]
        /\ UNCHANGED segmap

(* Mutant: the loop over the other contexts stops before the first one.    *)
SameButFirst(page) ==
    LET first == CHOOSE c \in Contexts : TRUE
    IN  \A c, d \in Contexts \ {first} : PmegAt(c, page) = PmegAt(d, page)

(* Whether a page has the same PMEG in all contexts.                       *)
SameInAllContexts(page) ==
    \A c, d \in Contexts : PmegAt(c, page) = PmegAt(d, page)

(* The entries evicted by, and the ring after, adding an entry of a page   *)
(* to those that depend on the current context.                            *)
ContextEvicted(e, page) ==
    IF SameInAllContexts(page) THEN {}
    ELSE Evicted(contextTlbs, e)

ContextAdd(e, page) ==
    contextTlbs' = IF SameInAllContexts(page) THEN contextTlbs
                   ELSE Pushed(contextTlbs, e)

(* After a context switch.                                                 *)
ContextSwitched ==
    /\ contextTlbs' = EmptyRing(ContextTlbs)
    /\ tlb' = Invalidated(Held(contextTlbs))
    /\ UNCHANGED <<segmap, pte, pmegTlbs>>

(* All entries of the TLB sets of es.                                      *)
TlbsInvalidate(es) ==
    /\ tlb' = Invalidated(es)
    /\ UNCHANGED <<segmap, pte, pmegTlbs, contextTlbs>>

MmuTypeOK ==
    /\ segmap \in [Contexts -> [Segments -> Pmegs]]
    /\ pte \in [Pmegs -> [Indices -> Pte]]
    /\ pmegTlbs \in [Pmegs -> RingOf(PmegTlbs)]
    /\ contextTlbs \in RingOf(ContextTlbs)
=============================================================================
