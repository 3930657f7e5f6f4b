------------------------------ MODULE Sun3Mmu ------------------------------
(***************************************************************************)
(* The Sun-3 around its MMU, machine/sun3/sun3-mmu.c, sun3-control.c: the  *)
(* control registers in function code three space, the fills of the        *)
(* m68k's TLB entries, and the fills of the TLB entries of bus masters     *)
(* that do system DVMA.                                                    *)
(*                                                                         *)
(* An entry of the CPU is tagged with the bus context it was filled in and *)
(* is passed over in others; the boot state has bus contexts of its own.   *)
(* An entry of a bus master has no tag: it must go when the context        *)
(* changes, or the enable bit of system DVMA.                              *)
(*                                                                         *)
(* Every fill and every write of a register is one step: threads do not    *)
(* yield in them.  The memory error test is modelled by its first step     *)
(* only, which invalidates all entries.                                    *)
(***************************************************************************)
EXTENDS SunMmu

CONSTANTS CpuEntries, DvmaEntries,
          DvmaPages,    \* where DVMA addresses are mapped
          RawPtes,      \* page table entries the program writes
          SdvmaTlbs     \* TME_SUN3_SDVMA_TLBS

RawPte == [valid: BOOLEAN, write: BOOLEAN, system: BOOLEAN, frame: Nat,
           ref: BOOLEAN, mod: BOOLEAN]

ASSUME Sun3Assumption ==
    /\ 0 \in Contexts /\ Cardinality(Contexts) >= 2
    /\ Entries = CpuEntries \cup DvmaEntries
    /\ CpuEntries \cap DvmaEntries = {}
    /\ DvmaPages \subseteq Page /\ RawPtes \subseteq RawPte
    /\ SdvmaTlbs \in Nat \ {0}

VARIABLES context,              \* the context register
          notBoot, sdvma,       \* bits of the enable register
          sdvmaTlbs             \* the ring of the entries for system DVMA

regs == <<context, notBoot, sdvma>>
vars == <<mmuVars, regs, sdvmaTlbs>>

Codes == {"U", "SD", "SP"}
Cycle(access) == IF access = RW THEN "WRITE" ELSE "READ"
Accessor(code) == IF code = "U" THEN "USER" ELSE "SYSTEM"

(* What an entry holds: a filling, the bus context, that is the context    *)
(* and whether the machine is out of the boot state, and function codes.   *)
Sun3Filling ==
    [kind: {"page", "invalid", "proterr", "prom", "disabled"}, page: Page,
     frame: Nat, codes: SUBSET Codes, cycles: SUBSET {"READ", "WRITE"},
     context: Contexts, notBoot: BOOLEAN]

Init ==
    /\ MmuInit
    /\ context = 0 /\ notBoot = FALSE /\ sdvma = FALSE
    /\ sdvmaTlbs = EmptyRing(SdvmaTlbs)

(* Mutant: pages of the system only have no protection for the user.       *)
PteOfAborting(raw) ==
    LET allowed == IF raw.write THEN RW ELSE RO
    IN  [valid |-> raw.valid, frame |-> raw.frame, ref |-> raw.ref, mod |-> raw.mod,
         prot |-> [a \in Accessors |-> IF a = "USER" /\ raw.system THEN 0 ELSE allowed]]

(* The page table entry the program writes as the MMU has it.              *)
PteOf(raw) ==
    LET allowed == IF raw.write THEN RW ELSE RO
    IN  [valid |-> raw.valid, frame |-> raw.frame, ref |-> raw.ref, mod |-> raw.mod,
         prot |-> [a \in Accessors |-> IF a = "USER" /\ raw.system THEN ERROR ELSE allowed]]

(* Writing the page map and the segment map of the current context.        *)
WritePte(page, raw) ==
    /\ PteSet(context, page, PteOf(raw))
    /\ UNCHANGED <<regs, sdvmaTlbs>>

WriteSegmap(page, p) ==
    /\ SegmapSet(context, page, p)
    /\ UNCHANGED <<regs, sdvmaTlbs>>

(* Setting the context register also sets the bus context of the CPU.      *)
WriteContext(c) ==
    /\ context' = c
    /\ ContextSwitched
    /\ UNCHANGED <<notBoot, sdvma, sdvmaTlbs>>

(* The entries that go when the enable bit of system DVMA becomes on.      *)
SdvmaChange(on) == IF on # sdvma THEN Held(sdvmaTlbs) ELSE {}

(* Writing the enable register: to change the boot state is a change of    *)
(* the bus context.                                                        *)
WriteEnable(boots, on) ==
    LET switched == boots # notBoot
    IN  /\ notBoot' = boots /\ sdvma' = on
        /\ tlb' = Invalidated(SdvmaChange(on)
                              \cup IF switched THEN Held(contextTlbs) ELSE {})
        /\ contextTlbs' = IF switched THEN EmptyRing(ContextTlbs) ELSE contextTlbs
        /\ sdvmaTlbs' = IF on # sdvma THEN EmptyRing(SdvmaTlbs) ELSE sdvmaTlbs
        /\ UNCHANGED <<segmap, pte, pmegTlbs, context>>

(* The start of a memory error test.                                       *)
MemerrTest == TlbsInvalidate(Entries) /\ UNCHANGED <<regs, sdvmaTlbs>>

(* A filling by the MMU, with function codes: in the boot state it is not  *)
(* good for the supervisor's program.                                      *)
Sun3FillingOf(ctx, page, code, access) ==
    LET f == FillingOf(Lookup(ctx, page), page, Accessor(code), access)
        codes == {c \in Codes : Accessor(c) \in f.codes /\ (notBoot \/ c # "SP")}
    IN  [kind |-> f.kind, page |-> f.page, frame |-> f.frame, codes |-> codes,
         cycles |-> f.cycles, context |-> ctx, notBoot |-> notBoot]

(* In the boot state the supervisor's program is in the PROM, whatever the *)
(* MMU says, and the entry can be read only, also when it is to be written.*)
PromFilling(page) ==
    [kind |-> "prom", page |-> page, frame |-> 0, codes |-> {"SP"},
     cycles |-> {"READ"}, context |-> context, notBoot |-> notBoot]

(* Whether filling f applies to an access of the CPU; and whether the CPU  *)
(* would use entry e.                                                      *)
AppliesTo(f, code, page, access) ==
    /\ f.context = context /\ f.notBoot = notBoot
    /\ f.page = page /\ code \in f.codes /\ Cycle(access) \in f.cycles

Usable(e, code, page, access) == tlb[e] # NoFilling /\ AppliesTo(tlb[e], code, page, access)

(* The CPU fills entry e from the MMU.                                     *)
CpuFill(e, code, page, access) ==
    /\ notBoot \/ code # "SP"
    /\ ~Usable(e, code, page, access)
    /\ TlbFill(e, context, page, Accessor(code), access, {},
               Sun3FillingOf(context, page, code, access))
    /\ UNCHANGED <<contextTlbs, regs, sdvmaTlbs>>

(* The CPU fills entry e for the PROM, of which the MMU does not know.     *)
PromFill(e, page, access) ==
    /\ ~notBoot
    /\ ~Usable(e, "SP", page, access)
    /\ tlb' = [tlb EXCEPT ![e] = PromFilling(page)]
    /\ UNCHANGED <<segmap, pte, pmegTlbs, contextTlbs, regs, sdvmaTlbs>>

(* Whether a bus master would use entry e: nobody looks at the context.    *)
DvmaUsable(e, page, access) ==
    /\ tlb[e] # NoFilling
    /\ tlb[e].kind = "disabled" \/ tlb[e].page = page
    /\ Cycle(access) \in tlb[e].cycles

(* A fill for system DVMA takes the next place of the ring.  While         *)
(* system DVMA is disabled the entry only makes faults.                    *)
DisabledFill(e, page, access) ==
    /\ ~sdvma
    /\ ~DvmaUsable(e, page, access)
    /\ sdvmaTlbs' = Pushed(sdvmaTlbs, e)
    /\ tlb' = [Invalidated(Evicted(sdvmaTlbs, e)) EXCEPT ![e] =
                 [kind |-> "disabled", page |-> page, frame |-> 0, codes |-> {"SD"},
                  cycles |-> {"READ", "WRITE"}, context |-> context, notBoot |-> notBoot]]
    /\ UNCHANGED <<segmap, pte, pmegTlbs, contextTlbs, regs>>

(* Otherwise it is a supervisor's data access in the current context, and  *)
(* the entry depends on that context unless all contexts agree.            *)
DvmaFill(e, page, access) ==
    /\ sdvma
    /\ ~DvmaUsable(e, page, access)
    /\ sdvmaTlbs' = Pushed(sdvmaTlbs, e)
    /\ TlbFill(e, context, page, "SYSTEM", access,
               Evicted(sdvmaTlbs, e) \cup ContextEvicted(e, page),
               Sun3FillingOf(context, page, "SD", access))
    /\ ContextAdd(e, page)
    /\ UNCHANGED regs

Control ==
    \/ \E page \in Page : \/ \E raw \in RawPtes : WritePte(page, raw)
                          \/ \E p \in Pmegs : WriteSegmap(page, p)
    \/ \E c \in Contexts : WriteContext(c)
    \/ \E boots, on \in BOOLEAN : WriteEnable(boots, on)
    \/ MemerrTest

Fill ==
    \/ \E e \in CpuEntries, page \in Page, access \in {RO, RW} :
          PromFill(e, page, access) \/ \E code \in Codes : CpuFill(e, code, page, access)
    \/ \E e \in DvmaEntries, page \in DvmaPages, access \in {RO, RW} :
          DisabledFill(e, page, access) \/ DvmaFill(e, page, access)

Next == Control \/ Fill

Spec == Init /\ [][Next]_vars

-----------------------------------------------------------------------------
TypeOK ==
    /\ MmuTypeOK
    /\ tlb \in [Entries -> Sun3Filling \cup {NoFilling}]
    /\ context \in Contexts /\ notBoot \in BOOLEAN /\ sdvma \in BOOLEAN
    /\ sdvmaTlbs \in RingOf(SdvmaTlbs)

Allows(q, code, cycle) ==
    q.prot[Accessor(code)] >= IF cycle = "WRITE" THEN RW ELSE RO

(* What filling f says of a page of context ctx is what the maps say.      *)
Agrees(f, ctx) ==
    LET q == Lookup(ctx, f.page)
    IN  CASE f.kind = "page"    -> /\ q.valid /\ q.frame = f.frame
                                   /\ \A code \in f.codes, cycle \in f.cycles :
                                         Allows(q, code, cycle)
          [] f.kind = "invalid" -> ~q.valid
          [] f.kind = "proterr" -> /\ q.valid
                                   /\ \E code \in f.codes : \A cycle \in f.cycles :
                                         ~Allows(q, code, cycle)
          [] OTHER              -> FALSE

(* A valid entry of the CPU says of its own bus context what the maps say  *)
(* now, whatever was written to the maps, from any context, since the fill:*)
(* the place, the protection of everyone it is good for, or the fault.  In *)
(* the boot state the supervisor's program comes from the PROM only.       *)
CpuAgrees ==
    \A e \in CpuEntries : tlb[e] # NoFilling =>
        IF tlb[e].kind = "prom" THEN tlb[e].codes = {"SP"} /\ ~tlb[e].notBoot
        ELSE /\ Agrees(tlb[e], tlb[e].context)
             /\ "SP" \in tlb[e].codes => tlb[e].notBoot

(* A valid entry of a bus master, which nobody tags with a context, says   *)
(* what the maps say of the context that is current now, or that system    *)
(* DVMA is disabled.                                                       *)
DvmaAgrees ==
    \A e \in DvmaEntries : tlb[e] # NoFilling =>
        IF tlb[e].kind = "disabled" THEN ~sdvma
        ELSE sdvma /\ Agrees(tlb[e], context)

(* What can be read through an entry is marked referenced, and what can be *)
(* written, modified: clearing the bits takes the entries away.            *)
ChangesRecorded ==
    \A e \in Entries :
        (tlb[e] # NoFilling /\ tlb[e].kind = "page") =>
            LET q == Lookup(tlb[e].context, tlb[e].page)
            IN  q.ref /\ ("WRITE" \in tlb[e].cycles => q.mod)

(* The CPU fills an entry until it applies to the access.  A fill makes it *)
(* so, be it to make a fault, for every access but a write to the PROM in  *)
(* the boot state: for that one no fill ever does, and the loop goes on.   *)
WritesProm(code, access) == ~notBoot /\ code = "SP" /\ access = RW

FillSuffices ==
    \A page \in Page, code \in Codes, access \in {RO, RW} :
        LET f == IF notBoot \/ code # "SP" THEN Sun3FillingOf(context, page, code, access)
                 ELSE PromFilling(page)
        IN  AppliesTo(f, code, page, access) <=> ~WritesProm(code, access)

(* Why the entries agree: a change finds each entry it concerns in the     *)
(* ring of the PMEG, in that of system DVMA, and, where the contexts       *)
(* differ at its page, in that of the current context.                     *)
Remembered ==
    \A e \in Entries :
        (tlb[e] # NoFilling /\ tlb[e].kind # "prom") =>
            /\ tlb[e].kind # "disabled" =>
                 e \in Held(pmegTlbs[PmegAt(tlb[e].context, tlb[e].page)])
            /\ e \in DvmaEntries => e \in Held(sdvmaTlbs)
            /\ (e \in DvmaEntries /\ tlb[e].kind # "disabled") =>
                 \/ SameInAllContexts(tlb[e].page)
                 \/ tlb[e].context = context /\ e \in Held(contextTlbs)

(* An entry that makes protection errors does so for those only whom the   *)
(* maps do not allow the access: the comments of tme_sun_mmu_tlb_fill say  *)
(* "if the access is protected, return the protection-error cycle handler" *)
(* and "return who this TLB entry is good for".                            *)
NoSpuriousFault ==
    \A e \in CpuEntries :
        (tlb[e] # NoFilling /\ tlb[e].kind = "proterr") =>
            LET q == Lookup(tlb[e].context, tlb[e].page)
            IN  \A code \in tlb[e].codes, cycle \in tlb[e].cycles : ~Allows(q, code, cycle)
=============================================================================
