------------------------------ MODULE M68kRmw ------------------------------
(***************************************************************************)
(* Read-modify-write cycles of the m68k, tme_m68k_rmw_start and            *)
(* tme_m68k_rmw_finish in ic/m68k/m68k-misc.c, for tas and cas, with one   *)
(* address, and cas2, with two, under preemptive threads.                  *)
(*                                                                         *)
(* The CPU looks for a TLB entry for each address, among one or two,       *)
(* filling them as needed.  Memory that the entry lets it both read and    *)
(* write directly it changes at once; otherwise it reads by a bus cycle    *)
(* first, that locks a device, and writes by one in the end.  Meanwhile    *)
(* other threads invalidate the entries; an invalidation returns when the  *)
(* token is not busy.                                                      *)
(*                                                                         *)
(* Of memory there is what the loop can tell apart; the values read and    *)
(* written, and instructions that are rerun in part, are left out.         *)
(***************************************************************************)
EXTENDS Integers, FiniteSets

CONSTANTS MaxFills,   \* fills for each address of a cas2: 20
          Size,       \* of the operand
          None

ASSUME RmwAssumption == MaxFills \in Nat /\ Size \in Nat \ {0} /\ None \notin {0, 1}

VARIABLES kind, same,   \* the memory at each address; both in the same page
          count,        \* of addresses
          entry,        \* what each TLB entry holds
          inval, busy,  \* the flags of the entries' tokens
          spinning,     \* entries that somebody is invalidating
          stale,        \* entries whose invalidation has returned
          rmw,          \* the locals of rmw_start
          at, op, cur,  \* where the CPU is, in a read or write of which address
          fill,         \* the fill that is under way
          stopped,      \* the other threads are suspended
          faulted       \* the instruction ended with a fault

memory == <<kind, same, count>>
tokens == <<inval, spinning, stale>>
where == <<op, cur, fill>>
rmwVars == <<memory, entry, inval, busy, spinning, stale, rmw, at, op, cur, fill,
             stopped, faulted>>

\* Memory; memory with the operand at the end of the entry; write protected
\* memory; a device; reads and writes of different memory.
Kinds == {"ram", "edge", "protected", "device", "banked"}
Slots == {0, 1}
Cycles == {"READ", "WRITE"}

Addresses == 0 .. count - 1
Considered == 0 .. count - 1
PageOf(i) == IF same THEN 0 ELSE i

\* linear_last - address, the last address being part of the entry.
Gap(i) == IF kind[i] = "edge" THEN Size - 1 ELSE Size

(* What a fill gives, as in Sun3Mmu: pages are not writable before a fill  *)
(* for writing, and one for writing a protected page only makes faults.    *)
Filled(i, cycle) ==
    LET of(cycles, read, write) ==
          [page |-> PageOf(i), cycles |-> cycles, read |-> read, write |-> write]
    IN  CASE kind[i] = "device"    -> of(Cycles, "none", "none")
          [] kind[i] = "banked"    -> of(Cycles, "here", "there")
          [] kind[i] = "protected" -> of({cycle}, IF cycle = "READ" THEN "here" ELSE "none", "none")
          [] OTHER -> of({"READ", cycle}, "here", IF cycle = "WRITE" THEN "here" ELSE "none")

NoHold == [page |-> None, cycles |-> {}, read |-> "none", write |-> "none"]
Holdings == {NoHold} \cup {Filled(i, c) : i \in Slots, c \in Cycles}

FastBoth(k) == entry[k].read # "none" /\ entry[k].write # "none"

(* Mutant: the first fill is for reading.                                  *)
LocalsReading ==
    [held |-> {}, use |-> [i \in Slots |-> None], cycles |-> [i \in Slots |-> "READ"],
     fills |-> [i \in Slots |-> 0], slow |-> {}]

(* The locals at first.  The code's tlbs_busy is held, the others are      *)
(* tme_m68k_rmw_tlbs, address_cycles, address_fills and slow_reads.        *)
Locals ==
    [held |-> {}, use |-> [i \in Slots |-> None], cycles |-> [i \in Slots |-> "WRITE"],
     fills |-> [i \in Slots |-> 0], slow |-> {}]

NoFill == [entry |-> None, address |-> 0, cycle |-> "READ", then |-> "walk"]

RmwInit ==
    /\ count \in {1, 2} /\ same \in BOOLEAN /\ kind \in [Slots -> Kinds]
    /\ count = 1 => same /\ kind[1] = kind[0]
    /\ (count = 2 /\ same) => kind[1] = kind[0]
    /\ entry \in [Slots -> Holdings]
    /\ inval = {k \in Slots : entry[k] = NoHold}
    /\ busy = {} /\ spinning = {} /\ stale = {}
    /\ rmw = Locals
    /\ at = "idle" /\ op = "READ" /\ cur = 0 /\ fill = NoFill
    /\ stopped = FALSE /\ faulted = FALSE

Goto(from, to) == at = from /\ at' = to

Start ==
    /\ Goto("idle", "walk") /\ rmw' = Locals /\ faulted' = FALSE
    /\ UNCHANGED <<memory, entry, busy, tokens, where, stopped>>

-----------------------------------------------------------------------------
(* Finding an entry for each address.                                      *)

TooShort(i) == Gap(i) < Size

Applies(k, i) ==
    /\ k \notin inval /\ entry[k].page = PageOf(i)
    /\ rmw.cycles[i] \in entry[k].cycles

\* The cycles as a number.
Rank(cycles) == (IF "READ" \in cycles THEN 1 ELSE 0) + (IF "WRITE" \in cycles THEN 2 ELSE 0)

(* Whether the second entry is preferred to the first, if both apply.      *)
Prefers(i) ==
    TooShort(i) \/ Rank(entry[1].cycles) > Rank(entry[0].cycles) \/ FastBoth(1)

EntryFor(i) ==
    LET good == {k \in Considered : Applies(k, i)}
    IN  IF good = {} THEN None
        ELSE IF good = {0, 1} THEN IF Prefers(i) THEN 1 ELSE 0
        ELSE CHOOSE k \in good : TRUE

(* All entries considered are busied, then looked at.                      *)
Walk ==
    /\ Goto("walk", IF \E i \in Addresses : EntryFor(i) = None THEN "fill" ELSE "examine")
    /\ busy' = busy \cup (Considered \ rmw.held)
    /\ rmw' = [rmw EXCEPT !.held = Considered,
                          !.use = [i \in Slots |-> IF i \in Addresses THEN EntryFor(i) ELSE None]]
    /\ UNCHANGED <<memory, entry, tokens, where, stopped, faulted>>

\* The last address without an entry, and an entry the other does not use.
Wanting == CHOOSE i \in Addresses : /\ rmw.use[i] = None
                                    /\ \A j \in Addresses : rmw.use[j] = None => j <= i
Spare == IF rmw.use[1 - Wanting] = 0 THEN 1 ELSE 0

Exhausted(i) == count = 2 /\ rmw.fills[i] >= MaxFills

GiveUp ==
    /\ Goto("fill", "unsupported") /\ Exhausted(Wanting)
    /\ UNCHANGED <<memory, entry, busy, tokens, rmw, where, stopped, faulted>>

(* "If the other TLB entry is busy, unbusy it": it is this one that is     *)
(* unbusied, which the fill does once more, and the other that counts as   *)
(* not busy from here.                                                     *)
FillStart ==
    /\ Goto("fill", "clear") /\ ~Exhausted(Wanting)
    /\ rmw' = [rmw EXCEPT !.held = @ \ {1 - Spare},
                          !.fills[Wanting] = IF count = 2 /\ @ < MaxFills THEN @ + 1 ELSE @]
    /\ busy' = busy \ {Spare}
    /\ fill' = [entry |-> Spare, address |-> Wanting, cycle |-> rmw.cycles[Wanting],
                then |-> "walk"]
    /\ UNCHANGED <<memory, entry, tokens, op, cur, stopped, faulted>>

(* Mutant: the token is cleared without its mutex.                         *)
ClearAtOnce ==
    /\ Goto("clear", "filling") /\ inval' = inval \ {fill.entry}
    /\ UNCHANGED <<memory, entry, busy, spinning, stale, rmw, where, stopped, faulted>>

(* tme_token_invalid_clear waits for an invalidation to return.            *)
Clear ==
    /\ Goto("clear", "filling") /\ fill.entry \notin spinning
    /\ inval' = inval \ {fill.entry}
    /\ UNCHANGED <<memory, entry, busy, spinning, stale, rmw, where, stopped, faulted>>

(* The fill returns, perhaps with an entry that is invalid again.          *)
FillEnd ==
    /\ Goto("filling", fill.then)
    /\ entry' = [entry EXCEPT ![fill.entry] = Filled(fill.address, fill.cycle)]
    /\ busy' = busy \cup {fill.entry}
    /\ stale' = stale \ ({fill.entry} \ inval)
    /\ UNCHANGED <<memory, inval, spinning, rmw, where, stopped, faulted>>

-----------------------------------------------------------------------------
(* Looking at the entries found, in the order of the addresses.            *)

Verdict(i) ==
    LET k == rmw.use[i]
    IN  IF TooShort(i) THEN "unsupported"
        ELSE IF FastBoth(k)
        THEN IF entry[k].read = entry[k].write THEN "good" ELSE "unsupported"
        ELSE IF i \in rmw.slow THEN "good"
        ELSE IF "READ" \notin entry[k].cycles THEN "readable?"
        ELSE "read"

Next1(i) == \A j \in Addresses : j < i => Verdict(j) = "good"

Refuse ==
    /\ Goto("examine", "unsupported")
    /\ \E i \in Addresses : Next1(i) /\ Verdict(i) = "unsupported"
    /\ UNCHANGED <<memory, entry, busy, tokens, rmw, where, stopped, faulted>>

(* The entry cannot be read: another one is wanted, for reading.           *)
WantReadable ==
    /\ Goto("examine", "walk")
    /\ \E i \in Addresses : /\ Next1(i) /\ Verdict(i) = "readable?"
                            /\ rmw' = [rmw EXCEPT !.cycles[i] = "READ"]
    /\ UNCHANGED <<memory, entry, busy, tokens, where, stopped, faulted>>

(* Before a slow access: again this entry is unbusied, if the other counts *)
(* as busy, and not the other.                                             *)
Unbusied(i) == IF 1 - rmw.use[i] \in rmw.held THEN {rmw.use[i]} ELSE {}

SlowRead ==
    /\ Goto("examine", "access") /\ op' = "READ"
    /\ \E i \in Addresses :
          /\ Next1(i) /\ Verdict(i) = "read"
          /\ cur' = i
          /\ busy' = busy \ Unbusied(i)
          /\ rmw' = [rmw EXCEPT !.held = @ \ {1 - rmw.use[i]}]
    /\ UNCHANGED <<memory, entry, tokens, fill, stopped, faulted>>

(* rmw_start returns, with the entries that are used busy; for a cas2 the  *)
(* other threads are suspended first.                                      *)
Ready ==
    /\ Goto("examine", "ready") /\ \A i \in Addresses : Verdict(i) = "good"
    /\ busy' = busy \ {k \in rmw.held : \A i \in Addresses : rmw.use[i] # k}
    /\ stopped' = (count = 2)
    /\ UNCHANGED <<memory, entry, tokens, rmw, where, faulted>>

(* Not supported on this memory: an illegal instruction.                   *)
Unsupported ==
    /\ Goto("unsupported", "illegal") /\ busy' = busy \ rmw.held
    /\ UNCHANGED <<memory, entry, tokens, rmw, where, stopped, faulted>>

Illegal ==
    /\ Goto("illegal", "idle")
    /\ UNCHANGED <<memory, entry, busy, tokens, rmw, where, stopped, faulted>>

-----------------------------------------------------------------------------
(* tme_m68k_read and tme_m68k_write of an address: cur.                    *)

Through == rmw.use[cur]
Fast == IF op = "READ" THEN entry[Through].read # "none" ELSE entry[Through].write # "none"

(* Mutant: the entry for writing is not asked for after the read.          *)
AccessedForReading ==
    IF op = "READ" THEN [rmw EXCEPT !.slow = @ \cup {cur}] ELSE rmw

(* After a slow read one more entry is wanted, for writing.                *)
Accessed ==
    IF op = "READ" THEN [rmw EXCEPT !.slow = @ \cup {cur}, !.cycles[cur] = "WRITE"] ELSE rmw

AfterAccess == IF op = "READ" THEN "walk" ELSE "written"

AccessFast ==
    /\ Goto("access", AfterAccess) /\ Through \notin inval /\ Fast
    /\ rmw' = Accessed
    /\ UNCHANGED <<memory, entry, busy, tokens, where, stopped, faulted>>

(* The invalidation of the entry of a locked cycle is an assertion that    *)
(* fails; for the second address the entry is filled again.                *)
AccessInvalid ==
    /\ Goto("access", IF cur = 0 THEN "aborted" ELSE "clear") /\ Through \in inval
    /\ IF cur = 0 THEN UNCHANGED <<busy, fill, stopped>>
       ELSE /\ busy' = busy \ {Through} /\ stopped' = FALSE
            /\ fill' = [entry |-> Through, address |-> cur, cycle |-> op, then |-> "access"]
    /\ UNCHANGED <<memory, entry, tokens, rmw, op, cur, faulted>>

(* A bus cycle, with the token not busy.  Here as in a fill a mutex is     *)
(* locked, and with that the others may go on that were suspended.         *)
CycleStart ==
    /\ Goto("access", "cycle") /\ Through \notin inval /\ ~Fast
    /\ busy' = busy \ {Through} /\ stopped' = FALSE
    /\ UNCHANGED <<memory, entry, tokens, rmw, where, faulted>>

CycleDone ==
    /\ Goto("cycle", AfterAccess) /\ op \in entry[Through].cycles /\ kind[cur] = "device"
    /\ busy' = busy \cup {Through}
    /\ rmw' = Accessed
    /\ UNCHANGED <<memory, entry, tokens, where, stopped, faulted>>

(* The cycle handler found the token invalid.                              *)
CycleAgain ==
    /\ Goto("cycle", "access") /\ Through \in inval
    /\ busy' = busy \cup {Through}
    /\ UNCHANGED <<memory, entry, tokens, rmw, where, stopped, faulted>>

(* Mutant: the token stays busy.                                           *)
CycleFaultBusy ==
    /\ Goto("cycle", "idle") /\ faulted' = TRUE /\ busy' = busy \cup {Through}
    /\ UNCHANGED <<memory, entry, tokens, rmw, where, stopped>>

(* A fault: exception processing starts, nothing else is done.             *)
CycleFault ==
    /\ Goto("cycle", "idle") /\ faulted' = TRUE /\ busy' = busy \ {Through}
    /\ UNCHANGED <<memory, entry, tokens, rmw, where, stopped>>

-----------------------------------------------------------------------------
(* tme_m68k_rmw_finish; what is changed in memory directly is so before    *)
(* it, or in it.                                                           *)

Finish ==
    /\ Goto("ready", "finish") /\ cur' = 0 /\ op' = "WRITE"
    /\ rmw' = [rmw EXCEPT !.held = {rmw.use[i] : i \in Addresses}]
    /\ UNCHANGED <<memory, entry, busy, tokens, fill, stopped, faulted>>

FinishSlow ==
    /\ Goto("finish", "access") /\ cur \in Addresses \cap rmw.slow
    /\ busy' = busy \ Unbusied(cur)
    /\ rmw' = [rmw EXCEPT !.held = @ \ {1 - rmw.use[cur]}]
    /\ UNCHANGED <<memory, entry, tokens, where, stopped, faulted>>

FinishFast ==
    /\ at = "finish" /\ cur \in Addresses \ rmw.slow
    /\ cur' = cur + 1
    /\ UNCHANGED <<memory, entry, busy, tokens, rmw, at, op, fill, stopped, faulted>>

(* A cas2 that wrote slowly is an illegal instruction after all.           *)
FinishEnd ==
    /\ \/ cur \notin Addresses /\ Goto("finish", "idle")
       \/ Goto("written", IF count = 2 THEN "illegal" ELSE "idle")
    /\ busy' = busy \ rmw.held /\ stopped' = FALSE
    /\ UNCHANGED <<memory, entry, tokens, rmw, where, faulted>>

-----------------------------------------------------------------------------
(* Other threads.                                                          *)

Invalidate(k) ==
    /\ ~stopped /\ k \notin spinning /\ entry[k] # NoHold
    /\ inval' = inval \cup {k} /\ spinning' = spinning \cup {k}
    /\ UNCHANGED <<memory, entry, busy, stale, rmw, at, where, stopped, faulted>>

InvalidateReturn(k) ==
    /\ ~stopped /\ k \in spinning /\ k \notin busy
    /\ spinning' = spinning \ {k} /\ stale' = stale \cup {k}
    /\ UNCHANGED <<memory, entry, inval, busy, rmw, at, where, stopped, faulted>>

(* The process has ended.                                                  *)
Aborted == at = "aborted" /\ UNCHANGED rmwVars

Look == Walk \/ GiveUp \/ FillStart \/ Clear \/ FillEnd \/ Refuse \/ WantReadable \/ SlowRead
        \/ Ready
Access == AccessFast \/ AccessInvalid \/ CycleStart \/ CycleDone \/ CycleAgain \/ CycleFault
End == Unsupported \/ Illegal \/ Finish \/ FinishSlow \/ FinishFast \/ FinishEnd
Others == \E k \in Slots : Invalidate(k) \/ InvalidateReturn(k)

RmwNext == Start \/ Look \/ Access \/ End \/ Others \/ Aborted

RmwSpec == RmwInit /\ [][RmwNext]_rmwVars

-----------------------------------------------------------------------------
(* What a cycle keeps in its locals and in the CPU's structure.             *)
LocalsType ==
    [held: SUBSET Slots, use: [Slots -> Slots \cup {None}], cycles: [Slots -> Cycles],
     fills: [Slots -> 0 .. MaxFills], slow: SUBSET Slots]

(* The types; and a token stays invalid until its invalidation returns.    *)
RmwTypeOK ==
    /\ kind \in [Slots -> Kinds] /\ same \in BOOLEAN /\ count \in {1, 2}
    /\ entry \in [Slots -> Holdings]
    /\ inval \subseteq Slots /\ busy \subseteq Slots /\ spinning \subseteq inval
    /\ stale \subseteq Slots /\ stopped \in BOOLEAN /\ faulted \in BOOLEAN
    /\ rmw \in LocalsType
    /\ op \in Cycles /\ cur \in 0 .. 2

(* However an instruction ends, by success, an illegal instruction or a    *)
(* fault, no token stays busy, or its next invalidation would spin until   *)
(* the entry is used again.  Excepted is a cas2 with a slow access.        *)
NothingLeftBusy ==
    at = "idle" => busy = {} \/ (count = 2 /\ (faulted \/ rmw.slow # {}))

(* What rmw_finish and the instructions rely on when rmw_start is done,    *)
(* although fills and invalidations of one entry follow on those of the    *)
(* other: memory that is changed directly is of one place and is pinned,   *)
(* its invalidation has not returned; the rest can be written.             *)
Prepared ==
    at = "ready" => \A i \in Addresses :
        LET k == rmw.use[i]
        IN  /\ k \in busy /\ k \notin stale /\ entry[k].page = PageOf(i)
            /\ IF i \in rmw.slow THEN "WRITE" \in entry[k].cycles
               ELSE FastBoth(k) /\ entry[k].read = entry[k].write

(* Nothing comes between the read and the write of one address: what was   *)
(* read by a bus cycle, or was read where it cannot be written, is not     *)
(* then written to memory directly.                                        *)
NotTorn == (at = "access" /\ op = "WRITE") => ~Fast

(* rmw_finish says "unbusy all TLB entries", and means that none is busy   *)
(* after a cas2 that ended without a fault.                                *)
AllUnbusied == (at = "idle" /\ ~faulted) => busy = {}
=============================================================================
