--------------------------- MODULE M68kRmwProofs ---------------------------
(***************************************************************************)
(* Proofs about the read-modify-write cycles, for any size of the operand  *)
(* and any number of fills.                                                *)
(***************************************************************************)
EXTENDS M68kRmw, TLAPS

(* A fill on behalf of an access, and not of the search for entries.       *)
Refilling == at \in {"clear", "filling"} /\ fill.then = "access"

Accessing == at \in {"access", "cycle"} \/ Refilling

Used == {rmw.use[i] : i \in Addresses}

FillType == fill \in [entry: Slots \cup {None}, address: Slots, cycle: Cycles,
                      then: {"walk", "access"}]

(* What is at the two addresses.                                           *)
OneMemory == (count = 1 => same) /\ (same => kind[1] = kind[0])

(* An entry for reading is only wanted for memory that cannot be written,  *)
(* and bus cycles or separate reads are only for memory that is never      *)
(* changed directly; then an entry for writing is wanted.                  *)
Wanted ==
    \A i \in Slots :
        /\ rmw.cycles[i] = "READ" => kind[i] = "protected"
        /\ i \in rmw.slow => kind[i] \in {"device", "protected"} /\ rmw.cycles[i] = "WRITE"

(* A token is only valid again when its entry is filled again.             *)
StaleInvalid == \A k \in stale : k \in inval \/ (at = "filling" /\ k = fill.entry)

(* Each address has the entry that was found for it, of its page.          *)
Found ==
    /\ at = "fill" =>
          /\ \E i \in Addresses : rmw.use[i] = None
          /\ \A i \in Slots :
                rmw.use[i] # None => i \in Addresses /\ rmw.use[i] \in Considered
    /\ (at \in {"examine", "ready", "finish"} \/ Accessing) =>
          \A i \in Addresses : /\ rmw.use[i] \in Considered
                               /\ entry[rmw.use[i]].page = PageOf(i)
    /\ at = "examine" =>
          \A i \in Addresses : /\ rmw.cycles[i] \in entry[rmw.use[i]].cycles
                               /\ rmw.use[i] \in busy => rmw.use[i] \notin stale

(* What a fill is for.                                                     *)
FillFor ==
    at \in {"clear", "filling"} =>
        /\ fill.entry \in Considered /\ fill.address \in Addresses
        /\ fill.then = "walk" => rmw.held \subseteq {fill.entry}
        /\ fill.then = "access" => fill.entry = Through /\ fill.address = cur

(* What an access is for.                                                  *)
AccessFor ==
    /\ Accessing =>
          /\ cur \in Addresses /\ kind[cur] \in {"device", "protected"}
          /\ IF op = "READ" THEN rmw.held \subseteq {Through} ELSE cur \in rmw.slow
    /\ at = "written" => rmw.slow # {}

(* What tlbs_busy says.  An entry that it counts as busy and is not cannot *)
(* be written.                                                             *)
Held ==
    /\ at \in {"fill", "examine", "unsupported", "ready"} => rmw.held = Considered
    /\ at \in {"walk", "examine"} =>
          \A k \in rmw.held : k \in busy \/ "WRITE" \notin entry[k].cycles
    /\ at \in {"ready", "finish"} => busy \subseteq Used
    /\ at = "finish" => rmw.held = Used
    /\ at = "illegal" => busy = {} \/ (count = 2 /\ rmw.slow # {})

(* With one address, what is busy is counted.                              *)
Single ==
    count = 1 =>
        /\ rmw.held \subseteq {0}
        /\ at \notin {"idle", "illegal", "walk"} => rmw.held = {0}
        /\ IF at \in {"idle", "illegal"} THEN busy = {} ELSE busy \subseteq rmw.held

RmwIInv ==
    /\ RmwTypeOK /\ FillType /\ OneMemory /\ Wanted /\ StaleInvalid /\ Found /\ FillFor
    /\ AccessFor /\ Held /\ Single /\ NothingLeftBusy /\ Prepared
USE RmwAssumption DEF Slots, Cycles, Addresses, Considered

(* An entry of the page of an address is as a fill for it makes it.        *)
LEMMA OfPage ==
  ASSUME RmwTypeOK, OneMemory, NEW i \in Addresses, NEW k \in Slots,
         entry[k].page = PageOf(i)
  PROVE  \E c \in Cycles : entry[k] = Filled(i, c)
<1>1. entry[k] \in Holdings
  BY DEF RmwTypeOK
<1>2. PageOf(i) # None /\ entry[k] # NoHold
  BY DEF PageOf, NoHold, RmwTypeOK
<1>3. PICK j \in Slots, c \in Cycles : entry[k] = Filled(j, c)
  BY <1>1, <1>2 DEF Holdings
<1>4. Filled(j, c).page = PageOf(j)
  BY DEF Filled
<1>5. PageOf(j) = PageOf(i) /\ kind[j] = kind[i]
  <2>1. PageOf(j) = PageOf(i)
    BY <1>3, <1>4
  <2>2. CASE same
    BY <2>1, <2>2 DEF OneMemory, RmwTypeOK
  <2>3. CASE ~same
    BY <2>1, <2>3 DEF PageOf
  <2>4. QED
    BY <2>1, <2>2, <2>3
<1>6. Filled(j, c) = Filled(i, c)
  BY <1>5 DEF Filled
<1>7. QED
  BY <1>3, <1>6

(* What follows for reads and writes through it.                           *)
LEMMA Entries ==
  ASSUME RmwTypeOK, OneMemory, NEW i \in Addresses, NEW k \in Slots,
         entry[k].page = PageOf(i)
  PROVE  /\ kind[i] \in {"device", "protected"} => entry[k].write = "none"
         /\ (kind[i] = "device" /\ entry[k].read # "none") => FALSE
         /\ (entry[k].write = "none" /\ entry[k].read # "none") =>
               "WRITE" \notin entry[k].cycles
         /\ entry[k].write # "none" => "WRITE" \in entry[k].cycles
         /\ "READ" \notin entry[k].cycles => kind[i] = "protected"
         /\ ("WRITE" \in entry[k].cycles /\ kind[i] \notin {"device", "protected"})
               => entry[k].read # "none" /\ entry[k].write # "none"
<1>1. PICK c \in Cycles : entry[k] = Filled(i, c)
  BY OfPage
<1>2. kind[i] \in Kinds
  BY DEF RmwTypeOK
<1>3. QED
  BY <1>1, <1>2, SMTT(30) DEF Filled, Kinds

(* What entries can hold depends on the memory alone.                      *)
LEMMA SameHoldings ==
  ASSUME UNCHANGED memory
  PROVE  Holdings' = Holdings
BY DEF memory, Holdings, Filled, PageOf

-----------------------------------------------------------------------------
(* The start of an instruction, and the search for entries.              *)
LEMMA StartStep ==
  ASSUME RmwIInv, Start
  PROVE  RmwIInv'
<1> USE DEF RmwIInv, memory, tokens, where, Goto, Refilling, Accessing, Through, Used,
            Start
<1>1. Holdings' = Holdings
  BY SameHoldings
<1>2. /\ rmw' \in LocalsType /\ rmw'.held = {} /\ rmw'.slow = {}
      /\ \A i \in Slots : rmw'.cycles[i] = "WRITE"
  BY DEF Locals, LocalsType
<1>3. RmwTypeOK'
  BY <1>1, <1>2 DEF RmwTypeOK
<1>4. FillType' /\ OneMemory' /\ Wanted'
  BY <1>1, <1>2 DEF RmwTypeOK, FillType, OneMemory, Wanted
<1>5. StaleInvalid' /\ FillFor' /\ AccessFor'
  BY DEF RmwTypeOK, StaleInvalid, FillFor, AccessFor
<1>6. Found'
  BY DEF RmwTypeOK, Found
<1>7. Held' /\ Single'
  BY <1>1, <1>2 DEF RmwTypeOK, Held, Single
<1>8. NothingLeftBusy' /\ Prepared'
  BY DEF RmwTypeOK, NothingLeftBusy, Prepared
<1>9. QED
  BY <1>3, <1>4, <1>5, <1>6, <1>7, <1>8

LEMMA WalkStep ==
  ASSUME RmwIInv, Walk
  PROVE  RmwIInv'
<1> USE DEF RmwIInv, memory, tokens, where, Goto, Refilling, Accessing, Through, Used,
            Walk
<1>1. Holdings' = Holdings
  BY SameHoldings
<1>2. \A i \in Addresses : /\ EntryFor(i) \in Considered \cup {None}
                           /\ EntryFor(i) # None => Applies(EntryFor(i), i)
  BY DEF EntryFor, RmwTypeOK
<1>3. /\ rmw'.held = Considered /\ rmw'.cycles = rmw.cycles /\ rmw'.slow = rmw.slow
      /\ rmw'.fills = rmw.fills
      /\ rmw'.use = [i \in Slots |-> IF i \in Addresses THEN EntryFor(i) ELSE None]
  BY DEF RmwTypeOK, LocalsType
<1>4. \A i \in Slots : rmw'.use[i] = IF i \in Addresses THEN EntryFor(i) ELSE None
  BY <1>3
<1>5. rmw' \in LocalsType
  <2>1. \A i \in Slots :
           (IF i \in Addresses THEN EntryFor(i) ELSE None) \in Slots \cup {None}
    BY <1>2 DEF RmwTypeOK
  <2>2. rmw'.use \in [Slots -> Slots \cup {None}]
    BY <1>3, <2>1, Zenon
  <2>3. rmw' = [rmw EXCEPT !.held = Considered, !.use = rmw'.use]
    BY <1>3, <2>2 DEF RmwTypeOK, LocalsType
  <2>4. Considered \subseteq Slots
    BY DEF RmwTypeOK
  <2>5. QED
    BY <2>2, <2>3, <2>4 DEF RmwTypeOK, LocalsType
<1>6. RmwTypeOK'
  BY <1>1, <1>2, <1>3, <1>4, <1>5 DEF RmwTypeOK
<1>7. FillType' /\ OneMemory' /\ Wanted'
  BY DEF RmwTypeOK, FillType, OneMemory, Wanted
<1>8. StaleInvalid' /\ FillFor' /\ AccessFor'
  BY DEF RmwTypeOK, StaleInvalid, FillFor, AccessFor
<1>9. Found'
  <2>1. at' = "fill" => /\ \E i \in Addresses : rmw'.use[i] = None
                        /\ \A i \in Slots :
                              rmw'.use[i] # None =>
                                  i \in Addresses /\ rmw'.use[i] \in Considered
    BY <1>2, <1>4 DEF RmwTypeOK
  <2>2. at' = "examine" => \A i \in Addresses : /\ rmw'.use[i] \in Considered
                                                 /\ Applies(rmw'.use[i], i)
    BY <1>2, <1>4 DEF RmwTypeOK
  <2>3. at' = "examine" => \A i \in Addresses : rmw'.use[i] \notin stale
    BY <2>2 DEF Applies, StaleInvalid
  <2>4. at' \in {"fill", "examine"}
    OBVIOUS
  <2>5. CASE at' = "fill"
    BY <2>1, <2>5 DEF Found
  <2>6. CASE at' = "examine"
    BY <1>3, <2>2, <2>3, <2>6 DEF Found, Applies, PageOf
  <2>7. QED
    BY <2>4, <2>5, <2>6
<1>10. Held' /\ Single'
  BY DEF RmwTypeOK, Held, Single
<1>11. NothingLeftBusy' /\ Prepared'
  BY DEF RmwTypeOK, NothingLeftBusy, Prepared
<1>12. QED
  BY <1>6, <1>7, <1>8, <1>9, <1>10, <1>11

LEMMA GiveUpStep ==
  ASSUME RmwIInv, GiveUp
  PROVE  RmwIInv'
<1> USE DEF RmwIInv, memory, tokens, where, Goto, Refilling, Accessing, Through, Used,
            GiveUp
<1>1. Holdings' = Holdings
  BY SameHoldings
<1>2. RmwTypeOK'
  BY <1>1 DEF RmwTypeOK
<1>3. FillType' /\ OneMemory' /\ Wanted'
  BY DEF RmwTypeOK, FillType, OneMemory, Wanted
<1>4. StaleInvalid' /\ FillFor' /\ AccessFor'
  BY DEF RmwTypeOK, StaleInvalid, FillFor, AccessFor
<1>5. Found'
  BY DEF RmwTypeOK, Found
<1>6. Held' /\ Single'
  BY DEF RmwTypeOK, Held, Single
<1>7. NothingLeftBusy' /\ Prepared'
  BY DEF RmwTypeOK, NothingLeftBusy, Prepared
<1>8. QED
  BY <1>2, <1>3, <1>4, <1>5, <1>6, <1>7

(* The fill of an entry for an address that has none.                    *)
LEMMA FillStartStep ==
  ASSUME RmwIInv, FillStart
  PROVE  RmwIInv'
<1> USE DEF RmwIInv, memory, tokens, where, Goto, Refilling, Accessing, Through, Used,
            FillStart
<1>1. Holdings' = Holdings
  BY SameHoldings
<1>2. Wanting \in Addresses /\ rmw.use[Wanting] = None
  <2>1. PICK i \in Addresses :
           rmw.use[i] = None /\ \A j \in Addresses : rmw.use[j] = None => j <= i
    BY DEF Found, RmwTypeOK
  <2>2. QED
    BY <2>1 DEF Wanting
<1>3. Spare \in Considered /\ Spare \in Slots
  BY <1>2 DEF Spare, Found, RmwTypeOK
<1>4. /\ rmw' \in LocalsType /\ rmw'.held = rmw.held \ {1 - Spare}
      /\ rmw'.use = rmw.use /\ rmw'.cycles = rmw.cycles /\ rmw'.slow = rmw.slow
  <2> DEFINE more == [rmw.fills EXCEPT ![Wanting] =
                         IF count = 2 /\ @ < MaxFills THEN @ + 1 ELSE @]
  <2>1. more \in [Slots -> 0 .. MaxFills]
    BY <1>2 DEF RmwTypeOK, LocalsType
  <2>2. rmw' = [rmw EXCEPT !.held = @ \ {1 - Spare}, !.fills = more]
    BY <1>2 DEF RmwTypeOK, LocalsType
  <2> HIDE DEF more
  <2>3. rmw.held \ {1 - Spare} \in SUBSET Slots
    BY DEF RmwTypeOK, LocalsType
  <2>4. QED
    BY <2>1, <2>2, <2>3 DEF RmwTypeOK, LocalsType
<1>5. /\ fill'.entry = Spare /\ fill'.address = Wanting /\ fill'.then = "walk"
      /\ fill'.cycle \in Cycles /\ FillType'
  BY <1>2, <1>3 DEF RmwTypeOK, LocalsType, FillType
<1>6. RmwTypeOK'
  BY <1>1, <1>2, <1>3, <1>4, <1>5 DEF RmwTypeOK
<1>7. FillType' /\ OneMemory' /\ Wanted'
  BY <1>1, <1>2, <1>3, <1>4, <1>5 DEF RmwTypeOK, FillType, OneMemory, Wanted
<1>8. StaleInvalid' /\ AccessFor'
  BY DEF RmwTypeOK, StaleInvalid, AccessFor
<1>9. FillFor'
  BY <1>2, <1>3, <1>4, <1>5 DEF FillFor, Held, RmwTypeOK, LocalsType
<1>10. Found'
  BY DEF RmwTypeOK, Found
<1>11. Held' /\ Single'
  BY <1>1, <1>2, <1>3, <1>4, <1>5 DEF RmwTypeOK, Held, Single
<1>12. NothingLeftBusy' /\ Prepared'
  BY DEF RmwTypeOK, NothingLeftBusy, Prepared
<1>13. QED
  BY <1>6, <1>7, <1>8, <1>9, <1>10, <1>11, <1>12

LEMMA ClearStep ==
  ASSUME RmwIInv, Clear
  PROVE  RmwIInv'
<1> USE DEF RmwIInv, memory, tokens, where, Goto, Refilling, Accessing, Through, Used,
            Clear
<1>1. Holdings' = Holdings
  BY SameHoldings
<1>2. RmwTypeOK'
  BY <1>1 DEF RmwTypeOK
<1>3. FillType' /\ OneMemory' /\ Wanted'
  BY DEF RmwTypeOK, FillType, OneMemory, Wanted
<1>4. StaleInvalid' /\ FillFor' /\ AccessFor'
  BY DEF RmwTypeOK, StaleInvalid, FillFor, AccessFor
<1>5. Found'
  BY DEF RmwTypeOK, Found, PageOf
<1>6. Held' /\ Single'
  BY DEF RmwTypeOK, Held, Single
<1>7. NothingLeftBusy' /\ Prepared'
  BY DEF RmwTypeOK, NothingLeftBusy, Prepared
<1>8. QED
  BY <1>2, <1>3, <1>4, <1>5, <1>6, <1>7

LEMMA FillEndStep ==
  ASSUME RmwIInv, FillEnd
  PROVE  RmwIInv'
<1> USE DEF RmwIInv, memory, tokens, where, Goto, Refilling, Accessing, Through, Used,
            FillEnd
<1>1. Holdings' = Holdings
  BY SameHoldings
<1>2. fill.entry \in Slots /\ fill.address \in Slots /\ fill.then \in {"walk", "access"}
  BY DEF FillFor, FillType, RmwTypeOK
<1>3. /\ Filled(fill.address, fill.cycle) \in Holdings
      /\ Filled(fill.address, fill.cycle).page = PageOf(fill.address)
  <2>1. fill.cycle \in Cycles
    BY DEF FillType
  <2>2. Filled(fill.address, fill.cycle) \in Holdings
    BY <1>2, <2>1 DEF Holdings
  <2>3. \A i, c : Filled(i, c).page = PageOf(i)
    BY DEF Filled
  <2>4. QED
    BY <2>2, <2>3
<1>4. /\ entry' \in [Slots -> Holdings]
      /\ \A k \in Slots :
            entry'[k] = IF k = fill.entry THEN Filled(fill.address, fill.cycle) ELSE entry[k]
  BY <1>2, <1>3 DEF RmwTypeOK
<1>5. RmwTypeOK'
  BY <1>1, <1>2, <1>3, <1>4 DEF RmwTypeOK, FillFor, LocalsType
<1>6. FillType' /\ OneMemory' /\ Wanted'
  BY DEF RmwTypeOK, FillType, OneMemory, Wanted
<1>7. StaleInvalid'
  BY DEF RmwTypeOK, StaleInvalid
<1>8. FillFor'
  BY DEF RmwTypeOK, FillFor, FillFor, LocalsType
<1>9. AccessFor'
  BY <1>1, <1>2, <1>3, <1>4 DEF RmwTypeOK, AccessFor, FillFor, LocalsType
<1>10. Found'
  BY <1>1, <1>2, <1>3, <1>4 DEF RmwTypeOK, Found, FillFor, PageOf, LocalsType
<1>11. Held'
  BY <1>1, <1>2, <1>3, <1>4 DEF RmwTypeOK, Held, FillFor, LocalsType
<1>12. Single'
  <2>1. count = 1 => fill.entry = 0 /\ rmw.held = {0} /\ busy \subseteq rmw.held
    BY DEF Single, FillFor
  <2>2. QED
    BY <1>2, <2>1 DEF Single
<1>13. NothingLeftBusy'
  BY <1>1, <1>2, <1>3, <1>4 DEF RmwTypeOK, NothingLeftBusy, FillFor, LocalsType
<1>14. Prepared'
  BY <1>1, <1>2, <1>3, <1>4 DEF RmwTypeOK, Prepared, FillFor, LocalsType
<1>15. QED
  BY <1>5, <1>6, <1>7, <1>8, <1>9, <1>10, <1>11, <1>12, <1>13, <1>14

(* What the search ends with.                                            *)
LEMMA RefuseStep ==
  ASSUME RmwIInv, Refuse
  PROVE  RmwIInv'
<1> USE DEF RmwIInv, memory, tokens, where, Goto, Refilling, Accessing, Through, Used,
            Refuse
<1>1. Holdings' = Holdings
  BY SameHoldings
<1>2. RmwTypeOK'
  BY <1>1 DEF RmwTypeOK
<1>3. FillType' /\ OneMemory' /\ Wanted'
  BY DEF RmwTypeOK, FillType, OneMemory, Wanted
<1>4. StaleInvalid' /\ FillFor' /\ AccessFor'
  BY DEF RmwTypeOK, StaleInvalid, FillFor, AccessFor
<1>5. Found'
  BY DEF RmwTypeOK, Found
<1>6. Held' /\ Single'
  BY DEF RmwTypeOK, Held, Single
<1>7. NothingLeftBusy' /\ Prepared'
  BY DEF RmwTypeOK, NothingLeftBusy, Prepared
<1>8. QED
  BY <1>2, <1>3, <1>4, <1>5, <1>6, <1>7

LEMMA WantReadableStep ==
  ASSUME RmwIInv, WantReadable
  PROVE  RmwIInv'
<1> USE DEF RmwIInv, memory, tokens, where, Goto, Refilling, Accessing, Through, Used,
            WantReadable
<1>1. Holdings' = Holdings
  BY SameHoldings
<1>2. PICK i \in Addresses : /\ Next1(i) /\ Verdict(i) = "readable?"
                              /\ rmw' = [rmw EXCEPT !.cycles[i] = "READ"]
  OBVIOUS
<1>3. /\ rmw.use[i] \in Slots /\ entry[rmw.use[i]].page = PageOf(i) /\ i \notin rmw.slow
      /\ "READ" \notin entry[rmw.use[i]].cycles
  BY <1>2 DEF Verdict, Found, RmwTypeOK
<1>4. kind[i] = "protected"
  BY <1>3, Entries
<1>5. /\ rmw' \in LocalsType
      /\ rmw'.held = rmw.held /\ rmw'.use = rmw.use /\ rmw'.slow = rmw.slow
      /\ rmw'.cycles = [rmw.cycles EXCEPT ![i] = "READ"]
  BY <1>2 DEF RmwTypeOK, LocalsType
<1>6. RmwTypeOK'
  BY <1>1, <1>2, <1>3, <1>4, <1>5 DEF RmwTypeOK
<1>7. FillType' /\ OneMemory'
  BY DEF RmwTypeOK, FillType, OneMemory
<1>8. Wanted'
  BY <1>1, <1>3, <1>4, <1>5 DEF RmwTypeOK, LocalsType, Wanted
<1>9. StaleInvalid' /\ FillFor' /\ AccessFor'
  BY DEF RmwTypeOK, StaleInvalid, FillFor, AccessFor
<1>10. Found'
  BY DEF RmwTypeOK, Found
<1>11. Held' /\ Single'
  BY DEF RmwTypeOK, Held, Single
<1>12. NothingLeftBusy' /\ Prepared'
  BY DEF RmwTypeOK, NothingLeftBusy, Prepared
<1>13. QED
  BY <1>6, <1>7, <1>8, <1>9, <1>10, <1>11, <1>12

LEMMA SlowReadStep ==
  ASSUME RmwIInv, SlowRead
  PROVE  RmwIInv'
<1> USE DEF RmwIInv, memory, tokens, where, Goto, Refilling, Accessing, Through, Used,
            SlowRead
<1>1. Holdings' = Holdings
  BY SameHoldings
<1>2. PICK i \in Addresses : /\ Next1(i) /\ Verdict(i) = "read" /\ cur' = i
                              /\ busy' = busy \ Unbusied(i)
                              /\ rmw' = [rmw EXCEPT !.held = @ \ {1 - rmw.use[i]}]
  OBVIOUS
<1>3. /\ rmw.use[i] \in Considered /\ rmw.use[i] \in Slots
      /\ entry[rmw.use[i]].page = PageOf(i) /\ rmw.cycles[i] \in entry[rmw.use[i]].cycles
      /\ ~FastBoth(rmw.use[i])
  BY <1>2 DEF Verdict, Found, RmwTypeOK
<1>4. kind[i] \in {"device", "protected"}
  BY <1>3, Entries DEF FastBoth, Wanted, RmwTypeOK, LocalsType
<1>5. /\ rmw' \in LocalsType /\ rmw'.held = rmw.held \ {1 - rmw.use[i]}
      /\ rmw'.use = rmw.use /\ rmw'.cycles = rmw.cycles /\ rmw'.slow = rmw.slow
  BY <1>2 DEF RmwTypeOK, LocalsType
<1>6. RmwTypeOK'
  BY <1>1, <1>2, <1>3, <1>4, <1>5 DEF RmwTypeOK, Unbusied, Held
<1>7. FillType'
  BY DEF RmwTypeOK, FillType, Unbusied, Held
<1>8. OneMemory'
  BY DEF RmwTypeOK, OneMemory, Unbusied, Held
<1>9. Wanted'
  BY DEF RmwTypeOK, Wanted, Unbusied, Held
<1>10. StaleInvalid'
  BY DEF RmwTypeOK, StaleInvalid, Unbusied, Held
<1>11. FillFor'
  BY DEF RmwTypeOK, FillFor, Unbusied, Held
<1>12. AccessFor'
  BY <1>1, <1>2, <1>3, <1>4, <1>5 DEF RmwTypeOK, AccessFor, Unbusied, Held
<1>13. Found'
  BY DEF RmwTypeOK, Found, Unbusied, Held, PageOf
<1>14. Held'
  BY DEF RmwTypeOK, Held, Unbusied
<1>15. Single'
  BY <1>1, <1>2, <1>3, <1>4, <1>5 DEF RmwTypeOK, Single, Unbusied, Held
<1>16. NothingLeftBusy'
  BY DEF RmwTypeOK, NothingLeftBusy, Unbusied, Held
<1>17. Prepared'
  BY DEF RmwTypeOK, Prepared, Unbusied, Held
<1>18. QED
  BY <1>6, <1>7, <1>8, <1>9, <1>10, <1>11, <1>12, <1>13, <1>14, <1>15, <1>16, <1>17

LEMMA ReadyStep ==
  ASSUME RmwIInv, Ready
  PROVE  RmwIInv'
<1> USE DEF RmwIInv, memory, tokens, where, Goto, Refilling, Accessing, Through, Used,
            Ready
<1>1. Holdings' = Holdings
  BY SameHoldings
<1>2. /\ rmw.held = Considered
      /\ \A i \in Addresses :
            rmw.use[i] \in Considered /\ entry[rmw.use[i]].page = PageOf(i)
  BY DEF Held, Found
<1>3. \A i \in Addresses :
        /\ rmw.use[i] \in busy' /\ rmw.use[i] \notin stale
        /\ IF i \in rmw.slow THEN "WRITE" \in entry[rmw.use[i]].cycles
           ELSE FastBoth(rmw.use[i]) /\ entry[rmw.use[i]].read = entry[rmw.use[i]].write
  <2> TAKE i \in Addresses
  <2> DEFINE k == rmw.use[i]
  <2>1. IF i \in rmw.slow THEN "WRITE" \in entry[k].cycles
        ELSE FastBoth(k) /\ entry[k].read = entry[k].write
    <3>1. Verdict(i) = "good" /\ k \in Slots
      BY <1>2 DEF RmwTypeOK
    <3>2. i \in rmw.slow => ~FastBoth(k) /\ rmw.cycles[i] = "WRITE"
      BY <1>2, <3>1, Entries DEF Wanted, FastBoth, RmwTypeOK
    <3>3. rmw.cycles[i] \in entry[k].cycles
      BY DEF Found
    <3>4. QED
      BY <3>1, <3>2, <3>3 DEF Verdict
  <2>2. "WRITE" \in entry[k].cycles
    BY <1>2, <2>1, Entries DEF FastBoth, RmwTypeOK
  <2>3. k \in busy
    BY <1>2, <2>2 DEF Held
  <2>4. k \in busy' /\ k \notin stale
    BY <1>2, <2>3 DEF Found
  <2>5. QED
    BY <2>1, <2>4
<1>4. RmwTypeOK'
  BY <1>1, <1>2, <1>3 DEF RmwTypeOK
<1>5. FillType' /\ OneMemory' /\ Wanted'
  BY DEF RmwTypeOK, FillType, OneMemory, Wanted
<1>6. StaleInvalid' /\ FillFor' /\ AccessFor'
  BY DEF RmwTypeOK, StaleInvalid, FillFor, AccessFor
<1>7. Found'
  BY DEF RmwTypeOK, Found, PageOf
<1>8. Single'
  BY DEF RmwTypeOK, Single
<1>9. Held'
  <2>1. busy \subseteq Considered
    BY <1>2 DEF RmwTypeOK, Single
  <2>2. busy' \subseteq Used
    BY <1>2, <2>1
  <2>3. QED
    BY <1>2, <2>2 DEF Held
<1>10. NothingLeftBusy'
  BY DEF RmwTypeOK, NothingLeftBusy
<1>11. Prepared'
  BY <1>2, <1>3 DEF Prepared, FastBoth, PageOf
<1>12. QED
  BY <1>4, <1>5, <1>6, <1>7, <1>8, <1>9, <1>10, <1>11

-----------------------------------------------------------------------------
(* A read or a write by itself.                                          *)
LEMMA AccessFastStep ==
  ASSUME RmwIInv, AccessFast
  PROVE  RmwIInv'
<1> USE DEF RmwIInv, memory, tokens, where, Goto, Refilling, Accessing, Through, Used,
            AccessFast
<1>1. Holdings' = Holdings
  BY SameHoldings
<1>2. /\ rmw' \in LocalsType /\ rmw'.held = rmw.held /\ rmw'.use = rmw.use
      /\ op = "READ" => /\ rmw'.slow = rmw.slow \cup {cur}
                        /\ rmw'.cycles = [rmw.cycles EXCEPT ![cur] = "WRITE"]
      /\ op = "WRITE" => rmw'.slow = rmw.slow /\ rmw'.cycles = rmw.cycles
  <2>1. cur \in Slots
    BY DEF AccessFor, RmwTypeOK
  <2>2. CASE op = "READ"
    BY <2>1, <2>2 DEF Accessed, RmwTypeOK, LocalsType
  <2>3. CASE op = "WRITE"
    BY <2>3 DEF Accessed, RmwTypeOK
  <2>4. QED
    BY <2>2, <2>3 DEF RmwTypeOK
<1>3. (op = "READ" /\ at' = "walk") \/ (op = "WRITE" /\ at' = "written")
  BY DEF AfterAccess, RmwTypeOK
<1>4. /\ cur \in Addresses /\ kind[cur] \in {"device", "protected"}
      /\ Through \in Considered /\ entry[Through].page = PageOf(cur)
  BY DEF AccessFor, Found
<1>5. RmwTypeOK'
  BY <1>1, <1>2 DEF RmwTypeOK
<1>6. FillType'
  BY DEF RmwTypeOK, FillType, AccessFor, LocalsType
<1>7. OneMemory'
  BY DEF RmwTypeOK, OneMemory, AccessFor, LocalsType
<1>8. Wanted'
  <2>1. CASE op = "WRITE"
    BY <1>2, <2>1 DEF Wanted
  <2>2. CASE op = "READ"
    BY <1>2, <1>4, <2>2 DEF Wanted, RmwTypeOK, LocalsType
  <2>3. QED
    BY <2>1, <2>2 DEF RmwTypeOK
<1>9. StaleInvalid'
  BY DEF RmwTypeOK, StaleInvalid, AccessFor, LocalsType
<1>10. FillFor'
  BY <1>1, <1>2, <1>3, <1>4 DEF RmwTypeOK, FillFor, AccessFor, LocalsType
<1>11. AccessFor'
  BY <1>2, <1>3 DEF AccessFor
<1>12. Found'
  BY <1>1, <1>2, <1>3, <1>4 DEF RmwTypeOK, Found, AccessFor, LocalsType
<1>13. Held'
  <2>1. op = "READ" => "WRITE" \notin entry[Through].cycles
    BY <1>4, Entries DEF Fast, RmwTypeOK
  <2>2. op = "READ" => \A k \in rmw.held : "WRITE" \notin entry[k].cycles
    BY <2>1 DEF AccessFor
  <2>3. QED
    BY <1>2, <1>3, <2>2 DEF Held
<1>14. Single'
  <2>1. count = 1 => Through = 0 /\ rmw.held = {0} /\ busy \subseteq {0}
    BY <1>4 DEF Single
  <2>2. QED
    BY <1>2, <1>3, <2>1 DEF Single
<1>15. NothingLeftBusy'
  BY <1>1, <1>2, <1>3, <1>4 DEF RmwTypeOK, NothingLeftBusy, AccessFor, LocalsType
<1>16. Prepared'
  BY <1>1, <1>2, <1>3, <1>4 DEF RmwTypeOK, Prepared, AccessFor, LocalsType
<1>17. QED
  BY <1>5, <1>6, <1>7, <1>8, <1>9, <1>10, <1>11, <1>12, <1>13, <1>14, <1>15, <1>16

LEMMA AccessInvalidStep ==
  ASSUME RmwIInv, AccessInvalid
  PROVE  RmwIInv'
<1> USE DEF RmwIInv, memory, tokens, where, Goto, Refilling, Accessing, Through, Used,
            AccessInvalid
<1>1. Holdings' = Holdings
  BY SameHoldings
<1>2. fill' \in [entry: Slots \cup {None}, address: Slots, cycle: Cycles,
                 then: {"walk", "access"}]
  BY DEF FillType, RmwTypeOK, AccessFor, Found
<1>3. cur # 0 => fill'.entry = Through /\ fill'.address = cur /\ fill'.then = "access"
  OBVIOUS
<1>4. RmwTypeOK'
  BY <1>1, <1>2, <1>3 DEF RmwTypeOK
<1>5. FillType' /\ OneMemory' /\ Wanted'
  BY <1>1, <1>2, <1>3 DEF RmwTypeOK, FillType, OneMemory, Wanted
<1>6. StaleInvalid' /\ AccessFor'
  BY DEF RmwTypeOK, StaleInvalid, AccessFor
<1>7. FillFor'
  BY <1>2, <1>3 DEF FillFor, AccessFor, Found
<1>8. Found'
  BY DEF RmwTypeOK, Found, PageOf
<1>9. Held' /\ Single'
  BY DEF RmwTypeOK, Held, Single
<1>10. NothingLeftBusy' /\ Prepared'
  BY DEF RmwTypeOK, NothingLeftBusy, Prepared
<1>11. QED
  BY <1>4, <1>5, <1>6, <1>7, <1>8, <1>9, <1>10

LEMMA CycleStartStep ==
  ASSUME RmwIInv, CycleStart
  PROVE  RmwIInv'
<1> USE DEF RmwIInv, memory, tokens, where, Goto, Refilling, Accessing, Through, Used,
            CycleStart
<1>1. Holdings' = Holdings
  BY SameHoldings
<1>2. cur \in Addresses /\ Through \in Considered
  BY DEF AccessFor, Found
<1>3. RmwTypeOK'
  BY <1>1, <1>2 DEF RmwTypeOK
<1>4. FillType' /\ OneMemory' /\ Wanted'
  BY DEF RmwTypeOK, FillType, OneMemory, Wanted
<1>5. StaleInvalid' /\ FillFor' /\ AccessFor'
  BY DEF RmwTypeOK, StaleInvalid, FillFor, AccessFor
<1>6. Found'
  BY DEF RmwTypeOK, Found, PageOf
<1>7. Held' /\ Single'
  BY DEF RmwTypeOK, Held, Single
<1>8. NothingLeftBusy' /\ Prepared'
  BY DEF RmwTypeOK, NothingLeftBusy, Prepared
<1>9. QED
  BY <1>3, <1>4, <1>5, <1>6, <1>7, <1>8

LEMMA CycleDoneStep ==
  ASSUME RmwIInv, CycleDone
  PROVE  RmwIInv'
<1> USE DEF RmwIInv, memory, tokens, where, Goto, Refilling, Accessing, Through, Used,
            CycleDone
<1>1. Holdings' = Holdings
  BY SameHoldings
<1>2. /\ rmw' \in LocalsType /\ rmw'.held = rmw.held /\ rmw'.use = rmw.use
      /\ op = "READ" => /\ rmw'.slow = rmw.slow \cup {cur}
                        /\ rmw'.cycles = [rmw.cycles EXCEPT ![cur] = "WRITE"]
      /\ op = "WRITE" => rmw'.slow = rmw.slow /\ rmw'.cycles = rmw.cycles
  <2>1. cur \in Slots
    BY DEF AccessFor, RmwTypeOK
  <2>2. CASE op = "READ"
    BY <2>1, <2>2 DEF Accessed, RmwTypeOK, LocalsType
  <2>3. CASE op = "WRITE"
    BY <2>3 DEF Accessed, RmwTypeOK
  <2>4. QED
    BY <2>2, <2>3 DEF RmwTypeOK
<1>3. (op = "READ" /\ at' = "walk") \/ (op = "WRITE" /\ at' = "written")
  BY DEF AfterAccess, RmwTypeOK
<1>4. /\ cur \in Addresses /\ kind[cur] \in {"device", "protected"}
      /\ Through \in Considered /\ entry[Through].page = PageOf(cur)
  BY DEF AccessFor, Found
<1>5. RmwTypeOK'
  <2>1. Through \in Slots
    BY <1>4 DEF RmwTypeOK
  <2>2. QED
    BY <1>1, <1>2, <2>1 DEF RmwTypeOK
<1>6. FillType'
  BY DEF RmwTypeOK, FillType, AccessFor, LocalsType
<1>7. OneMemory'
  BY DEF RmwTypeOK, OneMemory, AccessFor, LocalsType
<1>8. Wanted'
  <2>1. CASE op = "WRITE"
    BY <1>2, <2>1 DEF Wanted
  <2>2. CASE op = "READ"
    BY <1>2, <1>4, <2>2 DEF Wanted, RmwTypeOK, LocalsType
  <2>3. QED
    BY <2>1, <2>2 DEF RmwTypeOK
<1>9. StaleInvalid'
  BY DEF RmwTypeOK, StaleInvalid, AccessFor, LocalsType
<1>10. FillFor'
  BY <1>1, <1>2, <1>3, <1>4 DEF RmwTypeOK, FillFor, AccessFor, LocalsType
<1>11. AccessFor'
  BY <1>2, <1>3 DEF AccessFor
<1>12. Found'
  BY <1>1, <1>2, <1>3, <1>4 DEF RmwTypeOK, Found, AccessFor, LocalsType
<1>13. Held'
  BY <1>2, <1>3, <1>4 DEF AccessFor, Held
<1>14. Single'
  <2>1. count = 1 => Through = 0 /\ rmw.held = {0} /\ busy \subseteq {0}
    BY <1>4 DEF Single
  <2>2. QED
    BY <1>2, <1>3, <2>1 DEF Single
<1>15. NothingLeftBusy'
  BY <1>1, <1>2, <1>3, <1>4 DEF RmwTypeOK, NothingLeftBusy, AccessFor, LocalsType
<1>16. Prepared'
  BY <1>1, <1>2, <1>3, <1>4 DEF RmwTypeOK, Prepared, AccessFor, LocalsType
<1>17. QED
  BY <1>5, <1>6, <1>7, <1>8, <1>9, <1>10, <1>11, <1>12, <1>13, <1>14, <1>15, <1>16

LEMMA CycleAgainStep ==
  ASSUME RmwIInv, CycleAgain
  PROVE  RmwIInv'
<1> USE DEF RmwIInv, memory, tokens, where, Goto, Refilling, Accessing, Through, Used,
            CycleAgain
<1>1. Holdings' = Holdings
  BY SameHoldings
<1>2. cur \in Addresses /\ Through \in Considered
  BY DEF AccessFor, Found
<1>3. count = 1 => Through = 0 /\ rmw.held = {0} /\ busy \subseteq {0}
  BY <1>2 DEF Single
<1>4. RmwTypeOK'
  BY <1>1, <1>2, <1>3 DEF RmwTypeOK
<1>5. FillType' /\ OneMemory' /\ Wanted'
  BY DEF RmwTypeOK, FillType, OneMemory, Wanted
<1>6. StaleInvalid' /\ FillFor' /\ AccessFor'
  BY DEF RmwTypeOK, StaleInvalid, FillFor, AccessFor
<1>7. Found'
  BY DEF RmwTypeOK, Found, PageOf
<1>8. Held'
  BY DEF RmwTypeOK, Held
<1>9. Single'
  BY <1>3 DEF Single
<1>10. NothingLeftBusy' /\ Prepared'
  BY DEF RmwTypeOK, NothingLeftBusy, Prepared
<1>11. QED
  BY <1>4, <1>5, <1>6, <1>7, <1>8, <1>9, <1>10

LEMMA CycleFaultStep ==
  ASSUME RmwIInv, CycleFault
  PROVE  RmwIInv'
<1> USE DEF RmwIInv, memory, tokens, where, Goto, Refilling, Accessing, Through, Used,
            CycleFault
<1>1. Holdings' = Holdings
  BY SameHoldings
<1>2. cur \in Addresses /\ Through \in Considered
  BY DEF AccessFor, Found
<1>3. count = 1 => Through = 0 /\ rmw.held = {0} /\ busy \subseteq {0}
  BY <1>2 DEF Single
<1>4. RmwTypeOK'
  BY <1>1, <1>2, <1>3 DEF RmwTypeOK
<1>5. FillType' /\ OneMemory' /\ Wanted'
  BY DEF RmwTypeOK, FillType, OneMemory, Wanted
<1>6. StaleInvalid' /\ FillFor' /\ AccessFor'
  BY DEF RmwTypeOK, StaleInvalid, FillFor, AccessFor
<1>7. Found'
  BY DEF RmwTypeOK, Found
<1>8. Held'
  BY DEF RmwTypeOK, Held
<1>9. Single'
  BY <1>3 DEF Single
<1>10. Prepared'
  BY DEF RmwTypeOK, Prepared
<1>11. NothingLeftBusy'
  BY <1>3 DEF NothingLeftBusy, RmwTypeOK
<1>12. QED
  BY <1>4, <1>5, <1>6, <1>7, <1>8, <1>9, <1>10, <1>11

-----------------------------------------------------------------------------
(* The end of an instruction.                                            *)
LEMMA UnsupportedStep ==
  ASSUME RmwIInv, Unsupported
  PROVE  RmwIInv'
<1> USE DEF RmwIInv, memory, tokens, where, Goto, Refilling, Accessing, Through, Used,
            Unsupported
<1>1. Holdings' = Holdings
  BY SameHoldings
<1>2. RmwTypeOK'
  BY <1>1 DEF RmwTypeOK
<1>3. FillType' /\ OneMemory' /\ Wanted'
  BY DEF RmwTypeOK, FillType, OneMemory, Wanted
<1>4. StaleInvalid' /\ FillFor' /\ AccessFor'
  BY DEF RmwTypeOK, StaleInvalid, FillFor, AccessFor
<1>5. Found'
  BY DEF RmwTypeOK, Found
<1>6. Single'
  BY DEF RmwTypeOK, Single
<1>7. Held'
  <2>1. rmw.held = Considered /\ busy \subseteq rmw.held
    BY DEF RmwTypeOK, Held, Single
  <2>2. QED
    BY <2>1 DEF Held
<1>8. NothingLeftBusy' /\ Prepared'
  BY DEF RmwTypeOK, NothingLeftBusy, Prepared
<1>9. QED
  BY <1>2, <1>3, <1>4, <1>5, <1>6, <1>7, <1>8

LEMMA IllegalStep ==
  ASSUME RmwIInv, Illegal
  PROVE  RmwIInv'
<1> USE DEF RmwIInv, memory, tokens, where, Goto, Refilling, Accessing, Through, Used,
            Illegal
<1>1. Holdings' = Holdings
  BY SameHoldings
<1>2. RmwTypeOK'
  BY <1>1 DEF RmwTypeOK
<1>3. FillType' /\ OneMemory' /\ Wanted'
  BY DEF RmwTypeOK, FillType, OneMemory, Wanted
<1>4. StaleInvalid' /\ FillFor' /\ AccessFor'
  BY DEF RmwTypeOK, StaleInvalid, FillFor, AccessFor
<1>5. Found'
  BY DEF RmwTypeOK, Found
<1>6. Held' /\ Single'
  BY DEF RmwTypeOK, Held, Single
<1>7. Prepared'
  BY DEF RmwTypeOK, Prepared
<1>8. NothingLeftBusy'
  BY DEF RmwTypeOK, Held, Single, NothingLeftBusy
<1>9. QED
  BY <1>2, <1>3, <1>4, <1>5, <1>6, <1>7, <1>8

LEMMA FinishStep ==
  ASSUME RmwIInv, Finish
  PROVE  RmwIInv'
<1> USE DEF RmwIInv, memory, tokens, where, Goto, Refilling, Accessing, Through, Used,
            Finish
<1>1. Holdings' = Holdings
  BY SameHoldings
<1>2. \A i \in Addresses : rmw.use[i] \in Considered
  BY DEF Found
<1>3. /\ rmw' \in LocalsType /\ rmw'.held = Used
      /\ rmw'.use = rmw.use /\ rmw'.cycles = rmw.cycles /\ rmw'.slow = rmw.slow
  BY <1>2 DEF RmwTypeOK, LocalsType
<1>4. RmwTypeOK'
  BY <1>1, <1>2, <1>3 DEF RmwTypeOK
<1>5. FillType' /\ OneMemory' /\ Wanted'
  BY DEF RmwTypeOK, FillType, OneMemory, Wanted
<1>6. StaleInvalid' /\ FillFor' /\ AccessFor'
  BY DEF RmwTypeOK, StaleInvalid, FillFor, AccessFor
<1>7. Found'
  BY DEF RmwTypeOK, Found, PageOf
<1>8. Held'
  BY DEF RmwTypeOK, Held
<1>9. Single'
  BY <1>1, <1>2, <1>3 DEF RmwTypeOK, Single
<1>10. NothingLeftBusy' /\ Prepared'
  BY DEF RmwTypeOK, NothingLeftBusy, Prepared
<1>11. QED
  BY <1>4, <1>5, <1>6, <1>7, <1>8, <1>9, <1>10

LEMMA FinishSlowStep ==
  ASSUME RmwIInv, FinishSlow
  PROVE  RmwIInv'
<1> USE DEF RmwIInv, memory, tokens, where, Goto, Refilling, Accessing, Through, Used,
            FinishSlow
<1>1. Holdings' = Holdings
  BY SameHoldings
<1>2. cur \in Addresses /\ cur \in rmw.slow /\ rmw.use[cur] \in Considered
  BY DEF Found
<1>3. /\ rmw' \in LocalsType /\ rmw'.held = rmw.held \ {1 - rmw.use[cur]}
      /\ rmw'.use = rmw.use /\ rmw'.cycles = rmw.cycles /\ rmw'.slow = rmw.slow
  BY <1>2 DEF RmwTypeOK, LocalsType
<1>4. RmwTypeOK'
  BY <1>1, <1>2, <1>3 DEF RmwTypeOK
<1>5. FillType' /\ OneMemory' /\ Wanted'
  BY DEF RmwTypeOK, FillType, OneMemory, Wanted
<1>6. StaleInvalid' /\ FillFor'
  BY DEF RmwTypeOK, StaleInvalid, FillFor
<1>7. AccessFor'
  BY <1>2, <1>3 DEF RmwTypeOK, LocalsType, AccessFor, Wanted, Unbusied
<1>8. Found'
  BY DEF RmwTypeOK, Found, PageOf
<1>9. Held'
  BY DEF RmwTypeOK, Held
<1>10. Single'
  BY <1>2, <1>3 DEF RmwTypeOK, Single, Found, Unbusied
<1>11. NothingLeftBusy' /\ Prepared'
  BY DEF RmwTypeOK, NothingLeftBusy, Prepared
<1>12. QED
  BY <1>4, <1>5, <1>6, <1>7, <1>8, <1>9, <1>10, <1>11

LEMMA FinishFastStep ==
  ASSUME RmwIInv, FinishFast
  PROVE  RmwIInv'
<1> USE DEF RmwIInv, memory, tokens, where, Goto, Refilling, Accessing, Through, Used,
            FinishFast
<1>1. Holdings' = Holdings
  BY SameHoldings
<1>2. RmwTypeOK'
  BY <1>1 DEF RmwTypeOK
<1>3. FillType' /\ OneMemory' /\ Wanted'
  BY DEF RmwTypeOK, FillType, OneMemory, Wanted
<1>4. StaleInvalid' /\ FillFor' /\ AccessFor'
  BY DEF RmwTypeOK, StaleInvalid, FillFor, AccessFor
<1>5. Found'
  BY DEF RmwTypeOK, Found, PageOf
<1>6. Held' /\ Single'
  BY DEF RmwTypeOK, Held, Single
<1>7. NothingLeftBusy' /\ Prepared'
  BY DEF RmwTypeOK, NothingLeftBusy, Prepared
<1>8. QED
  BY <1>2, <1>3, <1>4, <1>5, <1>6, <1>7

LEMMA FinishEndStep ==
  ASSUME RmwIInv, FinishEnd
  PROVE  RmwIInv'
<1> USE DEF RmwIInv, memory, tokens, where, Goto, Refilling, Accessing, Through, Used,
            FinishEnd
<1>1. Holdings' = Holdings
  BY SameHoldings
<1>2. RmwTypeOK'
  BY <1>1 DEF RmwTypeOK
<1>3. FillType' /\ OneMemory' /\ Wanted'
  BY DEF RmwTypeOK, FillType, OneMemory, Wanted
<1>4. StaleInvalid' /\ FillFor' /\ AccessFor'
  BY DEF RmwTypeOK, StaleInvalid, FillFor, AccessFor
<1>5. Found'
  BY DEF RmwTypeOK, Found
<1>6. Single'
  BY DEF RmwTypeOK, Single
<1>7. Held'
  BY DEF RmwTypeOK, Held, Single, AccessFor
<1>8. Prepared'
  BY DEF RmwTypeOK, Prepared
<1>9. NothingLeftBusy'
  BY DEF RmwTypeOK, Held, Single, AccessFor, NothingLeftBusy
<1>10. QED
  BY <1>2, <1>3, <1>4, <1>5, <1>6, <1>7, <1>8, <1>9

(* The other threads.                                                      *)
LEMMA OthersStep ==
  ASSUME RmwIInv, Others
  PROVE  RmwIInv'
<1> USE DEF RmwIInv, memory, tokens, where, Refilling, Accessing, Through, Used
<1>1. Holdings' = Holdings
  BY SameHoldings DEF Others, Invalidate, InvalidateReturn
<1>2. /\ UNCHANGED <<kind, same, count, entry, busy, rmw, at, op, cur, fill, stopped, faulted>>
      /\ \E k \in Slots :
            \/ inval' = inval \cup {k} /\ spinning' = spinning \cup {k} /\ stale' = stale
            \/ /\ k \in spinning /\ k \notin busy
               /\ spinning' = spinning \ {k} /\ stale' = stale \cup {k} /\ inval' = inval
  BY DEF Others, Invalidate, InvalidateReturn
<1>3. RmwTypeOK' /\ StaleInvalid'
  BY <1>1, <1>2 DEF RmwTypeOK, StaleInvalid
<1>4. Found'
  BY <1>2 DEF Found, PageOf
<1>5. Prepared'
  BY <1>2 DEF Prepared, FastBoth, PageOf
<1>6. FillType' /\ OneMemory' /\ Wanted' /\ FillFor' /\ AccessFor'
  BY <1>2 DEF FillType, OneMemory, Wanted, FillFor, AccessFor
<1>7. Held' /\ Single' /\ NothingLeftBusy'
  BY <1>2 DEF Held, Single, NothingLeftBusy
<1>8. QED
  BY <1>3, <1>4, <1>5, <1>6, <1>7

(* A step of something else.                                              *)
LEMMA Unchanged ==
  ASSUME RmwIInv, UNCHANGED rmwVars
  PROVE  RmwIInv'
<1> USE DEF RmwIInv, rmwVars, memory, tokens, where, Refilling, Accessing, Through, Used
<1>1. Holdings' = Holdings
  BY SameHoldings
<1>2. RmwTypeOK' /\ StaleInvalid'
  BY <1>1 DEF RmwTypeOK, StaleInvalid
<1>3. Found' /\ Prepared'
  BY DEF Found, PageOf, Prepared, FastBoth
<1>4. FillType' /\ OneMemory' /\ Wanted' /\ FillFor' /\ AccessFor'
  BY DEF FillType, OneMemory, Wanted, FillFor, AccessFor
<1>5. Held' /\ Single' /\ NothingLeftBusy'
  BY DEF Held, Single, NothingLeftBusy
<1>6. QED
  BY <1>2, <1>3, <1>4, <1>5

-----------------------------------------------------------------------------
LEMMA RmwInitIInv == RmwInit => RmwIInv
<1> SUFFICES ASSUME RmwInit PROVE RmwIInv
  OBVIOUS
<1> USE DEF RmwInit, Refilling, Accessing, Through, Used
<1>1. /\ Locals \in LocalsType
      /\ NoFill \in [entry: Slots \cup {None}, address: Slots, cycle: Cycles,
                     then: {"walk", "access"}]
  BY DEF Locals, LocalsType, NoFill
<1>2. RmwTypeOK /\ FillType
  <2>1. rmw \in LocalsType /\ FillType
    BY <1>1 DEF FillType
  <2>2. /\ inval \subseteq Slots /\ busy \subseteq Slots /\ spinning \subseteq inval
        /\ stale \subseteq Slots
    OBVIOUS
  <2>3. stopped \in BOOLEAN /\ faulted \in BOOLEAN
    BY Zenon
  <2>4. QED
    BY <2>1, <2>2, <2>3 DEF RmwTypeOK
<1>3. OneMemory
  BY DEF OneMemory
<1>4. Wanted /\ Single
  BY DEF Wanted, Single, Locals
<1>5. StaleInvalid /\ Found /\ FillFor /\ AccessFor /\ Held /\ NothingLeftBusy /\ Prepared
  BY DEF StaleInvalid, Found, FillFor, AccessFor, Held, NothingLeftBusy, Prepared
<1>6. QED
  BY <1>2, <1>3, <1>4, <1>5 DEF RmwIInv

LEMMA RmwNextIInv == RmwIInv /\ [RmwNext]_rmwVars => RmwIInv'
<1> SUFFICES ASSUME RmwIInv, [RmwNext]_rmwVars PROVE RmwIInv'
  OBVIOUS
<1>1. CASE Look
  BY <1>1, WalkStep, GiveUpStep, FillStartStep, ClearStep, FillEndStep, RefuseStep,
     WantReadableStep, SlowReadStep, ReadyStep DEF Look
<1>2. CASE Access
  BY <1>2, AccessFastStep, AccessInvalidStep, CycleStartStep, CycleDoneStep,
     CycleAgainStep, CycleFaultStep DEF Access
<1>3. CASE End
  BY <1>3, UnsupportedStep, IllegalStep, FinishStep, FinishSlowStep, FinishFastStep,
     FinishEndStep DEF End
<1>4. QED
  BY <1>1, <1>2, <1>3, StartStep, OthersStep, Unchanged DEF RmwNext, Aborted

-----------------------------------------------------------------------------
(* The inductive invariant of the read-modify-write cycles holds in every  *)
(* run.                                                                    *)
THEOREM RmwInvariance == RmwSpec => []RmwIInv
<1>1. QED
  BY RmwInitIInv, RmwNextIInv, PTL DEF RmwSpec

(* The locals of rmw_start and the tokens have their types.                *)
THEOREM RmwTypeCorrect == RmwSpec => []RmwTypeOK
<1>1. RmwIInv => RmwTypeOK
  BY DEF RmwIInv
<1>2. QED
  BY <1>1, RmwInvariance, PTL

(* No token stays busy after an instruction, but for a cas2 with a slow    *)
(* access, for any number of fills that it takes.                          *)
THEOREM TokensLetGo == RmwSpec => []NothingLeftBusy
<1>1. RmwIInv => NothingLeftBusy
  BY DEF RmwIInv
<1>2. QED
  BY <1>1, RmwInvariance, PTL

(* When rmw_start is done its entries are pinned, of the right pages, and  *)
(* good for what rmw_finish does through them, however fills and           *)
(* invalidations of the two entries alternated.                            *)
THEOREM StartPrepares == RmwSpec => []Prepared
<1>1. RmwIInv => Prepared
  BY DEF RmwIInv
<1>2. QED
  BY <1>1, RmwInvariance, PTL

(* What was read apart from its write is never written to memory directly. *)
THEOREM WritesFollowReads == RmwSpec => []NotTorn
<1>1. RmwIInv => NotTorn
  <2> SUFFICES ASSUME RmwIInv, at = "access", op = "WRITE" PROVE ~Fast
    BY DEF NotTorn
  <2>1. /\ cur \in Addresses /\ kind[cur] \in {"device", "protected"}
        /\ Through \in Slots /\ entry[Through].page = PageOf(cur)
    BY DEF RmwIInv, RmwTypeOK, AccessFor, Found, Accessing, Through
  <2>2. entry[Through].write = "none"
    BY <2>1, Entries DEF RmwIInv
  <2>3. QED
    BY <2>2 DEF Fast
<1>2. QED
  BY <1>1, RmwInvariance, PTL
=============================================================================
