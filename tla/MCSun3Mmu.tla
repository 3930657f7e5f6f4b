----------------------------- MODULE MCSun3Mmu -----------------------------
(* Small instances of Sun3Mmu.                                             *)
EXTENDS Sun3Mmu, TLC

MCContexts == {0, 1}
MCPages == {"s"} \X {"i"}
MCEntries == CpuEntries \cup DvmaEntries

Raw(valid, write, system, used) ==
    [valid |-> valid, write |-> write, system |-> system, frame |-> 1,
     ref |-> used, mod |-> used]

(* A page that anybody may write, and one the supervisor may read.  Pages  *)
(* that are not valid are those nobody wrote a page table entry for.       *)
MCRawPtes == {Raw(TRUE, TRUE, FALSE, FALSE), Raw(TRUE, FALSE, TRUE, FALSE)}

DvmaSym == Permutations(DvmaEntries)
=============================================================================
