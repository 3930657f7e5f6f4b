------------------------------- MODULE MCSun3 -------------------------------
(* A small instance of Sun3Mmu, or one of M68kRmw: two parts of a machine  *)
(* in one run, that says in part which one it is of.                       *)
EXTENDS MCSun3Mmu, M68kRmw

VARIABLE part

\* The state of the CPU while the part is the MMU.
CpuOff == RmwInit /\ count = 1 /\ kind[0] = "ram" /\ \A k \in Slots : entry[k] = NoHold

PartsInit ==
    \/ part = "mmu" /\ Init /\ CpuOff
    \/ part = "cpu" /\ Init /\ RmwInit

PartsNext ==
    \/ part = "mmu" /\ Next /\ UNCHANGED <<part, rmwVars>>
    \/ part = "cpu" /\ RmwNext /\ UNCHANGED <<part, vars>>

PartsSpec == PartsInit /\ [][PartsNext]_<<part, vars, rmwVars>>
=============================================================================
