---------------------------- MODULE MCSerialChip ----------------------------
(* A small instance of Z8530 with cooperative threads, or one of           *)
(* PosixSerial with preemptive ones: two parts of the serial line in one   *)
(* run, that says in part which one it is of.                              *)
EXTENDS MCPosixSerial, MCZ8530

VARIABLE part

PartsInit ==
    /\ ChipInit /\ Init
    /\ \/ part = "chip"
       \/ part = "device" /\ role = CHOOSE r \in MCRoles : TRUE

PartsNext ==
    /\ \/ part = "chip" /\ ChipNext /\ UNCHANGED vars
       \/ part = "device" /\ Next /\ UNCHANGED chipVars
    /\ UNCHANGED part

PartsSpec == PartsInit /\ [][PartsNext]_<<part, chipVars, vars>>
============================================================================
