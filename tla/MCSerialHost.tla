---------------------------- MODULE MCSerialHost ----------------------------
(* A small instance of SerialBuffer, one of SerialLoops, or one of         *)
(* PosixSerial with cooperative threads: parts of the serial line in one   *)
(* run, that says in part which one it is of.                              *)
EXTENDS MCPosixSerial, SerialBuffer, SerialLoops, SerialSizes

(* Characters that were copied in together differ, also where the last     *)
(* ones take the slots of the first.                                       *)
MCTexts == {<<1>>, <<2, 1>>, <<1, 2, 2>>}
MCInputs == {<<1>>, <<2, 1>>, <<1, 2, 2>>, <<1, 2, 2, 1, 2>>}

MaxCalls == 4

VARIABLES part, calls  \* how often loops were started, at most MaxCalls

Blank == [i \in 0 .. Size - 1 |-> NoChar]

PartsInit ==
    /\ Init /\ BufferInit /\ LoopsInit
    /\ part \in {"buffer", "loops", "device"}
    /\ \A i \in 0 .. Size - 1 : ring.slot[i].byte = NoChar.byte
    /\ part # "buffer" => ring.slot = Blank
    /\ buffer.slot = Blank
    /\ calls = 0

PartsNext ==
    /\ \/ part = "buffer" /\ BufferNext /\ UNCHANGED <<vars, loopVars, calls>>
       \/ /\ part = "loops" /\ LoopsNext /\ UNCHANGED <<vars, bufferVars>>
          /\ calls' = IF call = NoCall THEN calls + 1 ELSE calls
          /\ calls' <= MaxCalls
       \/ calls = MaxCalls /\ call = NoCall /\ UNCHANGED <<calls, vars, bufferVars, loopVars>>
       \/ part = "device" /\ Next /\ UNCHANGED <<bufferVars, loopVars, calls>>
    /\ UNCHANGED part

PartsSpec ==
    PartsInit /\ [][PartsNext]_<<part, calls, vars, bufferVars, loopVars>> /\ Fairness
=============================================================================
