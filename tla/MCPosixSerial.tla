--------------------------- MODULE MCPosixSerial ---------------------------
(* Small instances of PosixSerial.                                         *)
EXTENDS PosixSerial

MCFlags == {{}, {"BAD_PARITY"}}

(* Runs that fit and runs that do not, bad characters and breaks between.  *)
Mixed == {<<1>>, <<2>>, <<BadByte, 1>>, <<1, BadByte>>, <<Break>>, <<1, Break, 1>>}

(* One character at a time.                                                *)
Single == {<<1>>}

(* Nothing but breaks.                                                     *)
Breaks == {<<Break>>}
NoFlags == {{}}
============================================================================
