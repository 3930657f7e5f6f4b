SPECIFICATION Spec
CONSTANTS
  Size = 4
  Bytes = {1}
  Flags <- MCFlags
  Chunks <- Single
  Room = 3
  MaxTx = 2
  MaxRead = 2
  Preemptive = TRUE
INVARIANT InputAnnounced
