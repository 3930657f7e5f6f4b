SPECIFICATION PartsSpec
CONSTANTS
  TxRoom = 1
  RxRoom = 2
  MaxData = 1
  Errors = {"FRAME"}
  Wr1 <- MCWr1
  Wr15 <- MCWr15
  Roles <- MCRoles
  PosixThreads = FALSE
  Size = 2
  Bytes = {1}
  Flags <- NoFlags
  Chunks <- Breaks
  Room = 2
  MaxTx = 2
  MaxRead = 2
  Preemptive = TRUE
INVARIANTS ChipTypeOK SignalAgrees SendingOffered ReceivingOwed BreaksShown ReadFits WriterHasData
