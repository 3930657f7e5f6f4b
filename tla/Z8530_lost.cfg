SPECIFICATION ChipSpec
CONSTANTS
  TxRoom = 1
  RxRoom = 1
  MaxData = 1
  Errors = {}
  Wr1 <- MCWr1
  Wr15 <- MCWr15
  Roles <- MCRoles
  PosixThreads = TRUE
INVARIANT SendingOffered
