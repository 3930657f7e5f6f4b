SPECIFICATION PartsSpec
CONSTANTS
  MaxFills = 3
  Size = 2
  None = None
  Contexts <- MCContexts
  Segments = {"s"}
  Indices = {"i"}
  Pmegs = {p1, p2}
  LastPmeg = p2
  CpuEntries = {c1}
  DvmaEntries = {d1, d2}
  Entries <- MCEntries
  DvmaPages <- MCPages
  RawPtes <- MCRawPtes
  PmegTlbs = 1
  ContextTlbs = 1
  SdvmaTlbs = 1
  NoEntry = NoEntry
  NoFilling = NoFilling
SYMMETRY DvmaSym
INVARIANTS TypeOK CpuAgrees DvmaAgrees ChangesRecorded FillSuffices Remembered RmwTypeOK NothingLeftBusy Prepared NotTorn
