SPECIFICATION Spec
CONSTANTS
  Contexts <- MCContexts
  Segments = {"s"}
  Indices = {"i"}
  Pmegs = {p1, p2}
  LastPmeg = p2
  CpuEntries = {c1}
  DvmaEntries = {d1}
  Entries <- MCEntries
  DvmaPages <- MCPages
  RawPtes <- MCRawPtes
  PmegTlbs = 1
  ContextTlbs = 1
  SdvmaTlbs = 1
  NoEntry = NoEntry
  NoFilling = NoFilling
INVARIANT NoSpuriousFault
