SPECIFICATION PartsSpec
CONSTANTS
  Size = 4
  Bytes = {1, 2}
  Flags <- MCFlags
  Chunks <- Mixed
  Room = 3
  MaxTx = 2
  MaxRead = 2
  Preemptive = FALSE
  Texts <- MCTexts
  MaxCount = 3
  Inputs <- MCInputs
  MaxAsk = 5
  Checked = TRUE
INVARIANTS TypeOK NothingLeft InputAnnounced OutputFetched
PROPERTIES KeepsQueue LoopsAtomic OutputServed
