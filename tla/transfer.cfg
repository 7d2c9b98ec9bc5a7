SPECIFICATION Spec
CONSTANTS
  Chunk <- MCChunk
  NoData = NoData
  File <- MCFile5
  WindowSize = 3
  MAX_TRIES = 2
  MaxFaults = 2
  QueueLimit = 4
  ReadMayFail = TRUE
CHECK_DEADLOCK FALSE
INVARIANTS
  TypeOK
  OutputIsPrefix
  TransferInv
  UnwrittenStillInWindow
PROPERTIES
  BufferedUntilWritten
  WindowOnlyAdvances
  ImplementsFileCopy
