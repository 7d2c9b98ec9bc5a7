SPECIFICATION Spec
CONSTANTS
  Chunk <- MCChunk
  NoData = NoData
  File <- MCFile3
  WindowSize = 2
  MAX_TRIES = 2
  MaxFaults = 0
  QueueLimit = 3
  ReadMayFail = FALSE
CHECK_DEADLOCK FALSE
PROPERTIES
  ResendsLowestUnacked
