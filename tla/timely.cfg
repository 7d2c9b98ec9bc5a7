SPECIFICATION TimelySpec
CONSTANTS
  Chunk <- MCChunk
  NoData = NoData
  File <- MCFile4
  WindowSize = 2
  MAX_TRIES = 4
  MaxFaults = 5
  QueueLimit = 8
  ReadMayFail = FALSE
CHECK_DEADLOCK FALSE
PROPERTIES
  CopyCompletes
  ServerTerminates
