SPECIFICATION TimelySpec
CONSTANTS
  Chunk <- MCChunk
  NoData = NoData
  File <- MCFile3
  WindowSize = 2
  MAX_TRIES = 2
  MaxFaults = 2
  QueueLimit = 6
  ReadMayFail = FALSE
CHECK_DEADLOCK FALSE
PROPERTIES
  ClientNoticesDeadServer
