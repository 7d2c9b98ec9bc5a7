SPECIFICATION UdpSpec
CONSTANTS
  Chunk <- MCChunk
  NoData = NoData
  File <- MCFile5
  WindowSize = 2
  MAX_TRIES = 2
  MaxFaults = 1
  QueueLimit = 3
  ReadMayFail = FALSE
CHECK_DEADLOCK FALSE
INVARIANTS
  OutputIsPrefix
