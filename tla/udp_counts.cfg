SPECIFICATION UdpSpec
CONSTANTS
  Chunk <- MCChunk
  NoData = NoData
  File <- MCFile4
  WindowSize = 2
  MAX_TRIES = 2
  MaxFaults = 2
  QueueLimit = 3
  ReadMayFail = TRUE
CHECK_DEADLOCK FALSE
INVARIANTS
  CountsAgree
