SPECIFICATION FairSpec
CONSTANTS
  r1 = r1
  r2 = r2
  Client = {r1, r2}
  Found = {r1}
  MAX_TRIES = 2
  MaxFaults = 1
  MaxDuplicates = 0
  MaxData = 1
CHECK_DEADLOCK FALSE
INVARIANTS
  TypeOK
  OneChildServes
  StartsAsFileTransfer
  NoCopyOfMissingFile
  FirstPacketIsData
  SocketsBounded
PROPERTIES
  ImplementsFileRequest
  SetupEnds
