SPECIFICATION Spec
CONSTANTS
  r1 = r1
  r2 = r2
  Client = {r1}
  Found = {r1}
  MAX_TRIES = 2
  MaxFaults = 0
  MaxDuplicates = 1
  MaxData = 1
CHECK_DEADLOCK FALSE
INVARIANTS
  FirstPacketIsData
