SPECIFICATION Spec
CONSTANTS
  Fd <- Descriptors
  Launches <- AnyOpen
  POLL_SET_SIZE = 2
  MAX_TRIES = 3
CHECK_DEADLOCK FALSE
INVARIANTS
  TypeOK
  WatchesItsSocket
  OneSocketOpen
  ReportsReadySocket
PROPERTIES
  TriesAreTimeouts
