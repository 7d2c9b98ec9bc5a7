SPECIFICATION Spec
CONSTANTS
  Fd <- Descriptors
  Launches <- FromTerminal
  POLL_SET_SIZE = 2
  MAX_TRIES = 3
CHECK_DEADLOCK FALSE
INVARIANTS
  CallersFindDatagram
