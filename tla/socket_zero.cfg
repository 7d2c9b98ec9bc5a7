SPECIFICATION Spec
CONSTANTS
  Fd <- Descriptors
  Launches <- StdinClosed
  POLL_SET_SIZE = 2
  MAX_TRIES = 3
CHECK_DEADLOCK FALSE
PROPERTIES
  TimeoutsReceiveNothing
