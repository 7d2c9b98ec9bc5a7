SPECIFICATION Spec
CONSTANTS
  Half = 8
  WindowSizes <- AcceptedWindows
  MAX_TRIES = 3
  MaxPackets = 20
CHECK_DEADLOCK FALSE
INVARIANTS
  TypeOK
  OpenAsNumbers
  SafeBelowHalf
