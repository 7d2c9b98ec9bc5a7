SPECIFICATION Spec
CONSTANTS
  Uint32 <- SeqNumbers
  Flags <- SomeFlags
  Payloads <- SomePayloads
  MAX_PAYLOAD_SIZE = 5
CHECK_DEADLOCK FALSE
INVARIANTS
  TypeOK
  FlipDetected
  IntactRetrieved
  CksumIsOnesComplement
