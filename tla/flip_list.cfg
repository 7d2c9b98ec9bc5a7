SPECIFICATION Spec
CONSTANTS
  main = main
  child1 = child1
  Unset = Unset
  Junk = Junk
  Process = {main, child1}
  Main = main
  Byte = {1, 2}
  Draws = {0, 1, 2}
  Rates <- CommandRates
  Environments <- FlipLists
  MaxSends = 3
  MaxTime = 1
CHECK_DEADLOCK FALSE
INVARIANTS
  FlipsAsListed
