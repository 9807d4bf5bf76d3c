CONSTANTS
  w1 = w1
  Writer = {w1}
  Limit = 2
  Room = 2
  MaxMessages = 2
  MaxLines = 1
  MaxEmpty = 1
  MaxForeign = 1
SPECIFICATION FairSpec
INVARIANTS NoSleeper SlotsKept
PROPERTIES SendReturns StateArrives
CHECK_DEADLOCK FALSE
