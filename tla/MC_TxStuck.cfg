CONSTANTS
  RingSize = 3
  MaxChain = 2
  MaxFrames = 4
SPECIFICATION FairSpec
PROPERTIES OutputReturns
CHECK_DEADLOCK FALSE
