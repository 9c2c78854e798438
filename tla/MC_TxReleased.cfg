CONSTANTS
  RingSize = 3
  MaxChain = 1
  MaxFrames = 3
SPECIFICATION FairSpec
INVARIANTS HeldWhileInFlight
CHECK_DEADLOCK FALSE
