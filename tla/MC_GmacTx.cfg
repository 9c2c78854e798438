CONSTANTS
  RingSize = 3
  MaxChain = 2
  MaxFrames = 5
SPECIFICATION FairSpec
INVARIANTS FillsItsOwnRoom FramesLeaveWhole OwnedIsLocked
PROPERTIES SinglesNeverFault SinglesReported
CHECK_DEADLOCK FALSE
