CONSTANTS
  Mss = 2
  SndBuf = 3
  MaxRtx = 2
  Wnds = {0, 1, 2}
  Sizes = {2, 3}
  MaxMsgs = 2
SPECIFICATION FairSpec
INVARIANTS StreamExact Retained TimerRuns ReaderAligned
PROPERTIES GivesUp
CHECK_DEADLOCK FALSE
