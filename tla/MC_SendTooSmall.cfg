CONSTANTS
  Mss = 2
  SndBuf = 3
  MaxRtx = 2
  Wnds = {0, 2}
  Sizes = {2}
  MaxMsgs = 2
SPECIFICATION Spec
INVARIANT NeverHalted
CHECK_DEADLOCK FALSE
