CONSTANTS
  Mss = 2
  SndBuf = 3
  MaxRtx = 2
  Wnds = {0, 1, 4}
  Sizes = {3}
  MaxMsgs = 2
SPECIFICATION Spec
INVARIANT NeverHalted
CHECK_DEADLOCK FALSE
