CONSTANTS
  Mss = 2
  SndBuf = 4
  MaxRtx = 2
  Wnds = {0, 1, 4}
  Sizes = {1, 4}
  MaxMsgs = 2
SPECIFICATION Spec
INVARIANT StreamIntact
CHECK_DEADLOCK FALSE
