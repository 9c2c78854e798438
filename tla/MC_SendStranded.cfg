CONSTANTS
  Mss = 4
  SndBuf = 4
  MaxRtx = 1
  Wnds = {1, 8}
  Sizes = {4}
  MaxMsgs = 1
SPECIFICATION Spec
PROPERTY SplitFills
CHECK_DEADLOCK FALSE
