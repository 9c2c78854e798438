CONSTANTS
  Mss = 2
  SndBuf = 2
  MaxRtx = 1
  Wnds = {0, 1}
  Sizes = {2}
  MaxMsgs = 1
SPECIFICATION FairSpec
PROPERTY NeverZombie
CHECK_DEADLOCK FALSE
