CONSTANTS
  Hdr = 2
  BufSize = 7
  MaxPayload = 7
  SizeMod = 64
  MaxMsgs = 2
  Lens <- MC_Wrapping
SPECIFICATION FairSpec
PROPERTY ParseEnds
CHECK_DEADLOCK FALSE
