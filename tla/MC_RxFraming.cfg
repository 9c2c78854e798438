CONSTANTS
  Hdr = 2
  BufSize = 7
  MaxPayload = 7
  SizeMod = 64
  MaxMsgs = 3
  Lens <- MC_Fitting
SPECIFICATION FairSpec
PROPERTIES ImplementsChannel AllDelivered ParseEnds
CHECK_DEADLOCK FALSE
