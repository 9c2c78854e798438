CONSTANTS
  Hdr = 2
  BufSize = 7
  MaxPayload = 7
  SizeMod = 64
  MaxMsgs = 2
  Lens <- MC_Large
SPECIFICATION Spec
INVARIANT CloseOnlyAfterPeer
CHECK_DEADLOCK FALSE
