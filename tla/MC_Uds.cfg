CONSTANTS
  ZeroSeed = seed0
  FixedSeed = seed1
  keyOfZero = key0
  keyOfFixed = key1
  keyOther = key2
  Seed <- MC_Seed
  Key <- MC_Key
  ExpectedKey <- MC_ExpectedKey
  Sid <- MC_Sid
  Byte0 <- MC_Byte0
  Byte1 <- MC_Byte1
  UserLen <- MC_UserLen
  LenMod = 65536
  RespMax = 256
  MaxWrong = 3
SPECIFICATION Spec
INVARIANTS ServedWasSent AttemptsExact
