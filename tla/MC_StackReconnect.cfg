CONSTANTS
  s1 = s1
  s2 = s2
  s3 = s3
  NoSock = NoSock
  Sock <- MC_Sock
  MaxConn = 2
  MaxBacklog = 1
  MaxBatch = 2
  Addr <- MC_Addr
  LogicalAddress = 4096
  TesterMin = 3584
  TesterMax = 4095
  CycleMs = 10
  InitialMs = 25
  GeneralMs = 30
  AnnounceMs = 20
  AnnounceCount = 0
  IdByte <- MC_IdByte
  Vin <- MC_Vin
  Eid <- MC_Eid
  Datagrams <- MC_NoDatagrams
SPECIFICATION Spec
INVARIANT ReconnectedTesterAnswered
