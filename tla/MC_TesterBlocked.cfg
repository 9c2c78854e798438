CONSTANTS
  v1 = v1
  v2 = v2
  s1 = s1
  s2 = s2
  NoVehicle = NoVehicle
  NoSock = NoSock
  Vehicle <- MC_OneVehicle
  Sock <- MC_OneSock
  MaxUdp = 1
  ResponseTimeout = 25
  CycleMs = 10
  MaxWire = 2
  MaxCalls = 3
SPECIFICATION Spec
PROPERTIES WaitEnds
