CONSTANTS
  v1 = v1
  v2 = v2
  s1 = s1
  s2 = s2
  NoVehicle = NoVehicle
  NoSock = NoSock
  Vehicle <- MC_OneVehicle
  Sock <- MC_Sock
  MaxUdp = 2
  ResponseTimeout = 25
  CycleMs = 10
  MaxWire = 2
  MaxCalls = 4
SPECIFICATION Spec
INVARIANT ReadyMeansAccepted
