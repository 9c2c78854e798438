CONSTANTS
  RxBd = 2
  InpktMsgs = 2
  ApiMsgs = 1
  MboxSize = 3
  Fin = 4
  TcpWnd = 3
  RecvMbox = 3
SPECIFICATION FairSpec
INVARIANTS NoMessageLost ReadInOrder PoolAccounted NeverWaitsForReader WindowAccounted
PROPERTIES RingEmptied ReceptionRecovers FinDelivered
