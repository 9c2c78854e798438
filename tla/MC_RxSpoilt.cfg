CONSTANTS
  RxBd = 2
  InpktMsgs = 2
  ApiMsgs = 1
  MboxSize = 3
  Fin = 4
  TcpWnd = 3
  RecvMbox = 3
SPECIFICATION Spec
INVARIANT ReadIntact
