SPECIFICATION FairSpec
CONSTANTS
  Server = {h1, h2}
  NoHost = NoHost
  MaxSock = 2
  MaxCalls = 5
  MaxQueue = 1
CHECK_DEADLOCK FALSE
INVARIANTS
  TypeOK
  PingGranted
  ClosedAtEnd
PROPERTIES
  LossNoticed
  Settles
