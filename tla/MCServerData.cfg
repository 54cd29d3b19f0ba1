SPECIFICATION Spec
CONSTANTS
  c1 = c1
  c2 = c2
  a1 = a1
  a2 = a2
  Conn = {c1, c2}
  NoConn = NoConn
  Fd <- MCFd
  Agent = {a1, a2}
  NoAgent = NoAgent
  KnownAgents = {a1, a2}
  Packets <- DataPackets
  Time <- MCTime
  Intervals = {1}
  AgentMin = 2
  AgentMax = 3
  DefaultInterval = 1
  FeedMin = 1
  FeedMax = 2
  PingTime = 1
  PacketTimeout = 1
  OldFlush = 1
  DataFresh = 0
  MaxBatch = 1
  MaxOld = 1
  Rekey = FALSE
  ReadsFail = TRUE
INVARIANTS
  RecordsAttributed
SYMMETRY SymmetryData
