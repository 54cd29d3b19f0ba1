SPECIFICATION FairSpec
CONSTANTS
  c1 = c1
  c2 = c2
  a1 = a1
  a2 = a2
  Conn = {c1}
  NoConn = NoConn
  Fd <- MCFd
  Agent = {a1}
  NoAgent = NoAgent
  KnownAgents = {a1}
  Packets <- LivePackets
  Time <- MCTime
  Intervals = {1}
  AgentMin = 2
  AgentMax = 3
  DefaultInterval = 1
  FeedMin = 1
  FeedMax = 2
  PingTime = 2
  PacketTimeout = 1
  OldFlush = 0
  DataFresh = 1
  MaxBatch = 2
  MaxOld = 0
  Rekey = TRUE
  ReadsFail = FALSE
INVARIANTS
  StrangersSeeNothing
PROPERTIES
  SilentPeerReaped
  StalledPacketReaped
  SilentAgentLeavesFeed
