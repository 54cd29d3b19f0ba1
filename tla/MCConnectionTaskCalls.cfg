SPECIFICATION FairSpec
CONSTANTS
  Server = {h1, h2}
  NoHost = NoHost
  MaxSock = 1
  MaxCalls = 2
  MaxQueue = 0
CHECK_DEADLOCK FALSE
PROPERTIES
  LastCallObeyed
