SPECIFICATION FairSpec
CONSTANTS
  k1 = k1
  k2 = k2
  Conn = {k1, k2}
  NoConn = NoConn
  NoFile = NoFile
  MaxSample = 1
  Config = {1, 2}
  LocalConfig = 0
  UnsetConfig = 99
  KeyKnown = TRUE
  Platforms = {"absent", "up"}
  Refused = {}
  MaxFaults = 1
  MaxBusy = 0
  MaxCrashes = 1
  MaxStops = 1
  MaxIncidents = 2
CHECK_DEADLOCK FALSE
INVARIANTS
  NeverUnset
  OneSocket
PROPERTIES
  SavedSamplesStored
  ConfigConverges
