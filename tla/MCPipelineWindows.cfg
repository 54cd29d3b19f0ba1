SPECIFICATION FairSpec
CONSTANTS
  k1 = k1
  k2 = k2
  Conn = {k1, k2}
  NoConn = NoConn
  NoFile = NoFile
  MaxSample = 1
  Config = {1}
  LocalConfig = 0
  UnsetConfig = 99
  KeyKnown = TRUE
  Platforms = {"up"}
  Refused = {}
  MaxFaults = 1
  MaxBusy = 0
  MaxCrashes = 0
  MaxStops = 0
  MaxIncidents = 1
PROPERTIES
  SavedSamplesStoredAnyway
