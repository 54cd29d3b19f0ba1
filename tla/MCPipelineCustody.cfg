SPECIFICATION Spec
CONSTANTS
  k1 = k1
  k2 = k2
  Conn = {k1, k2}
  NoConn = NoConn
  NoFile = NoFile
  MaxSample = 2
  Config = {1}
  LocalConfig = 0
  UnsetConfig = 99
  KeyKnown = TRUE
  Platforms = {"absent", "up"}
  Refused = {2}
  MaxFaults = 2
  MaxBusy = 1
  MaxCrashes = 1
  MaxStops = 1
  MaxIncidents = 3
CHECK_DEADLOCK FALSE
INVARIANTS
  TypeOK
  OneCopy
  Genuine
  DurableUnlessBusy
PROPERTIES
  KeepsCustody
SYMMETRY Symmetry
