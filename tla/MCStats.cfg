SPECIFICATION FairSpec
CONSTANTS
  W = 8
  MaxRecords = 2
  MaxPoints = 4
  Memory = 10
  NoData = NoData
CHECK_DEADLOCK FALSE
INVARIANTS
  TypeOK
  Histogram
  PointsBetween
PROPERTIES
  Answered
