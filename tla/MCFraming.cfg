SPECIFICATION FairSpec
CONSTANTS
  HeaderSize = 2
  BufferSize = 5
  Sizes = {0, 1, 2, 5}
  MaxPackets = 4
CHECK_DEADLOCK FALSE
INVARIANTS
  TypeOK
PROPERTIES
  DeliversPackets
