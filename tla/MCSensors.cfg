SPECIFICATION Spec
CONSTANTS
  Agents = {1, 2, 3}
  OnWin = {2}
  Names = {1, 2}
  KD = {2}
  Devices <- MCDevices
  Drives <- MCDrives
  MaxMounts = 3
  Service <- MCService
INVARIANTS
  TypeOK
  FeedSorted
  ToldAsRead
  DisksReadBack
