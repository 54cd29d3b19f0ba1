SPECIFICATION Spec
CONSTANTS
  LenMod = 100
  Strings <- MCStrings
  MaxTexts = 4
  OwnServices = 2
  MaxPoints = 49
CHECK_DEADLOCK FALSE
INVARIANTS
  TypeOK
  ReadsRight
  FailsOnlyIfTooLong
  SavedAgainUnchanged
  DelimitersOnly
  RestartKeepsConfig
