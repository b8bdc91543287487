CONSTANTS
  Lines <- MCLines
  MaxFileLines = 3
  LineLimits = {1, 2}
  Offsets = {0, 1, 2, 3}
  ByteLimits = {0, 1, 2, 5, 100}
  MaxOutputRead = 7
  MaxReadBytes = 10
  PrefixBytes = 1
  EllipsisBytes = 2
SPECIFICATION ReadSpec
INVARIANTS
  ReadTypeOK
  NothingSkipped
  CompleteIsComplete
  RunesWhole
  CursorAdvances
CHECK_DEADLOCK FALSE
