CONSTANTS
  NoRow = NoRow
  Requests = {r1, r2}
  MaxVersion = 2
  MaxBreaks = 1
SPECIFICATION ProcFairSpec
CHECK_DEADLOCK FALSE
INVARIANTS
  ProcTypeOK
PROPERTIES
  NoLostUpdate
  BackInLine
