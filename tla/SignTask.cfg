CONSTANTS
  None = None
  Signer = s
  Tasks = {t1, t2}
  Visits = {v1, v2}
  Orders = {o1, o2}
  Refs = {r1, r2}
  Others = {x}
  Late = TRUE
  MaxBreaks = 0
  Abandons = TRUE
SPECIFICATION SignTaskSpec
SYMMETRY Symmetry
CHECK_DEADLOCK FALSE
INVARIANTS
  SignTypeOK
  CompletedBySignature
PROPERTIES
  FreedByFailure
