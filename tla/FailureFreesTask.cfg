CONSTANTS
  None = None
  Signer = s
  Tasks = {t1}
  Visits = {v1}
  Orders = {o1, o2}
  Refs = {r1, r2}
  Others = {x}
  Late = FALSE
  MaxBreaks = 0
  Abandons = FALSE
SPECIFICATION SignTaskFairSpec
CHECK_DEADLOCK FALSE
PROPERTIES
  FailureFreesTask
