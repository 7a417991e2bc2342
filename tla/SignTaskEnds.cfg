CONSTANTS
  None = None
  Signer = s
  Tasks = {t1, t2}
  Visits = {v1}
  Orders = {o1, o2}
  Refs = {r1, r2}
  Others = {x}
  Late = FALSE
  MaxBreaks = 1
  Abandons = FALSE
SPECIFICATION SignTaskFairSpec
CHECK_DEADLOCK FALSE
PROPERTIES
  OrderEndsWait
