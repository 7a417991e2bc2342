CONSTANTS
  p1 = p1
  p2 = p2
  u1 = u1
  u2 = u2
  NoUser = NoUser
  NoPage = NoPage
  NoInfo = NoInfo
  Idle = Idle
  Anonymous = Anonymous
  Users = {u1, u2}
  Pages = {p1}
  UserOf <- OnePage
  Typed = {x1}
  FirstCandidates = {u1}
  Priorities = {1}
  FirstPriority = 50
  Slots = {r1, r2}
  PerPage = 1
  Lossy = TRUE
  Reopens = FALSE
SPECIFICATION FairSpec
CHECK_DEADLOCK FALSE
INVARIANTS
  WorkflowTypeOK
PROPERTIES
  PageIsAnswered
