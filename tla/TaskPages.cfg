CONSTANTS
  p1 = p1
  p2 = p2
  u1 = u1
  u2 = u2
  NoUser = NoUser
  NoPage = NoPage
  NoInfo = NoInfo
  Idle = Idle
  Anonymous = Anonymous
  Users = {u1, u2}
  Pages = {p1, p2}
  UserOf <- TwoUsers
  Typed = {}
  FirstCandidates = {}
  Priorities = {}
  FirstPriority = 50
  Slots = {r1, r2}
  PerPage = 2
  Lossy = TRUE
  Reopens = TRUE
SPECIFICATION Spec
CHECK_DEADLOCK FALSE
INVARIANTS
  RecordedAsSubmitted
  MineWasTrue
  PatientPageShowsTruth
PROPERTIES
  NoTakeover
