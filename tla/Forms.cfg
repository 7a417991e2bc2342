CONSTANTS
  NoDoc = NoDoc
  NoUser = NoUser
  NoRow = NoRow
  Pages = {p1, p2}
  Users = {u1, u2}
  Docs = {d1, d2, d3}
  MaxSubmissions = 2
  MaxFaults = 1
SYMMETRY Symmetry
SPECIFICATION FormsSpec
CHECK_DEADLOCK FALSE
INVARIANTS
  FormsTypeOK
  ConfirmedIsReal
  
  DraftsBounded
  SubmissionIsRecorded
