CONSTANTS
  None = None
  Uuids = {u1}
  Docs = {d1, d2}
  Refs = {r1, r2, r3, r4}
  Sigs = {s1}
  Requests = {q1, q2, q3, q4}
SPECIFICATION Spec
SYMMETRY Symmetry
CHECK_DEADLOCK FALSE
INVARIANTS
  SignedIsPrevious
