CONSTANTS
  None = None
  u1 = u1
  d1 = d1
  d2 = d2
  r1 = r1
  r2 = r2
  Uuids = {u1}
  Docs = {d1, d2}
  Refs = {r1, r2, r3, r4}
  Txs = {t1, t2}
  Sigs = {t1, t2}
  Requests = {}
  Collectors = {c1}
  Posters = {p1, p2}
  First <- TwoFirst
  FormOf <- TwoForms
SPECIFICATION SigSpec
SYMMETRY Symmetry
CHECK_DEADLOCK FALSE
INVARIANTS
  SigTypeOK
  AddedOnce
  SuccessIsReal
PROPERTIES
  OutcomeStands
  OrdersAreKept
