CONSTANTS
  None = None
  u1 = u1
  d1 = d1
  d2 = d2
  r1 = r1
  r2 = r2
  Uuids = {u1}
  Docs = {d1}
  Refs = {r1, r3, r4}
  Txs = {t1}
  Sigs = {t1, s1}
  Requests = {q1}
  Collectors = {c1, c2}
  Posters = {p1, p2}
  First <- OneFirst
  FormOf <- OneForm
SPECIFICATION SigFairSpec
CHECK_DEADLOCK FALSE
PROPERTIES
  ResumedOnlyLate
  StoreOnlyGrows
  PollingEnds
