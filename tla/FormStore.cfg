CONSTANTS
  None = None
  Forms = {f}
  Texts = {x1, x2}
  LongTexts = {x2}
  Carried <- OneCarried
  Requests = {r1, r2}
  MaxVersion = 2
  MaxDraft = 2
  NoItem = NoItem
  Instances = {i1, i2}
  Attachments = {a}
  Contents = {y1, y2}
  Calls = {c1, c2}
  Unfreezes = TRUE
  MaxWrites = 5
SPECIFICATION StoreSpec
SYMMETRY Symmetry
CHECK_DEADLOCK FALSE
INVARIANTS
  StoreTypeOK
  NothingBehindCurrent
  DerivedFromLatest
  AnsweredIsStored
PROPERTIES
  FrozenStays
  CopyFreezesOrigin
