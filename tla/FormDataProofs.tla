---------------------------- MODULE FormDataProofs ----------------------------
(***************************************************************************)
(* Form data keep their types, what is read-only keeps its text, and a     *)
(* copy freezes its origin, for any number of instances, attachments,      *)
(* contents and calls. At the end this is joined with what is proved of    *)
(* the definitions to what the run on the forms database asks.             *)
(***************************************************************************)
EXTENDS MCFormStore, FormVersionsProofs, TLAPS

\* A row that a call has read is an earlier state of the item, or the item
\* as it is: the version tells which.
RowsKnown(q) ==
  \A p \in DOMAIN q.rows : q.rows[p] # NoItem =>
    /\ item[p] # NoItem
    /\ q.rows[p].ver <= item[p].ver
    /\ q.rows[p].ver = item[p].ver => q.rows[p] = item[p]

\* What the first step of each operation has found and refused.
CallKnown(q) ==
  /\ q.op = "write" => /\ q.text \in Contents /\ q.copy = NoItem
                       /\ \A p \in DOMAIN q.rows : q.rows[p] # NoItem => ~ReadOnly(q.rows[p])
  /\ q.op \in {"freeze", "duplicate"} => \A p \in DOMAIN q.rows : q.rows[p] # NoItem
  /\ q.op = "duplicate" => \E s, t \in Parts : s # t /\ DOMAIN q.rows = {s} /\ q.copy = t
  /\ q.op # "duplicate" => q.copy = NoItem
  /\ q.at # "idle" => q.op # "none"

DataInv == /\ DataTypeOK
           /\ \A c \in Calls : RowsKnown(call[c]) /\ CallKnown(call[c])

-----------------------------------------------------------------------------
LEMMA NoCallIsSound ==
  IsCall(NoCall) /\ RowsKnown(NoCall) /\ CallKnown(NoCall)
<1>1. [p \in {} |-> NoItem] \in [{} -> InstanceRows \union {NoItem}]
  OBVIOUS
<1>2. {} \in SUBSET Parts
  OBVIOUS
<1>3. NoCall \in CallRows({})
  BY <1>1 DEF NoCall, CallRows
<1>4. IsCall(NoCall)
  BY <1>2, <1>3 DEF IsCall
<1>5. RowsKnown(NoCall) /\ CallKnown(NoCall)
  BY DEF NoCall, RowsKnown, CallKnown
<1> QED
  BY <1>4, <1>5

LEMMA InitDataInv == DataInit => DataInv
<1> SUFFICES ASSUME DataInit PROVE DataInv
  OBVIOUS
<1>1. DataTypeOK
  BY NoCallIsSound DEF DataInit, DataTypeOK
<1>2. \A c \in Calls : RowsKnown(call[c]) /\ CallKnown(call[c])
  BY DEF DataInit, NoCall, RowsKnown, CallKnown
<1> QED
  BY <1>1, <1>2 DEF DataInv, DataInit

\* A step that changes one call and no item.
LEMMA OneCallChanges ==
  ASSUME DataInv, NEW c \in Calls, NEW q, IsCall(q),
         call' = [call EXCEPT ![c] = q], UNCHANGED item, RowsKnown(q), CallKnown(q)
  PROVE  DataInv'
<1>1. \A d \in Calls : call'[d] = IF d = c THEN q ELSE call[d]
  BY DEF DataInv, DataTypeOK
<1>2. DataTypeOK'
  BY DEF DataInv, DataTypeOK
<1>3. \A d \in Calls : (RowsKnown(call[d]) /\ CallKnown(call[d]))'
  BY <1>1 DEF DataInv, RowsKnown, CallKnown
<1> QED
  BY <1>2, <1>3 DEF DataInv

\* What a call is about when it starts: a write found nothing read-only, the others
\* found their items, and a copy has one source and another target.
WellBegun(op, ps, x, copy) ==
  /\ op = "write" => x \in Contents /\ \A p \in ps : item[p] # NoItem => ~ReadOnly(item[p])
  /\ op # "write" => \A p \in ps : item[p] # NoItem
  /\ op = "duplicate" => \E s, t \in Parts : s # t /\ ps = {s} /\ copy = t
  /\ op # "duplicate" => copy = NoItem

LEMMA StartKeeps ==
  ASSUME DataInv, NEW c \in Calls, NEW op \in {"write", "freeze", "duplicate"},
         NEW ps \in SUBSET Parts, NEW x \in Contents \union {NoItem},
         NEW flag \in {"true", "false"}, NEW copy \in Parts \union {NoItem},
         Starts(c, op, ps, x, flag, copy), WellBegun(op, ps, x, copy)
  PROVE  DataInv'
<1> DEFINE rows == [p \in ps |-> item[p]]
           q == [op |-> op, at |-> "read", rows |-> rows, text |-> x, flag |-> flag, copy |-> copy]
<1>1. call' = [call EXCEPT ![c] = q] /\ UNCHANGED item
  BY DEF Starts
<1>2. /\ q.op = op /\ q.at = "read" /\ q.rows = rows /\ q.text = x
      /\ q.flag = flag /\ q.copy = copy
  OBVIOUS
<1>3. \A p \in ps : rows[p] = item[p] /\ item[p] \in InstanceRows \union {NoItem}
  BY DEF DataInv, DataTypeOK
<1>4. DOMAIN rows = ps
  OBVIOUS
<1>7. rows \in [ps -> InstanceRows \union {NoItem}]
  BY DEF DataInv, DataTypeOK
<1>9. IsCall(q)
  <2> HIDE DEF rows
  <2> QED
    BY <1>7 DEF IsCall, CallRows
<1> HIDE DEF q, rows
<1>5. RowsKnown(q)
  BY <1>2, <1>3, <1>4 DEF RowsKnown, InstanceRows, WellBegun
<1>6. CallKnown(q)
  BY <1>2, <1>3, <1>4 DEF CallKnown, WellBegun
<1> QED
  BY <1>1, <1>5, <1>6, <1>9, OneCallChanges

LEMMA BeginsKeeps ==
  ASSUME DataInv, NEW c \in Calls, Begins(c)
  PROVE  DataInv'
<1>1. ASSUME NEW p \in Parts, NEW x \in Contents, WriteReads(c, p, x) PROVE DataInv'
  <2>1. WellBegun("write", {p}, x, NoItem) /\ Starts(c, "write", {p}, x, "true", NoItem)
    BY <1>1 DEF WriteReads, WellBegun
  <2> QED
    BY <2>1, StartKeeps
<1>2. ASSUME NEW u \in Instances, NEW flag \in Flags, SetReadOnlyReads(c, u, flag) PROVE DataInv'
  <2>1. Stored(u) \subseteq Parts /\ \A p \in Stored(u) : item[p] # NoItem
    BY DEF Stored, PartsOf
  <2>2. flag \in {"true", "false"}
    BY DEF Flags
  <2>3. WellBegun("freeze", Stored(u), NoItem, NoItem)
    BY <2>1 DEF WellBegun
  <2>4. Starts(c, "freeze", Stored(u), NoItem, flag, NoItem)
    BY <1>2 DEF SetReadOnlyReads
  <2> QED
    BY <2>1, <2>2, <2>3, <2>4, StartKeeps
<1>3. ASSUME NEW u \in Instances, NEW v \in Instances, u # v, NEW flag \in Flags,
             DuplicateReads(c, u, v, flag)
      PROVE DataInv'
  <2>1. /\ <<u, Xml>> \in Parts /\ <<v, Xml>> \in Parts /\ <<u, Xml>> # <<v, Xml>>
        /\ flag \in {"true", "false"}
    BY <1>3 DEF Parts, Flags
  <2>2. PICK ps \in SUBSET Parts, x \in Contents \union {NoItem}, copy \in Parts \union {NoItem} :
           ps = {<<u, Xml>>} /\ x = NoItem /\ copy = <<v, Xml>>
    BY <2>1
  <2>3. Starts(c, "duplicate", ps, x, flag, copy) /\ \A p \in ps : item[p] # NoItem
    BY <1>3, <2>2 DEF DuplicateReads
  <2>4. WellBegun("duplicate", ps, x, copy)
    BY <2>1, <2>2, <2>3 DEF WellBegun
  <2> QED
    BY <2>1, <2>3, <2>4, StartKeeps
<1> QED
  BY <1>1, <1>2, <1>3 DEF Begins

LEMMA ChecksPathKeeps ==
  ASSUME DataInv, NEW c \in Calls, ChecksPath(c)
  PROVE  DataInv'
<1> DEFINE q == call[c]
           v == [q EXCEPT !.at = "valid"]
<1>1. CASE call' = [call EXCEPT ![c] = NoCall] /\ UNCHANGED item
  BY <1>1, NoCallIsSound, OneCallChanges
<1>2. CASE call' = [call EXCEPT ![c] = v] /\ UNCHANGED item
  <2>1. IsCall(q) /\ q.at = "read" /\ RowsKnown(q) /\ CallKnown(q)
    BY DEF DataInv, DataTypeOK, ChecksPath
  <2>2. /\ IsCall(v) /\ v.op = q.op /\ v.at = "valid" /\ v.rows = q.rows
        /\ v.text = q.text /\ v.flag = q.flag /\ v.copy = q.copy
    BY <2>1 DEF IsCall, CallRows
  <2> HIDE DEF v
  <2>3. RowsKnown(v) /\ CallKnown(v)
    BY <2>1, <2>2 DEF RowsKnown, CallKnown
  <2> QED
    BY <1>2, <2>2, <2>3, OneCallChanges
<1> QED
  BY <1>1, <1>2 DEF ChecksPath

LEMMA FlushIsRefusedKeeps ==
  ASSUME DataInv, NEW c \in Calls, FlushIsRefused(c)
  PROVE  DataInv'
BY NoCallIsSound, OneCallChanges DEF FlushIsRefused

\* What a flush makes of each item: nothing, the next version of the row that
\* is stored, or a new one where there was none.
LEMMA FlushEffect ==
  ASSUME DataInv, NEW c \in Calls, Flushes(c), NEW p \in Parts
  PROVE  LET q == call[c] IN
         /\ item'[p] \in InstanceRows \union {NoItem}
         /\ item[p] # NoItem =>
              \/ item'[p] = item[p]
              \/ /\ p \in Dirty(q) /\ q.rows[p] = item[p]
                 /\ item'[p] = [Changed(q, p) EXCEPT !.ver = item[p].ver + 1]
                 /\ item'[p] # NoItem /\ item'[p].ver = item[p].ver + 1
<1> DEFINE q == call[c]
           s == CHOOSE s \in DOMAIN q.rows : TRUE
<1>1. IsCall(q) /\ RowsKnown(q) /\ CallKnown(q) /\ item[p] \in InstanceRows \union {NoItem}
  BY DEF DataInv, DataTypeOK
<1>2. item'[p] = IF p \in Dirty(q)
                 THEN IF q.rows[p] = NoItem THEN Changed(q, p)
                      ELSE [Changed(q, p) EXCEPT !.ver = q.rows[p].ver + 1]
                 ELSE IF p = q.copy THEN New(q.rows[s].text, s) ELSE item[p]
  BY DEF Flushes
<1>3. q.at = "valid" /\ ~Outdated(q)
  BY DEF Flushes
<1>4. PICK ps \in SUBSET Parts : q.rows \in [ps -> InstanceRows \union {NoItem}]
  BY <1>1 DEF IsCall, CallRows
<1>5. CASE p \in Dirty(q)
  <2>1. p \in DOMAIN q.rows /\ q.rows[p] \in InstanceRows \union {NoItem}
    BY <1>4, <1>5 DEF Dirty
  <2>2. CASE q.rows[p] = NoItem
    <3>1. item[p] = NoItem
      BY <1>3, <1>5, <2>2 DEF Outdated
    <3>2. q.op = "write"
      <4>1. q.op \in {"write", "freeze", "duplicate"}
        BY <1>1, <1>3 DEF CallKnown, IsCall, CallRows
      <4> QED
        BY <1>1, <2>1, <2>2, <4>1 DEF CallKnown
    <3>3. Changed(q, p) = New(q.text, NoItem) /\ q.text \in Contents
      BY <1>1, <2>2, <3>2 DEF Changed, CallKnown
    <3>4. item'[p] \in InstanceRows
      BY <1>2, <1>5, <2>2, <3>3 DEF New, InstanceRows
    <3> QED
      BY <3>1, <3>4
  <2>3. CASE q.rows[p] # NoItem
    <3>1. item[p] # NoItem /\ item[p].ver = q.rows[p].ver
      BY <1>1, <1>3, <1>5, <2>1, <2>3 DEF Outdated, RowsKnown
    <3>2. q.rows[p] = item[p]
      BY <1>1, <2>1, <2>3, <3>1 DEF RowsKnown
    <3>3. Changed(q, p) \in InstanceRows
      <4>1. q.rows[p] \in InstanceRows /\ q.flag \in {"true", "false"}
        BY <1>1, <2>1, <2>3 DEF IsCall, CallRows
      <4>2. CASE q.op = "write"
        <5>1. Changed(q, p) = [q.rows[p] EXCEPT !.text = q.text]
          BY <2>3, <4>2 DEF Changed
        <5> QED
          BY <1>1, <4>1, <4>2, <5>1 DEF CallKnown, InstanceRows
      <4>3. CASE q.op # "write"
        <5>1. Changed(q, p) = [q.rows[p] EXCEPT !.readOnly = q.flag]
          BY <4>3 DEF Changed
        <5> QED
          BY <4>1, <5>1 DEF InstanceRows
      <4> QED
        BY <4>2, <4>3
    <3>4. item'[p] = [Changed(q, p) EXCEPT !.ver = item[p].ver + 1]
      BY <1>2, <1>5, <2>3, <3>2
    <3>5. item[p].ver \in Nat
      BY <1>1, <3>1 DEF InstanceRows
    <3>6. item'[p] \in InstanceRows /\ item'[p].ver = item[p].ver + 1
      BY <3>3, <3>4, <3>5 DEF InstanceRows
    <3>7. item'[p] # NoItem
      BY <3>6, DataAssumptions
    <3> QED
      BY <1>5, <3>2, <3>4, <3>6, <3>7
  <2> QED
    BY <2>2, <2>3
<1>6. CASE p \notin Dirty(q) /\ p = q.copy
  <2>1. q.copy # NoItem
    BY <1>6, DataAssumptions
  <2>2. item[p] = NoItem
    BY <1>3, <1>6, <2>1 DEF Outdated
  <2>3. q.op = "duplicate"
    BY <1>1, <2>1 DEF CallKnown
  <2>4. PICK r \in Parts : DOMAIN q.rows = {r}
    BY <1>1, <2>3 DEF CallKnown
  <2>5. s = r /\ q.rows[r] # NoItem
    BY <1>1, <2>3, <2>4 DEF CallKnown
  <2>6. q.rows[r] \in InstanceRows
    BY <1>4, <2>4, <2>5
  <2>7. item'[p] \in InstanceRows
    BY <1>2, <1>6, <2>4, <2>5, <2>6 DEF New, InstanceRows
  <2> QED
    BY <2>2, <2>7
<1>7. CASE p \notin Dirty(q) /\ p # q.copy
  BY <1>1, <1>2, <1>7
<1> QED
  BY <1>5, <1>6, <1>7

LEMMA FlushKeeps ==
  ASSUME DataInv, NEW c \in Calls, Flushes(c)
  PROVE  DataInv'
<1>1. call' = [call EXCEPT ![c] = NoCall]
  BY DEF Flushes
<1>2. item' \in [Parts -> InstanceRows \union {NoItem}]
  <2>1. \A p \in Parts : item'[p] \in InstanceRows \union {NoItem}
    BY FlushEffect
  <2>2. item' = [p \in Parts |-> item'[p]]
    BY DEF Flushes
  <2> QED
    BY <2>1, <2>2
<1>3. DataTypeOK'
  BY <1>1, <1>2, NoCallIsSound DEF DataInv, DataTypeOK
<1>4. ASSUME NEW d \in Calls PROVE (RowsKnown(call[d]) /\ CallKnown(call[d]))'
  <2>1. CASE d = c
    <3>1. call'[d] = NoCall
      BY <1>1, <2>1 DEF DataInv, DataTypeOK
    <3> QED
      BY <3>1 DEF NoCall, RowsKnown, CallKnown
  <2>2. CASE d # c
    <3>1. call'[d] = call[d] /\ IsCall(call[d]) /\ RowsKnown(call[d]) /\ CallKnown(call[d])
      BY <1>1, <2>2 DEF DataInv, DataTypeOK
    <3>2. CallKnown(call[d])'
      BY <3>1 DEF CallKnown
    <3>3. ASSUME NEW p \in DOMAIN call[d].rows, call[d].rows[p] # NoItem
          PROVE  /\ item'[p] # NoItem
                 /\ call[d].rows[p].ver <= item'[p].ver
                 /\ call[d].rows[p].ver = item'[p].ver => call[d].rows[p] = item'[p]
      <4>1. PICK ps \in SUBSET Parts : call[d].rows \in [ps -> InstanceRows \union {NoItem}]
        BY <3>1 DEF IsCall, CallRows
      <4>2. p \in Parts /\ call[d].rows[p] \in InstanceRows
        BY <3>3, <4>1
      <4>3. /\ item[p] # NoItem /\ call[d].rows[p].ver <= item[p].ver
            /\ call[d].rows[p].ver = item[p].ver => call[d].rows[p] = item[p]
        BY <3>1, <3>3 DEF RowsKnown
      <4>4. call[d].rows[p].ver \in Nat /\ item[p].ver \in Nat
        BY <4>2, <4>3 DEF InstanceRows, DataInv, DataTypeOK
      <4>5. \/ item'[p] = item[p]
            \/ item'[p] # NoItem /\ item'[p].ver = item[p].ver + 1
        BY <4>2, <4>3, FlushEffect
      <4> QED
        BY <4>3, <4>4, <4>5
    <3>4. RowsKnown(call[d])'
      BY <3>1, <3>3 DEF RowsKnown
    <3> QED
      BY <3>2, <3>4
  <2> QED
    BY <2>1, <2>2
<1> QED
  BY <1>3, <1>4 DEF DataInv

LEMMA StepKeepsDataInv == DataInv /\ [DataNext]_dataVars => DataInv'
<1> SUFFICES ASSUME DataInv, [DataNext]_dataVars PROVE DataInv'
  OBVIOUS
<1>1. ASSUME NEW c \in Calls, DataStep(c) PROVE DataInv'
  BY <1>1, BeginsKeeps, ChecksPathKeeps, FlushIsRefusedKeeps, FlushKeeps DEF DataStep
<1>2. CASE UNCHANGED dataVars
  BY <1>2 DEF dataVars, DataInv, DataTypeOK, RowsKnown, CallKnown
<1> QED
  BY <1>1, <1>2 DEF DataNext

-----------------------------------------------------------------------------
(* The results.                                                            *)

THEOREM DataInvariance == DataSpec => []DataInv
<1> QED
  BY InitDataInv, StepKeepsDataInv, PTL DEF DataSpec

\* Only a flush changes an item.
LEMMA OnlyFlushesWrite ==
  ASSUME DataNext, item' # item
  PROVE  \E c \in Calls : Flushes(c)
BY DEF DataNext, DataStep, Begins, WriteReads, SetReadOnlyReads, DuplicateReads, Starts,
       ChecksPath, FlushIsRefused

\* What is read-only keeps its text, and stays.
THEOREM FrozenTextStays == DataSpec => FrozenStays
<1>1. ASSUME DataInv, [DataNext]_dataVars
      PROVE  [\A p \in Parts : item[p] # NoItem /\ ReadOnly(item[p]) =>
                item'[p] # NoItem /\ item'[p].text = item[p].text]_dataVars
  <2>1. CASE item' = item
    BY <2>1
  <2>2. CASE item' # item
    <3>1. PICK c \in Calls : Flushes(c)
      BY <1>1, <2>2, OnlyFlushesWrite DEF dataVars
    <3> SUFFICES ASSUME NEW p \in Parts, item[p] # NoItem, ReadOnly(item[p]),
                        item'[p] # item[p]
                 PROVE  item'[p] # NoItem /\ item'[p].text = item[p].text
      BY Zenon
    <3> DEFINE q == call[c]
    <3>2. /\ p \in Dirty(q) /\ q.rows[p] = item[p] /\ item'[p] # NoItem
          /\ item'[p] = [Changed(q, p) EXCEPT !.ver = item[p].ver + 1]
      BY <1>1, <3>1, FlushEffect
    <3>3. q.op # "write"
      BY <1>1, <3>2 DEF DataInv, CallKnown, Dirty
    <3>4. Changed(q, p) = [item[p] EXCEPT !.readOnly = q.flag]
      BY <3>2, <3>3 DEF Changed
    <3>5. item[p] \in InstanceRows
      BY <1>1 DEF DataInv, DataTypeOK
    <3> QED
      BY <3>2, <3>4, <3>5 DEF InstanceRows
  <2> QED
    BY <2>1, <2>2
<1> QED
  BY <1>1, DataInvariance, PTL DEF DataSpec, FrozenStays

\* Instances, items and calls keep their types.
THEOREM DataKeepTypes == DataSpec => []DataTypeOK
<1>1. DataInv => DataTypeOK
  BY DEF DataInv
<1> QED
  BY <1>1, DataInvariance, PTL

\* A copy freezes its origin: the flush writes both or neither, and it writes
\* the origin as the request has read it.
LEMMA FlushOfDuplicate ==
  ASSUME DataInv, NEW c \in Calls, Flushes(c),
         call[c].op = "duplicate", call[c].flag = "true",
         NEW s \in DOMAIN call[c].rows, ~ReadOnly(call[c].rows[s])
  PROVE  /\ ReadOnly(item'[s])
         /\ item'[s].text = item'[call[c].copy].text
<1> DEFINE q == call[c]
<1>1. IsCall(q) /\ RowsKnown(q) /\ CallKnown(q)
  BY DEF DataInv, DataTypeOK
<1>2. PICK o \in Parts, t \in Parts : o # t /\ DOMAIN q.rows = {o} /\ q.copy = t
  BY <1>1 DEF CallKnown
<1>3. s = o
  BY <1>2
<1>4. PICK ps \in SUBSET Parts : q.rows \in [ps -> InstanceRows \union {NoItem}]
  BY <1>1 DEF IsCall, CallRows
<1>5. q.rows[s] \in InstanceRows
  BY <1>1, <1>2, <1>3, <1>4 DEF CallKnown
<1>6. Changed(q, s) = [q.rows[s] EXCEPT !.readOnly = "true"]
  BY DEF Changed
<1>7. Changed(q, s) # q.rows[s]
  BY <1>5, <1>6 DEF InstanceRows, ReadOnly
<1>8. s \in Dirty(q) /\ t \notin Dirty(q)
  BY <1>2, <1>3, <1>7 DEF Dirty
<1>9. q.rows[s] # NoItem
  BY <1>5, DataAssumptions
<1>10. item'[s] = [Changed(q, s) EXCEPT !.ver = q.rows[s].ver + 1]
  BY <1>2, <1>3, <1>8, <1>9 DEF Flushes
<1>11. (CHOOSE d \in DOMAIN q.rows : TRUE) = s
  BY <1>2, <1>3
<1>12. item'[t] = New(q.rows[s].text, s)
  BY <1>2, <1>8, <1>11 DEF Flushes
<1>13. item'[t].text = q.rows[s].text
  BY <1>12 DEF New
<1>14. item'[s].readOnly = "true" /\ item'[s].text = q.rows[s].text
  BY <1>5, <1>6, <1>10 DEF InstanceRows
<1> QED
  BY <1>2, <1>13, <1>14 DEF ReadOnly

\* Making a copy freezes what is copied.
THEOREM CopyFreezes == DataSpec => CopyFreezesOrigin
<1>1. ASSUME DataInv, [DataNext]_dataVars
      PROVE  [\A c \in Calls : Flushes(c) /\ call[c].op = "duplicate" /\ call[c].flag = "true" =>
                \A s \in DOMAIN call[c].rows : ~ReadOnly(call[c].rows[s]) =>
                  /\ ReadOnly(item'[s])
                  /\ item'[s].text = item'[call[c].copy].text]_dataVars
  BY <1>1, FlushOfDuplicate
<1> QED
  BY <1>1, DataInvariance, PTL DEF DataSpec, CopyFreezesOrigin

-----------------------------------------------------------------------------
(* The two halves of the forms database in one specification.              *)

\* Whichever half a run explores, its steps are steps of that half, and none of the
\* other one: what is proved of each half holds of the runs that explore both.
THEOREM StoreIsBothHalves == StoreSpec => FormSpec /\ DataSpec
<1>1. StoreInit => FormInit /\ DataInit
  BY DEF StoreInit
<1>2. [StoreNext]_<<formVars, dataVars, half>> => [FormNext]_formVars /\ [DataNext]_dataVars
  BY DEF StoreNext
<1> QED
  BY <1>1, <1>2, PTL DEF StoreSpec, FormSpec, DataSpec

\* The rows of the forms database and the requests and calls on them keep their
\* types, whichever half works.
THEOREM StoreKeepsTypes == StoreSpec => []StoreTypeOK
<1>1. VersionsTypeOK /\ DataTypeOK => StoreTypeOK
  BY DEF StoreTypeOK
<1> QED
  BY <1>1, StoreIsBothHalves, VersionsKeepTypes, DataKeepTypes, PTL

\* All that the run on the forms database asks, definitions and data: no editor's
\* draft is lost, and what is read-only keeps its text.
THEOREM StoreKeepsPromises ==
  StoreSpec => /\ [](NothingBehindCurrent /\ DerivedFromLatest /\ AnsweredIsStored)
               /\ FrozenStays /\ CopyFreezesOrigin
BY StoreIsBothHalves, NothingEndsBehind, DerivedFollowsLatest, AnsweredStaysStored,
   FrozenTextStays, CopyFreezes, PTL
=============================================================================
