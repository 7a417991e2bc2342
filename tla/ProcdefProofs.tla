--------------------------- MODULE ProcdefProofs ----------------------------
(* Proofs of the safety properties of Procdef. *)
EXTENDS Procdef, TLAPS

USE ProcdefAssumption, NoRowAssumption

-----------------------------------------------------------------------------
(* Types *)

RequestState ==
  [pc: {"idle", "fetch", "look", "sync", "commit", "again", "remove", "unrow"},
   op: Ops, entity: InActiviti \cup {"none"}, row: Rows \cup {NoRow}, state: States, to: States]

LEMMA TypesAtFirst ==
  ASSUME ProcInit
  PROVE  ProcTypeOK
<1>1. NoRequest \in RequestState
  BY DEF NoRequest, RequestState, Ops, States
<1>2. req \in [Requests -> RequestState]
  BY <1>1 DEF ProcInit
<1>3. act \in InActiviti \cup {"none", "gone"} /\ crd \in Rows \cup {NoRow}
  BY DEF ProcInit
<1>4. running \in BOOLEAN
  BY DEF ProcInit
<1>5. offered \subseteq States /\ breaks \in 0 .. MaxBreaks
  BY DEF ProcInit
<1>. QED
  BY <1>2, <1>3, <1>4, <1>5 DEF ProcTypeOK, RequestState

\* A request comes to another state.
LEMMA RequestGoes ==
  ASSUME ProcTypeOK, NEW r \in Requests, NEW n \in RequestState, req' = [req EXCEPT ![r] = n],
         act' \in InActiviti \cup {"none", "gone"}, crd' \in Rows \cup {NoRow},
         running' \in BOOLEAN, offered' \subseteq States, breaks' \in 0 .. MaxBreaks
  PROVE  ProcTypeOK'
BY DEF ProcTypeOK, RequestState

LEMMA RequestEnds ==
  ASSUME ProcTypeOK, NEW r \in Requests, Ends(r)
  PROVE  \E n \in RequestState : req' = [req EXCEPT ![r] = n]
<1>1. NoRequest \in RequestState
  BY DEF NoRequest, RequestState, Ops, States
<1>. QED
  BY <1>1 DEF Ends

LEMMA RequestStarts ==
  ASSUME NEW r \in Requests, NEW op \in Ops, NEW to \in States, Start(r, op, to)
  PROVE  \E n \in RequestState : req' = [req EXCEPT ![r] = n]
<1>1. PICK n : n = [NoRequest EXCEPT !.pc = "fetch", !.op = op, !.to = to]
  OBVIOUS
<1>2. n \in RequestState
  BY <1>1 DEF NoRequest, RequestState, Ops, States
<1>. QED
  BY <1>1, <1>2 DEF Start

\* What a commit makes of the row.
LEMMA SavedIsRow ==
  ASSUME ProcTypeOK, NEW r \in Requests, MayUpdate(r)
  PROVE  Changed(r) \/ crd # NoRow => Saved(r) \in Rows
<1>1. req[r] \in RequestState /\ crd \in Rows \cup {NoRow}
  BY DEF ProcTypeOK, RequestState
<1>2. CASE req[r].row = NoRow
  <2>1. [state |-> req[r].state, version |-> 0] \in Rows
    BY <1>1 DEF RequestState, Rows
  <2>. QED
    BY <1>2, <2>1 DEF Saved
<1>3. CASE req[r].row # NoRow /\ Changed(r)
  <2>1. req[r].row \in Rows /\ req[r].row.version < MaxVersion
    BY <1>1, <1>3 DEF RequestState, MayUpdate
  <2>2. PICK v \in 0 .. MaxVersion : v = req[r].row.version + 1
    BY <2>1 DEF Rows
  <2>3. [state |-> req[r].state, version |-> v] \in Rows
    BY <1>1 DEF RequestState, Rows
  <2>. QED
    BY <1>3, <2>2, <2>3 DEF Saved
<1>4. CASE req[r].row # NoRow /\ ~ Changed(r)
  BY <1>1, <1>4 DEF Saved
<1>. QED
  BY <1>2, <1>3, <1>4

LEMMA TypesKept ==
  ASSUME ProcTypeOK, [ProcNext]_vars
  PROVE  ProcTypeOK'
<1>1. req \in [Requests -> RequestState]
  BY DEF ProcTypeOK, RequestState
<1>2. ASSUME NEW r \in Requests, View(r) \/ UpdateState(r) \/ Delete(r) \/ Deploy(r)
      PROVE  ProcTypeOK'
  <2>1. \E n \in RequestState : req' = [req EXCEPT ![r] = n]
    BY <1>2, RequestStarts DEF View, UpdateState, Delete, Deploy, Ops, States, ProcTypeOK
  <2>. QED
    BY <1>2, <2>1, RequestGoes DEF View, UpdateState, Delete, Deploy, ProcTypeOK, InActiviti
<1>3. ASSUME NEW r \in Requests, Fetch(r)
      PROVE  ProcTypeOK'
  <2>1. \E n \in RequestState : req' = [req EXCEPT ![r] = n]
    <3>1. CASE Ends(r)
      BY <3>1, RequestEnds
    <3>2. CASE act \in InActiviti /\ req' = [req EXCEPT ![r].pc = "look", ![r].entity = act]
      <4>1. PICK n : n = [req[r] EXCEPT !.pc = "look", !.entity = act]
        OBVIOUS
      <4>2. n \in RequestState
        BY <1>1, <3>2, <4>1 DEF RequestState
      <4>. QED
        BY <3>2, <4>1, <4>2
    <3>. QED
      BY <1>3, <3>1, <3>2 DEF Fetch
  <2>. QED
    BY <1>3, <2>1, RequestGoes DEF Fetch, ProcTypeOK
<1>4. ASSUME NEW r \in Requests, LookUp(r)
      PROVE  ProcTypeOK'
  <2>1. InitState(r) \in States
    BY DEF InitState, States, Rows, ProcTypeOK
  <2>2. \E n \in RequestState : req' = [req EXCEPT ![r] = n]
    <3>1. CASE Ends(r)
      BY <3>1, RequestEnds
    <3>2. CASE ~ Ends(r)
      <4>1. PICK pc \in {"commit", "sync"}, s \in States, e \in InActiviti \cup {"none"} :
              /\ pc = (IF crd = NoRow THEN "commit" ELSE "sync") /\ s = InitState(r)
              /\ e = IF crd = NoRow THEN "none" ELSE req[r].entity
        BY <1>1, <2>1 DEF RequestState
      <4>2. PICK n : n = [req[r] EXCEPT !.pc = pc, !.row = crd, !.state = s, !.entity = e]
        OBVIOUS
      <4>3. n \in RequestState
        BY <1>1, <4>2 DEF RequestState, ProcTypeOK
      <4>4. req' = [req EXCEPT ![r] = n]
        BY <1>4, <3>2, <4>1, <4>2 DEF LookUp
      <4>. QED
        BY <4>3, <4>4
    <3>. QED
      BY <3>1, <3>2
  <2>3. UNCHANGED <<act, crd, running, offered, breaks>>
    BY <1>4 DEF LookUp
  <2>. QED
    BY <2>2, <2>3, RequestGoes DEF ProcTypeOK
<1>5. ASSUME NEW r \in Requests, Sync(r)
      PROVE  ProcTypeOK'
  <2>1. \E n \in RequestState : req' = [req EXCEPT ![r] = n]
    <3>1. CASE Ends(r)
      BY <3>1, RequestEnds
    <3>2. CASE ~ Ends(r)
      <4>1. PICK pc \in {"remove", "commit"} :
              pc = IF req[r].op = "delete" THEN "remove" ELSE "commit"
        OBVIOUS
      <4>2. PICK n : n = [req[r] EXCEPT !.pc = pc, !.entity = "none"]
        OBVIOUS
      <4>3. n \in RequestState
        BY <1>1, <4>2 DEF RequestState
      <4>4. req' = [req EXCEPT ![r] = n]
        BY <1>5, <3>2, <4>1, <4>2 DEF Sync, PastSync
      <4>. QED
        BY <4>3, <4>4
    <3>. QED
      BY <3>1, <3>2
  <2>2. act' \in InActiviti \cup {"none", "gone"}
    BY <1>5 DEF Sync, ActivitiState, InActiviti, ProcTypeOK
  <2>3. crd' \in Rows \cup {NoRow}
    BY <1>5 DEF Sync, ProcTypeOK
  <2>. QED
    BY <1>5, <2>1, <2>2, <2>3, RequestGoes DEF Sync, ProcTypeOK
<1>6. ASSUME NEW r \in Requests, Reconnect(r)
      PROVE  ProcTypeOK'
  <2>1. PICK n : n = [req[r] EXCEPT !.pc = "sync", !.op = "reconnect", !.entity = act]
    OBVIOUS
  <2>2. n \in RequestState
    <3>1. act \in InActiviti /\ req[r] \in RequestState
      BY <1>1, <1>6 DEF Reconnect
    <3>. QED
      BY <2>1, <3>1 DEF RequestState, Ops
  <2>3. req' = [req EXCEPT ![r] = n]
    BY <1>6, <2>1 DEF Reconnect
  <2>. QED
    BY <1>6, <2>2, <2>3, RequestGoes DEF Reconnect, ProcTypeOK
<1>7. ASSUME NEW r \in Requests, Commit(r)
      PROVE  ProcTypeOK'
  <2>1. CASE Changed(r) /\ ~ RowStands(r)
    BY <1>7, <2>1, RequestEnds, RequestGoes DEF Commit, ProcTypeOK
  <2>2. CASE Changed(r) => RowStands(r)
    <3>1. PICK row : row = Saved(r)
      OBVIOUS
    <3>2. row \in Rows \cup {NoRow}
      <4>1. CASE Changed(r) \/ crd # NoRow
        BY <1>7, <3>1, <4>1, SavedIsRow DEF Commit
      <4>2. CASE ~ Changed(r) /\ crd = NoRow
        BY <3>1, <4>2 DEF Saved, Changed
      <4>. QED
        BY <4>1, <4>2
    <3>3. \E n \in RequestState : req' = [req EXCEPT ![r] = n]
      <4>1. CASE Ends(r)
        BY <4>1, RequestEnds
      <4>2. CASE req' = [req EXCEPT ![r].pc = "again", ![r].row = row]
        <5>1. PICK n : n = [req[r] EXCEPT !.pc = "again", !.row = row]
          OBVIOUS
        <5>2. n \in RequestState
          BY <1>1, <3>2, <5>1 DEF RequestState
        <5>. QED
          BY <4>2, <5>1, <5>2
      <4>. QED
        BY <1>7, <2>2, <3>1, <4>1, <4>2 DEF Commit
    <3>4. NextStates(req[r].state) \subseteq States
      BY <1>1 DEF NextStates, RequestState, States
    <3>5. crd' = row /\ offered' \subseteq States /\ UNCHANGED <<act, running, breaks>>
      BY <1>7, <2>2, <3>1, <3>4 DEF Commit, ProcTypeOK
    <3>. QED
      BY <3>2, <3>3, <3>5, RequestGoes DEF ProcTypeOK
  <2>. QED
    BY <2>1, <2>2
<1>8. ASSUME NEW r \in Requests, Apply(r)
      PROVE  ProcTypeOK'
  <2>1. \E n \in RequestState : req' = [req EXCEPT ![r] = n]
    <3>1. CASE Ends(r)
      BY <3>1, RequestEnds
    <3>2. CASE ~ Ends(r)
      <4>1. PICK n : n = [req[r] EXCEPT !.pc = "sync", !.op = "apply", !.entity = act,
                                        !.state = req[r].to]
        OBVIOUS
      <4>2. act \in InActiviti /\ req' = [req EXCEPT ![r] = n]
        BY <1>8, <3>2, <4>1 DEF Apply
      <4>3. req[r] \in RequestState
        BY <1>1
      <4>4. n \in RequestState
        BY <4>1, <4>2, <4>3 DEF RequestState, Ops
      <4>. QED
        BY <4>2, <4>4
    <3>. QED
      BY <3>1, <3>2
  <2>. QED
    BY <1>8, <2>1, RequestGoes DEF Apply, ProcTypeOK
<1>9. ASSUME NEW r \in Requests, DeleteDeployment(r)
      PROVE  ProcTypeOK'
  <2>1. \E n \in RequestState : req' = [req EXCEPT ![r] = n]
    <3>1. CASE Ends(r)
      BY <3>1, RequestEnds
    <3>2. CASE ~ Ends(r)
      <4>1. PICK n : n = [req[r] EXCEPT !.pc = "unrow"]
        OBVIOUS
      <4>2. req' = [req EXCEPT ![r] = n]
        BY <1>9, <3>2, <4>1 DEF DeleteDeployment
      <4>3. n \in RequestState
        BY <1>1, <4>1 DEF RequestState
      <4>. QED
        BY <4>2, <4>3
    <3>. QED
      BY <3>1, <3>2
  <2>. QED
    BY <1>9, <2>1, RequestGoes DEF DeleteDeployment, ProcTypeOK
<1>10. ASSUME NEW r \in Requests, DeleteRow(r) \/ Break(r)
       PROVE  ProcTypeOK'
  <2>1. breaks' \in 0 .. MaxBreaks
    BY <1>10 DEF DeleteRow, Break, ProcTypeOK
  <2>. QED
    BY <1>10, <2>1, RequestEnds, RequestGoes DEF DeleteRow, Break, ProcTypeOK
<1>11. CASE StartInstance \/ EndInstance \/ UNCHANGED vars
  BY <1>11 DEF StartInstance, EndInstance, vars, ProcTypeOK
<1>. QED
  BY <1>2, <1>3, <1>4, <1>5, <1>6, <1>7, <1>8, <1>9, <1>10, <1>11 DEF ProcNext, Continue

\* The definition, its row and the requests keep their types.
THEOREM TypeCorrect == ProcSpec => []ProcTypeOK
BY TypesAtFirst, TypesKept, PTL DEF ProcSpec

-----------------------------------------------------------------------------

\* A commit changes the state of a row only if the row is the one that was read.
LEMMA CommitSawRow ==
  ASSUME NEW r \in Requests, Commit(r), crd' # crd
  PROVE  req[r].pc = "commit" /\ (crd # NoRow => req[r].row = crd)
BY DEF Commit, Saved, RowStands, Changed

\* Whatever the requests and the order of their transactions, the state of a
\* definition is changed only by one that has seen the state that it changes.
THEOREM NoUpdateLost == ProcSpec => NoLostUpdate
<1>1. ASSUME [ProcNext]_vars, crd # NoRow, crd' # NoRow, crd'.state # crd.state
      PROVE  \E r \in Requests : req[r].pc = "commit" /\ req[r].row = crd
  <2>1. ASSUME NEW r \in Requests, Commit(r)
        PROVE  \E q \in Requests : req[q].pc = "commit" /\ req[q].row = crd
    BY <1>1, <2>1, CommitSawRow
  <2>2. ASSUME NEW r \in Requests,
               \/ View(r) \/ UpdateState(r) \/ Delete(r) \/ Deploy(r)
               \/ LookUp(r) \/ Reconnect(r) \/ Apply(r) \/ DeleteDeployment(r)
               \/ Break(r)
        PROVE  UNCHANGED crd
    BY <2>2 DEF View, UpdateState, Delete, Deploy, LookUp, Reconnect, Apply,
       DeleteDeployment, Break
  <2>3. ASSUME NEW r \in Requests, Fetch(r) \/ Sync(r) \/ DeleteRow(r)
        PROVE  crd' \in {crd, NoRow}
    BY <2>3 DEF Fetch, Sync, DeleteRow
  <2>4. CASE StartInstance \/ EndInstance \/ UNCHANGED vars
    BY <1>1, <2>4 DEF StartInstance, EndInstance, vars
  <2>. QED
    BY <1>1, <2>1, <2>2, <2>3, <2>4 DEF ProcNext, Continue
<1>2. [ProcNext]_vars =>
        [crd # NoRow /\ crd' # NoRow /\ crd'.state # crd.state =>
           \E r \in Requests : req[r].pc = "commit" /\ req[r].row = crd]_vars
  BY <1>1
<1>. QED
  BY <1>2, PTL DEF ProcSpec, NoLostUpdate
=============================================================================
