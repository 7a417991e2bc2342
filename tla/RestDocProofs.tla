--------------------------- MODULE RestDocProofs ----------------------------
(* Proofs of the invariants of RestDoc and of its refinement of SignedCopies. *)
EXTENDS RestDoc, FiniteSetTheorems, TLAPS

-----------------------------------------------------------------------------
(* The operators the model is built from *)

\* A document has finitely many steps.
LEMMA StepsFinite ==
  ASSUME StoreTypeOK, NEW d
  PROVE  IsFiniteSet(StepsOf(d)) /\ StepCount(d) \in Nat
<1>1. StepsOf(d) \subseteq Refs
  BY DEF StoreTypeOK, StepsOf
<1>2. IsFiniteSet(StepsOf(d))
  BY <1>1, RefsFinite, FS_Subset
<1>. QED
  BY <1>2, FS_CardinalityType DEF StepCount

\* Rows are only ever added to the tables, but for the version of a document.
Grows ==
  /\ DOMAIN boxDoc \subseteq DOMAIN boxDoc'
  /\ DOMAIN docStep \subseteq DOMAIN docStep'
  /\ \A r \in DOMAIN docStep : docStep'[r] = docStep[r]
  /\ DOMAIN pdf \subseteq DOMAIN pdf'
  /\ \A r \in DOMAIN pdf : pdf'[r] = pdf[r]

\* So the steps of a document do not get fewer.
LEMMA CountGrows ==
  ASSUME StoreTypeOK, StoreTypeOK', Grows, NEW d
  PROVE  StepCount(d) <= StepCount(d)'
<1>1. StepsOf(d) \subseteq StepsOf(d)'
  BY DEF Grows, StepsOf
<1>2. StepsOf(d)' \subseteq Refs
  BY DEF StoreTypeOK, StepsOf
<1>3. IsFiniteSet(StepsOf(d)')
  BY <1>2, RefsFinite, FS_Subset
<1>. QED
  BY <1>1, <1>3, FS_Subset DEF StepCount

\* A new step makes them one more.
LEMMA CountOfNewStep ==
  ASSUME StoreTypeOK, NEW r \in Refs \ DOMAIN docStep, NEW row \in StepRow,
         docStep' = Upsert(docStep, Row(r, row))
  PROVE  StepCount(row.doc)' = StepCount(row.doc) + 1
<1>1. /\ DOMAIN docStep' = DOMAIN docStep \cup {r}
      /\ docStep'[r] = row
      /\ \A x \in DOMAIN docStep : docStep'[x] = docStep[x]
  BY DEF Upsert, Row
<1>2. StepsOf(row.doc)' = StepsOf(row.doc) \cup {r}
  BY <1>1 DEF StepsOf
<1>3. r \notin StepsOf(row.doc)
  BY DEF StepsOf
<1>. QED
  BY <1>2, <1>3, StepsFinite, FS_AddElement DEF StepCount

-----------------------------------------------------------------------------
(* How the tables change *)

\* Replacing the state of one request.
LEMMA ReqType ==
  ASSUME req \in [Requests -> Request], NEW q \in Requests, NEW new \in Request
  PROVE  [req EXCEPT ![q] = new] \in [Requests -> Request]
OBVIOUS

\* A new step of a document that exists, with or without contents.
LEMMA StepInserted ==
  ASSUME StoreTypeOK, NEW r \in FreshRefs, NEW row \in StepRow,
         NEW D, row.doc \in DOMAIN boxDoc, InsertSteps(Row(r, row), D),
         \/ UNCHANGED pdf
         \/ \E c \in Contents : pdf' = Upsert(pdf, Row(r, c))
  PROVE  StoreTypeOK' /\ Grows
<1>1. /\ DOMAIN docStep' = DOMAIN docStep \cup {r}
      /\ docStep'[r] = row
      /\ \A x \in DOMAIN docStep : docStep'[x] = docStep[x]
      /\ docStep' \in [DOMAIN docStep' -> StepRow]
  BY DEF InsertSteps, Upsert, Row, FreshRefs, StoreTypeOK
<1>2. DOMAIN boxDoc' = DOMAIN boxDoc /\ boxDoc' \in [DOMAIN boxDoc' -> BoxDocRow]
  BY DEF InsertSteps, StoreTypeOK, BoxDocRow
<1>3. /\ DOMAIN pdf' \subseteq DOMAIN pdf \cup {r}
      /\ DOMAIN pdf \subseteq DOMAIN pdf'
      /\ \A x \in DOMAIN pdf : pdf'[x] = pdf[x]
      /\ pdf' \in [DOMAIN pdf' -> Contents]
  BY DEF Upsert, Row, FreshRefs, StoreTypeOK
<1>. QED
  BY <1>1, <1>2, <1>3 DEF StoreTypeOK, Grows, FreshRefs

\* Contents for a step that has none.
LEMMA PdfInserted ==
  ASSUME StoreTypeOK, NEW r \in DOMAIN docStep \ DOMAIN pdf, NEW c \in Contents,
         pdf' = Upsert(pdf, Row(r, c)), UNCHANGED <<boxDoc, docStep>>
  PROVE  StoreTypeOK' /\ Grows
<1>1. /\ DOMAIN pdf' = DOMAIN pdf \cup {r}
      /\ \A x \in DOMAIN pdf : pdf'[x] = pdf[x]
      /\ pdf' \in [DOMAIN pdf' -> Contents]
  BY DEF Upsert, Row, StoreTypeOK
<1>. QED
  BY <1>1 DEF StoreTypeOK, Grows

\* A new document with its first step.
LEMMA DocInserted ==
  ASSUME StoreTypeOK, NEW d \in Docs \ DOMAIN boxDoc, NEW r \in FreshRefs,
         NEW u \in Uuids,
         boxDoc' = Upsert(boxDoc, Row(d, [formDataUuid |-> u, version |-> 0])),
         docStep' = Upsert(docStep, Row(r, [doc |-> d, step |-> 0, signCount |-> 0])),
         UNCHANGED pdf
  PROVE  StoreTypeOK' /\ Grows
<1>1. /\ DOMAIN boxDoc' = DOMAIN boxDoc \cup {d}
      /\ boxDoc' \in [DOMAIN boxDoc' -> BoxDocRow]
  BY DEF Upsert, Row, StoreTypeOK, BoxDocRow
<1>2. /\ DOMAIN docStep' = DOMAIN docStep \cup {r}
      /\ docStep'[r] = [doc |-> d, step |-> 0, signCount |-> 0]
      /\ \A x \in DOMAIN docStep : docStep'[x] = docStep[x]
      /\ docStep' \in [DOMAIN docStep' -> StepRow]
  BY DEF Upsert, Row, StoreTypeOK, StepRow, FreshRefs
<1>. QED
  BY <1>1, <1>2 DEF StoreTypeOK, Grows, FreshRefs

\* The contents of a signed step are contents.
LEMMA SignedContentsType ==
  ASSUME StoreTypeOK, NEW r \in DOMAIN pdf, NEW s \in Sigs
  PROVE  SignedContents(r, s) \in Contents
<1>1. pdf[r] \in Contents /\ r \in Refs
  BY DEF StoreTypeOK
<1>2. pdf[r].pages \in Seq(Page) /\ [sig |-> s, over |-> r] \in Page
  BY <1>1 DEF Contents, Page
<1>3. Append(pdf[r].pages, [sig |-> s, over |-> r]) \in Seq(Page)
  BY <1>2
<1>. QED
  BY <1>1, <1>3 DEF SignedContents, Contents

-----------------------------------------------------------------------------
(* Type correctness *)

\* The fields of a Request. Proving them one by one is what the provers can do.
FieldsOK(a) ==
  /\ a.pc \in Phase
  /\ a.uuid \in Uuids \cup {None}
  /\ a.ref \in Refs \cup {None}
  /\ a.doc \in Docs \cup {None}
  /\ a.sig \in Sigs \cup {None}
  /\ a.count \in Nat
  /\ a.version \in Nat
  /\ a.free \in BOOLEAN
  /\ a.body \in Contents \cup {None}
  /\ a.status \in {0, 200, 201, 404, 409, 500}

\* A request some fields of which were assigned is still a Request.
LEMMA Changed ==
  ASSUME NEW old \in Request, NEW a, DOMAIN a = DOMAIN old,
         a = [x \in DOMAIN a |-> a[x]], FieldsOK(a)
  PROVE  a \in Request
BY DEF Request, FieldsOK

\* An answer is a state of a request.
LEMMA ReplyType ==
  ASSUME TypeOK, NEW q \in Requests, NEW status \in {200, 201, 404, 409, 500},
         NEW r \in Refs \cup {None}, NEW c \in Contents \cup {None}, Reply(q, status, r, c)
  PROVE  req' \in [Requests -> Request]
<1>1. req[q] \in Request
  BY DEF TypeOK
<1>. DEFINE new == [req[q] EXCEPT !.pc = "done", !.status = status, !.ref = r, !.body = c]
<1>2. new \in Request
  <2>1. FieldsOK(new)
    BY <1>1 DEF FieldsOK, Request, Phase
  <2>2. DOMAIN new = DOMAIN req[q] /\ new = [x \in DOMAIN new |-> new[x]]
    OBVIOUS
  <2>. HIDE DEF new
  <2>. QED
    BY <1>1, <2>1, <2>2, Changed
<1>. QED
  BY <1>2, ReqType DEF Reply, TypeOK

\* Every step keeps the types and only adds to the tables.
LEMMA TypeStep ==
  ASSUME Inv, [Next]_vars
  PROVE  TypeOK' /\ Grows
<1>0. StoreTypeOK /\ req \in [Requests -> Request] /\ \A q \in Requests : req[q] \in Request
  BY DEF Inv, TypeOK
<1>1. UNCHANGED storeVars => StoreTypeOK' /\ Grows
  BY <1>0 DEF storeVars, StoreTypeOK, Grows
<1>2. ASSUME NEW q \in Requests, NEW u \in Uuids, FormDataPut(q, u)
      PROVE  TypeOK' /\ Grows
  <2>1. UNCHANGED storeVars
    BY <1>2 DEF FormDataPut
  <2>2. FindStepByUuid(u) \subseteq DOMAIN docStep /\ DOMAIN docStep \subseteq Refs
    BY <1>0 DEF FindStepByUuid, Latest, StoreTypeOK
  <2>3. CASE \E r \in FindStepByUuid(u) \cap DOMAIN pdf : Reply(q, 200, r, pdf[r])
    <3>1. PICK r \in FindStepByUuid(u) \cap DOMAIN pdf : Reply(q, 200, r, pdf[r])
      BY <2>3
    <3>2. r \in Refs /\ pdf[r] \in Contents
      BY <1>0, <2>2 DEF StoreTypeOK
    <3>. QED
      BY <1>0, <1>1, <2>1, <3>1, <3>2, ReplyType DEF TypeOK
  <2>4. CASE \E r \in FindStepByUuid(u) \ DOMAIN pdf :
               req' = [req EXCEPT ![q] = [@ EXCEPT !.pc = "convert", !.uuid = u, !.ref = r]]
    <3>1. PICK r \in Refs :
            req' = [req EXCEPT ![q] = [@ EXCEPT !.pc = "convert", !.uuid = u, !.ref = r]]
      BY <2>2, <2>4
    <3>2. [req[q] EXCEPT !.pc = "convert", !.uuid = u, !.ref = r] \in Request
      <4>1. FieldsOK([req[q] EXCEPT !.pc = "convert", !.uuid = u, !.ref = r])
        BY <1>0 DEF FieldsOK, Request, Phase
      <4>. QED
        BY <1>0, <4>1, Changed
    <3>. QED
      BY <1>0, <1>1, <2>1, <3>1, <3>2 DEF TypeOK
  <2>5. CASE req' = [req EXCEPT ![q] = [@ EXCEPT !.pc = "create", !.uuid = u]]
    <3>1. [req[q] EXCEPT !.pc = "create", !.uuid = u] \in Request
      <4>1. FieldsOK([req[q] EXCEPT !.pc = "create", !.uuid = u])
        BY <1>0 DEF FieldsOK, Request, Phase
      <4>. QED
        BY <1>0, <4>1, Changed
    <3>. QED
      BY <1>0, <1>1, <2>1, <2>5, <3>1 DEF TypeOK
  <2>6. CASE Fail(q, 404)
    BY <1>0, <1>1, <2>1, <2>6, ReplyType DEF TypeOK, Fail
  <2>. QED
    BY <1>2, <2>3, <2>4, <2>5, <2>6 DEF FormDataPut
<1>3. ASSUME NEW q \in Requests, CreateBoxDocStep(q)
      PROVE  TypeOK' /\ Grows
  <2>1. UNCHANGED storeVars
    BY <1>3 DEF CreateBoxDocStep
  <2>2. CASE \E d \in DOMAIN boxDoc :
               req' = [req EXCEPT ![q] = [@ EXCEPT !.pc = "add", !.doc = d,
                                            !.version = boxDoc[d].version,
                                            !.count = StepCount(d)]]
    <3>1. PICK d \in DOMAIN boxDoc :
            req' = [req EXCEPT ![q] = [@ EXCEPT !.pc = "add", !.doc = d,
                                         !.version = boxDoc[d].version,
                                         !.count = StepCount(d)]]
      BY <2>2
    <3>2. d \in Docs /\ boxDoc[d].version \in Nat /\ StepCount(d) \in Nat
      BY <1>0, StepsFinite DEF StoreTypeOK, BoxDocRow
    <3>3. [req[q] EXCEPT !.pc = "add", !.doc = d, !.version = boxDoc[d].version,
                         !.count = StepCount(d)] \in Request
      <4>1. FieldsOK([req[q] EXCEPT !.pc = "add", !.doc = d,
                     !.version = boxDoc[d].version, !.count = StepCount(d)])
        BY <1>0, <3>2 DEF FieldsOK, Request, Phase
      <4>. QED
        BY <1>0, <4>1, Changed
    <3>. QED
      BY <1>0, <1>1, <2>1, <3>1, <3>3 DEF TypeOK
  <2>3. CASE \E d \in Docs :
               req' = [req EXCEPT ![q] = [@ EXCEPT !.pc = "insertDoc", !.doc = d]]
    <3>1. PICK d \in Docs :
            req' = [req EXCEPT ![q] = [@ EXCEPT !.pc = "insertDoc", !.doc = d]]
      BY <2>3
    <3>2. [req[q] EXCEPT !.pc = "insertDoc", !.doc = d] \in Request
      <4>1. FieldsOK([req[q] EXCEPT !.pc = "insertDoc", !.doc = d])
        BY <1>0 DEF FieldsOK, Request, Phase
      <4>. QED
        BY <1>0, <4>1, Changed
    <3>. QED
      BY <1>0, <1>1, <2>1, <3>1, <3>2 DEF TypeOK
  <2>. QED
    BY <1>3, <2>2, <2>3 DEF CreateBoxDocStep
<1>4. ASSUME NEW q \in Requests, NEW r \in FreshRefs,
             req' = [req EXCEPT ![q] = [@ EXCEPT !.pc = "convert", !.ref = r]]
      PROVE  req' \in [Requests -> Request]
  <2>1. [req[q] EXCEPT !.pc = "convert", !.ref = r] \in Request
    <3>1. FieldsOK([req[q] EXCEPT !.pc = "convert", !.ref = r])
      BY <1>0 DEF FieldsOK, Request, Phase, FreshRefs
    <3>. QED
      BY <1>0, <3>1, Changed
  <2>. QED
    BY <1>0, <1>4, <2>1
<1>5. ASSUME NEW q \in Requests, InsertBoxDoc(q)
      PROVE  TypeOK' /\ Grows
  <2>1. CASE UNCHANGED storeVars /\ Fail(q, 500)
    BY <1>0, <1>1, <2>1, ReplyType DEF TypeOK, Fail
  <2>2. CASE ~(UNCHANGED storeVars /\ Fail(q, 500))
    <3>1. PICK r \in FreshRefs :
            /\ req[q].doc \notin DOMAIN boxDoc
            /\ boxDoc' = Upsert(boxDoc, Row(req[q].doc,
                                           [formDataUuid |-> req[q].uuid, version |-> 0]))
            /\ docStep' = Upsert(docStep, Row(r, [doc |-> req[q].doc, step |-> 0,
                                                 signCount |-> 0]))
            /\ req' = [req EXCEPT ![q] = [@ EXCEPT !.pc = "convert", !.ref = r]]
            /\ UNCHANGED pdf
      BY <1>5, <2>2 DEF InsertBoxDoc
    <3>2. req[q].doc \in Docs /\ req[q].uuid \in Uuids
      BY <1>5 DEF InsertBoxDoc, Inv, Knows
    <3>3. StoreTypeOK' /\ Grows
      BY <1>0, <3>1, <3>2, DocInserted
    <3>. QED
      BY <1>4, <3>1, <3>3 DEF TypeOK
  <2>. QED
    BY <2>1, <2>2
<1>6. ASSUME NEW q \in Requests, InsertBoxDocStep(q)
      PROVE  TypeOK' /\ Grows
  <2>1. CASE UNCHANGED storeVars /\ Fail(q, 500)
    BY <1>0, <1>1, <2>1, ReplyType DEF TypeOK, Fail
  <2>2. CASE ~(UNCHANGED storeVars /\ Fail(q, 500))
    <3>1. PICK r \in FreshRefs :
            /\ InsertSteps(Row(r, [doc |-> req[q].doc, step |-> req[q].count,
                                  signCount |-> 0]), ChangedDocs(q))
            /\ req' = [req EXCEPT ![q] = [@ EXCEPT !.pc = "convert", !.ref = r]]
            /\ UNCHANGED pdf
      BY <1>6, <2>2 DEF InsertBoxDocStep
    <3>2. req[q].doc \in DOMAIN boxDoc /\ req[q].doc \in Docs /\ req[q].count \in Nat
      <4>1. req[q].doc \in DOMAIN boxDoc
        BY <1>6 DEF InsertBoxDocStep, Inv, Knows
      <4>. QED
        BY <1>0, <4>1 DEF StoreTypeOK, Request
    <3>3. [doc |-> req[q].doc, step |-> req[q].count, signCount |-> 0] \in StepRow
      BY <3>2 DEF StepRow
    <3>4. StoreTypeOK' /\ Grows
      BY <1>0, <3>1, <3>2, <3>3, StepInserted
    <3>. QED
      BY <1>4, <3>1, <3>4 DEF TypeOK
  <2>. QED
    BY <2>1, <2>2
<1>7. ASSUME NEW q \in Requests, GeneratePdfa(q)
      PROVE  TypeOK' /\ Grows
  <2>1. CASE UNCHANGED storeVars /\ (Fail(q, 500) \/ Fail(q, 409) \/ Fail(q, 404))
    BY <1>0, <1>1, <2>1, ReplyType DEF TypeOK, Fail
  <2>2. CASE ~(UNCHANGED storeVars /\ (Fail(q, 500) \/ Fail(q, 409) \/ Fail(q, 404)))
    <3>. DEFINE r == req[q].ref
                contents == [origin |-> q, pages |-> <<>>]
    <3>1. /\ r \notin DOMAIN pdf
          /\ pdf' = Upsert(pdf, Row(r, contents))
          /\ Reply(q, 201, r, contents)
          /\ UNCHANGED <<boxDoc, docStep>>
      BY <1>7, <2>2 DEF GeneratePdfa
    <3>2. r \in DOMAIN docStep /\ r \in Refs
      BY <1>0, <1>7 DEF GeneratePdfa, Inv, Knows, StoreTypeOK
    <3>3. contents \in Contents
      BY DEF Contents
    <3>4. StoreTypeOK' /\ Grows
      BY <1>0, <3>1, <3>2, <3>3, PdfInserted
    <3>. QED
      BY <1>0, <3>1, <3>2, <3>3, <3>4, ReplyType DEF TypeOK
  <2>. QED
    BY <2>1, <2>2
<1>8. ASSUME NEW q \in Requests, NEW r \in Refs, NEW s \in Sigs, DocboxSigPut(q, r, s)
      PROVE  TypeOK' /\ Grows
  <2>1. UNCHANGED storeVars
    BY <1>8 DEF DocboxSigPut
  <2>2. CASE /\ PdfFoundByRef(r)
             /\ req' = [req EXCEPT ![q] = [@ EXCEPT !.pc = "count", !.ref = r, !.sig = s,
                                             !.doc = docStep[r].doc]]
    <3>1. docStep[r].doc \in Docs
      BY <1>0, <2>2 DEF PdfFoundByRef, StoreTypeOK, StepRow
    <3>2. [req[q] EXCEPT !.pc = "count", !.ref = r, !.sig = s,
                         !.doc = docStep[r].doc] \in Request
      <4>1. FieldsOK([req[q] EXCEPT !.pc = "count", !.ref = r,
                     !.sig = s, !.doc = docStep[r].doc])
        BY <1>0, <3>1 DEF FieldsOK, Request, Phase
      <4>. QED
        BY <1>0, <4>1, Changed
    <3>. QED
      BY <1>0, <1>1, <2>1, <2>2, <3>2 DEF TypeOK
  <2>3. CASE req' = [req EXCEPT ![q] = [@ EXCEPT !.pc = "done", !.status = 409, !.sig = s]]
    <3>1. [req[q] EXCEPT !.pc = "done", !.status = 409, !.sig = s] \in Request
      <4>1. PICK new : new = [req[q] EXCEPT !.pc = "done", !.status = 409, !.sig = s]
        OBVIOUS
      <4>2. FieldsOK(new)
        BY <1>0, <4>1 DEF FieldsOK, Request, Phase
      <4>3. DOMAIN new = DOMAIN req[q]
        BY <4>1
      <4>4. new = [x \in DOMAIN new |-> new[x]]
        BY <4>1
      <4>. QED
        BY <1>0, <4>1, <4>2, <4>3, <4>4, Changed
    <3>. QED
      BY <1>0, <1>1, <2>1, <2>3, <3>1 DEF TypeOK
  <2>. QED
    BY <1>8, <2>2, <2>3 DEF DocboxSigPut
<1>9. ASSUME NEW q \in Requests, CountSteps(q)
      PROVE  TypeOK' /\ Grows
  <2>1. [req[q] EXCEPT !.pc = "load", !.count = StepCount(req[q].doc)] \in Request
    <3>1. FieldsOK([req[q] EXCEPT !.pc = "load", !.count = StepCount(req[q].doc)])
      BY <1>0, StepsFinite DEF FieldsOK, Request, Phase
    <3>. QED
      BY <1>0, <3>1, Changed
  <2>. QED
    BY <1>0, <1>1, <1>9, <2>1 DEF CountSteps, TypeOK
<1>10. ASSUME NEW q \in Requests, LoadBoxDoc(q)
       PROVE  TypeOK' /\ Grows
  <2>1. req[q].doc \in DOMAIN boxDoc
    BY <1>0, <1>10 DEF LoadBoxDoc, Inv, Knows, StoreTypeOK
  <2>2. [req[q] EXCEPT !.pc = "sign", !.version = boxDoc[req[q].doc].version] \in Request
    <3>1. FieldsOK([req[q] EXCEPT !.pc = "sign", !.version = boxDoc[req[q].doc].version])
      BY <1>0, <2>1 DEF FieldsOK, Request, Phase, StoreTypeOK, BoxDocRow
    <3>. QED
      BY <1>0, <3>1, Changed
  <2>. QED
    BY <1>0, <1>1, <1>10, <2>2 DEF LoadBoxDoc, TypeOK
<1>11. ASSUME NEW q \in Requests, AddSignature(q)
       PROVE  TypeOK' /\ Grows
  <2>1. CASE UNCHANGED storeVars /\ Fail(q, 500)
    BY <1>0, <1>1, <2>1, ReplyType DEF TypeOK, Fail
  <2>2. CASE ~(UNCHANGED storeVars /\ Fail(q, 500))
    <3>. DEFINE base == req[q].ref
                contents == SignedContents(base, req[q].sig)
                row == SignedStep(base, req[q].count)
    <3>1. PICK r \in FreshRefs :
            /\ InsertSteps(Row(r, row), ChangedDocs(q))
            /\ pdf' = Upsert(pdf, Row(r, contents))
            /\ Reply(q, 200, r, contents)
      BY <1>11, <2>2 DEF AddSignature
    <3>2. base \in DOMAIN pdf /\ req[q].sig \in Sigs /\ req[q].count \in Nat
      BY <1>0, <1>11 DEF AddSignature, Inv, Knows, Request
    <3>3. contents \in Contents
      BY <1>0, <3>2, SignedContentsType
    <3>4. row \in StepRow /\ row.doc \in DOMAIN boxDoc
      BY <1>0, <3>2 DEF SignedStep, StepRow, StoreTypeOK
    <3>5. StoreTypeOK' /\ Grows
      <4>. HIDE DEF row, contents
      <4>. QED
        BY <1>0, <3>1, <3>3, <3>4, StepInserted
    <3>6. r \in Refs
      BY DEF FreshRefs
    <3>. HIDE DEF contents
    <3>. QED
      BY <1>0, <3>1, <3>3, <3>5, <3>6, ReplyType DEF TypeOK
  <2>. QED
    BY <2>1, <2>2
<1>12. ASSUME NEW q \in Requests, AddToSteps(q)
       PROVE  TypeOK' /\ Grows
  <2>. DEFINE pc == IF req[q].pc = "add" THEN "insert" ELSE "append"
              free == NumberFree(req[q].doc, req[q].count)
  <2>1. pc \in Phase /\ free \in BOOLEAN
    BY DEF Phase, NumberFree
  <2>2. req' = [req EXCEPT ![q] = [@ EXCEPT !.pc = pc, !.free = free]]
    BY <1>0, <1>12 DEF AddToSteps
  <2>. HIDE DEF pc, free
  <2>3. [req[q] EXCEPT !.pc = pc, !.free = free] \in Request
    <3>1. FieldsOK([req[q] EXCEPT !.pc = pc, !.free = free])
      BY <1>0, <2>1 DEF FieldsOK, Request
    <3>. QED
      BY <1>0, <3>1, Changed
  <2>. QED
    BY <1>0, <1>1, <1>12, <2>2, <2>3 DEF AddToSteps, TypeOK
<1>13. CASE UNCHANGED vars
  BY <1>0, <1>1, <1>13 DEF vars, storeVars, TypeOK
<1>. QED
  BY <1>2, <1>3, <1>5, <1>6, <1>7, <1>8, <1>9, <1>10, <1>11, <1>12, <1>13 DEF Next

-----------------------------------------------------------------------------
(* What a step can do to the tables *)

\* A step without signatures.
StepAdded ==
  \E r \in FreshRefs, row \in StepRow :
    /\ docStep' = Upsert(docStep, Row(r, row))
    /\ row.step <= StepCount(row.doc)
    /\ row.signCount = 0
    /\ UNCHANGED pdf

\* The PDF of a step that has none.
PdfAdded ==
  \E r \in DOMAIN docStep \ DOMAIN pdf, c \in Contents :
    /\ pdf' = Upsert(pdf, Row(r, c))
    /\ c.pages = <<>>
    /\ docStep[r].signCount = 0
    /\ UNCHANGED docStep

\* A step with one more signature, and its PDF.
SignedAdded ==
  \E r \in FreshRefs, base \in DOMAIN pdf, s \in Sigs, count \in Nat :
    /\ docStep' = Upsert(docStep, Row(r, SignedStep(base, count)))
    /\ pdf' = Upsert(pdf, Row(r, SignedContents(base, s)))
    /\ docStep[base].step < count
    /\ count <= StepCount(docStep[base].doc)

TableStep == UNCHANGED <<docStep, pdf>> \/ StepAdded \/ PdfAdded \/ SignedAdded

LEMMA TableSteps ==
  ASSUME Inv, [Next]_vars
  PROVE  TableStep
<1>0. StoreTypeOK /\ \A q \in Requests : req[q] \in Request /\ Knows(q)
  BY DEF Inv, TypeOK
<1>1. ASSUME NEW q \in Requests, NEW u \in Uuids, FormDataPut(q, u)
      PROVE  UNCHANGED <<docStep, pdf>>
  BY <1>1 DEF FormDataPut, storeVars
<1>2. ASSUME NEW q \in Requests, CreateBoxDocStep(q)
      PROVE  UNCHANGED <<docStep, pdf>>
  BY <1>2 DEF CreateBoxDocStep, storeVars
<1>3. ASSUME NEW q \in Requests, InsertBoxDoc(q)
      PROVE  UNCHANGED <<docStep, pdf>> \/ StepAdded
  <2>. DEFINE row == [doc |-> req[q].doc, step |-> 0, signCount |-> 0]
  <2>1. CASE UNCHANGED storeVars
    BY <2>1 DEF storeVars
  <2>2. CASE ~UNCHANGED storeVars
    <3>1. PICK r \in FreshRefs : docStep' = Upsert(docStep, Row(r, row)) /\ UNCHANGED pdf
      BY <1>3, <2>2 DEF InsertBoxDoc
    <3>2. row \in StepRow
      BY <1>0, <1>3 DEF InsertBoxDoc, Knows, StepRow
    <3>3. row.step <= StepCount(row.doc)
      BY <1>0, StepsFinite
    <3>. QED
      BY <3>1, <3>2, <3>3 DEF StepAdded
  <2>. QED
    BY <2>1, <2>2
<1>4. ASSUME NEW q \in Requests, InsertBoxDocStep(q)
      PROVE  UNCHANGED <<docStep, pdf>> \/ StepAdded
  <2>. DEFINE row == [doc |-> req[q].doc, step |-> req[q].count, signCount |-> 0]
  <2>1. CASE UNCHANGED storeVars
    BY <2>1 DEF storeVars
  <2>2. CASE ~UNCHANGED storeVars
    <3>1. PICK r \in FreshRefs : docStep' = Upsert(docStep, Row(r, row)) /\ UNCHANGED pdf
      BY <1>4, <2>2 DEF InsertBoxDocStep, InsertSteps
    <3>2. req[q].doc \in DOMAIN boxDoc /\ row.step <= StepCount(row.doc)
      BY <1>0, <1>4 DEF InsertBoxDocStep, Knows
    <3>3. row \in StepRow
      BY <1>0, <3>2 DEF StepRow, StoreTypeOK, Request
    <3>. QED
      BY <3>1, <3>2, <3>3 DEF StepAdded
  <2>. QED
    BY <2>1, <2>2
<1>5. ASSUME NEW q \in Requests, GeneratePdfa(q)
      PROVE  UNCHANGED <<docStep, pdf>> \/ PdfAdded
  <2>. DEFINE contents == [origin |-> q, pages |-> <<>>]
  <2>1. CASE UNCHANGED storeVars
    BY <2>1 DEF storeVars
  <2>2. CASE ~UNCHANGED storeVars
    <3>1. /\ req[q].ref \notin DOMAIN pdf
          /\ pdf' = Upsert(pdf, Row(req[q].ref, contents))
          /\ UNCHANGED docStep
      BY <1>5, <2>2 DEF GeneratePdfa
    <3>2. req[q].ref \in DOMAIN docStep /\ docStep[req[q].ref].signCount = 0
      BY <1>0, <1>5 DEF GeneratePdfa, Knows
    <3>3. contents \in Contents /\ contents.pages = <<>>
      BY DEF Contents
    <3>. QED
      BY <3>1, <3>2, <3>3 DEF PdfAdded
  <2>. QED
    BY <2>1, <2>2
<1>6. ASSUME NEW q \in Requests, NEW r \in Refs, NEW s \in Sigs, DocboxSigPut(q, r, s)
      PROVE  UNCHANGED <<docStep, pdf>>
  BY <1>6 DEF DocboxSigPut, storeVars
<1>7. ASSUME NEW q \in Requests, CountSteps(q) \/ LoadBoxDoc(q) \/ AddToSteps(q)
      PROVE  UNCHANGED <<docStep, pdf>>
  BY <1>7 DEF CountSteps, LoadBoxDoc, AddToSteps, storeVars
<1>8. ASSUME NEW q \in Requests, AddSignature(q)
      PROVE  UNCHANGED <<docStep, pdf>> \/ SignedAdded
  <2>1. CASE UNCHANGED storeVars
    BY <2>1 DEF storeVars
  <2>2. CASE ~UNCHANGED storeVars
    <3>1. PICK r \in FreshRefs :
            /\ docStep' = Upsert(docStep, Row(r, SignedStep(req[q].ref, req[q].count)))
            /\ pdf' = Upsert(pdf, Row(r, SignedContents(req[q].ref, req[q].sig)))
      BY <1>8, <2>2 DEF AddSignature, InsertSteps
    <3>2. /\ req[q].ref \in DOMAIN pdf
          /\ req[q].sig \in Sigs
          /\ docStep[req[q].ref].step < req[q].count
          /\ req[q].count <= StepCount(docStep[req[q].ref].doc)
      BY <1>0, <1>8 DEF AddSignature, Knows
    <3>3. req[q].count \in Nat
      BY <1>0 DEF Request
    <3>. QED
      BY <3>1, <3>2, <3>3 DEF SignedAdded
  <2>. QED
    BY <2>1, <2>2
<1>9. CASE UNCHANGED vars
  BY <1>9 DEF vars, TableStep
<1>. QED
  BY <1>1, <1>2, <1>3, <1>4, <1>5, <1>6, <1>7, <1>8, <1>9 DEF Next, TableStep

-----------------------------------------------------------------------------
(* The invariants of the tables *)

\* The numbers of steps stay below their count.
LEMMA StepBelowCountStep ==
  ASSUME Inv, TypeOK', Grows, TableStep
  PROVE  StepBelowCount'
<1>. USE DEF Inv, TypeOK
<1>1. ASSUME NEW x \in DOMAIN docStep
      PROVE  (docStep[x].step < StepCount(docStep[x].doc))'
  <2>1. PICK d \in Docs : d = docStep[x].doc
    BY <1>1 DEF StoreTypeOK, StepRow
  <2>2. StepCount(d) <= StepCount(d)'
    BY CountGrows
  <2>3. docStep'[x] = docStep[x] /\ docStep[x].step < StepCount(d)
    BY <1>1, <2>1 DEF Grows, StepBelowCount
  <2>4. docStep[x].step \in Nat /\ StepCount(d) \in Nat
    BY <1>1, StepsFinite DEF StoreTypeOK, StepRow
  <2>5. StepCount(d)' \in Nat
    <3>1. StepsOf(d)' \subseteq Refs
      BY DEF StoreTypeOK, StepsOf
    <3>. QED
      BY <3>1, RefsFinite, FS_Subset, FS_CardinalityType DEF StepCount
  <2>6. docStep[x].step < StepCount(d)'
    BY <2>2, <2>3, <2>4, <2>5
  <2>. QED
    BY <2>1, <2>3, <2>6
<1>2. ASSUME NEW r \in FreshRefs, NEW row \in StepRow,
             docStep' = Upsert(docStep, Row(r, row)), row.step <= StepCount(row.doc)
      PROVE  StepBelowCount'
  <2>1. r \in Refs \ DOMAIN docStep
    BY DEF FreshRefs
  <2>2. StepCount(row.doc)' = StepCount(row.doc) + 1
    BY <1>2, <2>1, CountOfNewStep
  <2>3. docStep'[r] = row /\ DOMAIN docStep' = DOMAIN docStep \cup {r}
    BY <1>2 DEF Upsert, Row
  <2>4. row.step \in Nat /\ StepCount(row.doc) \in Nat
    BY StepsFinite DEF StepRow
  <2>5. row.step < StepCount(row.doc)'
    BY <1>2, <2>2, <2>4
  <2>6. (docStep[r].step < StepCount(docStep[r].doc))'
    BY <2>3, <2>5
  <2>. QED
    BY <1>1, <2>3, <2>6 DEF StepBelowCount
<1>3. CASE UNCHANGED docStep
  BY <1>1, <1>3 DEF StepBelowCount
<1>4. CASE StepAdded
  BY <1>2, <1>4 DEF StepAdded
<1>5. CASE SignedAdded
  <2>1. PICK r \in FreshRefs, base \in DOMAIN pdf, count \in Nat :
          /\ docStep' = Upsert(docStep, Row(r, SignedStep(base, count)))
          /\ count <= StepCount(docStep[base].doc)
    BY <1>5 DEF SignedAdded
  <2>2. SignedStep(base, count) \in StepRow
    BY DEF SignedStep, StepRow, StoreTypeOK
  <2>3. /\ SignedStep(base, count).step = count
        /\ SignedStep(base, count).doc = docStep[base].doc
    BY DEF SignedStep
  <2>. QED
    BY <1>2, <2>1, <2>2, <2>3
<1>. QED
  BY <1>3, <1>4, <1>5 DEF TableStep, PdfAdded

\* What holds of a stored PDF and its step.
PdfSound(x) ==
  /\ Signed(x) => /\ Base(x) \in DOMAIN pdf
                  /\ \E s \in Sigs : pdf[x] = SignedContents(Base(x), s)
  /\ Signed(x) => /\ Base(x) \in DOMAIN docStep
                  /\ docStep[x].doc = docStep[Base(x)].doc
                  /\ docStep[x].step > docStep[Base(x)].step
  /\ docStep[x].signCount = Len(pdf[x].pages)

\* It goes on holding when others are stored.
LEMMA PdfStands ==
  ASSUME Inv, Grows, NEW x \in DOMAIN pdf
  PROVE  PdfSound(x)'
<1>0. StoreTypeOK
  BY DEF Inv, TypeOK
<1>1. /\ \A y \in DOMAIN docStep : docStep'[y] = docStep[y]
      /\ \A y \in DOMAIN pdf : pdf'[y] = pdf[y] /\ y \in DOMAIN docStep
      /\ DOMAIN docStep \subseteq DOMAIN docStep' /\ DOMAIN pdf \subseteq DOMAIN pdf'
  BY <1>0 DEF Grows, StoreTypeOK
<1>2. Signed(x)' <=> Signed(x)
  BY <1>1 DEF Signed
<1>3. Base(x)' = Base(x)
  BY <1>1 DEF Base
<1>4. ASSUME Signed(x)
      PROVE  /\ Base(x) \in DOMAIN pdf
             /\ \E s \in Sigs : pdf[x] = SignedContents(Base(x), s)
             /\ docStep[x].doc = docStep[Base(x)].doc
             /\ docStep[x].step > docStep[Base(x)].step
  BY <1>4 DEF Inv, CoversItsBase, SignedIsLater
<1>5. ASSUME NEW s \in Sigs, Signed(x)
      PROVE  SignedContents(Base(x), s)' = SignedContents(Base(x), s)
  BY <1>1, <1>3, <1>4, <1>5 DEF SignedContents
<1>6. docStep[x].signCount = Len(pdf[x].pages)
  BY DEF Inv, SignCountIsPages
<1>. QED
  BY <1>1, <1>2, <1>3, <1>4, <1>5, <1>6 DEF PdfSound

\* It holds of a step that is stored with its signature.
LEMMA SignedStands ==
  ASSUME Inv, Grows, NEW r \in DOMAIN pdf', NEW base \in DOMAIN pdf, NEW s \in Sigs,
         NEW count \in Nat, docStep'[r] = SignedStep(base, count),
         pdf'[r] = SignedContents(base, s), docStep[base].step < count
  PROVE  PdfSound(r)' /\ Base(r)' = base
<1>0. StoreTypeOK
  BY DEF Inv, TypeOK
<1>1. /\ pdf[base].pages \in Seq(Page) /\ base \in Refs /\ base \in DOMAIN docStep
      /\ docStep[base].step \in Nat
      /\ docStep'[base] = docStep[base] /\ pdf'[base] = pdf[base]
      /\ base \in DOMAIN docStep' /\ base \in DOMAIN pdf'
  BY <1>0 DEF StoreTypeOK, Contents, StepRow, Grows
<1>2. pdf'[r].pages = Append(pdf[base].pages, [sig |-> s, over |-> base])
  BY DEF SignedContents
<1>3. /\ Len(pdf'[r].pages) = Len(pdf[base].pages) + 1
      /\ pdf'[r].pages[Len(pdf'[r].pages)] = [sig |-> s, over |-> base]
  <2>1. [sig |-> s, over |-> base] \in Page
    BY <1>1 DEF Page
  <2>. QED
    BY <1>1, <1>2, <2>1
<1>4. Base(r)' = base
  BY <1>3 DEF Base
<1>5. SignedContents(base, s)' = SignedContents(base, s)
  BY <1>1 DEF SignedContents
<1>6. /\ docStep'[r].doc = docStep[base].doc
      /\ docStep'[r].step = count
      /\ docStep'[r].signCount = docStep[base].signCount + 1
  BY DEF SignedStep
<1>7. (Base(r) \in DOMAIN docStep /\ docStep[r].doc = docStep[Base(r)].doc
                                 /\ docStep[r].step > docStep[Base(r)].step)'
  BY <1>1, <1>4, <1>6
<1>8. docStep'[r].signCount = Len(pdf'[r].pages)
  BY <1>3, <1>6 DEF Inv, SignCountIsPages
<1>. QED
  BY <1>1, <1>4, <1>5, <1>7, <1>8 DEF PdfSound

\* Contents come with a step without signatures or with the step they sign.
LEMMA TablesStep ==
  ASSUME Inv, TypeOK', Grows, TableStep
  PROVE  /\ NoPdfNoSignature'
         /\ CoversItsBase'
         /\ SignedIsLater'
         /\ SignCountIsPages'
<1>0. StoreTypeOK /\ StoreTypeOK'
  BY DEF Inv, TypeOK
<1>1. /\ \A x \in DOMAIN docStep : docStep'[x] = docStep[x]
      /\ \A x \in DOMAIN pdf : pdf'[x] = pdf[x] /\ x \in DOMAIN docStep
      /\ DOMAIN docStep \subseteq DOMAIN docStep' /\ DOMAIN pdf \subseteq DOMAIN pdf'
  BY <1>0 DEF Grows, StoreTypeOK
<1>2. \A x \in DOMAIN pdf : PdfSound(x)'
  BY PdfStands
<1>8. (\A x \in DOMAIN pdf : PdfSound(x))' =>
        CoversItsBase' /\ SignedIsLater' /\ SignCountIsPages'
  BY DEF PdfSound, CoversItsBase, SignedIsLater, SignCountIsPages
<1>3. CASE UNCHANGED pdf /\ \A x \in DOMAIN docStep' \ DOMAIN docStep : docStep'[x].signCount = 0
  <2>1. NoPdfNoSignature'
    BY <1>1, <1>3 DEF Inv, NoPdfNoSignature
  <2>. QED
    BY <1>2, <1>8, <1>3, <2>1
<1>4. CASE PdfAdded
  <2>1. PICK r \in DOMAIN docStep \ DOMAIN pdf, c \in Contents :
          /\ pdf' = Upsert(pdf, Row(r, c))
          /\ c.pages = <<>>
          /\ docStep[r].signCount = 0
          /\ UNCHANGED docStep
    BY <1>4 DEF PdfAdded
  <2>2. DOMAIN pdf' = DOMAIN pdf \cup {r} /\ pdf'[r] = c
    BY <2>1 DEF Upsert, Row
  <2>3. ~Signed(r)'
    BY <2>1, <2>2 DEF Signed
  <2>4. docStep'[r].signCount = Len(pdf'[r].pages)
    BY <2>1, <2>2
  <2>5. NoPdfNoSignature'
    BY <2>1, <2>2 DEF Inv, NoPdfNoSignature
  <2>6. PdfSound(r)'
    BY <2>3, <2>4 DEF PdfSound
  <2>. QED
    BY <1>2, <1>8, <2>2, <2>5, <2>6
<1>5. CASE SignedAdded
  <2>1. PICK r \in FreshRefs, base \in DOMAIN pdf, s \in Sigs, count \in Nat :
          /\ docStep' = Upsert(docStep, Row(r, SignedStep(base, count)))
          /\ pdf' = Upsert(pdf, Row(r, SignedContents(base, s)))
          /\ docStep[base].step < count
    BY <1>5 DEF SignedAdded
  <2>2. /\ DOMAIN pdf' = DOMAIN pdf \cup {r}
        /\ pdf'[r] = SignedContents(base, s)
        /\ DOMAIN docStep' = DOMAIN docStep \cup {r}
        /\ docStep'[r] = SignedStep(base, count)
    BY <2>1 DEF Upsert, Row
  <2>3. PdfSound(r)'
    BY <2>1, <2>2, SignedStands
  <2>4. NoPdfNoSignature'
    BY <1>1, <2>2 DEF Inv, NoPdfNoSignature
  <2>. QED
    BY <1>2, <1>8, <2>2, <2>3, <2>4
<1>6. CASE UNCHANGED <<docStep, pdf>>
  BY <1>3, <1>6
<1>7. CASE StepAdded
  <2>1. \A x \in DOMAIN docStep' \ DOMAIN docStep : docStep'[x].signCount = 0
    BY <1>7 DEF StepAdded, Upsert, Row
  <2>. QED
    BY <1>3, <1>7, <2>1 DEF StepAdded
<1>. QED
  BY <1>4, <1>5, <1>6, <1>7 DEF TableStep

-----------------------------------------------------------------------------
(* First steps *)

FirstOf(d) == {r \in StepsOf(d) : docStep[r].step = 0}

\* A document has a step, so its steps are numbered from one on.
LEMMA StepsExist ==
  ASSUME StoreTypeOK, OneFirstStep, NEW d \in DOMAIN boxDoc
  PROVE  0 < StepCount(d)
<1>1. Cardinality(FirstOf(d)) = 1
  BY DEF OneFirstStep, FirstOf
<1>2. Cardinality(FirstOf(d)) <= Cardinality(StepsOf(d))
  BY StepsFinite, FS_Subset DEF FirstOf
<1>. QED
  BY <1>1, <1>2, StepsFinite DEF StepCount

\* A later step does not change which step is the first.
LEMMA LaterStepInserted ==
  ASSUME StoreTypeOK, OneFirstStep, NEW r \in FreshRefs, NEW row \in StepRow,
         docStep' = Upsert(docStep, Row(r, row)), 0 < row.step,
         DOMAIN boxDoc' = DOMAIN boxDoc
  PROVE  OneFirstStep'
<1>1. /\ DOMAIN docStep' = DOMAIN docStep \cup {r}
      /\ docStep'[r] = row
      /\ \A x \in DOMAIN docStep : docStep'[x] = docStep[x]
      /\ r \notin DOMAIN docStep
  BY DEF Upsert, Row, FreshRefs
<1>2. row.step # 0
  BY DEF StepRow
<1>3. ASSUME NEW d \in DOMAIN boxDoc
      PROVE  FirstOf(d)' = FirstOf(d)
  BY <1>1, <1>2 DEF FirstOf, StepsOf
<1>. QED
  BY <1>3 DEF OneFirstStep, FirstOf

\* Every document keeps one first step.
LEMMA OneFirstStepStep ==
  ASSUME Inv, [Next]_vars
  PROVE  OneFirstStep'
<1>0. /\ StoreTypeOK /\ OneFirstStep
      /\ \A q \in Requests : req[q] \in Request /\ Knows(q)
  BY DEF Inv, TypeOK
<1>1. CASE UNCHANGED docStep /\ DOMAIN boxDoc' = DOMAIN boxDoc
  <2>1. ASSUME NEW d PROVE FirstOf(d)' = FirstOf(d)
    BY <1>1 DEF FirstOf, StepsOf
  <2>. QED
    BY <1>0, <1>1, <2>1 DEF OneFirstStep, FirstOf
<1>2. ASSUME NEW q \in Requests, InsertBoxDoc(q)
      PROVE  OneFirstStep'
  <2>0. PICK d : d = req[q].doc
    OBVIOUS
  <2>. DEFINE row == [doc |-> d, step |-> 0, signCount |-> 0]
  <2>1. CASE UNCHANGED storeVars
    BY <1>1, <2>1 DEF storeVars
  <2>2. CASE ~UNCHANGED storeVars
    <3>1. PICK r \in FreshRefs :
            /\ d \notin DOMAIN boxDoc
            /\ boxDoc' = Upsert(boxDoc, Row(d, [formDataUuid |-> req[q].uuid, version |-> 0]))
            /\ docStep' = Upsert(docStep, Row(r, row))
      BY <1>2, <2>0, <2>2 DEF InsertBoxDoc
    <3>2. /\ DOMAIN docStep' = DOMAIN docStep \cup {r}
          /\ docStep'[r] = row
          /\ \A x \in DOMAIN docStep : docStep'[x] = docStep[x]
          /\ r \notin DOMAIN docStep
          /\ DOMAIN boxDoc' = DOMAIN boxDoc \cup {d}
      BY <3>1 DEF Upsert, Row, FreshRefs
    <3>3. \A x \in DOMAIN docStep : docStep[x].doc # d
      BY <1>0, <3>1 DEF StoreTypeOK
    <3>4. FirstOf(d)' = {r}
      BY <3>2, <3>3 DEF FirstOf, StepsOf
    <3>5. Cardinality(FirstOf(d)') = 1
      BY <3>4, FS_Singleton
    <3>6. ASSUME NEW e \in DOMAIN boxDoc
          PROVE  FirstOf(e)' = FirstOf(e)
      BY <3>1, <3>2 DEF FirstOf, StepsOf
    <3>7. ASSUME NEW e \in DOMAIN boxDoc'
          PROVE  Cardinality(FirstOf(e)') = 1
      <4>1. CASE e \in DOMAIN boxDoc
        <5>1. Cardinality(FirstOf(e)) = 1
          BY <1>0, <4>1 DEF OneFirstStep, FirstOf
        <5>. QED
          BY <3>6, <4>1, <5>1
      <4>2. CASE e = d
        BY <3>5, <4>2
      <4>. QED
        BY <3>2, <3>7, <4>1, <4>2
    <3>. QED
      BY <3>7 DEF OneFirstStep, FirstOf
  <2>. QED
    BY <2>1, <2>2
<1>3. ASSUME NEW q \in Requests, InsertBoxDocStep(q)
      PROVE  OneFirstStep'
  <2>. DEFINE row == [doc |-> req[q].doc, step |-> req[q].count, signCount |-> 0]
  <2>1. CASE UNCHANGED storeVars
    BY <1>1, <2>1 DEF storeVars
  <2>2. CASE ~UNCHANGED storeVars
    <3>1. PICK r \in FreshRefs : InsertSteps(Row(r, row), ChangedDocs(q))
      BY <1>3, <2>2 DEF InsertBoxDocStep
    <3>2. req[q].doc \in DOMAIN boxDoc /\ 0 < req[q].count
      BY <1>0, <1>3 DEF InsertBoxDocStep, Knows
    <3>3. row \in StepRow
      BY <1>0, <3>2 DEF StepRow, StoreTypeOK, Request
    <3>4. docStep' = Upsert(docStep, Row(r, row)) /\ DOMAIN boxDoc' = DOMAIN boxDoc
      BY <3>1 DEF InsertSteps
    <3>. QED
      BY <1>0, <3>2, <3>3, <3>4, LaterStepInserted
  <2>. QED
    BY <2>1, <2>2
<1>4. ASSUME NEW q \in Requests, AddSignature(q)
      PROVE  OneFirstStep'
  <2>. DEFINE row == SignedStep(req[q].ref, req[q].count)
  <2>1. CASE UNCHANGED storeVars
    BY <1>1, <2>1 DEF storeVars
  <2>2. CASE ~UNCHANGED storeVars
    <3>1. PICK r \in FreshRefs : InsertSteps(Row(r, row), ChangedDocs(q))
      BY <1>4, <2>2 DEF AddSignature
    <3>2. /\ req[q].ref \in DOMAIN docStep
          /\ docStep[req[q].ref].step < req[q].count
          /\ req[q].count \in Nat
      BY <1>0, <1>4 DEF AddSignature, Knows, Request, StoreTypeOK
    <3>3. row \in StepRow /\ row.step = req[q].count
      BY <1>0, <3>2 DEF SignedStep, StepRow, StoreTypeOK
    <3>4. docStep[req[q].ref].step \in Nat
      BY <1>0, <3>2 DEF StoreTypeOK, StepRow
    <3>5. 0 < row.step
      BY <3>2, <3>3, <3>4
    <3>6. docStep' = Upsert(docStep, Row(r, row)) /\ DOMAIN boxDoc' = DOMAIN boxDoc
      BY <3>1 DEF InsertSteps
    <3>. HIDE DEF row
    <3>. QED
      BY <1>0, <3>3, <3>5, <3>6, LaterStepInserted
  <2>. QED
    BY <2>1, <2>2
<1>5. ASSUME NEW q \in Requests,
             \/ \E u \in Uuids : FormDataPut(q, u)
             \/ CreateBoxDocStep(q)
             \/ AddToSteps(q)
             \/ GeneratePdfa(q)
             \/ \E r \in Refs, s \in Sigs : DocboxSigPut(q, r, s)
             \/ CountSteps(q)
             \/ LoadBoxDoc(q)
      PROVE  UNCHANGED <<boxDoc, docStep>>
  BY <1>5 DEF FormDataPut, CreateBoxDocStep, AddToSteps, GeneratePdfa, DocboxSigPut,
              CountSteps, LoadBoxDoc, storeVars
<1>6. CASE UNCHANGED vars
  BY <1>1, <1>6 DEF vars
<1>. QED
  BY <1>1, <1>2, <1>3, <1>4, <1>5, <1>6 DEF Next

-----------------------------------------------------------------------------
(* The requests *)

\* What a request knows is not spoilt by the steps of others.
LEMMA KnowsKept ==
  ASSUME Inv, TypeOK', Grows, NEW x \in Requests, req'[x] = req[x]
  PROVE  Knows(x)'
<1>0. StoreTypeOK /\ StoreTypeOK' /\ Knows(x) /\ req[x] \in Request
  BY DEF Inv, TypeOK
<1>1. PICK d : d = req[x].doc
  OBVIOUS
<1>2. StepCount(d) <= StepCount(d)'
  BY <1>0, CountGrows
<1>3. StepCount(d) \in Nat /\ req[x].count \in Nat
  BY <1>0, StepsFinite DEF Request
<1>4. StepCount(d)' \in Nat
  <2>1. StepsOf(d)' \subseteq Refs
    BY <1>0 DEF StoreTypeOK, StepsOf
  <2>. QED
    BY <2>1, RefsFinite, FS_Subset, FS_CardinalityType DEF StepCount
<1>5. req[x].count <= StepCount(d) => req[x].count <= StepCount(d)'
  BY <1>2, <1>3, <1>4
<1>6. (req[x].count <= StepCount(req[x].doc)) => (req[x].count <= StepCount(req[x].doc))'
  BY <1>1, <1>5
<1>7. /\ DOMAIN boxDoc \subseteq DOMAIN boxDoc'
      /\ DOMAIN docStep \subseteq DOMAIN docStep'
      /\ \A r \in DOMAIN docStep : docStep'[r] = docStep[r]
      /\ \A r \in DOMAIN pdf : r \in DOMAIN pdf' /\ r \in DOMAIN docStep
  BY <1>0 DEF Grows, StoreTypeOK
<1>. QED
  BY <1>0, <1>6, <1>7 DEF Knows

\* An answered request.
LEMMA Replied ==
  ASSUME req \in [Requests -> Request], NEW q \in Requests, NEW status, NEW r, NEW c,
         Reply(q, status, r, c)
  PROVE  /\ req'[q].pc = "done" /\ req'[q].status = status
         /\ req'[q].ref = r /\ req'[q].body = c
BY DEF Reply, Request

\* A request learns what it is said to know in its own steps.
LEMMA KnowsStep ==
  ASSUME Inv, [Next]_vars, TypeOK', Grows
  PROVE  \A x \in Requests : Knows(x)'
<1>0. /\ StoreTypeOK /\ req \in [Requests -> Request]
      /\ \A q \in Requests : req[q] \in Request /\ Knows(q)
  BY DEF Inv, TypeOK
<1>1. ASSUME NEW q \in Requests, \A x \in Requests \ {q} : req'[x] = req[x], Knows(q)'
      PROVE  \A x \in Requests : Knows(x)'
  BY <1>1, KnowsKept
<1>2. ASSUME NEW q \in Requests, req'[q].pc = "done"
      PROVE  Knows(q)'
  BY <1>2 DEF Knows
<1>3. ASSUME NEW q \in Requests, NEW u \in Uuids, FormDataPut(q, u)
      PROVE  \A x \in Requests : Knows(x)'
  <2>1. \A x \in Requests \ {q} : req'[x] = req[x]
    BY <1>0, <1>3 DEF FormDataPut, Reply, Fail
  <2>2. FindStepByUuid(u) \subseteq DOMAIN docStep /\ UNCHANGED <<docStep, pdf>>
    BY <1>3 DEF FormDataPut, FindStepByUuid, Latest, storeVars
  <2>3. \/ req'[q].pc = "done"
        \/ req'[q].pc = "create" /\ req'[q].uuid = u
        \/ req'[q].pc = "convert" /\ req'[q].ref \in FindStepByUuid(u) \ DOMAIN pdf
    <3>1. CASE req' = [req EXCEPT ![q] = [@ EXCEPT !.pc = "create", !.uuid = u]]
      BY <1>0, <3>1 DEF Request
    <3>2. CASE \E r \in FindStepByUuid(u) \ DOMAIN pdf :
                 req' = [req EXCEPT ![q] = [@ EXCEPT !.pc = "convert", !.uuid = u, !.ref = r]]
      BY <1>0, <3>2 DEF Request
    <3>3. CASE \E status, r, c : Reply(q, status, r, c)
      BY <1>0, <3>3, Replied
    <3>. QED
      BY <1>3, <3>1, <3>2, <3>3 DEF FormDataPut, Fail
  <2>4. Knows(q)'
    BY <2>2, <2>3 DEF Knows, Inv, NoPdfNoSignature
  <2>. QED
    BY <1>1, <2>1, <2>4
<1>4. ASSUME NEW q \in Requests, CreateBoxDocStep(q)
      PROVE  \A x \in Requests : Knows(x)'
  <2>1. \A x \in Requests \ {q} : req'[x] = req[x]
    BY <1>0, <1>4 DEF CreateBoxDocStep
  <2>2. UNCHANGED <<boxDoc, docStep>> /\ req[q].uuid \in Uuids
    BY <1>0, <1>4 DEF CreateBoxDocStep, storeVars, Knows
  <2>3. CASE \E d \in Docs : req' = [req EXCEPT ![q] = [@ EXCEPT !.pc = "insertDoc", !.doc = d]]
    <3>1. req'[q].pc = "insertDoc" /\ req'[q].doc \in Docs /\ req'[q].uuid = req[q].uuid
      BY <1>0, <2>3 DEF Request
    <3>. QED
      BY <1>1, <2>1, <2>2, <2>3, <3>1 DEF Knows
  <2>4. CASE \E d \in DOMAIN boxDoc :
               req' = [req EXCEPT ![q] = [@ EXCEPT !.pc = "add", !.doc = d,
                                            !.version = boxDoc[d].version,
                                            !.count = StepCount(d)]]
    <3>1. PICK d \in DOMAIN boxDoc :
            req' = [req EXCEPT ![q] = [@ EXCEPT !.pc = "add", !.doc = d,
                                         !.version = boxDoc[d].version,
                                         !.count = StepCount(d)]]
      BY <2>4
    <3>2. req'[q].pc = "add" /\ req'[q].doc = d /\ req'[q].count = StepCount(d)
      BY <1>0, <3>1 DEF Request
    <3>3. StepCount(d)' = StepCount(d) /\ StepCount(d) \in Nat
      BY <1>0, <2>2, StepsFinite DEF StepCount, StepsOf
    <3>4. (req[q].count <= StepCount(req[q].doc))'
      BY <3>2, <3>3
    <3>5. 0 < StepCount(d)
      BY StepsExist DEF Inv, TypeOK
    <3>. QED
      BY <1>1, <2>1, <2>2, <3>2, <3>4, <3>5 DEF Knows
  <2>. QED
    BY <1>4, <2>3, <2>4 DEF CreateBoxDocStep
<1>5. ASSUME NEW q \in Requests, InsertBoxDoc(q) \/ InsertBoxDocStep(q)
      PROVE  \A x \in Requests : Knows(x)'
  <2>1. \A x \in Requests \ {q} : req'[x] = req[x]
    BY <1>0, <1>5 DEF InsertBoxDoc, InsertBoxDocStep, Reply, Fail
  <2>2. CASE Fail(q, 500)
    BY <1>0, <1>1, <1>2, <2>1, <2>2, Replied DEF Fail
  <2>3. CASE ~Fail(q, 500)
    <3>1. PICK r \in FreshRefs :
            /\ req' = [req EXCEPT ![q] = [@ EXCEPT !.pc = "convert", !.ref = r]]
            /\ \E n : docStep' = Upsert(docStep,
                                      Row(r, [doc |-> req[q].doc, step |-> n, signCount |-> 0]))
      <4>1. CASE InsertBoxDoc(q)
        BY <2>3, <4>1 DEF InsertBoxDoc
      <4>2. CASE InsertBoxDocStep(q)
        BY <2>3, <4>2 DEF InsertBoxDocStep, InsertSteps
      <4>. QED
        BY <1>5, <4>1, <4>2
    <3>2. r \in DOMAIN docStep' /\ docStep'[r].signCount = 0
      BY <3>1 DEF Upsert, Row
    <3>3. req'[q].pc = "convert" /\ req'[q].ref = r
      BY <1>0, <3>1 DEF Request
    <3>. QED
      BY <1>1, <2>1, <3>2, <3>3 DEF Knows
  <2>. QED
    BY <2>2, <2>3
<1>6. ASSUME NEW q \in Requests, GeneratePdfa(q) \/ AddSignature(q)
      PROVE  \A x \in Requests : Knows(x)'
  <2>0. \E status, r, c : Reply(q, status, r, c)
    <3>1. CASE GeneratePdfa(q)
      BY <3>1 DEF GeneratePdfa, Fail
    <3>2. CASE AddSignature(q)
      BY <3>2 DEF AddSignature, Fail
    <3>. QED
      BY <1>6, <3>1, <3>2
  <2>1. \A x \in Requests \ {q} : req'[x] = req[x]
    BY <1>0, <2>0 DEF Reply
  <2>2. req'[q].pc = "done"
    BY <1>0, <2>0, Replied
  <2>. QED
    BY <1>1, <1>2, <2>1, <2>2
<1>7. ASSUME NEW q \in Requests, NEW r \in Refs, NEW s \in Sigs, DocboxSigPut(q, r, s)
      PROVE  \A x \in Requests : Knows(x)'
  <2>1. \A x \in Requests \ {q} : req'[x] = req[x]
    BY <1>0, <1>7 DEF DocboxSigPut
  <2>2. UNCHANGED <<docStep, pdf>>
    BY <1>7 DEF DocboxSigPut, storeVars
  <2>3. \/ req'[q].pc = "done"
        \/ /\ r \in DOMAIN pdf
           /\ req'[q].pc = "count" /\ req'[q].ref = r /\ req'[q].sig = s
           /\ req'[q].doc = docStep[r].doc
    <3>1. CASE req' = [req EXCEPT ![q] = [@ EXCEPT !.pc = "done", !.status = 409, !.sig = s]]
      BY <1>0, <3>1 DEF Request
    <3>2. CASE /\ PdfFoundByRef(r)
               /\ req' = [req EXCEPT ![q] = [@ EXCEPT !.pc = "count", !.ref = r, !.sig = s,
                                               !.doc = docStep[r].doc]]
      BY <1>0, <3>2 DEF PdfFoundByRef, Request
    <3>. QED
      BY <1>7, <3>1, <3>2 DEF DocboxSigPut
  <2>4. Knows(q)'
    BY <2>2, <2>3 DEF Knows
  <2>. QED
    BY <1>1, <2>1, <2>4
<1>8. ASSUME NEW q \in Requests, CountSteps(q)
      PROVE  \A x \in Requests : Knows(x)'
  <2>1. \A x \in Requests \ {q} : req'[x] = req[x]
    BY <1>0, <1>8 DEF CountSteps
  <2>2. UNCHANGED <<docStep, pdf>>
    BY <1>8 DEF CountSteps, storeVars
  <2>3. PICK d : d = req[q].doc
    OBVIOUS
  <2>4. /\ req'[q].pc = "load" /\ req'[q].ref = req[q].ref /\ req'[q].sig = req[q].sig
        /\ req'[q].doc = d /\ req'[q].count = StepCount(d)
    BY <1>0, <1>8, <2>3 DEF CountSteps, Request
  <2>5. req[q].ref \in DOMAIN pdf /\ req[q].sig \in Sigs /\ d = docStep[req[q].ref].doc
    BY <1>0, <1>8, <2>3 DEF CountSteps, Knows
  <2>6. docStep[req[q].ref].step < StepCount(d)
    BY <1>0, <2>5 DEF Inv, StepBelowCount, StoreTypeOK
  <2>7. StepCount(d)' = StepCount(d) /\ StepCount(d) \in Nat
    BY <1>0, <2>2, StepsFinite DEF StepCount, StepsOf
  <2>8. (req[q].count <= StepCount(req[q].doc))'
    BY <2>4, <2>7
  <2>9. Knows(q)'
    BY <2>2, <2>4, <2>5, <2>6, <2>8 DEF Knows
  <2>. QED
    BY <1>1, <2>1, <2>9
<1>9. ASSUME NEW q \in Requests, LoadBoxDoc(q)
      PROVE  \A x \in Requests : Knows(x)'
  <2>1. \A x \in Requests \ {q} : req'[x] = req[x]
    BY <1>0, <1>9 DEF LoadBoxDoc
  <2>2. UNCHANGED <<docStep, pdf>>
    BY <1>9 DEF LoadBoxDoc, storeVars
  <2>3. PICK d : d = req[q].doc
    OBVIOUS
  <2>4. /\ req'[q].pc = "sign" /\ req'[q].ref = req[q].ref /\ req'[q].sig = req[q].sig
        /\ req'[q].doc = d /\ req'[q].count = req[q].count
    BY <1>0, <1>9, <2>3 DEF LoadBoxDoc, Request
  <2>5. /\ req[q].ref \in DOMAIN pdf /\ req[q].sig \in Sigs /\ d = docStep[req[q].ref].doc
        /\ docStep[req[q].ref].step < req[q].count /\ req[q].count <= StepCount(d)
    BY <1>0, <1>9, <2>3 DEF LoadBoxDoc, Knows
  <2>6. StepCount(d)' = StepCount(d)
    BY <2>2 DEF StepCount, StepsOf
  <2>7. (req[q].count <= StepCount(req[q].doc))'
    BY <2>4, <2>5, <2>6
  <2>8. Knows(q)'
    BY <2>2, <2>4, <2>5, <2>7 DEF Knows
  <2>. QED
    BY <1>1, <2>1, <2>8
<1>10. ASSUME NEW q \in Requests, AddToSteps(q)
       PROVE  \A x \in Requests : Knows(x)'
  <2>1. \A x \in Requests \ {q} : req'[x] = req[x]
    BY <1>0, <1>10 DEF AddToSteps
  <2>2. UNCHANGED <<boxDoc, docStep, pdf>>
    BY <1>10 DEF AddToSteps, storeVars
  <2>3. PICK d : d = req[q].doc
    OBVIOUS
  <2>4. /\ \/ req[q].pc = "add" /\ req'[q].pc = "insert"
           \/ req[q].pc = "sign" /\ req'[q].pc = "append"
        /\ req'[q].ref = req[q].ref /\ req'[q].sig = req[q].sig
        /\ req'[q].doc = d /\ req'[q].count = req[q].count
    BY <1>0, <1>10, <2>3 DEF AddToSteps, Request
  <2>5. StepCount(d)' = StepCount(d)
    BY <2>2 DEF StepCount, StepsOf
  <2>6. /\ req[q].count <= StepCount(d)
        /\ req[q].pc = "add" => d \in DOMAIN boxDoc /\ 0 < req[q].count
        /\ req[q].pc = "sign" =>
             /\ req[q].ref \in DOMAIN pdf /\ req[q].sig \in Sigs
             /\ d = docStep[req[q].ref].doc /\ docStep[req[q].ref].step < req[q].count
    BY <1>0, <1>10, <2>3 DEF AddToSteps, Knows
  <2>7. (req[q].count <= StepCount(req[q].doc))'
    BY <2>4, <2>5, <2>6
  <2>8. Knows(q)'
    BY <2>2, <2>4, <2>6, <2>7 DEF Knows
  <2>. QED
    BY <1>1, <2>1, <2>8
<1>11. CASE UNCHANGED vars
  BY <1>11, KnowsKept DEF vars
<1>. QED
  BY <1>3, <1>4, <1>5, <1>6, <1>7, <1>8, <1>9, <1>10, <1>11 DEF Next

\* An answer is given with the PDF it names, and what it says cannot change.
LEMMA AnswersStandStep ==
  ASSUME Inv, [Next]_vars, Grows, TypeOK'
  PROVE  AnswersStand'
<1>0. StoreTypeOK /\ req \in [Requests -> Request] /\ AnswersStand
  BY DEF Inv, TypeOK
<1>1. ASSUME NEW x \in Requests, req'[x] = req[x], Answered(x, {200, 201})'
      PROVE  req'[x].ref \in DOMAIN pdf' /\ pdf'[req'[x].ref] = req'[x].body
  BY <1>0, <1>1 DEF AnswersStand, Answered, Grows
<1>2. ASSUME NEW q \in Requests, \A x \in Requests \ {q} : req'[x] = req[x],
             \/ req'[q].pc # "done"
             \/ req'[q].status \notin {200, 201}
             \/ req'[q].ref \in DOMAIN pdf' /\ pdf'[req'[q].ref] = req'[q].body
      PROVE  AnswersStand'
  BY <1>1, <1>2 DEF AnswersStand, Answered
<1>3. ASSUME NEW q \in Requests, NEW u \in Uuids, FormDataPut(q, u)
      PROVE  AnswersStand'
  <2>1. \A x \in Requests \ {q} : req'[x] = req[x]
    BY <1>0, <1>3 DEF FormDataPut, Reply, Fail
  <2>2. UNCHANGED pdf
    BY <1>3 DEF FormDataPut, storeVars
  <2>3. CASE \E r \in FindStepByUuid(u) \cap DOMAIN pdf : Reply(q, 200, r, pdf[r])
    BY <1>0, <1>2, <2>1, <2>2, <2>3, Replied
  <2>4. CASE \E r \in FindStepByUuid(u) \ DOMAIN pdf :
               req' = [req EXCEPT ![q] = [@ EXCEPT !.pc = "convert", !.uuid = u, !.ref = r]]
    <3>1. req'[q].pc = "convert"
      BY <1>0, <2>4 DEF Request
    <3>. QED
      BY <1>2, <2>1, <3>1
  <2>5. CASE req' = [req EXCEPT ![q] = [@ EXCEPT !.pc = "create", !.uuid = u]]
    <3>1. req'[q].pc = "create"
      BY <1>0, <2>5 DEF Request
    <3>. QED
      BY <1>2, <2>1, <3>1
  <2>6. CASE Fail(q, 404)
    BY <1>0, <1>2, <2>1, <2>6, Replied DEF Fail
  <2>. QED
    BY <1>3, <2>3, <2>4, <2>5, <2>6 DEF FormDataPut
<1>4. ASSUME NEW q \in Requests, CreateBoxDocStep(q) \/ CountSteps(q) \/ LoadBoxDoc(q)
      PROVE  AnswersStand'
  <2>1. \A x \in Requests \ {q} : req'[x] = req[x]
    BY <1>0, <1>4 DEF CreateBoxDocStep, CountSteps, LoadBoxDoc
  <2>2. req'[q].pc # "done"
    <3>1. CASE CreateBoxDocStep(q)
      <4>1. CASE \E d : req' = [req EXCEPT ![q] = [@ EXCEPT !.pc = "insertDoc", !.doc = d]]
        BY <1>0, <4>1 DEF Request
      <4>2. CASE \E d : req' = [req EXCEPT ![q] = [@ EXCEPT !.pc = "add", !.doc = d,
                                                     !.version = boxDoc[d].version,
                                                     !.count = StepCount(d)]]
        BY <1>0, <4>2 DEF Request
      <4>. QED
        BY <3>1, <4>1, <4>2 DEF CreateBoxDocStep
    <3>2. CASE CountSteps(q)
      BY <1>0, <3>2 DEF CountSteps, Request
    <3>3. CASE LoadBoxDoc(q)
      BY <1>0, <3>3 DEF LoadBoxDoc, Request
    <3>. QED
      BY <1>4, <3>1, <3>2, <3>3
  <2>. QED
    BY <1>2, <2>1, <2>2
<1>5. ASSUME NEW q \in Requests, InsertBoxDoc(q) \/ InsertBoxDocStep(q)
      PROVE  AnswersStand'
  <2>1. \A x \in Requests \ {q} : req'[x] = req[x]
    BY <1>0, <1>5 DEF InsertBoxDoc, InsertBoxDocStep, Reply, Fail
  <2>2. CASE Fail(q, 500)
    BY <1>0, <1>2, <2>1, <2>2, Replied DEF Fail
  <2>3. CASE ~Fail(q, 500)
    <3>1. \E r \in FreshRefs :
            req' = [req EXCEPT ![q] = [@ EXCEPT !.pc = "convert", !.ref = r]]
      BY <1>5, <2>3 DEF InsertBoxDoc, InsertBoxDocStep
    <3>2. req'[q].pc = "convert"
      BY <1>0, <3>1 DEF Request
    <3>. QED
      BY <1>2, <2>1, <3>2
  <2>. QED
    BY <2>2, <2>3
<1>6. ASSUME NEW q \in Requests, GeneratePdfa(q) \/ AddSignature(q)
      PROVE  AnswersStand'
  <2>0. \E status, r, c : Reply(q, status, r, c)
    <3>1. CASE GeneratePdfa(q)
      BY <3>1 DEF GeneratePdfa, Fail
    <3>2. CASE AddSignature(q)
      BY <3>2 DEF AddSignature, Fail
    <3>. QED
      BY <1>6, <3>1, <3>2
  <2>1. \A x \in Requests \ {q} : req'[x] = req[x]
    BY <1>0, <2>0 DEF Reply
  <2>2. CASE Fail(q, 500) \/ Fail(q, 409) \/ Fail(q, 404)
    BY <1>0, <1>2, <2>1, <2>2, Replied DEF Fail
  <2>3. CASE ~(Fail(q, 500) \/ Fail(q, 409) \/ Fail(q, 404))
    <3>1. \E status, r, c : pdf' = Upsert(pdf, Row(r, c)) /\ Reply(q, status, r, c)
      <4>1. CASE GeneratePdfa(q)
        BY <2>3, <4>1 DEF GeneratePdfa
      <4>2. CASE AddSignature(q)
        BY <2>3, <4>2 DEF AddSignature
      <4>. QED
        BY <1>6, <4>1, <4>2
    <3>2. PICK status, r, c : pdf' = Upsert(pdf, Row(r, c)) /\ Reply(q, status, r, c)
      BY <3>1
    <3>3. r \in DOMAIN pdf' /\ pdf'[r] = c
      BY <3>2 DEF Upsert, Row
    <3>. QED
      BY <1>0, <1>2, <2>1, <3>2, <3>3, Replied
  <2>. QED
    BY <2>2, <2>3
<1>7. ASSUME NEW q \in Requests, NEW r \in Refs, NEW s \in Sigs, DocboxSigPut(q, r, s)
      PROVE  AnswersStand'
  <2>1. \A x \in Requests \ {q} : req'[x] = req[x]
    BY <1>0, <1>7 DEF DocboxSigPut
  <2>2. CASE req' = [req EXCEPT ![q] = [@ EXCEPT !.pc = "done", !.status = 409, !.sig = s]]
    <3>1. req'[q].status = 409
      BY <1>0, <2>2 DEF Request
    <3>. QED
      BY <1>2, <2>1, <3>1
  <2>3. CASE req' = [req EXCEPT ![q] = [@ EXCEPT !.pc = "count", !.ref = r, !.sig = s,
                                           !.doc = docStep[r].doc]]
    <3>1. req'[q].pc = "count"
      BY <1>0, <2>3 DEF Request
    <3>. QED
      BY <1>2, <2>1, <3>1
  <2>. QED
    BY <1>7, <2>2, <2>3 DEF DocboxSigPut
<1>8. ASSUME NEW q \in Requests, AddToSteps(q)
      PROVE  AnswersStand'
  <2>1. \A x \in Requests \ {q} : req'[x] = req[x]
    BY <1>0, <1>8 DEF AddToSteps
  <2>2. req'[q].pc # "done"
    BY <1>0, <1>8 DEF AddToSteps, Request
  <2>. QED
    BY <1>2, <2>1, <2>2
<1>9. CASE UNCHANGED vars
  BY <1>1, <1>9 DEF vars, AnswersStand
<1>. QED
  BY <1>3, <1>4, <1>5, <1>6, <1>7, <1>8, <1>9 DEF Next

-----------------------------------------------------------------------------
(* Adding a signature is all or nothing *)

SignedSteps == {r \in DOMAIN pdf : Signed(r)}
Signers == {q \in Requests : Answered(q, {200}) /\ req[q].sig # None}

\* A request that has not been received has no signature, so that an answer to a
\* request for a document is none to one with a signature.
NewHasNoSignature == \A q \in Requests : req[q].pc = "new" => req[q].sig = None

AllOrNothing == OneStepPerSignature /\ IsFiniteSet(Signers) /\ NewHasNoSignature

\* A step of one request that ends none with a signature added.
LEMMA SameSigners ==
  ASSUME NEW q \in Requests, \A x \in Requests \ {q} : req'[x] = req[x],
         ~ (Answered(q, {200}) /\ req[q].sig # None),
         ~ (Answered(q, {200}) /\ req[q].sig # None)'
  PROVE  Signers' = Signers
BY DEF Signers, Answered

\* One that ends with its signature added.
LEMMA OneMoreSigner ==
  ASSUME NEW q \in Requests, \A x \in Requests \ {q} : req'[x] = req[x],
         (Answered(q, {200}) /\ req[q].sig # None)'
  PROVE  Signers' = Signers \cup {q}
BY DEF Signers, Answered

\* The signed steps are as many as before if none is added or contents without
\* pages are.
LEMMA SameSignedSteps ==
  ASSUME StoreTypeOK,
         \/ UNCHANGED pdf
         \/ \E r, c : r \notin DOMAIN pdf /\ c.pages = <<>> /\ pdf' = Upsert(pdf, Row(r, c))
  PROVE  SignedSteps' = SignedSteps
<1>1. CASE UNCHANGED pdf
  BY <1>1 DEF SignedSteps, Signed
<1>2. ASSUME NEW r, NEW c, r \notin DOMAIN pdf, c.pages = <<>>, pdf' = Upsert(pdf, Row(r, c))
      PROVE  SignedSteps' = SignedSteps
  <2>1. /\ DOMAIN pdf' = DOMAIN pdf \cup {r}
        /\ pdf'[r] = c
        /\ \A x \in DOMAIN pdf : pdf'[x] = pdf[x]
    BY <1>2 DEF Upsert, Row
  <2>. QED
    BY <1>2, <2>1 DEF SignedSteps, Signed
<1>. QED
  BY <1>1, <1>2

\* A copy with one page more is one more.
LEMMA OneMoreSignedStep ==
  ASSUME StoreTypeOK, NEW base \in DOMAIN pdf, NEW s \in Sigs, NEW r, r \notin DOMAIN pdf,
         pdf' = Upsert(pdf, Row(r, SignedContents(base, s)))
  PROVE  SignedSteps' = SignedSteps \cup {r} /\ r \notin SignedSteps
<1>1. /\ DOMAIN pdf' = DOMAIN pdf \cup {r}
      /\ pdf'[r] = SignedContents(base, s)
      /\ \A x \in DOMAIN pdf : pdf'[x] = pdf[x]
  BY DEF Upsert, Row
<1>2. pdf[base].pages \in Seq(Page)
  BY DEF StoreTypeOK, Contents
<1>3. pdf'[r].pages # <<>>
  BY <1>1, <1>2 DEF SignedContents
<1>. QED
  BY <1>1, <1>3 DEF SignedSteps, Signed

\* The parts of AllOrNothing but NewHasNoSignature, for what a step does.
LEMMA Balanced ==
  ASSUME StoreTypeOK, AllOrNothing,
         \/ SignedSteps' = SignedSteps /\ Signers' = Signers
         \/ \E r, q : /\ r \notin SignedSteps /\ SignedSteps' = SignedSteps \cup {r}
                      /\ q \notin Signers /\ Signers' = Signers \cup {q}
  PROVE  OneStepPerSignature' /\ IsFiniteSet(Signers')
<1>1. SignedSteps \subseteq Refs
  BY DEF StoreTypeOK, SignedSteps
<1>2. IsFiniteSet(SignedSteps) /\ IsFiniteSet(Signers)
  BY <1>1, RefsFinite, FS_Subset DEF AllOrNothing
<1>3. OneStepPerSignature = (Cardinality(SignedSteps) = Cardinality(Signers))
  BY DEF OneStepPerSignature, SignedSteps, Signers
<1>4. OneStepPerSignature' = (Cardinality(SignedSteps') = Cardinality(Signers'))
  BY DEF OneStepPerSignature, SignedSteps, Signers
<1>5. CASE SignedSteps' = SignedSteps /\ Signers' = Signers
  BY <1>2, <1>3, <1>4, <1>5 DEF AllOrNothing
<1>6. ASSUME NEW r, NEW q, r \notin SignedSteps, SignedSteps' = SignedSteps \cup {r},
             q \notin Signers, Signers' = Signers \cup {q}
      PROVE  OneStepPerSignature' /\ IsFiniteSet(Signers')
  <2>1. Cardinality(SignedSteps') = Cardinality(SignedSteps) + 1
    BY <1>2, <1>6, FS_AddElement
  <2>2. Cardinality(Signers') = Cardinality(Signers) + 1 /\ IsFiniteSet(Signers')
    BY <1>2, <1>6, FS_AddElement
  <2>. QED
    BY <1>3, <1>4, <2>1, <2>2 DEF AllOrNothing
<1>. QED
  BY <1>5, <1>6

\* An answer leaves the signature as it is.
LEMMA SignatureKept ==
  ASSUME req \in [Requests -> Request], NEW q \in Requests, NEW status, NEW r, NEW c,
         Reply(q, status, r, c)
  PROVE  req'[q].sig = req[q].sig /\ \A x \in Requests \ {q} : req'[x] = req[x]
BY DEF Reply, Request

\* Every step adds a signed step and tells so, or does neither.
LEMMA AllOrNothingStep ==
  ASSUME Inv, AllOrNothing, [Next]_vars
  PROVE  AllOrNothing'
<1>0. /\ StoreTypeOK /\ req \in [Requests -> Request]
      /\ \A q \in Requests : req[q] \in Request /\ Knows(q)
      /\ NewHasNoSignature
  BY DEF Inv, TypeOK, AllOrNothing
<1>1. ASSUME NEW q \in Requests, \A x \in Requests \ {q} : req'[x] = req[x],
             req[q].pc # "done", req'[q].pc # "new",
             req'[q].pc # "done" \/ req'[q].status # 200 \/ req'[q].sig = None,
             SignedSteps' = SignedSteps
      PROVE  AllOrNothing'
  <2>1. Signers' = Signers
    BY <1>1, SameSigners DEF Answered
  <2>2. NewHasNoSignature'
    BY <1>0, <1>1 DEF NewHasNoSignature
  <2>. QED
    BY <1>0, <1>1, <2>1, <2>2, Balanced DEF AllOrNothing
<1>2. ASSUME NEW q \in Requests, req[q].pc # "done",
             \E status \in {201, 404, 409, 500} : \E r, c : Reply(q, status, r, c),
             SignedSteps' = SignedSteps
      PROVE  AllOrNothing'
  <2>0. PICK status \in {201, 404, 409, 500} : \E r, c : Reply(q, status, r, c)
    BY <1>2
  <2>1. PICK r, c : Reply(q, status, r, c)
    BY <2>0
  <2>2. req'[q].pc = "done" /\ req'[q].status # 200
    BY <1>0, <2>1, Replied
  <2>3. \A x \in Requests \ {q} : req'[x] = req[x]
    BY <1>0, <2>1, SignatureKept
  <2>. QED
    BY <1>1, <1>2, <2>2, <2>3
<1>3. ASSUME UNCHANGED storeVars
      PROVE  SignedSteps' = SignedSteps
  BY <1>0, <1>3, SameSignedSteps DEF storeVars
<1>4. ASSUME NEW q \in Requests, NEW u \in Uuids, FormDataPut(q, u)
      PROVE  AllOrNothing'
  <2>0. req[q].pc = "new" /\ req[q].sig = None /\ SignedSteps' = SignedSteps
    BY <1>0, <1>3, <1>4 DEF FormDataPut, NewHasNoSignature
  <2>1. CASE \E r, c : Reply(q, 200, r, c)
    <3>1. PICK r, c : Reply(q, 200, r, c)
      BY <2>1
    <3>2. req'[q].sig = None /\ (\A x \in Requests \ {q} : req'[x] = req[x]) /\ req'[q].pc = "done"
      BY <1>0, <2>0, <3>1, SignatureKept, Replied
    <3>. QED
      BY <1>1, <2>0, <3>2
  <2>2. CASE \E r : req' = [req EXCEPT ![q] = [@ EXCEPT !.pc = "convert", !.uuid = u, !.ref = r]]
    <3>1. (\A x \in Requests \ {q} : req'[x] = req[x]) /\ req'[q].pc = "convert"
      BY <1>0, <2>2 DEF Request
    <3>. QED
      BY <1>1, <2>0, <3>1
  <2>3. CASE req' = [req EXCEPT ![q] = [@ EXCEPT !.pc = "create", !.uuid = u]]
    <3>1. (\A x \in Requests \ {q} : req'[x] = req[x]) /\ req'[q].pc = "create"
      BY <1>0, <2>3 DEF Request
    <3>. QED
      BY <1>1, <2>0, <3>1
  <2>4. CASE Fail(q, 404)
    BY <1>2, <2>0, <2>4 DEF Fail
  <2>. QED
    BY <1>4, <2>1, <2>2, <2>3, <2>4 DEF FormDataPut
<1>5. ASSUME NEW q \in Requests, CreateBoxDocStep(q)
      PROVE  AllOrNothing'
  <2>0. req[q].pc = "create" /\ SignedSteps' = SignedSteps
    BY <1>3, <1>5 DEF CreateBoxDocStep
  <2>1. CASE \E d : req' = [req EXCEPT ![q] = [@ EXCEPT !.pc = "insertDoc", !.doc = d]]
    <3>1. (\A x \in Requests \ {q} : req'[x] = req[x]) /\ req'[q].pc = "insertDoc"
      BY <1>0, <2>1 DEF Request
    <3>. QED
      BY <1>1, <2>0, <3>1
  <2>2. CASE \E d : req' = [req EXCEPT ![q] = [@ EXCEPT !.pc = "add", !.doc = d,
                                                 !.version = boxDoc[d].version,
                                                 !.count = StepCount(d)]]
    <3>1. (\A x \in Requests \ {q} : req'[x] = req[x]) /\ req'[q].pc = "add"
      BY <1>0, <2>2 DEF Request
    <3>. QED
      BY <1>1, <2>0, <3>1
  <2>. QED
    BY <1>5, <2>1, <2>2 DEF CreateBoxDocStep
<1>6. ASSUME NEW q \in Requests, CountSteps(q) \/ LoadBoxDoc(q) \/ AddToSteps(q)
      PROVE  AllOrNothing'
  <2>0. req[q].pc \in {"count", "load", "add", "sign"} /\ SignedSteps' = SignedSteps
    BY <1>3, <1>6 DEF CountSteps, LoadBoxDoc, AddToSteps
  <2>1. \A x \in Requests \ {q} : req'[x] = req[x]
    BY <1>0, <1>6 DEF CountSteps, LoadBoxDoc, AddToSteps
  <2>2. req'[q].pc \in {"load", "sign", "insert", "append"}
    <3>1. CASE CountSteps(q)
      BY <1>0, <3>1 DEF CountSteps, Request
    <3>2. CASE LoadBoxDoc(q)
      BY <1>0, <3>2 DEF LoadBoxDoc, Request
    <3>3. CASE AddToSteps(q)
      BY <1>0, <3>3 DEF AddToSteps, Request
    <3>. QED
      BY <1>6, <3>1, <3>2, <3>3
  <2>. QED
    BY <1>1, <2>0, <2>1, <2>2
<1>7. ASSUME NEW q \in Requests, InsertBoxDoc(q) \/ InsertBoxDocStep(q)
      PROVE  AllOrNothing'
  <2>0. req[q].pc \in {"insertDoc", "insert"} /\ UNCHANGED pdf
    BY <1>7 DEF InsertBoxDoc, InsertBoxDocStep, storeVars
  <2>1. SignedSteps' = SignedSteps
    BY <1>0, <2>0, SameSignedSteps
  <2>2. CASE Fail(q, 500)
    BY <1>2, <2>0, <2>1, <2>2 DEF Fail
  <2>3. CASE ~Fail(q, 500)
    <3>1. \E r \in FreshRefs :
            req' = [req EXCEPT ![q] = [@ EXCEPT !.pc = "convert", !.ref = r]]
      BY <1>7, <2>3 DEF InsertBoxDoc, InsertBoxDocStep
    <3>2. (\A x \in Requests \ {q} : req'[x] = req[x]) /\ req'[q].pc = "convert"
      BY <1>0, <3>1 DEF Request
    <3>. QED
      BY <1>1, <2>0, <2>1, <3>2
  <2>. QED
    BY <2>2, <2>3
<1>8. ASSUME NEW q \in Requests, GeneratePdfa(q)
      PROVE  AllOrNothing'
  <2>1. req[q].pc # "done" /\ \E status \in {201, 404, 409, 500} : \E r, c : Reply(q, status, r, c)
    BY <1>8 DEF GeneratePdfa, Fail
  <2>2. \/ UNCHANGED pdf
        \/ \E r, c : r \notin DOMAIN pdf /\ c.pages = <<>> /\ pdf' = Upsert(pdf, Row(r, c))
    <3>. DEFINE contents == [origin |-> q, pages |-> <<>>]
    <3>1. contents.pages = <<>>
      OBVIOUS
    <3>. HIDE DEF contents
    <3>2. \/ UNCHANGED pdf
          \/ req[q].ref \notin DOMAIN pdf /\ pdf' = Upsert(pdf, Row(req[q].ref, contents))
      BY <1>8 DEF GeneratePdfa, storeVars, contents
    <3>. QED
      BY <3>1, <3>2
  <2>3. SignedSteps' = SignedSteps
    BY <1>0, <2>2, SameSignedSteps
  <2>. QED
    BY <1>2, <2>1, <2>3
<1>9. ASSUME NEW q \in Requests, NEW r \in Refs, NEW s \in Sigs, DocboxSigPut(q, r, s)
      PROVE  AllOrNothing'
  <2>0. req[q].pc = "new" /\ SignedSteps' = SignedSteps
    BY <1>3, <1>9 DEF DocboxSigPut
  <2>1. CASE req' = [req EXCEPT ![q] = [@ EXCEPT !.pc = "done", !.status = 409, !.sig = s]]
    <3>1. /\ \A x \in Requests \ {q} : req'[x] = req[x]
          /\ req'[q].pc = "done" /\ req'[q].status = 409
      BY <1>0, <2>1 DEF Request
    <3>. QED
      BY <1>1, <2>0, <3>1
  <2>2. CASE req' = [req EXCEPT ![q] = [@ EXCEPT !.pc = "count", !.ref = r, !.sig = s,
                                           !.doc = docStep[r].doc]]
    <3>1. (\A x \in Requests \ {q} : req'[x] = req[x]) /\ req'[q].pc = "count"
      BY <1>0, <2>2 DEF Request
    <3>. QED
      BY <1>1, <2>0, <3>1
  <2>. QED
    BY <1>9, <2>1, <2>2 DEF DocboxSigPut
<1>10. ASSUME NEW q \in Requests, AddSignature(q)
       PROVE  AllOrNothing'
  <2>0. /\ req[q].pc = "append" /\ q \notin Signers
        /\ req[q].ref \in DOMAIN pdf /\ req[q].sig \in Sigs
    BY <1>0, <1>10 DEF AddSignature, Knows, Signers, Answered
  <2>1. CASE UNCHANGED storeVars /\ Fail(q, 500)
    BY <1>2, <1>3, <2>0, <2>1 DEF Fail
  <2>2. CASE ~(UNCHANGED storeVars /\ Fail(q, 500))
    <3>. DEFINE contents == SignedContents(req[q].ref, req[q].sig)
    <3>1. PICK r \in FreshRefs : pdf' = Upsert(pdf, Row(r, contents)) /\ Reply(q, 200, r, contents)
      BY <1>10, <2>2 DEF AddSignature
    <3>2. r \notin DOMAIN pdf
      BY <1>0, <3>1 DEF FreshRefs, StoreTypeOK
    <3>3. SignedSteps' = SignedSteps \cup {r} /\ r \notin SignedSteps
      BY <1>0, <2>0, <3>1, <3>2, OneMoreSignedStep
    <3>. HIDE DEF contents
    <3>4. /\ req'[q].sig = req[q].sig /\ req'[q].pc = "done" /\ req'[q].status = 200
          /\ \A x \in Requests \ {q} : req'[x] = req[x]
      BY <1>0, <3>1, SignatureKept, Replied
    <3>5. Signers' = Signers \cup {q}
      BY <2>0, <3>4, OneMoreSigner, NoneIsNoSignature DEF Answered
    <3>6. NewHasNoSignature'
      BY <1>0, <3>4 DEF NewHasNoSignature
    <3>. QED
      BY <1>0, <2>0, <3>3, <3>5, <3>6, Balanced DEF AllOrNothing
  <2>. QED
    BY <2>1, <2>2
<1>11. CASE UNCHANGED vars
  <2>1. SignedSteps' = SignedSteps /\ Signers' = Signers /\ NewHasNoSignature'
    BY <1>0, <1>11 DEF vars, SignedSteps, Signed, Signers, Answered, NewHasNoSignature
  <2>. QED
    BY <1>0, <2>1, Balanced DEF AllOrNothing
<1>. QED
  BY <1>4, <1>5, <1>6, <1>7, <1>8, <1>9, <1>10, <1>11 DEF Next

-----------------------------------------------------------------------------
(* The theorems *)

\* The inductive invariant holds at the start.
LEMMA InitInv == Init => Inv
<1>. SUFFICES ASSUME Init PROVE Inv
  OBVIOUS
<1>1. DOMAIN boxDoc = {} /\ DOMAIN docStep = {} /\ DOMAIN pdf = {}
  BY DEF Init, StoreInit, Empty
<1>2. StoreTypeOK
  BY DEF Init, StoreInit, Empty, StoreTypeOK
<1>3. NewRequest \in Request
  BY DEF NewRequest, Request, Phase
<1>4. \A q \in Requests : req[q] = NewRequest
  BY DEF Init
<1>5. TypeOK
  BY <1>2, <1>3 DEF TypeOK, Init
<1>6. \A q \in Requests : Knows(q)
  BY <1>4 DEF Knows, NewRequest
<1>7. AnswersStand
  BY <1>4 DEF AnswersStand, Answered, NewRequest
<1>. QED
  BY <1>1, <1>5, <1>6, <1>7
  DEF Inv, OneFirstStep, StepBelowCount, NoPdfNoSignature, CoversItsBase, SignedIsLater,
      SignCountIsPages

\* Every step of the requests keeps the inductive invariant.
LEMMA NextInv == Inv /\ [Next]_vars => Inv'
<1>. SUFFICES ASSUME Inv, [Next]_vars PROVE Inv'
  OBVIOUS
<1>1. TypeOK' /\ Grows
  BY TypeStep
<1>2. TableStep
  BY TableSteps
<1>3. StepBelowCount'
  BY <1>1, <1>2, StepBelowCountStep
<1>4. NoPdfNoSignature' /\ CoversItsBase' /\ SignedIsLater' /\ SignCountIsPages'
  BY <1>1, <1>2, TablesStep
<1>5. (\A q \in Requests : Knows(q))'
  BY <1>1, KnowsStep
<1>6. AnswersStand'
  BY <1>1, AnswersStandStep
<1>7. OneFirstStep'
  BY OneFirstStepStep
<1>. QED
  BY <1>1, <1>3, <1>4, <1>5, <1>6, <1>7 DEF Inv

\* However many requests interleave in the methods of RestDocController and
\* RestSigController, the inductive invariant holds.
THEOREM Invariance == Spec => []Inv
  BY InitInv, NextInv, PTL DEF Spec

\* The tables and the requests have their types.
THEOREM TypeCorrect == Spec => []TypeOK
<1>1. Inv => TypeOK
  BY DEF Inv
<1>. QED
  BY <1>1, Invariance, PTL

\* A signed step is a later step of the document of the step that was signed,
\* although the count that numbers it may be stale when it is committed.
THEOREM SignedLater == Spec => []SignedIsLater
<1>1. Inv => SignedIsLater
  BY DEF Inv
<1>. QED
  BY <1>1, Invariance, PTL

\* The contents of a signed step are those of its base and one signature page.
THEOREM CoversBase == Spec => []CoversItsBase
<1>1. Inv => CoversItsBase
  BY DEF Inv
<1>. QED
  BY <1>1, Invariance, PTL

\* No race of requests makes a second first step of a document, or none.
THEOREM FirstStep == Spec => []OneFirstStep
<1>1. Inv => OneFirstStep
  BY DEF Inv
<1>. QED
  BY <1>1, Invariance, PTL

\* The number of signatures that is reported is that of the pages in the PDF.
THEOREM SignCount == Spec => []SignCountIsPages
<1>1. Inv => SignCountIsPages
  BY DEF Inv
<1>. QED
  BY <1>1, Invariance, PTL

\* A successful answer names a PDF that stays as it was when it was given.
THEOREM AnswerStands == Spec => []AnswersStand
<1>1. Inv => AnswersStand
  BY DEF Inv
<1>. QED
  BY <1>1, Invariance, PTL

\* As many signed steps are stored as clients were told that theirs was added:
\* a request that was refused, or that fails at the stale version of the document
\* at its commit, leaves none.
THEOREM SignatureIsOneStep == Spec => []OneStepPerSignature
<1>1. Init => AllOrNothing
  <2>. SUFFICES ASSUME Init PROVE AllOrNothing
    OBVIOUS
  <2>1. \A q \in Requests : req[q] = NewRequest
    BY DEF Init
  <2>2. SignedSteps = {} /\ Signers = {}
    BY <2>1 DEF Init, StoreInit, Empty, SignedSteps, Signers, Answered, NewRequest
  <2>3. OneStepPerSignature
    BY <2>2 DEF OneStepPerSignature, SignedSteps, Signers
  <2>. QED
    BY <2>1, <2>2, <2>3, FS_EmptySet DEF AllOrNothing, NewHasNoSignature, NewRequest
<1>2. AllOrNothing => OneStepPerSignature
  BY DEF AllOrNothing
<1>. QED
  BY <1>1, <1>2, Invariance, AllOrNothingStep, PTL DEF Spec

-----------------------------------------------------------------------------
(* The refinement of SignedCopies *)

\* A copy of a PDF with one more page.
LEMMA PageAdded ==
  \A d, o, p, s, r, copy :
    copy = [doc |-> d, origin |-> o, pages |-> p] =>
      Store!WithPage(copy, s, r) =
        [doc |-> d, origin |-> o, pages |-> Append(p, [sig |-> s, over |-> r])]
BY DEF Store!WithPage

\* Every change of the tables is a step of SignedCopies or none.
LEMMA CopiesStep ==
  ASSUME Inv, [Next]_vars
  PROVE  [Store!Next]_Copies
<1>0. Grows /\ TableStep /\ StoreTypeOK /\ StoreTypeOK'
  BY TypeStep, TableSteps DEF Inv, TypeOK
<1>1. /\ DOMAIN Copies = DOMAIN pdf
      /\ \A x \in DOMAIN pdf :
           Copies[x] = [doc |-> docStep[x].doc, origin |-> pdf[x].origin, pages |-> pdf[x].pages]
  BY DEF Copies
<1>2. /\ DOMAIN Copies' = DOMAIN pdf'
      /\ \A x \in DOMAIN pdf' :
           Copies'[x] = [doc |-> docStep'[x].doc, origin |-> pdf'[x].origin,
                         pages |-> pdf'[x].pages]
  BY DEF Copies
<1>3. \A x \in DOMAIN pdf : x \in DOMAIN docStep /\ docStep'[x] = docStep[x] /\ pdf'[x] = pdf[x]
  BY <1>0 DEF Grows, StoreTypeOK
<1>4. Store!Keep
  BY <1>0, <1>1, <1>2, <1>3 DEF Store!Keep, Grows
<1>5. CASE UNCHANGED pdf
  <2>1. Copies' = Copies
    BY <1>3, <1>5 DEF Copies
  <2>. QED
    BY <2>1
<1>6. CASE PdfAdded
  <2>1. PICK r \in DOMAIN docStep \ DOMAIN pdf, c \in Contents :
          pdf' = Upsert(pdf, Row(r, c)) /\ c.pages = <<>>
    BY <1>6 DEF PdfAdded
  <2>2. DOMAIN pdf' = DOMAIN pdf \cup {r} /\ pdf'[r] = c /\ r \in Refs
    BY <1>0, <2>1 DEF Upsert, Row, StoreTypeOK
  <2>3. Store!New = {r} /\ Copies'[r].pages = <<>>
    <3>1. Store!New = {r}
      BY <1>1, <1>2, <2>1, <2>2 DEF Store!New
    <3>2. Copies'[r] = [doc |-> docStep'[r].doc, origin |-> c.origin, pages |-> c.pages]
      BY <1>2, <2>2
    <3>. QED
      BY <2>1, <3>1, <3>2
  <2>. QED
    BY <1>4, <2>2, <2>3 DEF Store!Next, Store!Convert
<1>7. CASE SignedAdded
  <2>1. PICK r \in FreshRefs, base \in DOMAIN pdf, s \in Sigs, count \in Nat :
          /\ docStep' = Upsert(docStep, Row(r, SignedStep(base, count)))
          /\ pdf' = Upsert(pdf, Row(r, SignedContents(base, s)))
    BY <1>7 DEF SignedAdded
  <2>2. /\ DOMAIN pdf' = DOMAIN pdf \cup {r}
        /\ pdf'[r] = SignedContents(base, s)
        /\ docStep'[r] = SignedStep(base, count)
        /\ r \notin DOMAIN pdf
    BY <1>0, <2>1 DEF Upsert, Row, FreshRefs, StoreTypeOK
  <2>3. /\ docStep'[r].doc = docStep[base].doc
        /\ pdf'[r].origin = pdf[base].origin
        /\ pdf'[r].pages = Append(pdf[base].pages, [sig |-> s, over |-> base])
    BY <2>2 DEF SignedStep, SignedContents
  <2>4. Copies'[r] = Store!WithPage(Copies[base], s, base)
    \* Names for the parts, which the provers need not look into.
    <3>1. PICK copy : copy = Copies[base]
      OBVIOUS
    <3>2. PICK p : p = pdf[base].pages
      OBVIOUS
    <3>3. PICK d, o : d = docStep[base].doc /\ o = pdf[base].origin
      OBVIOUS
    <3>4. copy = [doc |-> d, origin |-> o, pages |-> p]
      BY <1>1, <3>1, <3>2, <3>3
    <3>5. Store!WithPage(copy, s, base) =
            [doc |-> d, origin |-> o, pages |-> Append(p, [sig |-> s, over |-> base])]
      BY <3>4, PageAdded
    <3>6. Copies'[r] = [doc |-> docStep'[r].doc, origin |-> pdf'[r].origin,
                        pages |-> pdf'[r].pages]
      BY <1>2, <2>2
    <3>7. Copies'[r] =
            [doc |-> d, origin |-> o, pages |-> Append(p, [sig |-> s, over |-> base])]
      BY <2>3, <3>2, <3>3, <3>6
    <3>. QED
      BY <3>1, <3>5, <3>7
  <2>5. Store!New = {r}
    BY <1>1, <1>2, <2>2 DEF Store!New
  <2>6. base \in DOMAIN Copies
    BY <1>1
  <2>. QED
    BY <1>4, <2>4, <2>5, <2>6 DEF Store!Next, Store!Sign
<1>. QED
  BY <1>0, <1>5, <1>6, <1>7 DEF TableStep, StepAdded

\* The tables, written by any number of concurrent requests, implement
\* SignedCopies: stored PDFs stay and new signed ones are copies with a page more.
THEOREM Refinement == Spec => StoreOnlyGrows
<1>1. Init => Store!Init
  BY DEF Init, StoreInit, Empty, Copies, Store!Init
<1>2. Inv /\ [Next]_vars => [Store!Next]_Copies
  BY CopiesStep
<1>. QED
  BY <1>1, <1>2, Invariance, PTL DEF Spec, StoreOnlyGrows, Store!Spec

-----------------------------------------------------------------------------
(* The pages of a PDF *)

\* A sequence with one more element has the same beginnings.
LEMMA Beginnings ==
  ASSUME NEW S, NEW s \in Seq(S), NEW e \in S
  PROVE  /\ DOMAIN Append(s, e) = DOMAIN s \cup {Len(s) + 1}
         /\ Append(s, e)[Len(s) + 1] = e
         /\ SubSeq(Append(s, e), 1, Len(s)) = s
         /\ \A k \in DOMAIN s : /\ Append(s, e)[k] = s[k]
                                /\ SubSeq(Append(s, e), 1, k - 1) = SubSeq(s, 1, k - 1)
<1>1. /\ DOMAIN Append(s, e) = DOMAIN s \cup {Len(s) + 1}
      /\ Append(s, e)[Len(s) + 1] = e
      /\ \A k \in DOMAIN s : Append(s, e)[k] = s[k]
  OBVIOUS
<1>2. SubSeq(Append(s, e), 1, Len(s)) = s
  OBVIOUS
<1>3. ASSUME NEW k \in DOMAIN s
      PROVE  SubSeq(Append(s, e), 1, k - 1) = SubSeq(s, 1, k - 1)
  OBVIOUS
<1>. QED
  BY <1>1, <1>2, <1>3

\* What a new PDF is.
LEMMA NewCopy ==
  ASSUME StoreTypeOK, StoreTypeOK', Grows, Store!Next, NEW r \in DOMAIN pdf' \ DOMAIN pdf
  PROVE  \/ pdf'[r].pages = <<>>
         \/ \E base \in DOMAIN pdf, s \in Sigs :
              /\ docStep'[r].doc = docStep[base].doc
              /\ pdf'[r] = SignedContents(base, s)
<1>1. /\ DOMAIN Copies = DOMAIN pdf
      /\ \A x \in DOMAIN pdf :
           Copies[x] = [doc |-> docStep[x].doc, origin |-> pdf[x].origin, pages |-> pdf[x].pages]
  BY DEF Copies
<1>2. /\ DOMAIN Copies' = DOMAIN pdf'
      /\ Copies'[r] = [doc |-> docStep'[r].doc, origin |-> pdf'[r].origin,
                       pages |-> pdf'[r].pages]
  BY DEF Copies
<1>3. r \in Store!New
  BY <1>1, <1>2 DEF Store!New
<1>4. CASE Store!Convert
  <2>1. Copies'[r].pages = <<>>
    BY <1>3, <1>4 DEF Store!Convert
  <2>. QED
    BY <1>2, <2>1
<1>5. CASE Store!Sign
  <2>1. PICK base \in DOMAIN pdf, s \in Sigs : Copies'[r] = Store!WithPage(Copies[base], s, base)
    BY <1>1, <1>3, <1>5 DEF Store!Sign
  <2>2. Copies[base] = [doc |-> docStep[base].doc, origin |-> pdf[base].origin,
                        pages |-> pdf[base].pages]
    BY <1>1
  <2>3. /\ Copies'[r].doc = docStep[base].doc
        /\ Copies'[r].origin = pdf[base].origin
        /\ Copies'[r].pages = Append(pdf[base].pages, [sig |-> s, over |-> base])
    BY <2>1, <2>2 DEF Store!WithPage
  <2>4. /\ docStep'[r].doc = docStep[base].doc /\ pdf'[r].origin = pdf[base].origin
        /\ pdf'[r].pages = Append(pdf[base].pages, [sig |-> s, over |-> base])
    BY <1>2, <2>3
  <2>5. pdf'[r] \in Contents
    BY DEF StoreTypeOK
  <2>6. pdf'[r] = [origin |-> pdf'[r].origin, pages |-> pdf'[r].pages]
    BY <2>5 DEF Contents
  <2>. QED
    BY <2>4, <2>6 DEF SignedContents
<1>. QED
  BY <1>4, <1>5 DEF Store!Next

\* One page.
PageCovers(r, k) ==
  LET over == pdf[r].pages[k].over IN
  /\ over \in DOMAIN pdf
  /\ docStep[over].doc = docStep[r].doc
  /\ pdf[over].origin = pdf[r].origin
  /\ pdf[over].pages = SubSeq(pdf[r].pages, 1, k - 1)

\* A page and all before it, as they were carried over into a signed copy.
LEMMA PageCarriedOver ==
  ASSUME StoreTypeOK, StoreTypeOK', Grows, NEW base \in DOMAIN pdf, NEW s \in Sigs,
         NEW r \in DOMAIN pdf', docStep'[r].doc = docStep[base].doc,
         pdf'[r] = SignedContents(base, s), \A k \in DOMAIN pdf[base].pages : PageCovers(base, k)
  PROVE  \A k \in DOMAIN pdf'[r].pages : PageCovers(r, k)'
<1>1. pdf[base] \in Contents /\ base \in Refs /\ base \in DOMAIN docStep
  BY DEF StoreTypeOK
<1>2. PICK p \in Seq(Page), e \in Page :
        p = pdf[base].pages /\ e = [sig |-> s, over |-> base]
  BY <1>1 DEF Contents, Page
<1>3. PICK q : q = Append(p, e)
  OBVIOUS
<1>4. pdf'[r].origin = pdf[base].origin /\ pdf'[r].pages = q
  BY <1>2, <1>3 DEF SignedContents
<1>5. pdf'[base] = pdf[base] /\ docStep'[base] = docStep[base]
  BY <1>1 DEF Grows
<1>6. ASSUME NEW k \in DOMAIN q
      PROVE  PageCovers(r, k)'
  <2>1. CASE k = Len(p) + 1
    <3>1. q[k] = e /\ SubSeq(q, 1, k - 1) = p
      BY <1>2, <1>3, <2>1, Beginnings
    <3>2. q[k].over = base
      BY <1>2, <3>1
    <3>. QED
      BY <1>2, <1>4, <1>5, <3>1, <3>2 DEF PageCovers, Grows
  <2>2. CASE k \in DOMAIN p
    <3>1. q[k] = p[k] /\ SubSeq(q, 1, k - 1) = SubSeq(p, 1, k - 1)
      BY <1>2, <1>3, <2>2, Beginnings
    <3>2. PICK over : over = p[k].over
      OBVIOUS
    <3>3. /\ over \in DOMAIN pdf /\ docStep[over].doc = docStep[base].doc
          /\ pdf[over].origin = pdf[base].origin
          /\ pdf[over].pages = SubSeq(p, 1, k - 1)
      BY <1>2, <2>2, <3>2 DEF PageCovers
    <3>4. /\ over \in DOMAIN pdf' /\ pdf'[over] = pdf[over]
          /\ docStep'[over] = docStep[over]
      BY <3>3 DEF Grows, StoreTypeOK
    <3>. QED
      BY <1>4, <3>1, <3>2, <3>3, <3>4 DEF PageCovers
  <2>. QED
    BY <1>2, <1>3, <2>1, <2>2, Beginnings
<1>. QED
  BY <1>4, <1>6

\* A step of SignedCopies keeps the pages as they should be: what they cover cannot
\* change, and a new page covers all of the PDF it is added to.
LEMMA EveryPageStep ==
  ASSUME StoreTypeOK, StoreTypeOK', Grows, [Store!Next]_Copies, EveryPageCovers
  PROVE  EveryPageCovers'
<1>1. \A r \in DOMAIN pdf : \A k \in DOMAIN pdf[r].pages : PageCovers(r, k)
  BY DEF EveryPageCovers, PageCovers
<1>2. ASSUME NEW r \in DOMAIN pdf, NEW k \in DOMAIN pdf'[r].pages
      PROVE  PageCovers(r, k)'
  <2>1. pdf'[r] = pdf[r] /\ docStep'[r] = docStep[r]
    BY DEF Grows, StoreTypeOK
  <2>2. PageCovers(r, k)
    BY <1>1, <1>2, <2>1
  <2>. QED
    BY <2>1, <2>2 DEF PageCovers, Grows, StoreTypeOK
<1>3. ASSUME NEW r \in DOMAIN pdf' \ DOMAIN pdf
      PROVE  \A k \in DOMAIN pdf'[r].pages : PageCovers(r, k)'
  <2>1. Copies' # Copies
    BY DEF Copies
  <2>2. CASE pdf'[r].pages = <<>>
    BY <2>2
  <2>3. CASE \E base \in DOMAIN pdf, s \in Sigs :
               docStep'[r].doc = docStep[base].doc /\ pdf'[r] = SignedContents(base, s)
    BY <1>1, <2>3, PageCarriedOver
  <2>. QED
    BY <2>1, <2>2, <2>3, NewCopy
<1>4. (\A r \in DOMAIN pdf : \A k \in DOMAIN pdf[r].pages : PageCovers(r, k))'
  BY <1>2, <1>3
<1>. QED
  BY <1>4 DEF EveryPageCovers, PageCovers

\* What each of the signatures of a PDF was made over can be found in the store.
THEOREM PagesCover == Spec => []EveryPageCovers
<1>1. Init => EveryPageCovers
  BY DEF Init, StoreInit, Empty, EveryPageCovers
<1>2. Inv /\ Inv' /\ [Next]_vars /\ EveryPageCovers => EveryPageCovers'
  <2>. SUFFICES ASSUME Inv, Inv', [Next]_vars, EveryPageCovers PROVE EveryPageCovers'
    OBVIOUS
  <2>. QED
    BY TypeStep, CopiesStep, EveryPageStep DEF Inv, TypeOK
<1>. QED
  BY <1>1, <1>2, Invariance, PTL DEF Spec

=============================================================================
