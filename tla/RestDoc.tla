------------------------------ MODULE RestDoc -------------------------------
(***************************************************************************)
(* The REST methods of DocBox that change documents, RestDocController     *)
(* formDataPut and RestSigController docboxSigPut, as concurrent requests. *)
(* Every service call is a database transaction of its own: what one call  *)
(* has read may be out of date in the next. An action is one query or one  *)
(* commit. PostgreSQL runs READ COMMITTED, GORM adds optimistic locking by *)
(* the version column of a row.                                            *)
(***************************************************************************)
EXTENDS BoxDoc

VARIABLE req   \* the state of every request

vars == <<boxDoc, docStep, pdf, req>>

\* new: not received yet; create, insertDoc, add, insert, convert: formDataPut;
\* count, load, sign, append: docboxSigPut; done: answered with an HTTP status.
Phase == {"new", "create", "insertDoc", "add", "insert", "convert",
          "count", "load", "sign", "append", "done"}

Request ==
  [pc: Phase, uuid: Uuids \cup {None}, ref: Refs \cup {None}, doc: Docs \cup {None},
   sig: Sigs \cup {None}, count: Nat, version: Nat, free: BOOLEAN,
   body: Contents \cup {None}, status: {0, 200, 201, 404, 409, 500}]

NewRequest ==
  [pc |-> "new", uuid |-> None, ref |-> None, doc |-> None, sig |-> None,
   count |-> 0, version |-> 0, free |-> FALSE, body |-> None, status |-> 0]

TypeOK ==
  /\ StoreTypeOK
  /\ req \in [Requests -> Request]

Init ==
  /\ StoreInit
  /\ req = [q \in Requests |-> NewRequest]

Reply(q, status, r, contents) ==
  req' = [req EXCEPT ![q] =
            [@ EXCEPT !.pc = "done", !.status = status, !.ref = r, !.body = contents]]

Fail(q, status) == Reply(q, status, None, None)

FreshRefs == Refs \ DOMAIN docStep

-----------------------------------------------------------------------------
(* PUT of form data: make the PDF document of a form instance *)

\* Find the latest step made from this form data and its PDF. Without a PDF the
\* form data are fetched from the forms database, where they may be missing.
FormDataPut(q, u) ==
  /\ req[q].pc = "new"
  /\ LET found == FindStepByUuid(u) IN
     \/ \E r \in found \cap DOMAIN pdf : Reply(q, 200, r, pdf[r])
     \/ \E r \in found \ DOMAIN pdf :
          req' = [req EXCEPT ![q] = [@ EXCEPT !.pc = "convert", !.uuid = u, !.ref = r]]
     \/ /\ found = {}
        /\ req' = [req EXCEPT ![q] = [@ EXCEPT !.pc = "create", !.uuid = u]]
     \/ /\ found \cap DOMAIN pdf = {}
        /\ Fail(q, 404)
  /\ UNCHANGED storeVars

\* createBoxDocStep(uuid), the queries: find the document or pick an unused
\* number for a new one, and count its steps.
CreateBoxDocStep(q) ==
  /\ req[q].pc = "create"
  /\ LET parents == {d \in DOMAIN boxDoc : boxDoc[d].formDataUuid = req[q].uuid} IN
     \/ \E d \in parents :
          req' = [req EXCEPT ![q] = [@ EXCEPT !.pc = "add", !.doc = d,
                                       !.version = boxDoc[d].version,
                                       !.count = StepCount(d)]]
     \/ \E d \in Docs \ DOMAIN boxDoc :
          /\ parents = {}
          /\ req' = [req EXCEPT ![q] = [@ EXCEPT !.pc = "insertDoc", !.doc = d]]
  /\ UNCHANGED storeVars

\* Mutant: the first step is saved, the document is not.
InsertStepOnly(q) ==
  /\ req[q].pc = "insertDoc"
  /\ \E r \in FreshRefs :
       /\ docStep' = Upsert(docStep, Row(r, [doc |-> req[q].doc, step |-> 0, signCount |-> 0]))
       /\ req' = [req EXCEPT ![q] = [@ EXCEPT !.pc = "convert", !.ref = r]]
  /\ UNCHANGED <<boxDoc, pdf>>

\* createBoxDocStep(uuid), the commit for a new document and its first step. The
\* primary key fails it if another request picked the same number.
InsertBoxDoc(q) ==
  /\ req[q].pc = "insertDoc"
  /\ LET d == req[q].doc IN
     \/ \E r \in FreshRefs :
          /\ d \notin DOMAIN boxDoc
          /\ boxDoc' = Upsert(boxDoc, Row(d, [formDataUuid |-> req[q].uuid, version |-> 0]))
          /\ docStep' = Upsert(docStep, Row(r, [doc |-> d, step |-> 0, signCount |-> 0]))
          /\ req' = [req EXCEPT ![q] = [@ EXCEPT !.pc = "convert", !.ref = r]]
          /\ UNCHANGED pdf
     \/ /\ d \in DOMAIN boxDoc
        /\ Fail(q, 500)
        /\ UNCHANGED storeVars

\* addToSteps loads the steps of the document, to which there may be more by now
\* than when they were counted. Both REST methods come to this.
AddToSteps(q) ==
  /\ req[q].pc \in {"add", "sign"}
  /\ req' = [req EXCEPT ![q] =
       [@ EXCEPT !.pc = IF req[q].pc = "add" THEN "insert" ELSE "append",
                 !.free = NumberFree(req[q].doc, req[q].count)]]
  /\ UNCHANGED storeVars

\* The document was not changed since this transaction loaded its row.
VersionStands(d, version) == boxDoc[d].version = version

\* Hibernate checks the version of a document whose set of steps was changed.
ChangedDocs(q) == {d \in {req[q].doc} : req[q].free}
StepStands(q) == \A d \in ChangedDocs(q) : VersionStands(d, req[q].version)

\* createBoxDocStep(uuid), the commit of a step of an existing document.
InsertBoxDocStep(q) ==
  /\ req[q].pc = "insert"
  /\ \/ \E r \in FreshRefs :
          /\ StepStands(q)
          /\ InsertSteps(Row(r, [doc |-> req[q].doc, step |-> req[q].count, signCount |-> 0]),
                         ChangedDocs(q))
          /\ req' = [req EXCEPT ![q] = [@ EXCEPT !.pc = "convert", !.ref = r]]
          /\ UNCHANGED pdf
     \/ /\ ~StepStands(q)
        /\ Fail(q, 500)
        /\ UNCHANGED storeVars

\* Mutant: nothing keeps a second PDF out, the last one is found.
GenerateAnyway(q) ==
  /\ req[q].pc = "convert"
  /\ LET contents == [origin |-> q, pages |-> <<>>] IN
     /\ pdf' = Upsert(pdf, Row(req[q].ref, contents))
     /\ Reply(q, 201, req[q].ref, contents)
  /\ UNCHANGED <<boxDoc, docStep>>

\* generatePdfa: convert the form data and store the PDF, all in one transaction.
\* A conversion that fails (409), that is killed without a message (404) or that
\* throws some other exception (500) stores none. So does one that another request
\* has overtaken (500): the version of the step, whose set of contents it changes,
\* is stale, and box_contents is unique by step and name.
GeneratePdfa(q) ==
  /\ req[q].pc = "convert"
  /\ LET r == req[q].ref
         contents == [origin |-> q, pages |-> <<>>] IN
     \/ /\ r \notin DOMAIN pdf
        /\ pdf' = Upsert(pdf, Row(r, contents))
        /\ Reply(q, 201, r, contents)
        /\ UNCHANGED <<boxDoc, docStep>>
     \/ /\ \E status \in {404, 409, 500} : Fail(q, status)
        /\ UNCHANGED storeVars

-----------------------------------------------------------------------------
(* POST of a signature: add it to a document step *)

\* The checks before anything is written. A signature that is malformed, or made
\* over another text than that of step r, is refused as well.
DocboxSigPut(q, r, s) ==
  /\ req[q].pc = "new"
  /\ \/ /\ PdfFoundByRef(r)
        /\ req' = [req EXCEPT ![q] = [@ EXCEPT !.pc = "count", !.ref = r, !.sig = s,
                                        !.doc = docStep[r].doc]]
     \/ req' = [req EXCEPT ![q] = [@ EXCEPT !.pc = "done", !.status = 409, !.sig = s]]
  /\ UNCHANGED storeVars

\* addSignature makes the new PDF from the contents found above, then
\* createBoxDocStep counts the steps of the document.
CountSteps(q) ==
  /\ req[q].pc = "count"
  /\ req' = [req EXCEPT ![q] = [@ EXCEPT !.pc = "load", !.count = StepCount(req[q].doc)]]
  /\ UNCHANGED storeVars

\* docStep.doc is a lazy proxy: the row and its version are read when its
\* document number is first used, after the count.
LoadBoxDoc(q) ==
  /\ req[q].pc = "load"
  /\ req' = [req EXCEPT ![q] = [@ EXCEPT !.pc = "sign", !.version = boxDoc[req[q].doc].version]]
  /\ UNCHANGED storeVars

\* Mutant: addSignature is not transactional, a failure leaves the step.
AddInPieces(q) ==
  /\ req[q].pc = "append"
  /\ LET base == req[q].ref
         contents == SignedContents(base, req[q].sig) IN
     \E r \in FreshRefs :
       /\ InsertSteps(Row(r, SignedStep(base, req[q].count)), ChangedDocs(q))
       /\ pdf' = Upsert(pdf, Row(r, contents))
       /\ IF StepStands(q) THEN Reply(q, 200, r, contents) ELSE Fail(q, 500)

\* The commit of addSignature. A stale BoxDoc version makes it fail with an
\* exception that docboxSigPut does not catch.
AddSignature(q) ==
  /\ req[q].pc = "append"
  /\ LET base == req[q].ref
         contents == SignedContents(base, req[q].sig) IN
     \/ \E r \in FreshRefs :
          /\ StepStands(q)
          /\ InsertSteps(Row(r, SignedStep(base, req[q].count)), ChangedDocs(q))
          /\ pdf' = Upsert(pdf, Row(r, contents))
          /\ Reply(q, 200, r, contents)
     \/ /\ ~StepStands(q)
        /\ Fail(q, 500)
        /\ UNCHANGED storeVars

Next ==
  \E q \in Requests :
    \/ \E u \in Uuids : FormDataPut(q, u)
    \/ CreateBoxDocStep(q)
    \/ InsertBoxDoc(q)
    \/ AddToSteps(q)
    \/ InsertBoxDocStep(q)
    \/ GeneratePdfa(q)
    \/ \E r \in Refs, s \in Sigs : DocboxSigPut(q, r, s)
    \/ CountSteps(q)
    \/ LoadBoxDoc(q)
    \/ AddSignature(q)

Spec == Init /\ [][Next]_vars

-----------------------------------------------------------------------------
(* Properties *)

Answered(q, S) == req[q].pc = "done" /\ req[q].status \in S

\* What a client was told stands: the docboxRef and the checksum in a successful
\* answer are those of a stored PDF, whatever other requests have done since.
AnswersStand ==
  \A q \in Requests : Answered(q, {200, 201}) =>
    /\ req[q].ref \in DOMAIN pdf
    /\ pdf[req[q].ref] = req[q].body

\* Adding a signature is all or nothing: as many signed steps exist as requests
\* were told that theirs was added, and none was left by a request that failed.
OneStepPerSignature ==
  Cardinality({r \in DOMAIN pdf : Signed(r)}) =
  Cardinality({q \in Requests : Answered(q, {200}) /\ req[q].sig # None})

\* What a request knows between its transactions. It has found a document, a step
\* or a PDF, which cannot disappear, and a count of steps, which may be too low by
\* now but is above the number of the step it is about to sign.
Knows(q) ==
  /\ req[q].pc \in {"create", "insertDoc"} => req[q].uuid \in Uuids
  /\ req[q].pc = "insertDoc" => req[q].doc \in Docs
  /\ req[q].pc \in {"add", "insert"} =>
       /\ req[q].doc \in DOMAIN boxDoc
       /\ 0 < req[q].count /\ req[q].count <= StepCount(req[q].doc)
  /\ req[q].pc = "convert" =>
       req[q].ref \in DOMAIN docStep /\ docStep[req[q].ref].signCount = 0
  /\ req[q].pc \in {"count", "load", "sign", "append"} =>
       /\ req[q].ref \in DOMAIN pdf
       /\ req[q].sig \in Sigs
       /\ req[q].doc = docStep[req[q].ref].doc
  /\ req[q].pc \in {"load", "sign", "append"} =>
       /\ docStep[req[q].ref].step < req[q].count
       /\ req[q].count <= StepCount(req[q].doc)

\* The inductive invariant behind the properties above.
Inv ==
  /\ TypeOK
  /\ OneFirstStep
  /\ StepBelowCount
  /\ NoPdfNoSignature
  /\ \A q \in Requests : Knows(q)
  /\ CoversItsBase
  /\ SignedIsLater
  /\ SignCountIsPages
  /\ AnswersStand

\* RestDocController.formDataPut, "Do not create anything in case the
\* formDataUuid has already been created": a form instance has one unsigned
\* step at most.
CreatedOnce ==
  \A r1, r2 \in DOMAIN docStep :
    /\ docStep[r1].signCount = 0
    /\ docStep[r2].signCount = 0
    /\ boxDoc[docStep[r1].doc].formDataUuid = boxDoc[docStep[r2].doc].formDataUuid
    => r1 = r2

\* RestSigController.docboxSigPut, "409 on concurrent update conflict": a client
\* whose signature was not added gets status 409.
ConflictIs409 ==
  \A q \in Requests : req[q].pc = "done" /\ req[q].sig # None => req[q].status \in {200, 409}

\* DocBox.md on adding a signature, "A concurrent update conflict occurs if the
\* target document step is not the latest": the step before a signed step is the
\* step its last signature was added to. (sigValidate counts on it as well, it
\* reports the checksum of the step before.)
SignedIsPrevious ==
  \A r \in DOMAIN pdf : Signed(r) => docStep[r].step = docStep[Base(r)].step + 1

\* DocBox.md on adding a signature, "A document number identifying the new
\* document step": no two steps have the same document number.
DocNoIdentifiesStep ==
  \A r1, r2 \in DOMAIN docStep :
    /\ docStep[r1].doc = docStep[r2].doc
    /\ docStep[r1].step = docStep[r2].step
    => r1 = r2

=============================================================================
