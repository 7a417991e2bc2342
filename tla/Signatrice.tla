----------------------------- MODULE Signatrice -----------------------------
(***************************************************************************)
(* Signing by remote order. The REST method docSigRequest orders a         *)
(* signature from the signing service and stores a SigResult. CollectJob   *)
(* polls the service for the outcome. PostprocessJob adds the signature to *)
(* the document. Both jobs are started every 3.1 seconds, whether or not   *)
(* the last run has ended: several runs may overlap. Every run is one      *)
(* database transaction over a batch of SigResults. The requests of        *)
(* RestDoc go on meanwhile, on the same documents.                         *)
(***************************************************************************)
EXTENDS RestDoc

CONSTANTS
  Txs,         \* transaction ids, each naming the signature it is to produce
  Collectors,  \* runs of CollectJob that may overlap
  Posters,     \* runs of PostprocessJob that may overlap
  First,       \* document id -> docboxRef of its first step
  FormOf       \* document id -> its form data uuid

ASSUME TxsAreSigs == Txs \subseteq Sigs
ASSUME FirstSteps == First \in [Docs -> Refs] /\ \A d, e \in Docs : First[d] = First[e] => d = e
ASSUME FormsOfDocs == FormOf \in [Docs -> Uuids]

\* None is neither a reference nor an age.
ASSUME NoneIsNothing == None \notin Refs \cup {"young", "due", "expired"}

VARIABLES
  scheme,     \* Hibernate version of the SigScheme that all requests use
  ask,        \* transaction id -> its docSigRequest
  order,      \* transaction id -> its state at the signing service
  sig,        \* transaction id -> the SigResult row, once there is one
  collector,  \* the state of every run of CollectJob
  poster      \* the state of every run of PostprocessJob

sigVars == <<scheme, ask, order, sig, collector, poster>>
allVars == <<vars, sigVars>>

\* A time stamp relative to the age window that some query applies to it.
Age == {"young", "due", "expired"}
Older(a) == IF a = "young" THEN "due" ELSE "expired"

\* The states of SigProgress, those with id 4 to 6 and 99 taken together.
Progress == {"INIT", "OUTSTANDING_TRANSACTION", "OTHER", "COMPLETE"}

\* Active: COLLECT_Q picks the progress states with id 1 to 3.
Active == {"INIT", "OUTSTANDING_TRANSACTION"}

\* The service knows an order by its progress, or failed it. The signature of a
\* complete order may be one that the checks of SigndocService refuse.
Order == {"none", "OUTSTANDING_TRANSACTION", "OTHER", "COMPLETE", "garbled", "fault"}

SigResult ==
  [ref: Refs, version: Nat, created: Age, progress: Progress, fault: BOOLEAN,
   signature: {"none", "good", "garbled"}, signed: Age \cup {None},
   out: Refs \cup {None}, conflict: BOOLEAN]

Ask == [pc: {"new", "order", "store", "stored", "failed"},
        ref: Refs \cup {None}, version: Nat]

\* A transaction of a job: the SigResults it has yet to process, its copies of
\* the rows it loaded and the ids of those it changed.
NoBatch == [todo |-> {}, rows |-> Empty, changed |-> {}, pc |-> "idle"]

\* A run of PostprocessJob also holds the steps it has made, their contents, the
\* versions of the documents whose set of steps it changes, and whether the
\* transaction must roll back.
NoPost == [todo |-> {}, rows |-> Empty, changed |-> {}, pc |-> "idle", tx |-> None,
           count |-> 0, steps |-> Empty, pdfs |-> Empty, versions |-> Empty,
           rollbackOnly |-> FALSE]

BatchOK(b) ==
  /\ b.todo \subseteq DOMAIN b.rows
  /\ DOMAIN b.rows \subseteq DOMAIN sig
  /\ b.rows \in [DOMAIN b.rows -> SigResult]
  /\ b.changed \subseteq DOMAIN b.rows \ b.todo

SigTypeOK ==
  /\ TypeOK
  /\ scheme \in Nat
  /\ ask \in [Txs -> Ask]
  /\ order \in [Txs -> Order]
  /\ DOMAIN sig \subseteq Txs
  /\ sig \in [DOMAIN sig -> SigResult]
  /\ \A c \in Collectors : BatchOK(collector[c])
  /\ \A p \in Posters : BatchOK(poster[p])

\* Documents are made before anybody is asked to sign them.
SigInit ==
  /\ boxDoc = [d \in Docs |-> [formDataUuid |-> FormOf[d], version |-> 0]]
  /\ docStep = [r \in {First[d] : d \in Docs} |->
                  [doc |-> CHOOSE d \in Docs : First[d] = r, step |-> 0, signCount |-> 0]]
  /\ pdf = [r \in DOMAIN docStep |-> [origin |-> None, pages |-> <<>>]]
  /\ req = [q \in Requests |-> NewRequest]
  /\ scheme = 0
  /\ ask = [t \in Txs |-> [pc |-> "new", ref |-> None, version |-> 0]]
  /\ order = [t \in Txs |-> "none"]
  /\ sig = Empty
  /\ collector = [c \in Collectors |-> NoBatch]
  /\ poster = [p \in Posters |-> NoPost]

-----------------------------------------------------------------------------
(* docSigRequest *)

\* checkParams: the step must be the latest, the text to be signed must name its
\* document number and checksum. The scheme is loaded, with its version.
SignCheck(t, r) ==
  /\ ask[t].pc = "new"
  /\ PdfFoundByRef(r)
  /\ ask' = [ask EXCEPT ![t] = [pc |-> "order", ref |-> r, version |-> scheme]]
  /\ UNCHANGED <<vars, scheme, order, sig, collector, poster>>

Ended(pc) == [pc |-> pc, ref |-> None, version |-> 0]

\* doSign: the call to the signing service.
DoSign(t) ==
  /\ ask[t].pc = "order"
  /\ \/ /\ order' = [order EXCEPT ![t] = "OUTSTANDING_TRANSACTION"]
        /\ ask' = [ask EXCEPT ![t].pc = "store"]
     \/ /\ ask' = [ask EXCEPT ![t] = Ended("failed")]
        /\ UNCHANGED order
  /\ UNCHANGED <<vars, scheme, sig, collector, poster>>

\* The commit of signatureRequest. Adding to the results of the scheme makes
\* Hibernate increment the version of the scheme, or fail if it is stale.
SignatureRequest(t) ==
  /\ ask[t].pc = "store"
  /\ \/ /\ scheme = ask[t].version
        /\ scheme' = scheme + 1
        /\ ask' = [ask EXCEPT ![t] = Ended("stored")]
        /\ sig' = Upsert(sig, Row(t,
             [ref |-> ask[t].ref, version |-> 0, created |-> "young", progress |-> "INIT",
              fault |-> FALSE, signature |-> "none", signed |-> None, out |-> None,
              conflict |-> FALSE]))
     \/ /\ scheme # ask[t].version
        /\ ask' = [ask EXCEPT ![t] = Ended("failed")]
        /\ UNCHANGED <<scheme, sig>>
  /\ UNCHANGED <<vars, order, collector, poster>>

-----------------------------------------------------------------------------
(* The signing service and the signing user *)

Outcome(t) ==
  /\ order[t] \in {"OUTSTANDING_TRANSACTION", "OTHER"}
  /\ \E o \in {"OTHER", "COMPLETE", "garbled", "fault"} \ {order[t]} :
       order' = [order EXCEPT ![t] = o]
  /\ UNCHANGED <<vars, scheme, ask, sig, collector, poster>>

-----------------------------------------------------------------------------
(* CollectJob *)

\* Mutant: sig_result has no version.
NoVersions(b) == TRUE

\* All changed rows are as this transaction loaded them.
RowsStand(b) == \A t \in b.changed : sig[t].version = b.rows[t].version

\* The rows after a commit. Updating a row writes all its columns, its time stamps
\* as old as they are by now.
Saved(b) ==
  [t \in DOMAIN sig |->
     IF t \in b.changed
     THEN [b.rows[t] EXCEPT !.version = @ + 1, !.created = sig[t].created,
                            !.signed = IF sig[t].signed = None THEN @ ELSE sig[t].signed]
     ELSE sig[t]]

CollectCandidates ==
  {t \in DOMAIN sig : /\ sig[t].created = "due"
                      /\ sig[t].progress \in Active
                      /\ ~sig[t].fault}

CollectAll(c) ==
  /\ collector[c].pc = "idle"
  /\ CollectCandidates # {}
  /\ collector' = [collector EXCEPT ![c] =
       [@ EXCEPT !.pc = "run", !.todo = CollectCandidates,
                 !.rows = [t \in CollectCandidates |-> sig[t]]]]
  /\ UNCHANGED <<vars, scheme, ask, order, sig, poster>>

\* Mutant: the progress of the service is stored as it is.
CollectedRaw(row, o) ==
  IF o = "fault" THEN [row EXCEPT !.fault = TRUE] ELSE [row EXCEPT !.progress = o]

\* What the answer of the service makes of a row.
Collected(row, o) ==
  CASE o = "fault" -> [row EXCEPT !.fault = TRUE]
    [] o = "COMPLETE" -> [row EXCEPT !.progress = o, !.signature = "good", !.signed = "young"]
    [] o = "garbled" -> [row EXCEPT !.progress = "COMPLETE", !.signature = o, !.signed = "young"]
    [] OTHER -> [row EXCEPT !.progress = o]

\* collect: poll the service about one SigResult.
Collect(c, t) ==
  /\ collector[c].pc = "run"
  /\ t \in collector[c].todo
  /\ LET b == collector[c]
         row == Collected(b.rows[t], order[t]) IN
     collector' = [collector EXCEPT ![c] =
       [b EXCEPT !.todo = @ \ {t}, !.rows[t] = row,
                 !.changed = IF row = b.rows[t] THEN @ ELSE @ \cup {t}]]
  /\ UNCHANGED <<vars, scheme, ask, order, sig, poster>>

\* The service cannot be reached, collectAll does not catch it: all is rolled back.
CollectFails(c) ==
  /\ collector[c].pc = "run"
  /\ collector[c].todo # {}
  /\ collector' = [collector EXCEPT ![c] = NoBatch]
  /\ UNCHANGED <<vars, scheme, ask, order, sig, poster>>

\* The commit. One stale row rolls back the whole batch.
CollectCommit(c) ==
  /\ collector[c].pc = "run"
  /\ collector[c].todo = {}
  /\ \/ /\ RowsStand(collector[c])
        /\ sig' = Saved(collector[c])
     \/ /\ ~RowsStand(collector[c])
        /\ UNCHANGED sig
  /\ collector' = [collector EXCEPT ![c] = NoBatch]
  /\ UNCHANGED <<vars, scheme, ask, order, poster>>

-----------------------------------------------------------------------------
(* PostprocessJob *)

PostCandidates ==
  {t \in DOMAIN sig : /\ ~sig[t].conflict
                      /\ sig[t].out = None
                      /\ sig[t].signed = "due"}

SigPostProcessAll(p) ==
  /\ poster[p].pc = "idle"
  /\ PostCandidates # {}
  /\ poster' = [poster EXCEPT ![p] =
       [@ EXCEPT !.pc = "check", !.todo = PostCandidates,
                 !.rows = [t \in PostCandidates |-> sig[t]]]]
  /\ UNCHANGED <<vars, scheme, ask, order, sig, collector>>

\* findPdfByRef in the transaction of p, which sees the steps it has made.
FoundBy(p, r) ==
  /\ PdfFoundByRef(r)
  /\ \A x \in DOMAIN poster[p].steps : poster[p].steps[x].doc # docStep[r].doc

Refuse(p, t, rollbackOnly) ==
  LET b == poster[p] IN
  poster' = [poster EXCEPT ![p] =
    [b EXCEPT !.todo = @ \ {t}, !.rows[t].conflict = TRUE, !.changed = @ \cup {t},
              !.rollbackOnly = @ \/ rollbackOnly]]

\* The checks of sigPostProcess. A ServiceException of SigndocService itself is
\* caught and becomes finishConflict. One thrown by DocService has passed the
\* transaction proxy of that service, which marks the transaction rollback-only.
SigPostProcess(p, t) ==
  /\ poster[p].pc = "check"
  /\ t \in poster[p].todo
  /\ LET row == poster[p].rows[t] IN
     \/ /\ row.signature = "garbled"
        /\ Refuse(p, t, FALSE)
     \/ /\ ~FoundBy(p, row.ref)
        /\ Refuse(p, t, TRUE)
     \/ /\ row.signature = "good"
        /\ FoundBy(p, row.ref)
        /\ poster' = [poster EXCEPT ![p].pc = "count", ![p].tx = t]
  /\ UNCHANGED <<vars, scheme, ask, order, sig, collector>>

\* addSignature as in RestDoc: count the steps of the document.
PostCount(p) ==
  /\ poster[p].pc = "count"
  /\ LET d == docStep[poster[p].rows[poster[p].tx].ref].doc IN
     poster' = [poster EXCEPT ![p].pc = "append", ![p].count = StepCount(d)]
  /\ UNCHANGED <<vars, scheme, ask, order, sig, collector>>

\* Mutant: the ref of a new step need not be new.
AnyRefs == Refs

\* The refs of steps about to be inserted, and those no step has or will have.
PendingRefs == UNION {DOMAIN poster[p].steps : p \in Posters}
UnusedRefs == FreshRefs \ PendingRefs

\* Load the row of the document and right after it its steps, and make the new
\* step and its contents, not yet visible to others.
PostAppend(p) ==
  /\ poster[p].pc = "append"
  /\ \E r \in UnusedRefs :
       LET b == poster[p]
           base == b.rows[b.tx].ref
           d == docStep[base].doc IN
       poster' = [poster EXCEPT ![p] =
         [b EXCEPT !.pc = "check", !.todo = @ \ {b.tx}, !.tx = None, !.count = 0,
                   !.changed = @ \cup {b.tx}, !.rows[b.tx].out = r,
                   !.steps = Upsert(@, Row(r, SignedStep(base, b.count))),
                   !.pdfs = Upsert(@, Row(r, SignedContents(base, b.tx))),
                   !.versions = IF NumberFree(d, b.count)
                                THEN Upsert(@, Row(d, boxDoc[d].version)) ELSE @]]
  /\ UNCHANGED <<vars, scheme, ask, order, sig, collector>>

\* Mutant: only the documents have versions.
DocsStand(p) ==
  /\ ~poster[p].rollbackOnly
  /\ \A d \in DOMAIN poster[p].versions : VersionStands(d, poster[p].versions[d])

PostStands(p) ==
  /\ ~poster[p].rollbackOnly
  /\ RowsStand(poster[p])
  /\ \A d \in DOMAIN poster[p].versions : VersionStands(d, poster[p].versions[d])

\* Mutant: SigResults are saved outside the transaction of the documents.
PostInPieces(p) ==
  /\ poster[p].pc = "check"
  /\ poster[p].todo = {}
  /\ sig' = Saved(poster[p])
  /\ \/ /\ PostStands(p)
        /\ InsertSteps(poster[p].steps, DOMAIN poster[p].versions)
        /\ pdf' = Upsert(pdf, poster[p].pdfs)
     \/ /\ ~PostStands(p)
        /\ UNCHANGED storeVars
  /\ poster' = [poster EXCEPT ![p] = NoPost]
  /\ UNCHANGED <<req, scheme, ask, order, collector>>

\* The commit of the batch, all or nothing.
PostCommit(p) ==
  /\ poster[p].pc = "check"
  /\ poster[p].todo = {}
  /\ \/ /\ PostStands(p)
        /\ sig' = Saved(poster[p])
        /\ InsertSteps(poster[p].steps, DOMAIN poster[p].versions)
        /\ pdf' = Upsert(pdf, poster[p].pdfs)
     \/ /\ ~PostStands(p)
        /\ UNCHANGED <<sig, storeVars>>
  /\ poster' = [poster EXCEPT ![p] = NoPost]
  /\ UNCHANGED <<req, scheme, ask, order, collector>>

-----------------------------------------------------------------------------
(* Time and the whole system *)

\* dateCreated or sigTstamp of a SigResult passes the next bound of its window.
GrowOlder(t) ==
  /\ t \in DOMAIN sig
  /\ \/ /\ sig[t].created # "expired"
        /\ sig' = [sig EXCEPT ![t].created = Older(@)]
     \/ /\ sig[t].signed \in {"young", "due"}
        /\ sig' = [sig EXCEPT ![t].signed = Older(@)]
  /\ UNCHANGED <<vars, scheme, ask, order, collector, poster>>

\* The requests of RestDoc that can change documents which have a PDF. They bring
\* signatures made elsewhere. A uuid is never made twice.
RestNext ==
  /\ \E q \in Requests :
       \/ \E r \in Refs, s \in Sigs \ Txs : DocboxSigPut(q, r, s)
       \/ CountSteps(q)
       \/ LoadBoxDoc(q)
       \/ AddToSteps(q)
       \/ AddSignature(q)
  /\ DOMAIN docStep' \cap PendingRefs \subseteq DOMAIN docStep
  /\ UNCHANGED sigVars

SigNext ==
  \/ RestNext
  \/ \E t \in Txs :
       \/ \E r \in Refs : SignCheck(t, r)
       \/ DoSign(t)
       \/ SignatureRequest(t)
       \/ Outcome(t)
       \/ GrowOlder(t)
  \/ \E c \in Collectors :
       \/ CollectAll(c)
       \/ \E t \in Txs : Collect(c, t)
       \/ CollectFails(c)
       \/ CollectCommit(c)
  \/ \E p \in Posters :
       \/ SigPostProcessAll(p)
       \/ \E t \in Txs : SigPostProcess(p, t)
       \/ PostCount(p)
       \/ PostAppend(p)
       \/ PostCommit(p)

SigSpec == SigInit /\ [][SigNext]_allVars

\* Time passes. Nothing else is sure to happen: the service may be down, the user
\* may not sign, and a run of a job may hang in a call without a timeout.
SigFairSpec == SigSpec /\ \A t \in Txs : WF_allVars(GrowOlder(t))

-----------------------------------------------------------------------------
(* Properties *)

\* isSuccess: what a client is told of a finished order.
Success(t) == sig[t].signed # None /\ ~sig[t].conflict /\ sig[t].out # None

\* A client that is told of success can rely on it: the step it is given belongs
\* to the document that was to be signed, and its last page is the signature of
\* this order over the very step the client named.
SuccessIsReal ==
  \A t \in DOMAIN sig : Success(t) =>
    /\ sig[t].out \in DOMAIN pdf
    /\ docStep[sig[t].out].doc = docStep[sig[t].ref].doc
    /\ pdf[sig[t].out] = SignedContents(sig[t].ref, t)

\* The signature of an order is added to a document once, whatever runs of the
\* jobs overlap or are rolled back, and then the SigResult names the step.
AddedOnce ==
  \A r \in DOMAIN pdf : \A t \in Txs :
    Signed(r) /\ pdf[r] = SignedContents(Base(r), t) =>
      t \in DOMAIN sig /\ sig[t].out = r

\* No overlapping run takes back what another one has stored: a signature, and
\* the fact that it was added or refused.
OutcomeStands ==
  [][\A t \in DOMAIN sig :
       /\ sig[t].signature # "none" => sig'[t].signature = sig[t].signature
       /\ sig[t].out # None => sig'[t].out = sig[t].out /\ ~sig'[t].conflict
       /\ sig[t].conflict => sig'[t].conflict]_allVars

\* Mutant: a signature may be waiting to be added for ever.
CompleteOrWaiting(t) ==
  \/ sig[t].fault \/ sig[t].conflict \/ sig[t].out # None
  \/ sig[t].signed = None /\ sig[t].created = "expired"

\* isProcessingComplete.
ProcessingComplete(t) ==
  \/ sig[t].fault \/ sig[t].conflict \/ sig[t].out # None
  \/ sig[t].signed = "expired"
  \/ sig[t].signed = None /\ sig[t].created = "expired"

Completed(t) == t \in DOMAIN sig /\ ProcessingComplete(t)

\* What docSigCollect answers about an order, in the words of SignOrder.
OutcomeOf(t) ==
  IF t \notin DOMAIN sig THEN "none"
  ELSE IF Success(t) THEN "success"
  ELSE IF ProcessingComplete(t) THEN "failed" ELSE "pending"

\* The tables, the jobs and the clock implement SignOrder: a client is never told
\* of a success that is taken back later, nor that a finished order was unknown.
Client ==
  INSTANCE SignOrder WITH Orders <- Txs, Late <- TRUE,
                          outcome <- [t \in Txs |-> OutcomeOf(t)]
OrdersAreKept == Client!OrderSpec

\* A client that polls for the outcome does not poll forever, even if the signing
\* service is silent or every batch is rolled back.
PollingEnds == \A t \in Txs : t \in DOMAIN sig ~> []Completed(t)

\* SigResult.isProcessingComplete, "Condition for end of processing, successful
\* or not": once it holds it does not cease to hold.
ProcessingEnds == [][\A t \in Txs : Completed(t) => Completed(t)']_allVars

\* All that ProcessingEnds is wrong about: processing that has ended is resumed only
\* for an order that expired before a signature came, by a run of CollectJob that
\* began when the order was still to be collected and stores its signature now.
ResumedOnlyLate ==
  [][\A t \in Txs : Completed(t) /\ ~Completed(t)' =>
       /\ sig[t].signed = None /\ sig[t].created = "expired"
       /\ \E c \in Collectors :
            /\ t \in collector[c].changed
            /\ collector[c].rows[t].created = "due"
            /\ sig'[t].signature = collector[c].rows[t].signature
            /\ sig'[t].signature # "none"]_allVars

\* SigResult.finishConflict, "Conflict message if a signature has been acquired,
\* but failed to add it to the document. Also indicates end of processing.": a
\* run of PostprocessJob that fails to add a signature leaves a conflict.
FailureIsRecorded ==
  [][\A p \in Posters : \A t \in poster[p].changed :
       /\ poster[p].pc = "check" /\ poster'[p].pc = "idle"
       /\ poster[p].rows[t].conflict
       => sig'[t].conflict]_allVars

=============================================================================
