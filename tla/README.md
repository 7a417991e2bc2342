# A TLA+ verification of the pawap platform

This directory holds TLA+ models of the eServices platform, the TLC
configurations that check them on small instances, and theorems about them that
TLAPS has checked. It covers the parts of the platform in which several
requests, jobs and services change the same things in transactions of their
own: the documents and signatures of **DocBox**, the **signing tasks**, the
**task pages** of the portal, the **forms** of tasks and processes, the
**process definitions** of Coordinatrice and the **forms database** postxdb.

Contents: [the system](#the-system) ·
[hard behaviours](#what-is-hard-about-it) ·
[modules](#the-modules) ·
[from code to model](#from-code-to-model) ·
[runs](#what-the-runs-check) ·
[properties](#the-properties) ·
[bounds](#bounds-and-why-they-are-enough) ·
[fairness](#fairness) ·
[proofs](#what-is-proved) ·
[disagreements](#where-code-and-documentation-disagree) ·
[assumptions](#assumptions-about-what-lies-outside) ·
[not modelled](#what-is-not-modelled) ·
[plan](#plan) ·
[how to run](#how-to-run)

## The system

The platform is a set of web applications around the Activiti process engine.
They share PostgreSQL and call each other over REST.

| Component | Where | State it keeps | Operations | Correct when |
|---|---|---|---|---|
| **DocBox document store** | `docbox/.../DocService`, domains `BoxDoc`, `BoxDocStep`, `BoxContents` | tables `box_doc`, `box_doc_step`, `box_contents` | find the latest step of a form instance, find a PDF by reference, create a document step | a PDF once stored never changes; every step belongs to its document and has its place in it |
| **DocBox document REST** | `RestDocController`, `PdfService` | none of its own | `formDataPut` makes the PDF of a form instance; GETs read | answers that remain true, a failed conversion can be repaired by the next request |
| **DocBox signature REST** | `RestSigController` | none of its own | `docboxSigPut` adds a signature, `docSigRequest` orders one, `docSigCollect` tells the outcome, `sigValidate` | a signature is added to exactly what was signed, all or nothing |
| **Signing by order** (signatrice) | `SignService`, `SigResult`, `SigScheme`, `SigProgress`, `CollectJob` | `sig_result`, `sig_scheme`; the order at the signing service (GRP) | request, poll the service, time windows | what was collected is not lost, a polling client gets an end |
| **Adding signatures** | `SigndocService`, `PostprocessJob` | none of its own | the post-processing batch, `addSignature` | each signature is added once, to the step it was made over, and the `SigResult` tells so |
| **Signing tasks** of the engine | `ActivitiEngineService`, `PollSignatureScheduler`, `DocBoxFacade`; `SignForm` of the portal | two local variables of a task, its assignee | order a signature, poll it, complete the task or free it | the task is completed with a signature that was ordered for it, or can be signed anew |
| **Task pages** of the portal | `motrice-internal.js`, `inherit-platform.js`, `SiteAjaxApplication`, `ActivitiEngineService` | what a page shows; assignee, candidates and priority of a task | lock, release, candidates, priority, submit | the lock is not taken over; the page shows the truth; a submission needs the lock |
| **Task forms** of the engine | `FormEngine`, `TaskFormService`, `TaskFormDb`, `OrbeonTaskFormHandler`, `Confirm` of the portal | `ProcessActivityFormInstance`, a task variable | open a start form or the form of a task, submit | what is confirmed happened, and is recorded; drafts do not pile up |
| **Coordinatrice process definitions** | `ProcdefService`, `ProcessEngineService`, `ProcdefController` | `crd_procdef`; Activiti's definitions and their suspension | deploy, look at, change state, delete | no change is lost; the two states come in line |
| **Forms database** | `postxdb` `RestService`, `PostxdbService`, `FormdefPath` | `pxd_formdef`, `pxd_formdef_ver`, `pxd_item` | save, publish, translate a form; write, freeze, duplicate form data | no draft is lost behind the current one; what is read-only stays |
| Audit trail | `AuditService` | a database of its own | insert | tells of what was committed only |
| DocBox user interface | controllers and views of docbox | – | listing, scheme set-up | – |
| Signature and PDF formats | `XmlDsig`, `PdfSignatureDict`, `pdf/*` | none | parse, validate, convert | format work |
| Engine delegates | `service/delegates` | process variables | called by Activiti | – |
| Users and identity | `service/identity` | LDAP, read | look-ups | – |
| Coordinatrice packages | `PackageService`, `SiteService` (migratrice) | `mig_*` | export, import | an import is complete or absent |
| Open311 | `open311/*` | services, jurisdictions | read, edit | – |
| Rest of the portal | `inherit-portal/site` | Hippo pages, session | shows what the engine answers | – |
| REST service and clients | `inherit-service-rest-*`, `-common`, `-orbeon` | none | hand calls on | – |
| Older applications, tests | `signatrice`, `migratrice`, `tdocbox`, `doccheck` | – | superseded, or test tools | – |

Vendored code (`*/plugins`, `inherit-portal/orbeon`, most scripts under `js`),
configuration and documents (`apache2`, `bin`, `bpm-processes`, `conf`,
`database`, `techpub`) hold no logic of the platform.

How they interact: a citizen fills in an Orbeon form in the portal; postxdb
stores it, and the portal hands the id of the document to the engine, which
starts a process or completes a task with it. A case worker finds the task in
his inbox, locks it on its page and submits its form. The engine asks DocBox
for the PDF of a form (`formDataPut`). In a signing task the portal asks the
engine to order a signature (`createSignRequestOfForm`), which calls DocBox
(`docSigRequest`), which calls the signing service. The user signs in an app of
his own. `CollectJob` fetches the signature from the service, `PostprocessJob`
adds it to the document, and `PollSignatureScheduler` of the engine asks DocBox
for the outcome (`docSigCollect`) and completes the task. Coordinatrice deploys
process definitions to the engine, and suspends and activates them, which
decides whether a form may start a process.

### Steps, references, numbers

A *document* (`BoxDoc`) evolves in *steps* (`BoxDocStep`). Each has a
`docboxRef`, a uuid by which the rest of the platform knows it, and a step
number from which its document number is made. The first step holds the PDF
made from form data. Every signature makes a new step: its PDF is that of the
signed step with a page at the end, carrying the signature and the document
number and checksum of what was signed. Only the latest step of a document may
be signed, so that signatures form a chain.

## What is hard about it

- **Every service call is a transaction of its own.** `docboxSigPut` checks in
  one transaction that a step is the latest and signs it in a later one;
  `executeTask` claims a task and completes it in two; the sign form sets two
  variables in two, the poll removes them in two; a form definition is read,
  validated and written in three steps that others may interleave with.
- **The locks cover less than it seems.** Hibernate's version of the `BoxDoc`
  serializes signatures, but it is read after the steps have been counted, and
  it is checked only if the new step really changed the set of steps. The
  version of a `PxdItem` is checked only if the request has changed the item.
- **Jobs overlap.** Grails/Quartz starts both jobs of signatrice every 3.1
  seconds, whether or not the last run is still waiting for the service.
- **A batch is one transaction.** A candidate that fails inside `DocService`
  marks the transaction rollback-only on its way through the transaction proxy,
  although `SigndocService` catches the exception: the batch is lost, and with
  it the reason.
- **Failures are swallowed.** A failed claim, a failed `startProcess`, a failed
  validation in `save()`, the error handler of `siteAjaxPost`: the caller goes
  on as if nothing had happened.
- **Two stores are kept in step by two writes.** The state of a process
  definition is in `crd_procdef` and in Activiti; a restart, a rollback or a
  deletion between the two leaves them apart.
- **Time windows decide what is processed.** A `SigResult` is collected and
  post-processed within windows of its age; clients are told that processing is
  complete by the same windows, and a late run still adds the signature.
- **Answers of a page overtake each other**, or do not arrive at all.

`PROJECT.json` lists the hazards one by one, each at its line, with the
properties that watch over it or the reason why none does. Not in that list,
because another hazard stands for them or because they were judged small: a
SigResult made in the same millisecond as a stored one is not added to its
scheme; transaction ids are 27 random bits without a check; the audit record of
a signature is saved before its transaction ends; a batch of orders stops at
the first that the service fails to answer for (`CollectFails` of `Signatrice`);
the page of a task shows the older of two answers if they arrive the other way
round (`Deliver` of `Workflow`); a deployment is deleted in Activiti
before its rows are (`DeleteDeployment` of `Procdef`).

## The modules

| Module | What it is |
|---|---|
| `SignedCopies` | What DocBox promises about documents, with no word on steps, requests or jobs: stored PDFs stay; a new one is an original or a copy with one signature page more. |
| `BoxDoc` | The three tables with their queries and inserts, and the safety properties of the store. `StoreOnlyGrows` states that the tables implement `SignedCopies`. |
| `RestDoc` | The two REST methods that change documents, as any number of concurrent requests, each a sequence of transactions. |
| `SignOrder` | What DocBox promises about orders for signatures: pending, failed or a success, which is never taken back. |
| `Signatrice` | Extends `RestDoc`: orders, the signing service, overlapping runs of `CollectJob` and `PostprocessJob`, ageing, on the same documents and with the requests of `RestDoc` going on. `OrdersAreKept` states that it implements `SignOrder`. |
| `SignTask` | Extends `SignOrder`: visits of the sign form, the variables of tasks, the poll, users that lock tasks. |
| `Workflow` | A task, the pages that show it, and the requests and answers between them. |
| `Forms` | Start forms and the form of one task: drafts, submissions, processes. |
| `Procdef` | One version of a process definition, in Activiti and in `crd_procdef`. |
| `FormVersions` | Form definitions of postxdb: save, publish, add a language. |
| `FormData` | Form data of postxdb: write, freeze, duplicate. |
| `MCRestDoc`, `MCSignatrice`, `MCSignTask`, `MCWorkflow`, `MCForms`, `MCFormStore` | Instances for TLC. (`Procdef` needs none.) |
| `RestDocProofs`, `SignatriceProofs`, `SignTaskProofs`, `WorkflowProofs`, `FormsProofs`, `ProcdefProofs`, `FormVersionsProofs`, `FormDataProofs` | The theorems about each, with their proofs. |

How they are composed: `Signatrice` reuses the actions of `RestDoc` for the
requests that race with the jobs, and the operators of `BoxDoc` for what the
jobs write, as in the code, where both call `SigndocService.addSignature`.
`SignTask` is built on the abstract `SignOrder`, and `Signatrice` is shown to
implement it (`OrdersAreKept`, model-checked and proved): the two models meet at
the REST calls `docSigRequest` and `docSigCollect`. `Forms` has the suspension
of a definition, which `Procdef` models in full, as an action of its own.
`MCFormStore` runs the two halves of the forms database, which share no row.

Operators whose comment begins with *Mutant* are not part of a model. They are
mistakes the code could plausibly contain; putting one in place of the right
definition breaks the property that guards against it.

## From code to model

An action is one query or one commit: between two of them anybody else may
commit. Within a transaction nothing is visible to others before the commit,
as READ COMMITTED has it. Bytes, texts, layout and cryptography are abstracted
to what the logic tells apart: a signature is valid for the text it was made
over or it is refused.

### Documents and orders: `BoxDoc`, `RestDoc`, `Signatrice`

| State | Code |
|---|---|
| `boxDoc` | `box_doc`: form data uuid and `version`. The 30-bit random id is an element of `Docs`, picked among the unused ones that the query sees. |
| `docStep` | `box_doc_step`: document, step number, `signCount`, by `docboxRef` |
| `pdf` | `box_contents` with name `pdf`, unique by step and name. The bytes are the conversion they stem from and the signature pages: two conversions never give the same bytes, two copies of a PDF do. |
| `req` | the local variables of a request and the place it has reached |
| `scheme` | the version of `sig_scheme`: every order adds to `scheme.results` |
| `ask`, `order` | a `docSigRequest`, and the order at the signing service |
| `sig` | `sig_result`. Its time stamps are `young`, `due` or `expired` relative to the window that the query applies: `dateCreated` for collecting, `sigTstamp` for post-processing. |
| `collector`, `poster` | runs of the jobs: the session's copies of the rows, which are dirty, what is to be inserted, rollback-only |

| Action | Code |
|---|---|
| `FormDataPut` | `RestDocController.formDataPut` up to the first change: find the latest step and its PDF, answer 200 or 404 or go on |
| `CreateBoxDocStep`, `InsertBoxDoc`, `AddToSteps`, `InsertBoxDocStep` | `DocService.createBoxDocStep(uuid)`: the queries; the commit of a new document with its first step; the set of steps is loaded; the commit of another step of a document |
| `GeneratePdfa` | `PdfService.generatePdfa`, one transaction with the conversion in it; it may fail (409), be killed without a message (404), throw, or be overtaken (500) |
| `DocboxSigPut` | the checks of `docboxSigPut` |
| `CountSteps`, `LoadBoxDoc`, `AddToSteps`, `AddSignature` | `SigndocService.addSignature` with `DocService.createBoxDocStep(docStep)`: count, load the document and its version, load the steps, commit |
| `SignCheck`, `DoSign`, `SignatureRequest` | `docSigRequest`: `checkParams`, the call to the service, the commit of the `SigResult` |
| `Outcome` | the signing service and its user (external) |
| `CollectAll`, `Collect`, `CollectFails`, `CollectCommit` | a run of `CollectJob`: `SignService.collectAll`, `collect` for one candidate, an exception that ends the run, the commit |
| `SigPostProcessAll`, `SigPostProcess`, `PostCount`, `PostAppend`, `PostCommit` | a run of `PostprocessJob`: the query, the checks of one candidate, `addSignature`, the commit of the batch |
| `GrowOlder` | the clock |

### Signing tasks: `SignTask`, `SignOrder`

| State | Code |
|---|---|
| `open`, `holder` | the task in Activiti, and its assignee |
| `tx`, `ref` | its local variables `motriceFormSignTransactionId` and `motriceFormSignDocboxRef` |
| `outcome`, `of`, `latest` | an order as `docSigCollect` tells it, the task and step it was placed for, the latest step of the document |
| `visit`, `poll` | a request for the sign form; a run of `PollSignatureScheduler` with its copies of the variables |
| `signed`, `failed` | history: the order that completed a task; the orders the poll was told of as failed |

| Action | Code |
|---|---|
| `Look`, `CompareText` | `SignForm.doBeforeRender` of the portal: no order in the variables; the text the user confirmed is that of the latest step |
| `PlaceSignRequest`, `Refused`, `SetTx`, `SetRef`, `Abandon` | `createSignRequestOfForm`: the order is placed with DocBox or refused; each variable is set in a transaction; an exception or a restart in between |
| `Settle` | DocBox: an order ends, or goes on after it was called failed (`Late`) |
| `PollTasks`, `CheckOutcome`, `PollBreaks` | `pollCompletedSignRequest`: the query, the question to DocBox for one task, a run that ends with an exception |
| `PollClaims`, `PollCompletes` | `executeTask`: claim, complete, in two transactions |
| `PollRemovesTx`, `PollRemovesRef` | the two `removeVariableLocal` after a failure |
| `Lock`, `Unlock`, `EndTask` | what else happens to a task |

### Task pages: `Workflow`

| State | Code |
|---|---|
| `open`, `assignee`, `candidates`, `priority` | the task in Activiti with its candidate links |
| `shown` | a page: which controls are visible, the candidate list with the holder it was drawn for, the menu of priorities |
| `req` | an AJAX request: sent, the change made, the task read, the candidates read, answered |
| `held`, `changed`, `hasty`, `submitter` | history |
| `released` | history: the submissions under way that lost their claim to a release; once the task is completed, the one that completed it if it is among them |

| Action | Code |
|---|---|
| `OpenPage`, `LeavePage` | a page is delivered and asks at once for the state of the task; it is left, and its answers go nowhere |
| `AssignToMe`, `Release`, `ClickCandidate`, `AddCandidate`, `SetPriority`, `Submit` | the handlers of `motrice-internal.js`, with the controls that are visible as their guards |
| `Perform` | the change, one transaction of Activiti: `assignTask`, `unassignTask`, candidates, priority. A claim that fails is swallowed. |
| `ReadTask`, `ReadCandidates` | `getActivityWorkflowInfo`, `getCandidatesByTaskId`; either may find that the task has gone |
| `ClaimToSubmit`, `Complete` | `executeTask` |
| `Deliver`, `Lose` | `refreshActivityWorkflowInfo` redraws the page from the answer; the empty error handler of `siteAjaxPost` |
| `EndTask` | the process moves on without the task |

### Forms of tasks and processes: `Forms`

| State | Code |
|---|---|
| `task` | one task: open, holder, and the variable with its document; as history, the document whose submission completed it |
| `rows` | `ProcessActivityFormInstance` of start forms: user, submitted, process |
| `active`, `started` | whether the definition is suspended; processes by their document |
| `page` | what a page shows, or how far its request has come |

| Action | Code |
|---|---|
| `OpenStart`, `CreateDraft` | `FormEngine.getStartFormInstance`: any draft of the user, or a new document and its row |
| `OpenTask`, `InitTask` | `getFormInstance`: the document of the task, or a new one set as variables |
| `Send`, `FindTask` | `Confirm.doBeforeRender` and `submitForm`: look for the task with this document |
| `ClaimTask`, `CompleteTask` | `executeTask`; if it fails, the document is taken for that of a start form |
| `LookUpRow`, `StartProcess`, `SaveRow` | `submitActivityForm`: the row, submitted or not; `startProcess`, which answers null if it cannot; the row is saved, and a failure of that is swallowed |
| `Suspend`, `Break` | Coordinatrice; a restart |

### Process definitions: `Procdef`

| State | Code |
|---|---|
| `act` | the definition in Activiti: absent, active, suspended, deleted |
| `crd` | its row in `crd_procdef`: Motrice state and version, or none |
| `running` | whether it has process instances |
| `offered` | states that a page has offered |
| `req` | a request: the entity as Activiti answered, the row as the session read it, the state in the session |

| Action | Code |
|---|---|
| `View`, `UpdateState`, `Delete`, `Deploy` | the controllers; an update takes whatever state a page has offered at some time |
| `Fetch` | `findProcessDefinition`, which deletes the row of a definition that is gone |
| `LookUp`, `Sync`, `Commit` | `createProcdef`: the row is found or made, `propagateStateToActiviti` in a transaction of its own, the commit with the check of the version. A definition that is gone by the time of the propagation loses its row (`doEnsureNotCached`). |
| `PastSync` | what follows the propagation: a deletion is refused only here, by `checkDeploymentDeletable`, so that one that is refused has told Activiti the state nevertheless |
| `Apply` | `updateProcdefState` on the row as the session read it |
| `Reconnect` | `reconnectActivityForms`, which looks at all versions within the request that deployed one |
| `DeleteDeployment`, `DeleteRow` | `doDeleteDeployment`: Activiti first, the row at the commit |
| `StartInstance`, `EndInstance`, `Break` | instances; a restart or a lost connection |

### Forms database: `FormVersions`, `FormData`

| State | Code |
|---|---|
| `formdef` | `pxd_formdef`: current draft and lock version |
| `vers` | paths of `pxd_formdef_ver`: the versions that the lists of forms show |
| `items` | the `pxd_item` of each path with its text and what it was copied from. A path is version and draft; 9999 is a published one. |
| `stray` | history: items stored by first saves that came second, whose definition was not valid |
| `req` | a request: the version its form name carries, the row it has read, and the objects whose validation it has passed |
| `item` | `pxd_item` of form data: text, read-only flag (null, true, false), origin, lock version, by instance uuid and name |
| `call` | a request with the items it has read |

| Action | Code |
|---|---|
| `SaveReads`, `LanguageReads`, `PublishReads` | `createDraftItem`, `addLanguage`, `createPublishedItem` up to the first `save()`: the definition is found, its current draft parsed. A form without definition begins at its first draft, or after the version that the form name in the text carries (`BeginsAt`). |
| `Validates` | `save()` of the definition, the versions and the items. An object whose path is taken is not valid, nor is a version row without room for the title (120 characters), the description (800), the language (16) or the author (80) of the text (`Fitting`); that is logged, and the request goes on without it and is answered 201 |
| `Commits`, `CommitFails` | the flush and commit of Hibernate: all of it, or an exception |
| `WriteReads` | `createInstanceItem`, `createInstanceResource`: a read-only item gives 403 |
| `SetReadOnlyReads`, `DuplicateReads` | `readonlyset`, `duplicateinstance`: the items are found before the transaction that changes them |
| `ChecksPath`, `Flushes`, `FlushIsRefused` | `save()`, and the flush, which writes the items that the request has changed and checks the version of no other |

## What the runs check

Expected to pass:

| Run | Asks | Distinct states |
|---|---|---|
| `rest_doc` | Do four concurrent requests that make a document of one form instance and sign it keep the store consistent, and do their answers remain true? | 33 709 |
| `signatrice` | Two orders over two documents, or both over one; one collecting run, two overlapping post-processing runs whose batches may roll back: is each signature added once, is nothing taken back, does a client told of success find its signature? | 791 414 |
| `sign_race` | Two overlapping runs of each job over one order, against a request with a signature made elsewhere: do the tables still implement `SignedCopies`, what is resumed after it was complete, and does polling end? | 245 182 |
| `sign_task` | Two visits order signatures for two tasks while the poll runs, visits break off and orders that failed revive: is a task completed only by a signature ordered for it, and does the poll take an order from it only after the one it has read there has failed? | 481 931 |
| `sign_task_ends` | Does a task with one order ever stop waiting for it, though a run of the poll breaks off and other tasks end under it? | 320 832 |
| `task_pages` | Two case workers on the page of one task, answers lost and overtaken, pages left and opened again: is the lock taken over, does the record tell who submitted, does a page show the truth? | 3 198 854 |
| `task_page` | Every operation of one page whose user waits for the answers: do they come? | 26 533 |
| `procdef` | Two requests look at, change, delete or deploy one definition, one of them may break off: is a change lost, do the two databases come in line? | 987 475 |
| `forms` | Two pages open, abandon, submit and submit again a start form and the form of a task, of one user or of two, while the definition is suspended and something fails: is what is confirmed true, and recorded? | 373 466 |
| `form_store` | Two requests save, publish and translate one form up to its last draft and version, with metadata that fit into a version row or do not, from the first draft or from a version carried over; two calls write, freeze, open and duplicate two form instances: is a draft lost, is what is read-only changed? | 848 351 |

Expected to find a violation: `signed_is_previous`, `failure_frees_task`, see
[below](#where-code-and-documentation-disagree).

## The properties

Documents (`BoxDoc`, `RestDoc`):

- `EveryPageCovers`: each signature page of a PDF, not only the last one, names a
  stored PDF of the same document, and that PDF is what comes before the page. A
  page says in print that it applies to all pages before it; this makes it true,
  however many signatures follow. (`CoversItsBase` says it of the last page; it
  is part of `Inv`.)
- `SignedIsLater`: a signed step is a later step of the same document than the
  one that was signed. The race on step numbers can give two steps the same
  number, but never a signed step the number of the step it signs. So a step
  that was signed is not the latest any more and cannot be signed again by a
  later request.
- `SignCountIsPages`: `signCount`, reported over REST without opening the PDF,
  is the number of pages in it.
- `OneFirstStep`: no race makes a second step number 0, or a document without.
- `AnswersStand`: the reference and the checksum in a successful answer are
  those of a stored PDF, and stay so.
- `OneStepPerSignature`: adding a signature is all or nothing.
- `StoreOnlyGrows`: the tables implement `SignedCopies`; checked with requests
  and jobs together, proved for the requests alone and with the jobs.

Orders (`Signatrice`):

- `AddedOnce`: whatever runs overlap or are rolled back, the signature of an
  order is in one step, and the `SigResult` names it. Two versions guard it,
  that of `sig_result` and that of `box_doc`.
- `SuccessIsReal`: what `docSigCollect` calls a success is in the document that
  was to be signed, over the very step the client named.
- `OutcomeStands`: no overlapping run overwrites a collected signature, the
  reference of a step that was made, or a refusal.
- `OrdersAreKept`: what `docSigCollect` answers implements `SignOrder`.
- `ResumedOnlyLate`: `isProcessingComplete` is not the end that its comment says
  it is, see `ProcessingEnds` [below](#where-code-and-documentation-disagree).
  This is all that it is wrong about: processing is resumed only for an order
  that expired before a signature came, by a run of `CollectJob` that took the
  order up in time and stores its signature at this moment. An order that failed
  or whose signature was added or refused stays complete, whatever runs overlap.
- `PollingEnds`: a client that polls is told at some time, and from then on,
  that processing is complete, though the service be silent, the jobs hang and
  every batch be rolled back.

Signing tasks (`SignTask`):

- `CompletedBySignature`: a task that the poll completed was signed, with an
  order that was placed for this task; no restart between the variables, second
  order or late answer makes it otherwise.
- `FreedByFailure`: the poll takes an order from a task only after it was told,
  in this run, that the order it has read there has failed, and that order was
  placed for this task: not one of another task of the same run, nor of an
  earlier run. What it takes is that order or one that was set since, see
  `failure_frees_task`.
- `OrderEndsWait`: where only one order is placed, the task does not wait for
  it for ever once it has ended for good.

Task pages (`Workflow`):

- `NoTakeover`: the lock passes from one user to another only through a
  release, however two clicks race.
- `RecordedAsSubmitted`: the assignee of a completed task, who goes on record
  as the one who submitted it, is that user, unless the lock was released
  between the claim and the completion of the very submission that completed
  it. Then another one may have claimed the task in between, and goes on
  record; a release that hit another submission, or came before this one's
  claim, is no excuse.
- `MineWasTrue`: a page offers the form only to a user who has held the task.
- `PatientPageShowsTruth`: a page whose user waits for each answer shows the
  truth unless somebody has changed the task since: neither a failed claim nor
  a change between the two reads leaves a mixture behind.
- `PageIsAnswered`: a user who clicks on is answered nevertheless.

Forms (`Forms`):

- `ConfirmedIsReal`: who gets a confirmation has completed the task with the
  document of his page, or started a process with it; that somebody else has
  completed the task with another document is not enough.
- `NothingMeansGone`: a submission comes to nothing only if the document has no
  row and is not that of a task its user may still complete.
- `DraftsBounded`: the loads that found no draft at the same time are all that
  can give a user more than one.
- `SubmissionIsRecorded`: a start form, however often it is submitted and on
  however many pages at once, is recorded as submitted if there was no fault,
  with no process that it has not started; submitted once, with the process it
  started if it started one. (Submitted again, it may lose its process from
  the row: a second submission overwrites it with null when the definition has
  been suspended. `SubmittedHasProcess` fails also without a second submission,
  see [below](#where-code-and-documentation-disagree).)

Process definitions (`Procdef`):

- `NoLostUpdate`: the state is changed only by a request that has seen the
  state it changes.
- `BackInLine`: whatever updates, deletions, deployments and restarts have left
  behind, once they are over and the definition is looked at again and again,
  both databases have it or none, with the same state. (Requests that look race
  with each other; the proof obligation is that they do not undo each other.)

Forms database (`FormVersions`, `FormData`):

- `NothingBehindCurrent`: the text of the current draft is stored, every version
  and every text comes before it, and no version is without its text: neither
  an overlap of saves and publications nor a version row that is not valid
  leaves a draft behind the current one. The item of a first save that came
  second (`stray`) is the exception; `EachSaveIsADraft` is about it.
- `DerivedFromLatest`: a draft that the database derives (a language was added,
  a version was published) takes over from the latest draft there was, and what
  follows a published version follows one whose text is stored.
- `AnsweredIsStored`: the texts of a request that found the definition and was
  answered with 201 are stored under the paths it was given, and stay. As
  failed validations are only logged, it is not so for the version rows: a path
  is listed as a version exactly if the metadata of its text fit. Where a
  stray item sits the text may be that of the first save.
- `FrozenStays`: an item that is read-only keeps its text, also while a call is
  under way that found it open to changes.
- `CopyFreezesOrigin`: when a copy appears, its source, which was open when the
  request read it, is read-only and has the text of the copy.

One type invariant for each module: `TypeOK`, `SigTypeOK`, `SignTypeOK`,
`WorkflowTypeOK`, `FormsTypeOK`, `ProcTypeOK`, and `StoreTypeOK` for the two
halves of the forms database.

## Bounds, and why they are enough

- `rest_doc`: one form instance, 2 documents, 4 references, one signature, 4
  requests. Two requests suffice for each race (create/create, convert/convert,
  sign/sign); four let a signature race with another while a step is made for a
  document that exists already, and let a document be made twice and one of the
  two signed. Nothing else needs a bound: identifiers are finite sets, each
  request is made once.
- `signatrice`: 2 documents, 4 references, 2 orders, which name the first steps
  of either document or the same one; one collecting and two post-processing
  runs at a time, any number one after the other; no requests.
- `sign_race`: one document, 3 references, one order and one foreign signature,
  one request, two runs of each job at a time. No symmetry: there is a liveness
  property.
- `sign_task`: 2 tasks, 2 visits, 2 orders, 2 document steps, one other user;
  `Late` orders and abandoned visits. `sign_task_ends` has one visit at a time
  and one run of the poll that breaks off (`MaxBreaks`), without symmetry.
  One task would do for the properties but for the run over several tasks, in
  which an exception at one concerns the next.
- `task_pages`: 2 pages of 2 users, 2 requests at once (`Slots`, `PerPage`), so
  that any two changes, and a change and a submission, overlap; pages may be
  opened again. `task_page`: one page with typed names, candidates and
  priorities, one request at a time.
- `procdef`: 2 requests at a time, any number one after the other; `MaxVersion`
  bounds the updates of the row (2), `MaxBreaks` the requests that break off
  (1). One definition: definitions share nothing but the requests that list
  them.
- `forms`: 2 pages, 2 users, 3 documents, so that each page has one and the
  task another; 2 submissions of a start form (`MaxSubmissions`), one fault
  (`MaxFaults`).
- `form_store`: one form (forms share no row), 2 texts, one of which has
  metadata without room in a version row (`LongTexts`), 2 requests at a time;
  a first save carries no version or the first draft of version 1 (`Carried`);
  `MaxVersion` and `MaxDraft`, which are 999 in the code, are 2, so that the
  limits of both are reached and passed. 2 instances with data and one
  attachment, 2 calls at a time; `MaxWrites` (5) bounds the items and versions
  of items that are made.

Symmetry is declared only for sets of interchangeable values, and not with
liveness. `CHECK_DEADLOCK FALSE` stands in every configuration: when every
request is answered and every order has ended the system may stop.

`Signatrice` starts from documents with a PDF: how they come about is
`RestDoc`'s matter. `SignTask` leaves the orders to `SignOrder`.

## Fairness

`Spec` of `RestDoc`, `SigSpec`, `SignTaskSpec`, `Spec` of `Workflow`,
`FormsSpec`, `FormSpec`, `DataSpec` have none: only safety is claimed of them.

- `SigFairSpec`: weak fairness of `GrowOlder` alone, for each order: time
  passes. Nothing else is assured by the code: the signing service may not
  answer, the user may never sign, a run of a job waits in a web service call
  without a time-out, a request may be dropped. `PollingEnds` holds
  nevertheless. That a good signature over a latest step is eventually *added*
  needs jobs that run within the window.
- `SignTaskFairSpec`: weak fairness of `PollNext` (the scheduler starts the poll
  every five seconds, and a run goes on until it ends) and of `SetVariables`
  (a request that is not broken off goes on). `OrderEndsWait` assumes, as part
  of the property, that no other user keeps the task locked for ever: the poll
  would try for ever. It is checked without `Late`, for an order that has ended
  for good.
- `FairSpec` of `Workflow`: weak fairness of `ServerStep` for each request: a
  server thread goes on, and an answer that is not lost arrives. The user and
  the clicks have none.
- `ProcFairSpec`: weak fairness of `Continue` for each request. That somebody
  looks at the definition again and again is a premise of `BackInLine`.


## What is proved

TLC checks a small instance; TLAPS has proved the following for every value of
the constants that meets the assumptions.

| Module | Theorem | States |
|---|---|---|
| `RestDocProofs` | `Invariance` | `Spec => []Inv` |
| | `TypeCorrect`, `SignedLater`, `CoversBase`, `FirstStep`, `SignCount`, `AnswerStands` | `TypeOK`, `SignedIsLater`, `CoversItsBase`, `OneFirstStep`, `SignCountIsPages`, `AnswersStand` are invariants of `Spec` |
| | `SignatureIsOneStep`, `PagesCover` | `OneStepPerSignature`, `EveryPageCovers` |
| | `Refinement` | `Spec => StoreOnlyGrows`: the tables implement `SignedCopies` |
| `SignatriceProofs` | `SigInvariance` | `SigSpec => []SigInv` |
| | `SigTypes`, `AddedOnlyOnce`, `SuccessReal`, `SignedLaterByOrder`, `PagesCoverByOrder` | `SigTypeOK`, `AddedOnce`, `SuccessIsReal`, `SignedIsLater`, `EveryPageCovers`, with requests and overlapping jobs |
| | `OutcomesStand`, `ResumedLate` | `OutcomeStands`, `ResumedOnlyLate`, action properties |
| | `EndsInvariance` | `SigSpec => []EndsSound`, which `ResumedLate` rests on |
| | `StoreGrowsByOrder` | `SigSpec => StoreOnlyGrows` |
| | `OrdersKept` | `SigSpec => OrdersAreKept`: `docSigCollect` implements `SignOrder` |
| `SignTaskProofs` | `TypeCorrect`, `CompletionIsSigned`, `FreedWhenFailed` | `SignTypeOK`, `CompletedBySignature`, `FreedByFailure` |
| | `OrdersAsPromised` | `SignTaskSpec => OrderSpec`: what `SignTask` takes DocBox to do is what `SignOrder` allows |
| `WorkflowProofs` | `TypeCorrect`, `MineIsTrue`, `RecordIsTrue`, `PatienceIsRewarded` | `WorkflowTypeOK`, `MineWasTrue`, `RecordedAsSubmitted`, `PatientPageShowsTruth` |
| | `LockIsNotTaken` | `NoTakeover`, an action property |
| `FormsProofs` | `TypeCorrect`, `ConfirmationIsReal`, `RefusalIsReal`, `SubmissionRecorded`, `DraftsStayBounded` | `FormsTypeOK`, `ConfirmedIsReal`, `NothingMeansGone`, `SubmissionIsRecorded`, `DraftsBounded` |
| `ProcdefProofs` | `TypeCorrect`, `NoUpdateLost` | `ProcTypeOK`, `NoLostUpdate` |
| `FormVersionsProofs` | `FormInvariance`, `VersionsKeepTypes`, `NothingEndsBehind`, `DerivedFollowsLatest`, `AnsweredStaysStored` | `FormInv` and its parts `VersionsTypeOK`, `NothingBehindCurrent`, `DerivedFromLatest`, `AnsweredIsStored` |
| `FormDataProofs` | `DataInvariance`, `DataKeepTypes` | `DataInv`, `DataTypeOK` |
| | `FrozenTextStays`, `CopyFreezes` | `FrozenStays`, `CopyFreezesOrigin`, action properties |
| | `StoreIsBothHalves` | `StoreSpec => FormSpec /\ DataSpec`: what the run explores implements the specification of each half |
| | `StoreKeepsTypes`, `StoreKeepsPromises` | `StoreTypeOK`, and all other properties of the run, of `StoreSpec` |

`OrdersKept` and `OrdersAsPromised` together let the two halves of signing be
proved apart: the engine relies on `SignOrder` and on nothing else of DocBox.

### Assumptions

Each stands as a named `ASSUME` in the module that declares the constants:
`Refs` is finite (`RefsFinite`, for the cardinality of the set of steps), and so
is the set of pages (in `FormsAssumption`, for the number of drafts);
transaction ids are among the signatures, documents have different first steps
and a form instance each (`TxsAreSigs`, `FirstSteps`, `FormsOfDocs`); the value
that stands for *nothing* is none of the others (`NoneIsNothing`,
`NoneIsNoSignature`, `NoRowAssumption`, `IdleIsNoRequest`, and parts of `SignTaskAssumption`, `WorkflowAssumption`,
`FormsAssumption`, `DataAssumptions`); bounds are natural numbers, and a draft
number stays below 9999, which marks a published version (`BoundsOfPaths`); the
texts whose metadata do not fit are among the texts (`SomeAreLong`), any or none
of them; and a version that a form name carries is a path that parses
(`CarriedParse`), since the code reads it with the parser that refuses others.

### The arguments

Hardly any of the properties is inductive. Each proof module begins with the
invariant that is.

**Documents.** `SignedIsLater` needs that the number given to a signed step, a
count made in an earlier query, exceeds the number of the step that is signed
although other requests have committed since. `Inv` adds `StepBelowCount` (a
step number is below the number of steps of its document, and steps are never
deleted: a count may be too low later, which is the race, but exceeds every
step it has seen), `Knows` (what a request has seen between its transactions
and what of it cannot change any more, a clause for each place in the code) and
`NoPdfNoSignature` (a step without PDF counts no signature). Every action is
reduced by `TableStep` to one of four: the tables stay, a document comes with
its first step, a step comes, a PDF comes; `Refinement` follows from the same
lemma.

`OneStepPerSignature` compares the cardinalities of two sets that grow together.
`AllOrNothing` adds what makes that inductive: the requests that were told of a
signature are finitely many (as many as the signed steps), and a request that
was not received yet carries no signature, so that an answer to a request for a
document is not counted. Each action leaves both sets alone or adds one element
to each: the step is new and signed, the request is answered only now.

`EveryPageCovers` is proved over the *abstract* step: a new copy of
`SignedCopies` is an original without pages, or an existing copy with one page at
the end; its earlier pages are those of the existing copy, which the property
covers already. As both specifications implement `SignedCopies` the same lemma,
`EveryPageStep`, serves the requests alone (`PagesCover`) and with the jobs
(`PagesCoverByOrder`).

**Orders.** `SigInv` keeps the `Inv` of the documents and adds what the jobs
hold. `Loaded`: as long as a row has the version that a run has read, nobody
else has finished it; that is what Hibernate's version is worth, and why a
commit that passes the check may write the whole row. `CollectedSound` and
`PostedSound` say what a run may hold at each place, `StepFor` and `CountSound`
what its pending steps will be, `PendingApart` that two runs never prepare the
same reference, `RowSound` what every stored `SigResult` satisfies,
`ForeignSigs` that requests carry no signature of an order, `OutIsReal` that a
reference in a `SigResult` is that of a step with its signature. `AddedOnce`
then holds because a second run that holds the same row fails at its version.
A batch may insert several steps at once, so that the lemmas on the tables are
stated for sets of new steps (`SignedAll`).

`ResumedOnlyLate` needs to know which way a row may have ended when a run stores
it. `EndsSound`: an order that the service has failed has no signature
(`OneEnd`); the rows a run of `CollectJob` holds were due and unfailed when it
took them up, and are unfailed in the table as long as the versions agree
(`CollectsOpen`); those of `PostprocessJob` have not failed (`PostsUnfailed`).
`RowAges` states what no step takes back: a failure, and the passing of a window.
A row that was complete and is not any more has then been neither failed nor
signed, so that it had expired, and only a run of `CollectJob` with a signature
can have written it.

**Signing tasks.** `SignInv`: what is in the variables of a task is an order
that was placed for it (`TasksKeepTheirs`), and what a visit or a run of the
poll carries was placed, or found failed, for the task it works on
(`VisitsSound`, `PollSound`, `FailedWerePlaced`). `FreedByFailure` is a
statement about the copies of the running poll: `PollSound` says that each copy
is an order placed for its task, and that where the run is about to remove the
variables the copy is one that it found failed.

**Task pages.** `WorkflowInv`: a user whom an answer names as the holder has
held the task (`RequestsSound`), the assignee has held it (`HolderHeld`),
and of the submissions that have claimed the task, each that has not lost its
claim to a release is that of the assignee (`ClaimStands`); the one that
completes the task leaves it with its user.

`PatientPageShowsTruth` needs an invariant about each page on its own,
`Patient`: a page that is not `hasty` waits for one answer at most, and only a
page that is open waits; as far as that answer has been made (the task read,
then the candidates) it tells the truth, unless the page is in `changed`; and
with no answer under way what the page shows is the truth, under the same
proviso. A change by one request puts every other page in `changed`, and is told
truly to its own page. The lemmas are one for each kind of step, split by
whether the step belongs to the page or to another one.

**Forms.** `FormsInv`: a new document belongs to one page (`NewDocIsOwn`); the
row a request has read is there (`RowIsRead`); the process it will record was
started (`ProcIsReal`); a document that was not found as that of a task is none
its user may complete (`NoTaskLeft`); one that was sent once is on its way or
recorded (`SentOnce`); what completed the task is the document of the page that
is about to be confirmed (`CompletedBy`). Of repeated submissions
`SubmissionsSound` says that no page records more processes than were started,
and that without a fault the row of a document that was sent is submitted, or
some page is on its way to saving it.

`DraftsBounded` counts. `DraftsSound`: the drafts of a user *and* the pages of
this user that are creating one are together no more than the pages of the user.
A page starts to create only when it finds no draft, when the pages that create
are the whole sum; creating turns a page into a draft; sending and failing only
lower the sum.

**Process definitions.** `NoLostUpdate` follows from the commit alone
(`CommitSawRow`): whatever stands in Activiti by then, the row is replaced only
if it is the one that was read. That the two *agree* in the end is liveness.

**Forms database.** `FormInv`: the definition a request read was the current
one at some time (`RowKnown`, `RowParses`), so that every path it makes comes
after everything older, but for `stray`; `NewKnown` says
which of the new objects passed their validation: every one whose path is free,
and of the versions those that are `Fitting` besides. A commit either goes on
from the row that was read or stores a stray item
(`CommitGoesOnOrIsStray`); the parts of the invariant are proved for each case.
`DataInv`: an item that a call has read is either the item as it is or an
earlier version of it, and the version number tells which (`RowsKnown`). The run
explores one of the halves, which share no row, at a time; that specification
implements both, so that the theorems about each half hold of it.

### Only model-checked

The liveness properties `PollingEnds`, `OrderEndsWait`, `PageIsAnswered` and
`BackInLine`, which are out of the prover's reach, and the violations. Every
other property of a run has a theorem.

## Where code and documentation disagree

Two runs check a statement of the documentation and find it violated; TLC
prints the steps that lead there.

| Run | What the documents say | What the code does |
|---|---|---|
| `signed_is_previous` | `DocBox.md:193`: a conflict occurs if the target step is not the latest | the check and the addition are two transactions, and steps are counted before the version is read (`DocService.groovy:91`): a signature is added behind a step that came in between |
| `failure_frees_task` | `SignForm.java:68`: if signing fails the variable is removed | the poll removes the two variables in two transactions; a new order placed between them loses its document step, is never asked for again, and keeps its variable when it fails |

More statements are written down in the modules beside the properties that do
hold. They are in no configuration; TLC finds each violated when it replaces
the properties of the configuration named.

| Property | Configuration | What the documents say | What the code does |
|---|---|---|---|
| `CreatedOnce` | `RestDoc.cfg` | `RestDocController.groovy:43`, `DocBox.md:33`: nothing is created if the form data uuid is known already | two requests look before either has created: two documents, and later requests find one or the other |
| `ConflictIs409` | `RestDoc.cfg` | `RestSigController.groovy:49`: 409 on concurrent update conflict | the exception of a stale version is not caught: 500 |
| `DocNoIdentifiesStep` | `RestDoc.cfg` | `DocBox.md:177`: the document number identifies the step | the race on the count gives two steps one number (`DocService.groovy:93`), which the sorted set does not notice |
| `ProcessingEnds` | `SignRace.cfg` | `SigResult.groovy:161`: end of processing | a collecting run that began within the window stores a signature after it: complete, then not complete any more. `ResumedOnlyLate` is what holds instead |
| `FailureIsRecorded` | `SignRace.cfg` | `SigResult.groovy:95`: a failure to add the signature leaves a conflict message and ends processing | a refusal in `DocService` marks the batch rollback-only: the message is rolled back, the candidate tried again until its window closes, and with it every other candidate of the batch |
| `QuietPageShowsTruth` | `TaskPages.cfg` | `motrice-internal.js:364`: refresh the work flow info in the page | two answers that arrive in the other order leave the older one on the page |
| `FormOfTaskStands` | `Forms.cfg`, `MaxFaults = 0` | `FormEngine.java:181`: get the existing form instance if the form is initialized already | two loads find none, and the second replaces the document that the first shows |
| `SubmittedHasProcess` | `Forms.cfg`, `MaxFaults = 0` | `ProcessActivityFormInstance.java:102`: a row without process is a start form that was not submitted | the definition is suspended in between: the row is saved as submitted, without a process |
| `PublishedOnlyRetires` | `Procdef.cfg` | `CoordinatriceReleases.md:68`: you cannot go back from state Published | a deletion that was admitted while the definition was in state Edit goes on after another request has published it |
| `EachSaveIsADraft` | `FormStore.cfg` | `PxdItem.groovy:82`: form definitions are never overwritten, each save creates a new draft | two first saves of a form: the validation of the second fails, which is only logged, and its client is told 201 |
| `CurrentIsAVersion` | `FormStore.cfg` | `PxdFormdef.groovy:77`: if there are versions, one of them is the current draft | an editor saves a form with a title of more than 120 characters: the version row is not valid (`PxdFormdefVer.groovy:130`), which is only logged (`RestService.groovy:204`); the definition names the draft, its text is stored, the client is told 201, and the lists of versions do not show it |
| `CurrentParses` | `FormStore.cfg` | `FormdefPath.java:79`, of numbers that are too large: the application will probably prevent this | draft and version are counted up without a look at the limit: the draft after the last is stored and cannot be read again |
| `WholeInstanceIsFrozen` | `FormStore.cfg` | `RestPostxdbController.groovy:153`: sets all items of the instance to the read-only status | an attachment stored after the items were listed stays open to changes |
| `OriginIsFrozen` | `FormStore.cfg` | `RestPostxdbController.groovy:187`: by default set the source instance read-only | a source that was read-only when it was read is not written, and its version not checked; it may have been opened to changes meanwhile |
| `CopyIsWhole` | `FormStore.cfg` | `RestPostxdbController.groovy:186`: all its items | only `data.xml` is copied |

## Assumptions about what lies outside

- PostgreSQL runs READ COMMITTED, Grails' default. Unique constraints are
  those of the domain classes. `version` is GORM's optimistic lock; it is
  incremented when a row or an owned collection of it is dirty. Hibernate
  writes only what is dirty, at a flush; where a query flushes before the
  commit, the row lock is held until the commit, so that both are one step.
- `docStep.doc` is a lazy proxy, which loads the row when the document number
  is first asked for, that is after the count in `createBoxDocStep(docStep)`.
  `addToSteps` loads the `TreeSet` of steps at once.
- A runtime exception thrown through a transactional Grails service marks the
  surrounding transaction rollback-only. `ServiceException` is one.
- An object that fails validation in `save()` is left out, and the rest of the
  session is written: Grails 2.2.4 does so unless `failOnError` is set, which
  `Config.groovy` of postxdb does not. Whether it also keeps an owner from
  being written, by marking it read-only in the session, is not modelled: the
  definition moves on.
- uuids and transaction ids are unique. (The latter are 27 random bits.)
- The signing service gives a signature with completed orders only, and an
  exception has a message, so that `finishConflict` is set.
- A malformed signature is refused with 409. One path, where a local name
  shadows the exception factory (`SigndocService.groovy:505`), gives 500
  instead; it changes nothing in the store.
- Validation limits of DocBox (`signCount` up to 29, step up to 999) are not
  reached.
- Each call of an Activiti service is a transaction of its own;
  `setVariablesLocal`, which sets the variables of a form together, is atomic,
  and a claim of a task that somebody else holds throws.
- A visitor who is not logged in is known by his session.
- Restarts end a request or a run in the middle. A transaction that is never
  committed is one that takes no further action, which every behaviour without
  fairness allows; where there is fairness, breaking off is an action
  (`Abandon`, `PollBreaks`, `Lose`, `Break`).

## What is not modelled

- The audit trail (insert-only, a database of its own), the user interface of
  DocBox, and the formats, for the reasons in `PROJECT.json`. Contents of a
  step other than the PDF: they are written with it and not read by the logic.
- Of the task page: comments and tags of a case, map, menus, date pickers and
  auto-completion. Of the engine: the form handlers that only compute
  addresses, delegates and listeners that Activiti calls within its
  transactions, what is read of the history, identity.
- Of Coordinatrice: connections of forms, categories, languages, the BPMN text,
  packages. `Procdef` has one version of one definition.
- Of the forms database: binary resources of form definitions, each stored once
  under a fresh name; the uuids of editors and the renaming of forms;
  `createFormdataFromArray`; the administrator's pages, which change and delete
  items with no regard to the read-only flag (a TODO in
  `PxdItemController`).
- Open311, the clients of the engine and the older applications.
- Scripts: nearly all JavaScript in the repository is vendored (jQuery, jqPlot
  and the like). The platform's own is `motrice-internal.js` (526 lines), most
  of which `Workflow` models, and `inherit-platform.js` (207 lines), of which it
  models the request.

## Plan

Done: documents and orders (`SignedCopies`, `BoxDoc`, `RestDoc`, `Signatrice`),
signing tasks (`SignOrder`, `SignTask`), task pages (`Workflow`), forms
(`Forms`), process definitions (`Procdef`), the forms database (`FormVersions`,
`FormData`), and the proofs about each.

Left, in this order:

1. Proof of `OneStepPerSignature` with the jobs, where a signed step belongs to an
   answered request or to a `SigResult`.
2. A timely variant of `Signatrice`, with jobs that run within the window: a
   good signature over a latest step is added in the end.
3. The audit trail as a variable of `Signatrice`: a record may tell of a
   signature whose transaction was rolled back.
4. Uuids of editors and renaming in `FormVersions`.
5. `Package`: the import of packages; Open311 last.

## How to run

    tlc -workers 2 -config RestDoc.cfg MCRestDoc
    tlc -workers 2 -config SignRace.cfg MCSignatrice
    tlc -workers 2 -config FormStore.cfg MCFormStore
    tlc -workers 2 -config Procdef.cfg Procdef
    tlapm SignatriceProofs.tla

Each configuration belongs to the module that `PROJECT.json` names in `runs`.
The largest run (`task_pages`) takes a few minutes, the rest less.
