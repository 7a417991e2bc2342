------------------------------- MODULE Forms -------------------------------
(***************************************************************************)
(* The documents behind the forms that the portal shows: the start form of *)
(* a process, whose drafts are rows of mtf_process_activity_form_instance, *)
(* and the form of one task, whose document is a variable of the task. Both *)
(* get a document when they are shown for the first time. A submission     *)
(* names only the document: it completes the task that has it, or starts a *)
(* process. Every step of a page is a transaction of its own.              *)
(***************************************************************************)
EXTENDS Naturals, FiniteSets

CONSTANTS
  Pages,           \* browser pages
  Users,
  Docs,            \* document ids, random and never equal
  MaxSubmissions,  \* bound on the submissions of a start form
  MaxFaults,       \* bound on transactions that fail and requests that break off
  NoDoc, NoUser, NoRow

ASSUME FormsAssumption ==
  /\ MaxSubmissions \in Nat /\ MaxFaults \in Nat
  /\ NoDoc \notin Docs /\ NoUser \notin Users
  /\ IsFiniteSet(Pages)

VARIABLES
  user,     \* page -> the user logged in, or the session of a visitor
  task,     \* the task: whether it is open, its holder, its document; history: the
            \* document whose submission completed it
  rows,     \* document -> its row
  active,   \* the process definition is not suspended
  started,  \* document -> number of processes started with it
  page,     \* page -> what it shows, or what its request has come to
  sent,     \* history: document -> number of submissions that found its row
  faults    \* number of faults so far

vars == <<user, task, rows, active, started, page, sent, faults>>

\* proc: the number of the process among those started with the document; 0 is null.
Row == [user: Users, submitted: BOOLEAN, proc: Nat]
ASSUME NoRowAssumption == NoRow \notin Row

Loads == {"create", "init"}
Sends == {"find", "claim", "complete", "lookup", "start", "save"}
Answers == {"confirmed", "nothing", "error"}

Closed == [pc |-> "closed", doc |-> NoDoc, proc |-> 0]
Page == [pc: {"shown"} \cup Loads \cup Sends \cup Answers, doc: Docs, proc: Nat]

FormsTypeOK ==
  /\ user \in [Pages -> Users]
  /\ task \in [open: BOOLEAN, holder: Users \cup {NoUser}, form: Docs \cup {NoDoc},
               by: Docs \cup {NoDoc}]
  /\ rows \in [Docs -> Row \cup {NoRow}]
  /\ active \in BOOLEAN
  /\ started \in [Docs -> Nat]
  /\ page \in [Pages -> Page \cup {Closed}]
  /\ sent \in [Docs -> 0 .. MaxSubmissions]
  /\ faults \in 0 .. MaxFaults

FormsInit ==
  /\ user \in [Pages -> Users]
  /\ task = [open |-> TRUE, holder |-> NoUser, form |-> NoDoc, by |-> NoDoc]
  /\ rows = [d \in Docs |-> NoRow]
  /\ active = TRUE
  /\ started = [d \in Docs |-> 0]
  /\ page = [p \in Pages |-> Closed]
  /\ sent = [d \in Docs |-> 0]
  /\ faults = 0

-----------------------------------------------------------------------------
(* A form is shown *)

At(p, pc) == page[p].pc = pc
Goes(p, pc) == page' = [page EXCEPT ![p].pc = pc]
Shows(p, pc, d) == page' = [page EXCEPT ![p] = [pc |-> pc, doc |-> d, proc |-> 0]]
Resting(p) == page[p].pc \in {"closed", "shown"} \cup Answers

IsDraft(d) == rows[d] # NoRow /\ ~ rows[d].submitted
DraftsOf(u) == {d \in Docs : IsDraft(d) /\ rows[d].user = u}

\* A document id that is new: nothing has it.
Fresh == {d \in Docs : /\ rows[d] = NoRow /\ task.form # d
                       /\ \A p \in Pages : page[p].doc # d}

\* Mutant: nobody looks for a draft.
OpenNewStart(p) ==
  /\ Resting(p)
  /\ \E d \in Fresh : Shows(p, "create", d)
  /\ UNCHANGED <<user, task, rows, active, started, sent, faults>>

\* getStartFormInstance takes any draft of the user, or makes a document.
OpenStart(p) ==
  /\ Resting(p)
  /\ \/ \E d \in DraftsOf(user[p]) : Shows(p, "shown", d)
     \/ /\ DraftsOf(user[p]) = {}
        /\ \E d \in Fresh : Shows(p, "create", d)
  /\ UNCHANGED <<user, task, rows, active, started, sent, faults>>

DraftRow(p) == [user |-> user[p], submitted |-> FALSE, proc |-> 0]

\* The row of the draft is stored; if that fails the form is shown all the same.
CreateDraft(p) ==
  /\ At(p, "create")
  /\ \/ /\ rows' = [rows EXCEPT ![page[p].doc] = DraftRow(p)]
        /\ UNCHANGED faults
     \/ /\ faults < MaxFaults /\ faults' = faults + 1
        /\ UNCHANGED rows
  /\ Goes(p, "shown")
  /\ UNCHANGED <<user, task, active, started, sent>>

\* Mutant: a task is taken to have a form.
OpenReadyTask(p) ==
  /\ Resting(p) /\ task.open
  /\ Shows(p, "shown", task.form)
  /\ UNCHANGED <<user, task, rows, active, started, sent, faults>>

\* getFormInstance reads the variables of the task; the inbox calls it as well.
OpenTask(p) ==
  /\ Resting(p) /\ task.open
  /\ \/ task.form # NoDoc /\ Shows(p, "shown", task.form)
     \/ task.form = NoDoc /\ \E d \in Fresh : Shows(p, "init", d)
  /\ UNCHANGED <<user, task, rows, active, started, sent, faults>>

\* The variables are set, whatever they are by now. Without a task there is no form.
InitTask(p) ==
  /\ At(p, "init")
  /\ IF task.open
     THEN task' = [task EXCEPT !.form = page[p].doc] /\ Goes(p, "shown")
     ELSE page' = [page EXCEPT ![p] = Closed] /\ UNCHANGED task
  /\ UNCHANGED <<user, rows, active, started, sent, faults>>

-----------------------------------------------------------------------------
(* A form is submitted: Confirm, submitActivityForm *)

\* The form is sent, or the page with the answer is loaded again.
Send(p) ==
  /\ page[p].pc \in {"shown"} \cup Answers
  /\ Goes(p, "find")
  /\ UNCHANGED <<user, task, rows, active, started, sent, faults>>

\* submitForm looks for an open task with the document.
FindTask(p) ==
  /\ At(p, "find")
  /\ Goes(p, IF task.open /\ task.form = page[p].doc THEN "claim" ELSE "lookup")
  /\ UNCHANGED <<user, task, rows, active, started, sent, faults>>

\* Mutant: a task with a holder cannot be claimed.
MayClaimFree(u) == task.holder = NoUser

MayClaim(u) == task.holder \in {NoUser, u}

\* executeTask; if it fails the document is taken for that of a start form.
ClaimTask(p) ==
  /\ At(p, "claim")
  /\ IF task.open /\ MayClaim(user[p])
     THEN task' = [task EXCEPT !.holder = user[p]] /\ Goes(p, "complete")
     ELSE Goes(p, "lookup") /\ UNCHANGED task
  /\ UNCHANGED <<user, rows, active, started, sent, faults>>

CompleteTask(p) ==
  /\ At(p, "complete")
  /\ IF task.open
     THEN task' = [task EXCEPT !.open = FALSE, !.by = page[p].doc] /\ Goes(p, "confirmed")
     ELSE Goes(p, "lookup") /\ UNCHANGED task
  /\ UNCHANGED <<user, rows, active, started, sent, faults>>

\* The row with the document, submitted or not.
LookUpRow(p) ==
  LET d == page[p].doc IN
  /\ At(p, "lookup")
  /\ \/ /\ rows[d] # NoRow /\ sent[d] < MaxSubmissions
        /\ sent' = [sent EXCEPT ![d] = @ + 1]
        /\ Goes(p, "start")
     \/ /\ rows[d] = NoRow
        /\ Goes(p, "nothing")
        /\ UNCHANGED sent
  /\ UNCHANGED <<user, task, rows, active, started, faults>>

\* startProcess answers null if the process cannot be started.
StartProcess(p) ==
  LET d == page[p].doc IN
  /\ At(p, "start")
  /\ IF active
     THEN /\ started' = [started EXCEPT ![d] = @ + 1]
          /\ page' = [page EXCEPT ![p].pc = "save", ![p].proc = started[d] + 1]
     ELSE Goes(p, "save") /\ UNCHANGED started
  /\ UNCHANGED <<user, task, rows, active, sent, faults>>

\* Mutant: the answer does not depend on the process.
AnswerAnyway(p) == "confirmed"

\* The history of no process cannot be read.
AnswerOf(p) == IF page[p].proc = 0 THEN "error" ELSE "confirmed"

\* Mutant: the row keeps what it was read with.
SubmittedOnly(p) == [rows[page[p].doc] EXCEPT !.submitted = TRUE]

\* The row is written as a whole.
SubmittedRow(p) == [user |-> user[p], submitted |-> TRUE, proc |-> page[p].proc]

\* saveProcessActivityFormInstance swallows a failure.
SaveRow(p) ==
  /\ At(p, "save")
  /\ \/ /\ rows' = [rows EXCEPT ![page[p].doc] = SubmittedRow(p)]
        /\ UNCHANGED faults
     \/ /\ faults < MaxFaults /\ faults' = faults + 1
        /\ UNCHANGED rows
  /\ page' = [page EXCEPT ![p].pc = AnswerOf(p), ![p].proc = 0]
  /\ UNCHANGED <<user, task, active, started, sent>>

\* The server restarts, or the page is left before it is answered.
Break(p) ==
  /\ ~ Resting(p)
  /\ faults < MaxFaults /\ faults' = faults + 1
  /\ page' = [page EXCEPT ![p].pc = "error", ![p].proc = 0]
  /\ UNCHANGED <<user, task, rows, active, started, sent>>

\* Coordinatrice suspends and activates the definition.
Suspend ==
  /\ active' = ~ active
  /\ UNCHANGED <<user, task, rows, started, page, sent, faults>>

-----------------------------------------------------------------------------

FormsNext ==
  \/ \E p \in Pages :
       \/ OpenStart(p) \/ CreateDraft(p) \/ OpenTask(p) \/ InitTask(p)
       \/ Send(p) \/ FindTask(p) \/ ClaimTask(p) \/ CompleteTask(p)
       \/ LookUpRow(p) \/ StartProcess(p) \/ SaveRow(p) \/ Break(p)
  \/ Suspend

FormsSpec == FormsInit /\ [][FormsNext]_vars

-----------------------------------------------------------------------------
(* Properties *)

\* Who gets a confirmation has completed the task with the document of his page, or
\* has started a process with it: an exception that was swallowed on the way is not
\* confirmed, nor is what somebody else has done with another document.
ConfirmedIsReal ==
  \A p \in Pages : At(p, "confirmed") =>
    (~ task.open /\ task.by = page[p].doc) \/ started[page[p].doc] > 0

\* A submission comes to nothing only if the document has no row, and is not that
\* of a task that its user may still complete.
NothingMeansGone ==
  \A p \in Pages : At(p, "nothing") =>
    LET d == page[p].doc IN
      rows[d] = NoRow /\ (task.form # d \/ ~ task.open \/ task.holder \notin {NoUser, user[p]})

\* However often a start form is opened and submitted, the loads that found no
\* draft at the same time are all that can give a user more than one.
DraftsBounded ==
  \A u \in Users : Cardinality(DraftsOf(u)) <= Cardinality({p \in Pages : user[p] = u})

Submitting(d) == \E p \in Pages : page[p].doc = d /\ page[p].pc \in Sends

\* However often a start form is submitted, on however many pages at once, without a
\* fault it ends up recorded as submitted, with no process that it has not started;
\* submitted once, with the process that it has started if it has started one.
SubmissionIsRecorded ==
  \A d \in Docs : sent[d] > 0 /\ faults = 0 /\ ~ Submitting(d) =>
    /\ rows[d] # NoRow /\ rows[d].submitted
    /\ rows[d].proc <= started[d]
    /\ sent[d] = 1 => rows[d].proc = started[d]

\* FormEngine.java, 'Get existing FormInstance if form already is initialized': the
\* form of a task stays what it is.
FormOfTaskStands == [][task.form # NoDoc => task'.form = task.form]_vars

\* ProcessActivityFormInstance.java, of the process of a row: 'If null, this is a
\* not submitted start form'.
SubmittedHasProcess ==
  \A d \in Docs : rows[d] # NoRow /\ rows[d].submitted => rows[d].proc # 0
=============================================================================
