------------------------------ MODULE SignTask ------------------------------
(***************************************************************************)
(* User tasks in which somebody is to sign a document. The sign form of the *)
(* portal orders a signature from DocBox and keeps the order in variables   *)
(* of the task, each set in a transaction of its own. Every five seconds     *)
(* the engine asks DocBox about the orders of all tasks that have one, and   *)
(* completes the task, or takes the variables away, in two transactions     *)
(* each. Meanwhile tasks are locked by users and end for other reasons.     *)
(***************************************************************************)
EXTENDS Naturals, FiniteSets, SignOrder

CONSTANTS
  Tasks,
  Visits,    \* requests for the sign form that may be under way at once
  Refs,      \* document steps, by docboxRef
  Signer,    \* the user whose personal number is in the signature
  Others,    \* other users that may lock a task
  Abandons,  \* whether a visit may break off, by an exception or a restart
  MaxBreaks, \* bound on the runs of the poll that break off
  None

ASSUME SignTaskAssumption ==
  /\ None \notin Orders \cup Refs \cup Others \cup {Signer}
  /\ Signer \notin Others
  /\ MaxBreaks \in Nat

Holders == Others \cup {Signer, None}

VARIABLES
  open,    \* task -> whether it is there
  holder,  \* task -> its assignee
  tx,      \* task -> its variable motriceFormSignTransactionId
  ref,     \* task -> its variable motriceFormSignDocboxRef
  signed,  \* task -> the order whose success completed it
  latest,  \* the latest step of the document that is to be signed
  of,      \* history: order -> its task and the step that it is to sign
  failed,  \* history: orders that the poll has been told of as failed
  visit,   \* the state of every visit
  poll,    \* the state of the poll
  breaks   \* number of runs of the poll that have broken off

task == <<open, holder, tx, ref, signed>>
document == <<latest, outcome, of>>
vars == <<task, document, failed, visit, poll, breaks>>

NoVisit == [pc |-> "idle", task |-> None, ref |-> None, order |-> None]

\* The poll has a copy of the variables of the tasks that it has yet to ask for.
NoPoll == [pc |-> "idle", todo |-> {}, tx |-> [t \in Tasks |-> None],
           ref |-> [t \in Tasks |-> None], task |-> None]

SignTypeOK ==
  /\ open \in [Tasks -> BOOLEAN]
  /\ holder \in [Tasks -> Holders]
  /\ tx \in [Tasks -> Orders \cup {None}]
  /\ ref \in [Tasks -> Refs \cup {None}]
  /\ signed \in [Tasks -> Orders \cup {None}]
  /\ latest \in Refs
  /\ outcome \in [Orders -> Outcomes]
  /\ of \in [Orders -> [task: Tasks \cup {None}, ref: Refs \cup {None}]]
  /\ failed \subseteq Orders
  /\ visit \in [Visits -> [pc: {"idle", "text", "order", "tx", "ref"},
                           task: Tasks \cup {None}, ref: Refs \cup {None},
                           order: Orders \cup {None}]]
  /\ poll \in [pc: {"idle", "run", "claim", "complete", "untx", "unref"},
               todo: SUBSET Tasks, tx: [Tasks -> Orders \cup {None}],
               ref: [Tasks -> Refs \cup {None}], task: Tasks \cup {None}]
  /\ breaks \in 0 .. MaxBreaks

SignInit ==
  /\ OrderInit
  /\ open = [t \in Tasks |-> TRUE]
  /\ holder = [t \in Tasks |-> None]
  /\ tx = [t \in Tasks |-> None]
  /\ ref = [t \in Tasks |-> None]
  /\ signed = [t \in Tasks |-> None]
  /\ latest \in Refs
  /\ of = [o \in Orders |-> [task |-> None, ref |-> None]]
  /\ failed = {}
  /\ visit = [v \in Visits |-> NoVisit]
  /\ poll = NoPoll
  /\ breaks = 0

-----------------------------------------------------------------------------
(* The sign form *)

\* doBeforeRender finds the task, and no order in its variables. If there is an
\* order, or the task is done, the form shows that and changes nothing.
Look(v, t) ==
  /\ visit[v].pc = "idle"
  /\ open[t]
  /\ tx[t] = None
  /\ visit' = [visit EXCEPT ![v].pc = "text", ![v].task = t]
  /\ UNCHANGED <<task, document, failed, poll, breaks>>

\* The text that the user confirmed is the text of the latest step. If it is
\* not, or if it is the first visit, the form is shown with the new text.
CompareText(v) ==
  /\ visit[v].pc = "text"
  /\ visit' = [visit EXCEPT ![v].pc = "order", ![v].ref = latest]
  /\ UNCHANGED <<task, document, failed, poll, breaks>>

\* createSignRequestOfForm: the order is placed with DocBox, which refuses it if
\* the step is not the latest any more. The answer names the order.
PlaceSignRequest(v, o) ==
  /\ visit[v].pc = "order"
  /\ visit[v].ref = latest
  /\ outcome[o] = "none"
  /\ outcome' = [outcome EXCEPT ![o] = "pending"]
  /\ of' = [of EXCEPT ![o] = [task |-> visit[v].task, ref |-> visit[v].ref]]
  /\ visit' = [visit EXCEPT ![v].pc = "tx", ![v].order = o]
  /\ UNCHANGED <<task, latest, failed, poll, breaks>>

Refused(v) ==
  /\ visit[v].pc \in {"text", "order"}
  /\ visit' = [visit EXCEPT ![v] = NoVisit]
  /\ UNCHANGED <<task, document, failed, poll, breaks>>

\* The task is found by its form instance, the first variable is set. If the
\* task is gone, the visit ends with an exception.
SetTx(v) ==
  /\ visit[v].pc = "tx"
  /\ LET t == visit[v].task IN
     \/ /\ open[t]
        /\ tx' = [tx EXCEPT ![t] = visit[v].order]
        /\ visit' = [visit EXCEPT ![v].pc = "ref"]
     \/ /\ ~ open[t]
        /\ visit' = [visit EXCEPT ![v] = NoVisit]
        /\ UNCHANGED tx
  /\ UNCHANGED <<open, holder, ref, signed, document, failed, poll, breaks>>

\* Mutant: the second variable gets the value of the first.
SetTxTwice(v) ==
  /\ visit[v].pc = "ref"
  /\ LET t == visit[v].task IN
     ref' = IF open[t] THEN [ref EXCEPT ![t] = visit[v].order] ELSE ref
  /\ visit' = [visit EXCEPT ![v] = NoVisit]
  /\ UNCHANGED <<open, holder, tx, signed, document, failed, poll, breaks>>

\* The second variable. The third, the checksum, is never read.
SetRef(v) ==
  /\ visit[v].pc = "ref"
  /\ LET t == visit[v].task IN
     ref' = IF open[t] THEN [ref EXCEPT ![t] = visit[v].ref] ELSE ref
  /\ visit' = [visit EXCEPT ![v] = NoVisit]
  /\ UNCHANGED <<open, holder, tx, signed, document, failed, poll, breaks>>

\* A visit breaks off: the answer of DocBox is lost, or the server restarted.
Abandon(v) ==
  /\ Abandons
  /\ visit[v].pc \in {"tx", "ref"}
  /\ visit' = [visit EXCEPT ![v] = NoVisit]
  /\ UNCHANGED <<task, document, failed, poll, breaks>>

-----------------------------------------------------------------------------
(* DocBox *)

\* An order is carried out, or not: a signature makes a new step the latest one.
Settle(o, e) ==
  /\ <<outcome[o], e>> \in MayEnd \cup MayRevive
  /\ outcome' = [outcome EXCEPT ![o] = e]
  /\ latest' \in IF e = "success" THEN Refs \ {latest} ELSE {latest}
  /\ UNCHANGED <<task, of, failed, visit, poll, breaks>>

\* docSigCollect finds the order by its transaction id and its document step.
Told(o, r) == r # None /\ of[o].ref = r

-----------------------------------------------------------------------------
(* The poll *)

\* pollCompletedSignRequest: the query, which copies the variables.
PollTasks ==
  LET waiting == {t \in Tasks : open[t] /\ tx[t] # None} IN
  /\ poll.pc = "idle"
  /\ waiting # {}
  /\ poll' = [NoPoll EXCEPT !.pc = "run", !.todo = waiting, !.tx = tx, !.ref = ref]
  /\ UNCHANGED <<task, document, failed, visit, breaks>>

\* What is left to do when a task has been dealt with.
Done(t) ==
  IF poll.todo \subseteq {t} THEN NoPoll
  ELSE [poll EXCEPT !.pc = "run", !.todo = @ \ {t}, !.task = None]

\* Mutant: processing that is complete counts as success.
CheckCompleteOnly(t) ==
  LET o == poll.tx[t] IN
  /\ poll.pc = "run"
  /\ t \in poll.todo
  /\ \/ /\ Told(o, poll.ref[t]) /\ outcome[o] \in {"failed", "success"}
        /\ poll' = [poll EXCEPT !.pc = "claim", !.task = t]
     \/ /\ ~ Told(o, poll.ref[t]) \/ outcome[o] = "pending"
        /\ poll' = Done(t)
  /\ UNCHANGED <<task, document, failed, visit, breaks>>

\* Mutant: whatever is not a success is a failure.
CheckSuccessOnly(t) ==
  LET o == poll.tx[t] IN
  /\ poll.pc = "run"
  /\ t \in poll.todo
  /\ IF Told(o, poll.ref[t]) /\ outcome[o] = "success"
     THEN poll' = [poll EXCEPT !.pc = "claim", !.task = t]
     ELSE poll' = [poll EXCEPT !.pc = "untx", !.task = t]
  /\ UNCHANGED <<task, document, failed, visit, breaks>>

\* Mutant: an order that has failed is left alone.
CheckSuccess(t) ==
  LET o == poll.tx[t]
      success == Told(o, poll.ref[t]) /\ outcome[o] = "success" IN
  /\ poll.pc = "run"
  /\ t \in poll.todo
  /\ poll' = IF success THEN [poll EXCEPT !.pc = "claim", !.task = t] ELSE Done(t)
  /\ UNCHANGED <<task, document, failed, visit, breaks>>

\* checkOutcomeSignatureRequest and what follows from its answer. No answer, for
\* whatever reason, counts as not complete yet.
CheckOutcome(t) ==
  LET o == poll.tx[t]
      told == Told(o, poll.ref[t]) IN
  /\ poll.pc = "run"
  /\ t \in poll.todo
  /\ \/ /\ told /\ outcome[o] = "success"
        /\ poll' = [poll EXCEPT !.pc = "claim", !.task = t]
        /\ UNCHANGED failed
     \/ /\ told /\ outcome[o] = "failed"
        /\ poll' = [poll EXCEPT !.pc = "untx", !.task = t]
        /\ failed' = failed \cup {o}
     \/ /\ ~ told \/ outcome[o] = "pending"
        /\ poll' = Done(t)
        /\ UNCHANGED failed
  /\ UNCHANGED <<task, document, visit, breaks>>

\* The connection fails, or the server restarts, at any time during a run.
PollBreaks ==
  /\ breaks < MaxBreaks
  /\ poll.pc # "idle"
  /\ poll' = NoPoll
  /\ breaks' = breaks + 1
  /\ UNCHANGED <<task, document, failed, visit>>

\* executeTask claims the task for the signer; fails if another user holds it or
\* it is gone ...
PollClaims ==
  /\ poll.pc = "claim"
  /\ LET t == poll.task
         may == open[t] /\ holder[t] \in {Signer, None} IN
     /\ holder' = IF may THEN [holder EXCEPT ![t] = Signer] ELSE holder
     /\ poll' = IF may THEN [poll EXCEPT !.pc = "complete"] ELSE Done(t)
  /\ UNCHANGED <<open, tx, ref, signed, document, failed, visit, breaks>>

\* ... and completes it. The variables go with the task.
PollCompletes ==
  /\ poll.pc = "complete"
  /\ LET t == poll.task IN
     /\ open' = [open EXCEPT ![t] = FALSE]
     /\ signed' = IF open[t] THEN [signed EXCEPT ![t] = poll.tx[t]] ELSE signed
     /\ poll' = Done(t)
  /\ UNCHANGED <<holder, tx, ref, document, failed, visit, breaks>>

\* A failed order: its variables are removed one by one. If the task is gone the
\* exception ends the run.
PollRemovesTx ==
  /\ poll.pc = "untx"
  /\ LET t == poll.task IN
     /\ tx' = IF open[t] THEN [tx EXCEPT ![t] = None] ELSE tx
     /\ poll' = IF open[t] THEN [poll EXCEPT !.pc = "unref"] ELSE NoPoll
  /\ UNCHANGED <<open, holder, ref, signed, document, failed, visit, breaks>>

PollRemovesRef ==
  /\ poll.pc = "unref"
  /\ LET t == poll.task IN
     /\ ref' = IF open[t] THEN [ref EXCEPT ![t] = None] ELSE ref
     /\ poll' = IF open[t] THEN Done(t) ELSE NoPoll
  /\ UNCHANGED <<open, holder, tx, signed, document, failed, visit, breaks>>

-----------------------------------------------------------------------------
(* Everything else that happens to a task *)

\* A lock of the signer makes no difference to the poll.
Lock(t, u) ==
  /\ open[t]
  /\ holder[t] = None
  /\ holder' = [holder EXCEPT ![t] = u]
  /\ UNCHANGED <<open, tx, ref, signed, document, failed, visit, poll, breaks>>

Unlock(t) ==
  /\ open[t]
  /\ holder[t] # None
  /\ holder' = [holder EXCEPT ![t] = None]
  /\ UNCHANGED <<open, tx, ref, signed, document, failed, visit, poll, breaks>>

\* A coordinator deletes the process instance, or completes the task.
EndTask(t) ==
  /\ open[t]
  /\ open' = [open EXCEPT ![t] = FALSE]
  /\ UNCHANGED <<holder, tx, ref, signed, document, failed, visit, poll, breaks>>

-----------------------------------------------------------------------------

VisitNext(v) ==
  \/ \E t \in Tasks : Look(v, t)
  \/ CompareText(v)
  \/ \E o \in Orders : PlaceSignRequest(v, o)
  \/ Refused(v)
  \/ Abandon(v)

SetVariables(v) == SetTx(v) \/ SetRef(v)

PollNext ==
  \/ PollTasks
  \/ \E t \in Tasks : CheckOutcome(t)
  \/ PollClaims
  \/ PollCompletes
  \/ PollRemovesTx
  \/ PollRemovesRef

SignTaskNext ==
  \/ \E v \in Visits : VisitNext(v) \/ SetVariables(v)
  \/ \E o \in Orders, e \in Outcomes : Settle(o, e)
  \/ PollNext
  \/ PollBreaks
  \/ \E t \in Tasks :
       \/ \E u \in Others : Lock(t, u)
       \/ Unlock(t)
       \/ EndTask(t)

SignTaskSpec == SignInit /\ [][SignTaskNext]_vars

\* The scheduler starts the poll again and again. A visit that has placed its
\* order goes on, if it is not broken off.
SignTaskFairSpec ==
  /\ SignTaskSpec
  /\ WF_vars(PollNext)
  /\ \A v \in Visits : WF_vars(SetVariables(v))

-----------------------------------------------------------------------------
(* Properties *)

Waits(t, o) == open[t] /\ tx[t] = o /\ ref[t] = of[o].ref

\* A task that the poll has completed was signed: DocBox carried the order out,
\* the order was placed for this task, and no restart, second order or answer
\* that arrived too late makes it otherwise.
CompletedBySignature ==
  \A t \in Tasks : signed[t] # None =>
    ~ open[t] /\ outcome[signed[t]] = "success" /\ of[signed[t]].task = t

\* The order that the running poll has read of the task was placed for it, and the
\* poll was told that it has failed.
ReadAndFailed(t) == poll.tx[t] \in failed /\ of[poll.tx[t]].task = t

\* The poll takes an order from a task only after it was told that the one it has
\* read there has failed, not one of another task or of an earlier run. What it takes
\* is that order, or one that was set since.
FreedByFailure ==
  [][\A t \in Tasks : tx[t] # None /\ tx'[t] = None => ReadAndFailed(t)]_vars

OnlyOrder(t) == Cardinality({o \in Orders : of[o].task = t}) <= 1

\* Where only one order is ever placed for a task, the task does not wait for it
\* for ever: once the order has ended for good the task is completed or freed,
\* whatever befalls the poll and the tasks that it is asking for in the same run.
OrderEndsWait ==
  \A t \in Tasks, o \in Orders :
    /\ <>[](holder[t] \in {Signer, None})
    /\ []OnlyOrder(t)
    /\ <>[](outcome[o] \in {"failed", "success"})
    => <>[](~ Waits(t, o))

\* SignForm, 'If signing fails the motriceFormSignTransactionId task variable
\* _must_ be removed', so that the form offers to sign anew.
FailureFreesTask ==
  \A t \in Tasks, o \in Orders :
    <>[](holder[t] \in {Signer, None}) =>
      (outcome[o] = "failed" /\ Waits(t, o) ~> tx[t] # o \/ ~ open[t])
=============================================================================
