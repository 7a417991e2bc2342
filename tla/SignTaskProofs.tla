--------------------------- MODULE SignTaskProofs ---------------------------
(* Proofs of the safety properties of SignTask. *)
EXTENDS SignTask, TLAPS

USE SignTaskAssumption

-----------------------------------------------------------------------------
(* The inductive invariant *)

VisitState == [pc: {"idle", "text", "order", "tx", "ref"}, task: Tasks \cup {None},
               ref: Refs \cup {None}, order: Orders \cup {None}]

PollState == [pc: {"idle", "run", "claim", "complete", "untx", "unref"}, todo: SUBSET Tasks,
              tx: [Tasks -> Orders \cup {None}], ref: [Tasks -> Refs \cup {None}],
              task: Tasks \cup {None}]

\* The order has been placed with DocBox for the task.
PlacedFor(o, t) == o \in Orders /\ outcome[o] # "none" /\ of[o].task = t

FailedWerePlaced == \A o \in failed : outcome[o] # "none"

\* The order that a task keeps, or that a visit is about to have it keep, was
\* placed for that task.
TasksKeepTheirs == \A t \in Tasks : tx[t] # None => PlacedFor(tx[t], t)

VisitSound(n) == n.pc \in {"tx", "ref"} => n.task \in Tasks /\ PlacedFor(n.order, n.task)

VisitsSound == \A v \in Visits : VisitSound(visit[v])

\* So were those that the poll has read; what it is about to do follows from what
\* DocBox has told it.
PollSound(p) ==
  /\ \A t \in Tasks : p.tx[t] # None => PlacedFor(p.tx[t], t)
  /\ \A t \in p.todo : p.tx[t] # None
  /\ p.pc \in {"claim", "complete", "untx", "unref"} =>
       p.task \in Tasks /\ p.tx[p.task] # None
  /\ p.pc \in {"claim", "complete"} => outcome[p.tx[p.task]] = "success"
  /\ p.pc \in {"untx", "unref"} => p.tx[p.task] \in failed

\* A visit that looks at a task has found one.
VisitsHaveTasks == \A v \in Visits : visit[v].pc # "idle" => visit[v].task \in Tasks

SignInv ==
  /\ SignTypeOK /\ FailedWerePlaced /\ TasksKeepTheirs /\ VisitsSound /\ VisitsHaveTasks
  /\ PollSound(poll) /\ CompletedBySignature

LEMMA InvAtFirst ==
  ASSUME SignInit
  PROVE  SignInv
<1>1. NoPoll \in PollState /\ PollSound(NoPoll)
  BY DEF NoPoll, PollState, PollSound
<1>2. NoVisit \in VisitState /\ VisitSound(NoVisit) /\ NoVisit.pc = "idle"
  BY DEF NoVisit, VisitState, VisitSound
<1>3. SignTypeOK
  BY <1>1, <1>2 DEF SignInit, OrderInit, SignTypeOK, Holders, Outcomes, VisitState, PollState
<1>. QED
  BY <1>1, <1>2, <1>3 DEF SignInit, SignInv, FailedWerePlaced, TasksKeepTheirs, VisitsSound,
     VisitsHaveTasks, CompletedBySignature

-----------------------------------------------------------------------------
(* Orders *)

\* An order that has been placed stays the order of its task, and a success stays one.
OrdersStand ==
  /\ outcome' \in [Orders -> Outcomes]
  /\ of' \in [Orders -> [task: Tasks \cup {None}, ref: Refs \cup {None}]]
  /\ \A o \in Orders : outcome[o] # "none" => outcome'[o] # "none" /\ of'[o] = of[o]
  /\ \A o \in Orders : outcome[o] = "success" => outcome'[o] = "success"

LEMMA DocumentStands ==
  ASSUME SignInv, UNCHANGED <<outcome, of>>
  PROVE  OrdersStand
BY DEF SignInv, SignTypeOK, OrdersStand

LEMMA SettleStands ==
  ASSUME SignInv, NEW o \in Orders, NEW e \in Outcomes, Settle(o, e)
  PROVE  OrdersStand
<1>1. outcome[o] \notin {"none", "success"} /\ e # "none"
  BY DEF Settle, MayEnd, MayRevive
<1>2. outcome' = [outcome EXCEPT ![o] = e] /\ of' = of
  BY DEF Settle
<1>. QED
  BY <1>1, <1>2 DEF SignInv, SignTypeOK, OrdersStand

\* What was placed, found or told before the orders went on still holds.
LEMMA SoundStays ==
  ASSUME SignInv, OrdersStand, failed \subseteq failed'
  PROVE  /\ \A o, t : PlacedFor(o, t) => PlacedFor(o, t)'
         /\ \A n \in VisitState : VisitSound(n) => VisitSound(n)'
         /\ \A p \in PollState : PollSound(p) => PollSound(p)'
<1>1. ASSUME NEW o, NEW t, PlacedFor(o, t)
      PROVE  PlacedFor(o, t)'
  BY <1>1 DEF PlacedFor, OrdersStand
<1>2. ASSUME NEW n \in VisitState, VisitSound(n)
      PROVE  VisitSound(n)'
  BY <1>1, <1>2 DEF VisitSound
<1>3. ASSUME NEW p \in PollState, PollSound(p)
      PROVE  PollSound(p)'
  <2>1. \A t \in Tasks : p.tx[t] # None => PlacedFor(p.tx[t], t)'
    BY <1>1, <1>3 DEF PollSound
  <2>2. p.pc \in {"claim", "complete"} => outcome'[p.tx[p.task]] = "success"
    BY <1>3 DEF PollSound, PollState, OrdersStand, PlacedFor
  <2>. QED
    BY <1>3, <2>1, <2>2 DEF PollSound
<1>. QED
  BY <1>1, <1>2, <1>3

\* A step that changes at most one visit and one part of the tasks' variables, and
\* leaves what it changes sound.
LEMMA StepKeeps ==
  ASSUME SignInv, OrdersStand, failed \subseteq failed', failed' \subseteq Orders,
         \A o \in failed' \ failed : outcome'[o] # "none",
         UNCHANGED tx \/ (tx' \in [Tasks -> Orders \cup {None}] /\ TasksKeepTheirs'),
         UNCHANGED ref \/ ref' \in [Tasks -> Refs \cup {None}],
         UNCHANGED signed \/ (signed' \in [Tasks -> Orders \cup {None}] /\ CompletedBySignature'),
         latest' \in Refs, breaks' \in 0 .. MaxBreaks,
         open' \in [Tasks -> BOOLEAN], \A t \in Tasks : ~ open[t] => ~ open'[t],
         holder' \in [Tasks -> Holders],
         visit' = visit \/ \E v \in Visits, n \in VisitState :
            /\ visit' = [visit EXCEPT ![v] = n] /\ VisitSound(n)'
            /\ n.pc # "idle" => n.task \in Tasks,
         poll' = poll \/ (poll' \in PollState /\ PollSound(poll)')
  PROVE  SignInv'
<1>. USE DEF SignInv
<1>1. visit \in [Visits -> VisitState] /\ poll \in PollState
  BY DEF SignTypeOK, VisitState, PollState
<1>2. visit' \in [Visits -> VisitState] /\ VisitsSound' /\ VisitsHaveTasks'
  <2>1. CASE visit' = visit
    BY <1>1, <2>1, SoundStays DEF VisitsSound, VisitsHaveTasks
  <2>2. ASSUME NEW v \in Visits, NEW n \in VisitState, visit' = [visit EXCEPT ![v] = n],
               VisitSound(n)', n.pc # "idle" => n.task \in Tasks
        PROVE  visit' \in [Visits -> VisitState] /\ VisitsSound' /\ VisitsHaveTasks'
    BY <1>1, <2>2, SoundStays DEF VisitsSound, VisitsHaveTasks
  <2>. QED
    BY <2>1, <2>2
<1>3. poll' \in PollState /\ PollSound(poll)'
  <2>1. CASE poll' = poll
    <3>1. PICK p \in PollState : p = poll
      BY <1>1
    <3>2. PollSound(p)'
      BY <3>1, SoundStays
    <3>. QED
      BY <2>1, <3>1, <3>2
  <2>. QED
    BY <2>1
<1>4. SignTypeOK'
  BY <1>2, <1>3 DEF SignTypeOK, OrdersStand, VisitState, PollState
<1>5. FailedWerePlaced'
  BY DEF FailedWerePlaced, SignTypeOK, OrdersStand
<1>6. TasksKeepTheirs'
  BY SoundStays DEF TasksKeepTheirs
<1>7. CompletedBySignature'
  BY DEF CompletedBySignature, SignTypeOK, OrdersStand
<1>. QED
  BY <1>2, <1>3, <1>4, <1>5, <1>6, <1>7

-----------------------------------------------------------------------------
(* The sign form, DocBox and what else befalls a task *)

LEMMA VisitTypes ==
  ASSUME SignInv, NEW v \in Visits
  PROVE  visit[v] \in VisitState /\ VisitSound(visit[v])
         /\ (visit[v].pc # "idle" => visit[v].task \in Tasks)
BY DEF SignInv, SignTypeOK, VisitState, VisitsSound, VisitsHaveTasks

LEMMA NoVisitSound == NoVisit \in VisitState /\ NoVisit.pc = "idle" /\ VisitSound(NoVisit)
BY DEF NoVisit, VisitState, VisitSound

\* A visit goes on, and nothing else.
LEMMA VisitGoes ==
  ASSUME SignInv, NEW v \in Visits, NEW n \in VisitState, visit' = [visit EXCEPT ![v] = n],
         n.pc \notin {"tx", "ref"}, n.pc # "idle" => n.task \in Tasks,
         UNCHANGED <<task, document, failed, poll, breaks>>
  PROVE  SignInv'
<1>1. OrdersStand
  BY DocumentStands DEF document
<1>2. VisitSound(n)'
  BY DEF VisitSound
<1>. QED
  BY <1>1, <1>2, StepKeeps DEF task, document, SignInv, SignTypeOK

LEMMA VisitKeeps ==
  ASSUME SignInv, NEW v \in Visits,
         (\E t \in Tasks : Look(v, t)) \/ CompareText(v) \/ Refused(v) \/ Abandon(v)
  PROVE  SignInv'
<1>1. visit[v] \in VisitState
  BY VisitTypes
<1>2. ASSUME NEW t \in Tasks, Look(v, t)
      PROVE  SignInv'
  <2>1. PICK n : n = [visit[v] EXCEPT !.pc = "text", !.task = t]
    OBVIOUS
  <2>2. n \in VisitState /\ n.pc = "text" /\ n.task = t
    BY <1>1, <2>1 DEF VisitState
  <2>3. visit' = [visit EXCEPT ![v] = n]
    BY <1>2, <2>1 DEF Look
  <2>. QED
    BY <1>2, <2>2, <2>3, VisitGoes DEF Look
<1>3. ASSUME CompareText(v)
      PROVE  SignInv'
  <2>1. PICK n : n = [visit[v] EXCEPT !.pc = "order", !.ref = latest]
    OBVIOUS
  <2>2. n \in VisitState /\ n.pc = "order" /\ n.task = visit[v].task
    BY <1>1, <2>1 DEF VisitState, SignInv, SignTypeOK
  <2>3. visit' = [visit EXCEPT ![v] = n] /\ n.task \in Tasks
    BY <1>3, <2>1, <2>2, VisitTypes DEF CompareText
  <2>. QED
    BY <1>3, <2>2, <2>3, VisitGoes DEF CompareText
<1>4. ASSUME Refused(v) \/ Abandon(v)
      PROVE  SignInv'
  BY <1>4, NoVisitSound, VisitGoes DEF Refused, Abandon
<1>. QED
  BY <1>2, <1>3, <1>4

LEMMA PlaceSignRequestKeeps ==
  ASSUME SignInv, NEW v \in Visits, NEW o \in Orders, PlaceSignRequest(v, o)
  PROVE  SignInv'
<1>1. visit[v] \in VisitState /\ visit[v].task \in Tasks
  BY VisitTypes DEF PlaceSignRequest
<1>2. PICK n : n = [visit[v] EXCEPT !.pc = "tx", !.order = o]
  OBVIOUS
<1>3. n \in VisitState /\ n.pc = "tx" /\ n.task = visit[v].task /\ n.order = o
  BY <1>1, <1>2 DEF VisitState
<1>4. visit' = [visit EXCEPT ![v] = n]
  BY <1>2 DEF PlaceSignRequest
<1>5. PICK w : w = [task |-> visit[v].task, ref |-> visit[v].ref]
  OBVIOUS
<1>6. w \in [task: Tasks \cup {None}, ref: Refs \cup {None}] /\ w.task = visit[v].task
  BY <1>1, <1>5 DEF VisitState
<1>7. /\ outcome[o] = "none" /\ outcome' = [outcome EXCEPT ![o] = "pending"]
      /\ of' = [of EXCEPT ![o] = w]
  BY <1>5 DEF PlaceSignRequest
<1>8. OrdersStand
  BY <1>6, <1>7 DEF OrdersStand, SignInv, SignTypeOK, Outcomes
<1>9. VisitSound(n)'
  BY <1>1, <1>3, <1>6, <1>7 DEF VisitSound, PlacedFor, SignInv, SignTypeOK
<1>. QED
  BY <1>1, <1>3, <1>4, <1>8, <1>9, StepKeeps DEF PlaceSignRequest, task, SignInv, SignTypeOK

LEMMA SettleKeeps ==
  ASSUME SignInv, NEW o \in Orders, NEW e \in Outcomes, Settle(o, e)
  PROVE  SignInv'
<1>1. latest' \in Refs
  BY DEF Settle, SignInv, SignTypeOK
<1>. QED
  BY <1>1, SettleStands, StepKeeps DEF Settle, task, SignInv, SignTypeOK

LEMMA OtherKeeps ==
  ASSUME SignInv, NEW t \in Tasks, (\E u \in Others : Lock(t, u)) \/ Unlock(t) \/ EndTask(t)
  PROVE  SignInv'
<1>1. UNCHANGED <<tx, ref, signed, document, failed, visit, poll, breaks>>
  BY DEF Lock, Unlock, EndTask
<1>2. /\ open' \in [Tasks -> BOOLEAN] /\ \A s \in Tasks : ~ open[s] => ~ open'[s]
      /\ holder' \in [Tasks -> Holders]
  <2>1. ASSUME NEW u \in Holders, UNCHANGED open, holder' = [holder EXCEPT ![t] = u]
        PROVE  /\ open' \in [Tasks -> BOOLEAN] /\ \A s \in Tasks : ~ open[s] => ~ open'[s]
               /\ holder' \in [Tasks -> Holders]
    BY <2>1 DEF SignInv, SignTypeOK
  <2>2. CASE EndTask(t)
    BY <2>2 DEF EndTask, SignInv, SignTypeOK
  <2>. QED
    BY <2>1, <2>2 DEF Lock, Unlock, Holders
<1>3. OrdersStand
  BY <1>1, DocumentStands DEF document
<1>. QED
  BY <1>1, <1>2, <1>3, StepKeeps DEF document, SignInv, SignTypeOK

-----------------------------------------------------------------------------
(* Steps that change the variables of a task *)

LEMMA SetVariablesKeep ==
  ASSUME SignInv, NEW v \in Visits, SetVariables(v)
  PROVE  SignInv' /\ \A t \in Tasks : tx[t] # None => tx'[t] # None
<1>1. visit[v] \in VisitState /\ visit[v].pc \in {"tx", "ref"} /\ VisitSound(visit[v])
  BY VisitTypes DEF SetVariables, SetTx, SetRef
<1>2. PICK t \in Tasks, o \in Orders : /\ t = visit[v].task /\ o = visit[v].order
                                       /\ PlacedFor(o, t)
  BY <1>1 DEF VisitSound, PlacedFor
<1>3. OrdersStand
  BY DocumentStands DEF SetVariables, SetTx, SetRef, document
<1>4. PICK n \in VisitState : /\ visit' = [visit EXCEPT ![v] = n] /\ VisitSound(n)'
                              /\ n.pc # "idle" => n.task \in Tasks
  <2>1. CASE SetTx(v) /\ open[t]
    <3>1. PICK n : n = [visit[v] EXCEPT !.pc = "ref"]
      OBVIOUS
    <3>2. n \in VisitState /\ n.pc = "ref" /\ n.task = t /\ n.order = o
      BY <1>1, <1>2, <3>1 DEF VisitState
    <3>3. visit' = [visit EXCEPT ![v] = n]
      BY <1>2, <2>1, <3>1 DEF SetTx
    <3>4. VisitSound(n)'
      BY <1>2, <1>3, <3>2 DEF VisitSound, PlacedFor, OrdersStand
    <3>. QED
      BY <3>2, <3>3, <3>4
  <2>2. CASE ~ (SetTx(v) /\ open[t])
    <3>1. visit' = [visit EXCEPT ![v] = NoVisit]
      BY <1>2, <2>2 DEF SetVariables, SetTx, SetRef
    <3>2. VisitSound(NoVisit)'
      BY DEF NoVisit, VisitSound
    <3>. QED
      BY <3>1, <3>2, NoVisitSound
  <2>. QED
    BY <2>1, <2>2
<1>5. UNCHANGED tx \/ (SetTx(v) /\ tx' = [tx EXCEPT ![t] = o])
  BY <1>2 DEF SetVariables, SetTx, SetRef
<1>6. /\ tx' \in [Tasks -> Orders \cup {None}] /\ TasksKeepTheirs'
      /\ \A s \in Tasks : tx[s] # None => tx'[s] # None
  <2>1. \A p, s : PlacedFor(p, s) => PlacedFor(p, s)'
    BY <1>3 DEF PlacedFor, OrdersStand
  <2>2. tx \in [Tasks -> Orders \cup {None}] /\ TasksKeepTheirs
    BY DEF SignInv, SignTypeOK
  <2>. QED
    BY <1>2, <1>5, <2>1, <2>2 DEF TasksKeepTheirs
<1>7. UNCHANGED ref \/ ref' \in [Tasks -> Refs \cup {None}]
  <2>1. visit[v].ref \in Refs \cup {None}
    BY <1>1 DEF VisitState
  <2>. QED
    BY <2>1 DEF SetVariables, SetTx, SetRef, SignInv, SignTypeOK
<1>8. UNCHANGED <<open, holder, signed, document, failed, poll, breaks>>
  BY DEF SetVariables, SetTx, SetRef
<1>. QED
  BY <1>3, <1>4, <1>6, <1>7, <1>8, StepKeeps DEF document, SignInv, SignTypeOK

-----------------------------------------------------------------------------
(* The poll *)

LEMMA PollTypes ==
  ASSUME SignInv
  PROVE  poll \in PollState /\ PollSound(poll)
BY DEF SignInv, SignTypeOK, PollState

LEMMA NoPollSound == NoPoll \in PollState /\ PollSound(NoPoll)
BY DEF NoPoll, PollState, PollSound

LEMMA DoneSound ==
  ASSUME SignInv, NEW t \in Tasks
  PROVE  Done(t) \in PollState /\ PollSound(Done(t))
<1>1. CASE poll.todo \subseteq {t}
  BY <1>1, NoPollSound DEF Done
<1>2. CASE ~ (poll.todo \subseteq {t})
  <2>1. PICK p : p = [poll EXCEPT !.pc = "run", !.todo = poll.todo \ {t}, !.task = None]
    OBVIOUS
  <2>2. p \in PollState /\ p.pc = "run" /\ p.tx = poll.tx /\ p.todo \subseteq poll.todo
    BY <2>1, PollTypes DEF PollState
  <2>3. PollSound(p)
    BY <2>2, PollTypes DEF PollSound
  <2>4. Done(t) = p
    BY <1>2, <2>1 DEF Done
  <2>. QED
    BY <2>2, <2>3, <2>4
<1>. QED
  BY <1>1, <1>2

LEMMA PollTasksKeeps ==
  ASSUME SignInv, PollTasks
  PROVE  SignInv'
<1>0. PICK w : w = {t \in Tasks : open[t] /\ tx[t] # None}
  OBVIOUS
<1>1. w \in SUBSET Tasks /\ \A t \in w : tx[t] # None
  BY <1>0
<1>2. PICK p : p = [NoPoll EXCEPT !.pc = "run", !.todo = w, !.tx = tx, !.ref = ref]
  OBVIOUS
<1>3. p \in PollState /\ p.pc = "run" /\ p.todo = w /\ p.tx = tx
  <2>1. tx \in [Tasks -> Orders \cup {None}] /\ ref \in [Tasks -> Refs \cup {None}]
    BY DEF SignInv, SignTypeOK
  <2>. QED
    BY <1>1, <1>2, <2>1, NoPollSound DEF PollState
<1>4. poll' = p /\ UNCHANGED <<task, document, failed, visit, breaks>>
  BY <1>0, <1>2 DEF PollTasks
<1>5. PollSound(p)
  BY <1>1, <1>3 DEF PollSound, SignInv, TasksKeepTheirs
<1>6. OrdersStand
  BY <1>4, DocumentStands DEF document
<1>7. PollSound(poll)'
  BY <1>3, <1>4, <1>5, <1>6, SoundStays
<1>. QED
  BY <1>3, <1>4, <1>6, <1>7, StepKeeps DEF task, document, SignInv, SignTypeOK

LEMMA CheckOutcomeKeeps ==
  ASSUME SignInv, NEW t \in Tasks, CheckOutcome(t)
  PROVE  SignInv'
<1>1. PICK o : o = poll.tx[t]
  OBVIOUS
<1>2. t \in poll.todo /\ PlacedFor(o, t) /\ o # None
  BY <1>1, PollTypes DEF CheckOutcome, PollSound, PlacedFor
<1>3. UNCHANGED <<task, document, visit, breaks>>
  BY DEF CheckOutcome
<1>4. OrdersStand
  BY <1>3, DocumentStands DEF document
<1>5. PICK p \in PollState :
        /\ poll' = p /\ PollSound(p)'
        /\ failed' = failed \/ (failed' = failed \cup {o} /\ outcome[o] # "none")
  <2>1. CASE outcome[o] = "success" /\ poll' = [poll EXCEPT !.pc = "claim", !.task = t]
             /\ UNCHANGED failed
    <3>1. PICK p : p = [poll EXCEPT !.pc = "claim", !.task = t]
      OBVIOUS
    <3>2. p \in PollState /\ p.pc = "claim" /\ p.task = t /\ p.tx = poll.tx /\ p.todo = poll.todo
      BY <3>1, PollTypes DEF PollState
    <3>3. PollSound(p)
      BY <1>1, <1>2, <2>1, <3>2, PollTypes DEF PollSound
    <3>. QED
      BY <1>4, <2>1, <3>1, <3>2, <3>3, SoundStays
  <2>2. CASE outcome[o] = "failed" /\ poll' = [poll EXCEPT !.pc = "untx", !.task = t]
             /\ failed' = failed \cup {o}
    <3>1. PICK p : p = [poll EXCEPT !.pc = "untx", !.task = t]
      OBVIOUS
    <3>2. p \in PollState /\ p.pc = "untx" /\ p.task = t /\ p.tx = poll.tx /\ p.todo = poll.todo
      BY <3>1, PollTypes DEF PollState
    <3>3. \A s \in Tasks : poll.tx[s] # None => PlacedFor(poll.tx[s], s)'
      BY <1>4, <2>2, PollTypes, SoundStays DEF PollSound
    <3>4. PollSound(p)'
      BY <1>1, <1>2, <2>2, <3>2, <3>3, PollTypes DEF PollSound
    <3>. QED
      BY <2>2, <3>1, <3>2, <3>4
  <2>3. CASE poll' = Done(t) /\ UNCHANGED failed
    <3>1. PICK p \in PollState : p = Done(t) /\ PollSound(p)
      BY DoneSound
    <3>. QED
      BY <1>4, <2>3, <3>1, SoundStays
  <2>. QED
    BY <1>1, <2>1, <2>2, <2>3 DEF CheckOutcome
<1>6. failed \subseteq failed' /\ failed' \subseteq Orders
      /\ \A x \in failed' \ failed : outcome'[x] # "none"
  BY <1>2, <1>3, <1>5 DEF PlacedFor, SignInv, SignTypeOK, document
<1>7. PollSound(poll)'
  BY <1>5
<1>. QED
  BY <1>3, <1>4, <1>5, <1>6, <1>7, StepKeeps DEF task, document, SignInv, SignTypeOK

LEMMA PollBreaksKeeps ==
  ASSUME SignInv, PollBreaks
  PROVE  SignInv'
<1>1. poll' = NoPoll /\ breaks' \in 0 .. MaxBreaks /\ UNCHANGED <<task, document, failed, visit>>
  BY DEF PollBreaks, SignInv, SignTypeOK
<1>2. PollSound(poll)'
  <2>1. PollSound(NoPoll)'
    BY DEF NoPoll, PollSound
  <2>. QED
    BY <1>1, <2>1 DEF NoPoll, PollSound
<1>3. OrdersStand
  BY <1>1, DocumentStands DEF document
<1>. QED
  BY <1>1, <1>2, <1>3, NoPollSound, StepKeeps DEF task, document, SignInv, SignTypeOK

\* The poll acts on the task that it has turned to.
LEMMA PollActs ==
  ASSUME SignInv, poll.pc \in {"claim", "complete", "untx", "unref"}
  PROVE  /\ poll.task \in Tasks /\ poll.tx[poll.task] \in Orders
         /\ PlacedFor(poll.tx[poll.task], poll.task)
BY PollTypes DEF PollSound, PlacedFor

\* It is done with the task, or takes the second of its two steps.
LEMMA PollGoes ==
  ASSUME SignInv, UNCHANGED <<document, failed, visit, breaks>>,
         poll.pc \in {"claim", "complete", "untx", "unref"},
         \/ poll' = Done(poll.task) \/ poll' = NoPoll
         \/ poll.pc = "claim" /\ poll' = [poll EXCEPT !.pc = "complete"]
         \/ poll.pc = "untx" /\ poll' = [poll EXCEPT !.pc = "unref"]
  PROVE  OrdersStand /\ poll' \in PollState /\ PollSound(poll)'
<1>1. OrdersStand
  BY DocumentStands DEF document
<1>2. PICK p \in PollState : poll' = p /\ PollSound(p)
  <2>1. CASE poll' = Done(poll.task) \/ poll' = NoPoll
    BY <2>1, PollActs, DoneSound, NoPollSound
  <2>2. ASSUME NEW pc \in {"complete", "unref"}, poll' = [poll EXCEPT !.pc = pc],
               pc = "complete" => poll.pc = "claim", pc = "unref" => poll.pc = "untx"
        PROVE  poll' \in PollState /\ PollSound(poll')
    <3>1. PICK p : p = [poll EXCEPT !.pc = pc]
      OBVIOUS
    <3>2. p \in PollState /\ p.pc = pc /\ p.task = poll.task /\ p.tx = poll.tx /\ p.todo = poll.todo
      BY <3>1, PollTypes DEF PollState
    <3>3. PollSound(p)
      BY <2>2, <3>2, PollTypes DEF PollSound
    <3>. QED
      BY <2>2, <3>1, <3>2, <3>3
  <2>. QED
    BY <2>1, <2>2
<1>3. PollSound(p)'
  BY <1>1, <1>2, SoundStays
<1>. QED
  BY <1>1, <1>2, <1>3

LEMMA PollClaimsKeeps ==
  ASSUME SignInv, PollClaims
  PROVE  SignInv'
<1>1. OrdersStand /\ poll' \in PollState /\ PollSound(poll)'
  BY PollGoes DEF PollClaims
<1>2. holder' \in [Tasks -> Holders]
  BY DEF PollClaims, SignInv, SignTypeOK, Holders
<1>. QED
  BY <1>1, <1>2, StepKeeps DEF PollClaims, document, SignInv, SignTypeOK

\* The order that completes a task is a success.
LEMMA PollCompletesKeeps ==
  ASSUME SignInv, PollCompletes
  PROVE  SignInv'
<1>1. OrdersStand /\ poll' \in PollState /\ PollSound(poll)'
  BY PollGoes DEF PollCompletes
<1>2. PICK t \in Tasks, o \in Orders : /\ t = poll.task /\ o = poll.tx[t]
                                       /\ PlacedFor(o, t) /\ outcome[o] = "success"
  BY PollTypes, PollActs DEF PollCompletes, PollSound
<1>3. /\ open' = [open EXCEPT ![t] = FALSE]
      /\ signed' = IF open[t] THEN [signed EXCEPT ![t] = o] ELSE signed
      /\ UNCHANGED <<holder, tx, ref, document, failed, visit, breaks>>
  BY <1>2 DEF PollCompletes
<1>4. /\ open' \in [Tasks -> BOOLEAN] /\ \A s \in Tasks : ~ open[s] => ~ open'[s]
      /\ signed' \in [Tasks -> Orders \cup {None}]
  BY <1>3 DEF SignInv, SignTypeOK
<1>5. CompletedBySignature'
  BY <1>2, <1>3 DEF CompletedBySignature, PlacedFor, document, SignInv, SignTypeOK
<1>. QED
  BY <1>1, <1>3, <1>4, <1>5, StepKeeps DEF document, SignInv, SignTypeOK

\* The poll takes an order from a task when the one it has read there has failed.
LEMMA PollRemovesTxKeeps ==
  ASSUME SignInv, PollRemovesTx
  PROVE  /\ SignInv'
         /\ \A t \in Tasks : tx[t] # None /\ tx'[t] = None => ReadAndFailed(t)
<1>1. OrdersStand /\ poll' \in PollState /\ PollSound(poll)'
  BY PollGoes DEF PollRemovesTx
<1>2. PICK t \in Tasks, o \in Orders : /\ t = poll.task /\ o = poll.tx[t]
                                       /\ PlacedFor(o, t) /\ o \in failed
  BY PollTypes, PollActs DEF PollRemovesTx, PollSound
<1>3. /\ tx' = tx \/ tx' = [tx EXCEPT ![t] = None]
      /\ UNCHANGED <<open, holder, ref, signed, document, failed, visit, breaks>>
  BY <1>2 DEF PollRemovesTx
<1>4. tx' \in [Tasks -> Orders \cup {None}] /\ TasksKeepTheirs'
      /\ \A s \in Tasks : s # t => tx'[s] = tx[s]
  BY <1>3 DEF TasksKeepTheirs, PlacedFor, document, SignInv, SignTypeOK
<1>5. SignInv'
  BY <1>1, <1>3, <1>4, StepKeeps DEF document, SignInv, SignTypeOK
<1>. QED
  BY <1>2, <1>4, <1>5 DEF PlacedFor, ReadAndFailed

LEMMA PollRemovesRefKeeps ==
  ASSUME SignInv, PollRemovesRef
  PROVE  SignInv'
<1>1. OrdersStand /\ poll' \in PollState /\ PollSound(poll)'
  BY PollGoes DEF PollRemovesRef
<1>2. ref' \in [Tasks -> Refs \cup {None}]
  BY DEF PollRemovesRef, SignInv, SignTypeOK
<1>. QED
  BY <1>1, <1>2, StepKeeps DEF PollRemovesRef, document, SignInv, SignTypeOK

-----------------------------------------------------------------------------

LEMMA StepSound ==
  ASSUME SignInv, [SignTaskNext]_vars
  PROVE  /\ SignInv'
         /\ \A t \in Tasks : tx[t] # None /\ tx'[t] = None => ReadAndFailed(t)
<1>1. CASE PollRemovesTx
  BY <1>1, PollRemovesTxKeeps
<1>2. ASSUME NEW v \in Visits, SetVariables(v)
      PROVE  SignInv' /\ \A t \in Tasks : tx[t] # None => tx'[t] # None
  BY <1>2, SetVariablesKeep
<1>3. ASSUME NEW v \in Visits, VisitNext(v)
      PROVE  SignInv' /\ UNCHANGED tx
  <2>1. ASSUME NEW o \in Orders, PlaceSignRequest(v, o)
        PROVE  SignInv' /\ UNCHANGED tx
    BY <2>1, PlaceSignRequestKeeps DEF PlaceSignRequest, task
  <2>2. ASSUME (\E t \in Tasks : Look(v, t)) \/ CompareText(v) \/ Refused(v) \/ Abandon(v)
        PROVE  SignInv' /\ UNCHANGED tx
    BY <2>2, VisitKeeps DEF Look, CompareText, Refused, Abandon, task
  <2>. QED
    BY <1>3, <2>1, <2>2 DEF VisitNext
<1>4. ASSUME NEW o \in Orders, NEW e \in Outcomes, Settle(o, e)
      PROVE  SignInv' /\ UNCHANGED tx
  BY <1>4, SettleKeeps DEF Settle, task
<1>5. ASSUME NEW t \in Tasks, (\E u \in Others : Lock(t, u)) \/ Unlock(t) \/ EndTask(t)
      PROVE  SignInv' /\ UNCHANGED tx
  BY <1>5, OtherKeeps DEF Lock, Unlock, EndTask
<1>6. ASSUME NEW t \in Tasks, CheckOutcome(t)
      PROVE  SignInv' /\ UNCHANGED tx
  BY <1>6, CheckOutcomeKeeps DEF CheckOutcome, task
<1>7. CASE PollTasks \/ PollClaims \/ PollCompletes \/ PollRemovesRef \/ PollBreaks
  <2>1. SignInv'
    BY <1>7, PollTasksKeeps, PollClaimsKeeps, PollCompletesKeeps, PollRemovesRefKeeps, PollBreaksKeeps
  <2>2. UNCHANGED tx
    BY <1>7 DEF PollTasks, PollClaims, PollCompletes, PollRemovesRef, PollBreaks, task
  <2>. QED
    BY <2>1, <2>2
<1>8. CASE UNCHANGED vars
  <2>1. OrdersStand
    BY <1>8, DocumentStands DEF vars, document
  <2>. QED
    BY <1>8, <2>1, StepKeeps DEF vars, task, document, SignInv, SignTypeOK
<1>. QED
  BY <1>1, <1>2, <1>3, <1>4, <1>5, <1>6, <1>7, <1>8 DEF SignTaskNext, PollNext

LEMMA Invariance == SignTaskSpec => []SignInv
<1>1. SignInv /\ [SignTaskNext]_vars => SignInv'
  BY StepSound
<1>. QED
  BY <1>1, InvAtFirst, PTL DEF SignTaskSpec

\* Tasks, visits and the poll keep their types.
THEOREM TypeCorrect == SignTaskSpec => []SignTypeOK
BY Invariance, PTL DEF SignInv

\* A task that the poll has completed was signed, by an order that was placed for it.
THEOREM CompletionIsSigned == SignTaskSpec => []CompletedBySignature
BY Invariance, PTL DEF SignInv

\* The poll takes an order from a task only when the one it has read there in this run
\* was placed for the task and has failed; what it takes may have been set since.
THEOREM FreedWhenFailed == SignTaskSpec => FreedByFailure
<1>1. SignInv /\ [SignTaskNext]_vars =>
        [\A t \in Tasks : tx[t] # None /\ tx'[t] = None => ReadAndFailed(t)]_vars
  BY StepSound
<1>. QED
  BY <1>1, Invariance, PTL DEF SignTaskSpec, FreedByFailure

\* DocBox, as it is modelled here, keeps the promise of SignOrder.
THEOREM OrdersAsPromised == SignTaskSpec => OrderSpec
<1>1. SignInit => OrderInit
  BY DEF SignInit
<1>2. ASSUME SignInv, [SignTaskNext]_vars
      PROVE  [OrderNext]_outcome
  <2>1. outcome' \in [Orders -> Outcomes]
    BY <1>2, StepSound DEF SignInv, SignTypeOK
  <2>2. ASSUME NEW v \in Visits, NEW o \in Orders, PlaceSignRequest(v, o)
        PROVE  OrderNext
    BY <1>2, <2>1, <2>2 DEF PlaceSignRequest, OrderNext, OrderSteps, SignInv, SignTypeOK
  <2>3. ASSUME NEW o \in Orders, NEW e \in Outcomes, Settle(o, e)
        PROVE  OrderNext
    BY <1>2, <2>1, <2>3 DEF Settle, OrderNext, OrderSteps, SignInv, SignTypeOK
  <2>4. ASSUME NEW v \in Visits, VisitNext(v), \A o \in Orders : ~ PlaceSignRequest(v, o)
        PROVE  UNCHANGED outcome
    BY <2>4 DEF VisitNext, Look, CompareText, Refused, Abandon, document
  <2>5. ASSUME NEW v \in Visits, SetVariables(v)
        PROVE  UNCHANGED outcome
    BY <2>5 DEF SetVariables, SetTx, SetRef, document
  <2>6. CASE PollNext \/ PollBreaks
    BY <2>6 DEF PollNext, PollTasks, CheckOutcome, PollClaims, PollCompletes, PollRemovesTx,
       PollRemovesRef, PollBreaks, document
  <2>7. ASSUME NEW t \in Tasks, (\E u \in Others : Lock(t, u)) \/ Unlock(t) \/ EndTask(t)
        PROVE  UNCHANGED outcome
    BY <2>7 DEF Lock, Unlock, EndTask, document
  <2>8. CASE UNCHANGED vars
    BY <2>8 DEF vars, document
  <2>. QED
    BY <1>2, <2>2, <2>3, <2>4, <2>5, <2>6, <2>7, <2>8 DEF SignTaskNext, VisitNext
<1>. QED
  BY <1>1, <1>2, Invariance, PTL DEF SignTaskSpec, OrderSpec
=============================================================================
