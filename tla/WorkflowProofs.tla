--------------------------- MODULE WorkflowProofs ---------------------------
(* Proofs of the invariants and action properties of Workflow. *)
EXTENDS Workflow, TLAPS

USE WorkflowAssumption

-----------------------------------------------------------------------------
(* The lock *)

\* A claim of the lock succeeds only for its holder or when nobody holds it.
LEMMA ClaimKeepsHolder ==
  ASSUME NEW v, Claimed(v), assignee # NoUser
  PROVE  assignee' = assignee
BY DEF Claimed, MayClaim

\* However clicks race, the lock passes to another user only by being released.
THEOREM LockIsNotTaken == Spec => NoTakeover
<1>1. ASSUME [Next]_vars, NEW u \in Names, assignee = u
      PROVE  assignee' \in {u, NoUser}
  <2>1. u # NoUser
    BY DEF Names
  <2>2. ASSUME NEW r \in Slots, Perform(r)
        PROVE  assignee' \in {u, NoUser}
    <3>1. Change(req[r].op, req[r].arg)
      BY <2>2 DEF Perform
    <3>. QED
      BY <1>1, <2>1, <3>1, ClaimKeepsHolder DEF Change
  <2>3. ASSUME NEW r \in Slots, ClaimToSubmit(r)
        PROVE  assignee' \in {u, NoUser}
    BY <1>1, <2>1, <2>3, ClaimKeepsHolder DEF ClaimToSubmit
  <2>4. ASSUME NEW p \in Pages, PageStep(p)
        PROVE  UNCHANGED assignee
    BY <2>4 DEF PageStep, OpenPage, LeavePage, AssignToMe, Release, ClickCandidate,
       AddCandidate, SetPriority, Submit, Click, task
  <2>5. ASSUME NEW r \in Slots,
               ReadTask(r) \/ ReadCandidates(r) \/ Complete(r) \/ Deliver(r) \/ Lose(r)
        PROVE  UNCHANGED assignee
    BY <2>5 DEF ReadTask, ReadCandidates, Complete, Deliver, Lose, task
  <2>6. ASSUME EndTask \/ UNCHANGED vars
        PROVE  UNCHANGED assignee
    BY <2>6 DEF EndTask, vars, task
  <2>. QED
    BY <1>1, <2>2, <2>3, <2>4, <2>5, <2>6 DEF Next, ServerStep
<1>2. [Next]_vars => [\A u \in Names : assignee = u => assignee' \in {u, NoUser}]_vars
  BY <1>1
<1>. QED
  BY <1>2, PTL DEF Spec, NoTakeover

-----------------------------------------------------------------------------
(* The inductive invariant *)

\* An argument is a name or a priority, as the operation needs it; who was read as
\* the holder for an answer has held the lock.
Sound(q) ==
  /\ q \in Request
  /\ IF q.op = "setpriority" THEN q.arg \in AnyPriority ELSE q.arg \in Names
  /\ q.seen.assignee \in Users => q.seen.assignee \in held

RequestsSound == \A r \in Slots : UnderWay(r) => Sound(req[r])

HolderHeld == assignee \in held \cup {NoUser}

\* A submission that has claimed the task holds it until the lock is released, and the
\* task that it completes stays with its user.
ClaimStands ==
  /\ open => \A r \in Slots \ released :
               UnderWay(r) /\ req[r].pc = "claimed" => assignee = req[r].user
  /\ submitter # NoUser /\ released = {} => assignee = submitter

NotYetSubmitted == open => submitter = NoUser

WorkflowInv ==
  /\ WorkflowTypeOK /\ RequestsSound /\ HolderHeld /\ MineWasTrue
  /\ ClaimStands /\ NotYetSubmitted

LEMMA InvAtFirst ==
  ASSUME Init
  PROVE  WorkflowInv
<1>1. \A state \in {"closed", "open", "left"} : Fresh(state) \in Shown
  BY DEF Fresh, Shown, AnyPriority
<1>2. WorkflowTypeOK
  BY <1>1 DEF Init, WorkflowTypeOK, Names, AnyPriority
<1>. QED
  BY <1>2 DEF Init, WorkflowInv, RequestsSound, UnderWay, HolderHeld, MineWasTrue, ClaimStands,
     NotYetSubmitted, Fresh

\* One slot gets another content.
LEMMA SlotChanges ==
  ASSUME WorkflowInv, NEW r \in Slots, NEW n, req' = [req EXCEPT ![r] = n],
         held \subseteq held', n = Idle \/ Sound(n)'
  PROVE  /\ req' \in [Slots -> Request \cup {Idle}] /\ RequestsSound'
         /\ req'[r] = n /\ \A s \in Slots \ {r} : req'[s] = req[s]
<1>1. req \in [Slots -> Request \cup {Idle}]
  BY DEF WorkflowInv, WorkflowTypeOK
<1>2. n \in Request \cup {Idle}
  BY DEF Sound
<1>3. req' \in [Slots -> Request \cup {Idle}]
  BY <1>1, <1>2
<1>4. req'[r] = n /\ \A s \in Slots \ {r} : req'[s] = req[s]
  BY <1>1
<1>5. ASSUME NEW q, Sound(q)
      PROVE  Sound(q)'
  BY <1>5 DEF Sound
<1>6. \A s \in Slots : UnderWay(s) => Sound(req[s])
  BY DEF WorkflowInv, RequestsSound
<1>7. RequestsSound'
  <2>1. SUFFICES ASSUME NEW s \in Slots, req'[s] # Idle
                 PROVE  Sound(req[s])'
    BY DEF RequestsSound, UnderWay
  <2>2. CASE s = r
    <3>1. req'[s] = n /\ Sound(n)'
      BY <1>4, <2>1, <2>2
    <3>. QED
      BY <3>1 DEF Sound
  <2>3. CASE s # r
    <3>1. req'[s] = req[s] /\ Sound(req[s])
      BY <1>4, <1>6, <2>1, <2>3 DEF UnderWay
    <3>. QED
      BY <3>1 DEF Sound
  <2>. QED
    BY <2>2, <2>3
<1>. QED
  BY <1>3, <1>4, <1>7

LEMMA FreeSlotIsFree ==
  ASSUME FreeSlots # {}
  PROVE  FreeSlot \in Slots /\ ~ UnderWay(FreeSlot)
BY DEF FreeSlot, FreeSlots

\* A new request is sound.
LEMMA NewRequestSound ==
  ASSUME NEW page \in Pages \cup {NoPage}, NEW u \in Users, NEW op \in Ops, NEW arg,
         IF op = "setpriority" THEN arg \in AnyPriority ELSE arg \in Names,
         NEW pc \in {"sent", "done"}
  PROVE  /\ Sound(NewRequest(page, u, op, arg, pc))
         /\ NewRequest(page, u, op, arg, pc).pc = pc
<1>1. NothingSeen \in Seen /\ NothingSeen.assignee \notin Users
  BY DEF NothingSeen, Seen, AnyPriority, Names
<1>2. [page |-> page, user |-> u, op |-> op, arg |-> arg, pc |-> pc, seen |-> NothingSeen]
        \in Request
  BY <1>1 DEF Request
<1>. QED
  BY <1>1, <1>2 DEF Sound, NewRequest

\* Nothing of the task changes, and no request is claimed that was not: so much of
\* the invariant stays as it is.
LEMMA TaskStands ==
  ASSUME WorkflowInv, UNCHANGED <<task, released>>,
         req' \in [Slots -> Request \cup {Idle}],
         \A r \in Slots : UnderWay(r)' /\ req'[r].pc = "claimed" =>
           UnderWay(r) /\ req[r].pc = "claimed" /\ req'[r].user = req[r].user
  PROVE  HolderHeld' /\ ClaimStands' /\ NotYetSubmitted'
<1>1. HolderHeld' /\ NotYetSubmitted'
  BY DEF WorkflowInv, HolderHeld, NotYetSubmitted, task
<1>2. ClaimStands'
  BY DEF WorkflowInv, ClaimStands, task
<1>. QED
  BY <1>1, <1>2

\* The page posts a request.
LEMMA PostKeeps ==
  ASSUME WorkflowInv, NEW p \in Pages, NEW op \in Ops, NEW arg,
         IF op = "setpriority" THEN arg \in AnyPriority ELSE arg \in Names,
         NEW pc \in {"sent", "done"}, Post(p, op, arg, pc),
         UNCHANGED <<task, released, changed>>,
         shown' \in [Pages -> Shown], MineWasTrue'
  PROVE  WorkflowInv'
<1>1. FreeSlot \in Slots /\ ~ UnderWay(FreeSlot)
  BY FreeSlotIsFree DEF Post
<1>2. PICK s \in Slots : s = FreeSlot
  BY <1>1
<1>3. PICK n : n = NewRequest(p, UserOf[p], op, arg, pc)
  OBVIOUS
<1>4. Sound(n) /\ n.pc = pc
  BY <1>3, NewRequestSound
<1>5. req' = [req EXCEPT ![s] = n] /\ hasty' \in {hasty, hasty \cup {p}}
  BY <1>2, <1>3 DEF Post
<1>6. UNCHANGED held
  BY DEF task
<1>7. Sound(n)'
  BY <1>4, <1>6 DEF Sound
<1>8. /\ req' \in [Slots -> Request \cup {Idle}] /\ RequestsSound'
      /\ req'[s] = n /\ \A t \in Slots \ {s} : req'[t] = req[t]
  BY <1>5, <1>6, <1>7, SlotChanges
<1>9. HolderHeld' /\ ClaimStands' /\ NotYetSubmitted'
  BY <1>4, <1>8, TaskStands DEF UnderWay
<1>10. WorkflowTypeOK'
  BY <1>5, <1>8 DEF WorkflowInv, WorkflowTypeOK, task
<1>. QED
  BY <1>8, <1>9, <1>10 DEF WorkflowInv

LEMMA ClickKeeps ==
  ASSUME WorkflowInv, NEW p \in Pages, NEW op \in Ops, NEW arg \in Names,
         op # "setpriority", Click(p, op, arg)
  PROVE  WorkflowInv'
<1>1. Post(p, op, arg, "sent") /\ UNCHANGED <<task, released, shown, changed>>
  BY DEF Click
<1>2. shown' \in [Pages -> Shown] /\ MineWasTrue'
  BY <1>1 DEF WorkflowInv, WorkflowTypeOK, MineWasTrue, task
<1>. QED
  BY <1>1, <1>2, PostKeeps

LEMMA OpenPageKeeps ==
  ASSUME WorkflowInv, NEW p \in Pages, OpenPage(p)
  PROVE  WorkflowInv'
<1>1. PICK n \in Shown : n = Fresh("open") /\ n.lock = "free"
  <2>1. Fresh("open") \in Shown /\ Fresh("open").lock = "free"
    BY DEF Fresh, Shown, AnyPriority
  <2>. QED
    BY <2>1
<1>2. shown' = [shown EXCEPT ![p] = n]
  BY <1>1 DEF OpenPage
<1>3. shown' \in [Pages -> Shown] /\ MineWasTrue'
  BY <1>1, <1>2 DEF OpenPage, WorkflowInv, WorkflowTypeOK, MineWasTrue, task
<1>4. /\ Post(p, "load", UserOf[p], "done") /\ UNCHANGED <<task, released, changed>>
      /\ UserOf[p] \in Names
  BY DEF OpenPage, Names
<1>. QED
  BY <1>3, <1>4, PostKeeps DEF Ops

LEMMA SetPriorityKeeps ==
  ASSUME WorkflowInv, NEW p \in Pages, NEW v \in Priorities, SetPriority(p, v)
  PROVE  WorkflowInv'
<1>1. PICK n : n = [shown[p] EXCEPT !.priority = v]
  OBVIOUS
<1>2. n \in Shown /\ n.lock = shown[p].lock
  BY <1>1 DEF WorkflowInv, WorkflowTypeOK, Shown, AnyPriority
<1>3. shown' = [shown EXCEPT ![p] = n]
  BY <1>1 DEF SetPriority
<1>4. shown' \in [Pages -> Shown] /\ MineWasTrue'
  BY <1>2, <1>3 DEF SetPriority, WorkflowInv, WorkflowTypeOK, MineWasTrue, task
<1>5. /\ Post(p, "setpriority", v, "sent") /\ UNCHANGED <<task, released, changed>>
      /\ v \in AnyPriority
  BY DEF SetPriority, AnyPriority
<1>. QED
  BY <1>4, <1>5, PostKeeps DEF Ops

\* A page is left; the requests under way are nobody's from now on.
LEMMA Orphans ==
  ASSUME WorkflowInv, NEW p \in Pages
  PROVE  /\ Orphaned(p) \in [Slots -> Request \cup {Idle}]
         /\ \A r \in Slots : Orphaned(p)[r] # Idle =>
              /\ UnderWay(r)
              /\ Sound(Orphaned(p)[r])
              /\ Orphaned(p)[r].pc = req[r].pc /\ Orphaned(p)[r].user = req[r].user
<1>1. ASSUME NEW r \in Slots
      PROVE  /\ Orphaned(p)[r] \in Request \cup {Idle}
             /\ Orphaned(p)[r] # Idle =>
                  /\ UnderWay(r)
                  /\ Sound(Orphaned(p)[r])
                  /\ Orphaned(p)[r].pc = req[r].pc /\ Orphaned(p)[r].user = req[r].user
  <2>1. CASE r \in OfPage(p)
    <3>1. UnderWay(r) /\ Sound(req[r])
      BY <2>1 DEF OfPage, WorkflowInv, RequestsSound
    <3>2. PICK n : n = [req[r] EXCEPT !.page = NoPage]
      OBVIOUS
    <3>3. /\ n \in Request /\ n.pc = req[r].pc /\ n.user = req[r].user
          /\ n.op = req[r].op /\ n.arg = req[r].arg /\ n.seen = req[r].seen
      BY <3>1, <3>2 DEF Sound, Request
    <3>4. Sound(n)
      BY <3>1, <3>3 DEF Sound
    <3>5. Orphaned(p)[r] = n
      BY <2>1, <3>2 DEF Orphaned
    <3>. QED
      BY <3>1, <3>3, <3>4, <3>5
  <2>2. CASE r \notin OfPage(p)
    <3>1. Orphaned(p)[r] = req[r]
      BY <2>2 DEF Orphaned
    <3>. QED
      BY <3>1 DEF WorkflowInv, WorkflowTypeOK, RequestsSound, UnderWay
  <2>. QED
    BY <2>1, <2>2
<1>2. Orphaned(p) \in [Slots -> Request \cup {Idle}]
  BY <1>1 DEF Orphaned
<1>. QED
  BY <1>1, <1>2

LEMMA PageIsLeft ==
  ASSUME WorkflowInv, NEW p \in Pages, shown' = [shown EXCEPT ![p].state = "left"],
         UNCHANGED <<task, released, changed>>, hasty' = hasty \ {p},
         req' \in [Slots -> Request \cup {Idle}],
         \A r \in Slots : req'[r] # Idle =>
           /\ Sound(req'[r])
           /\ req'[r].pc = "claimed" =>
                UnderWay(r) /\ req[r].pc = "claimed" /\ req'[r].user = req[r].user
  PROVE  WorkflowInv'
<1>1. PICK n : n = [shown[p] EXCEPT !.state = "left"]
  OBVIOUS
<1>2. n \in Shown /\ n.lock = shown[p].lock
  BY <1>1 DEF WorkflowInv, WorkflowTypeOK, Shown
<1>3. shown' = [shown EXCEPT ![p] = n]
  BY <1>1
<1>4. shown' \in [Pages -> Shown] /\ MineWasTrue'
  BY <1>2, <1>3 DEF WorkflowInv, WorkflowTypeOK, MineWasTrue, task
<1>5. WorkflowTypeOK'
  BY <1>4 DEF WorkflowInv, WorkflowTypeOK, task
<1>6. RequestsSound'
  <2>1. held' = held
    BY DEF task
  <2>. QED
    BY <2>1 DEF RequestsSound, UnderWay, Sound
<1>7. HolderHeld' /\ ClaimStands' /\ NotYetSubmitted'
  BY TaskStands DEF UnderWay
<1>. QED
  BY <1>4, <1>5, <1>6, <1>7 DEF WorkflowInv

LEMMA LeavePageKeeps ==
  ASSUME WorkflowInv, NEW p \in Pages, LeavePage(p)
  PROVE  WorkflowInv'
BY Orphans, PageIsLeft DEF LeavePage

LEMMA SubmitKeeps ==
  ASSUME WorkflowInv, NEW p \in Pages, Submit(p)
  PROVE  WorkflowInv'
<1>1. PICK s \in Slots : s = FreeSlot
  BY FreeSlotIsFree DEF Submit
<1>2. PICK n : n = NewRequest(NoPage, UserOf[p], "submit", UserOf[p], "sent")
  OBVIOUS
<1>3. Sound(n) /\ n.pc = "sent" /\ n \in Request
  <2>1. UserOf[p] \in Names /\ UserOf[p] \in Users
    BY DEF Names
  <2>2. Sound(n) /\ n.pc = "sent"
    BY <1>2, <2>1, NewRequestSound DEF Ops
  <2>. QED
    BY <2>2 DEF Sound
<1>4. req' = [Orphaned(p) EXCEPT ![s] = n]
  BY <1>1, <1>2 DEF Submit
<1>5. req' \in [Slots -> Request \cup {Idle}]
  BY <1>3, <1>4, Orphans
<1>6. req'[s] = n /\ \A r \in Slots \ {s} : req'[r] = Orphaned(p)[r]
  BY <1>4, Orphans
<1>7. \A r \in Slots : req'[r] # Idle =>
        /\ Sound(req'[r])
        /\ req'[r].pc = "claimed" =>
             UnderWay(r) /\ req[r].pc = "claimed" /\ req'[r].user = req[r].user
  BY <1>3, <1>6, Orphans
<1>. QED
  BY <1>5, <1>7, PageIsLeft DEF Submit

LEMMA PageStepKeeps ==
  ASSUME WorkflowInv, NEW p \in Pages, PageStep(p)
  PROVE  WorkflowInv'
<1>1. CASE OpenPage(p) \/ LeavePage(p) \/ Submit(p)
  BY <1>1, OpenPageKeeps, LeavePageKeeps, SubmitKeeps
<1>2. CASE AssignToMe(p) \/ Release(p)
  <2>1. UserOf[p] \in Names
    BY DEF Names
  <2>. QED
    BY <1>2, <2>1, ClickKeeps DEF AssignToMe, Release, Ops
<1>3. ASSUME NEW c \in Users \cup {Anonymous}, NEW b \in Ops, ClickCandidate(p, c, b)
      PROVE  WorkflowInv'
  <2>1. c \in Names /\ b # "setpriority" /\ Click(p, b, c)
    BY <1>3 DEF ClickCandidate, Buttons, Names
  <2>. QED
    BY <2>1, ClickKeeps
<1>4. ASSUME NEW n \in Typed, AddCandidate(p, n)
      PROVE  WorkflowInv'
  BY <1>4, ClickKeeps DEF AddCandidate, Names, Ops
<1>5. ASSUME NEW v \in Priorities, SetPriority(p, v)
      PROVE  WorkflowInv'
  BY <1>5, SetPriorityKeeps
<1>. QED
  BY <1>1, <1>2, <1>3, <1>4, <1>5 DEF PageStep

-----------------------------------------------------------------------------
(* The server's steps *)

LEMMA PerformKeeps ==
  ASSUME WorkflowInv, NEW r \in Slots, Perform(r)
  PROVE  WorkflowInv'
<1>1. /\ UnderWay(r) /\ req[r].op # "submit" /\ req[r].pc = "sent"
      /\ Change(req[r].op, req[r].arg) /\ changed' = Pages
      /\ UNCHANGED <<open, submitter, shown, hasty>>
  BY DEF Perform
<1>2. Sound(req[r])
  BY <1>1 DEF WorkflowInv, RequestsSound
<1>3. PICK op, arg : op = req[r].op /\ arg = req[r].arg
  OBVIOUS
<1>4. IF op = "setpriority" THEN arg \in AnyPriority ELSE arg \in Names
  BY <1>2, <1>3 DEF Sound
<1>5. /\ assignee' \in Names \cup {NoUser} /\ candidates' \subseteq Names
      /\ priority' \in AnyPriority /\ held' \subseteq Names /\ held \subseteq held'
      /\ assignee' \in held' \cup {NoUser}
  BY <1>1, <1>3, <1>4 DEF Change, Claimed, WorkflowInv, WorkflowTypeOK, HolderHeld
<1>6. \/ assignee' = assignee \/ assignee = NoUser \/ (op = "unassign" /\ open)
  BY <1>1, <1>3 DEF Change, Claimed, MayClaim
<1>7. ~ open => assignee' = assignee
  BY <1>1, <1>3 DEF Change, Claimed, MayClaim
<1>8. released' \subseteq Slots /\ released' = IF op = "unassign" /\ open THEN Submitting ELSE released
  BY <1>3 DEF Perform, Submitting, WorkflowInv, WorkflowTypeOK
<1>9. PICK n : n = [req[r] EXCEPT !.pc = "done"]
  OBVIOUS
<1>10. Sound(n)' /\ n.pc = "done"
  BY <1>2, <1>5, <1>9 DEF Sound, Request
<1>11. req' = [req EXCEPT ![r] = n]
  BY <1>9 DEF Perform
<1>12. /\ req' \in [Slots -> Request \cup {Idle}] /\ RequestsSound'
       /\ req'[r] = n /\ \A s \in Slots \ {r} : req'[s] = req[s]
  BY <1>5, <1>10, <1>11, SlotChanges
<1>13. WorkflowTypeOK'
  BY <1>1, <1>5, <1>8, <1>12 DEF WorkflowInv, WorkflowTypeOK
<1>14. HolderHeld' /\ NotYetSubmitted' /\ MineWasTrue'
  BY <1>1, <1>5 DEF WorkflowInv, HolderHeld, NotYetSubmitted, MineWasTrue
<1>15. ClaimStands'
  <2>1. ASSUME NEW s \in Slots, s \notin released', UnderWay(s)', req'[s].pc = "claimed", open'
        PROVE  assignee' = req'[s].user
    <3>1. req'[s] = req[s] /\ UnderWay(s) /\ req[s].pc = "claimed" /\ open
      BY <1>1, <1>10, <1>12, <2>1 DEF UnderWay
    <3>2. op # "unassign" /\ s \notin released
      BY <1>8, <2>1, <3>1 DEF Submitting
    <3>3. assignee = req[s].user /\ req[s].user \in Users
      BY <3>1, <3>2 DEF WorkflowInv, ClaimStands, RequestsSound, Sound, Request
    <3>4. assignee # NoUser
      BY <3>3 DEF Names
    <3>. QED
      BY <1>6, <3>1, <3>2, <3>3, <3>4
  <2>2. submitter' # NoUser /\ released' = {} => assignee' = submitter'
    BY <1>1, <1>7, <1>8 DEF WorkflowInv, ClaimStands, NotYetSubmitted
  <2>. QED
    BY <2>1, <2>2 DEF ClaimStands
<1>. QED
  BY <1>12, <1>13, <1>14, <1>15 DEF WorkflowInv

\* A step that only works on one request, or on one page, and claims nothing.
LEMMA AnswerKeeps ==
  ASSUME WorkflowInv, NEW r \in Slots, NEW n, req' = [req EXCEPT ![r] = n],
         n = Idle \/ (Sound(n) /\ n.pc # "claimed"),
         UNCHANGED <<task, released, hasty>>, changed' \subseteq Pages,
         shown' \in [Pages -> Shown], MineWasTrue'
  PROVE  WorkflowInv'
<1>1. held' = held
  BY DEF task
<1>2. n = Idle \/ Sound(n)'
  BY <1>1 DEF Sound
<1>3. /\ req' \in [Slots -> Request \cup {Idle}] /\ RequestsSound'
      /\ req'[r] = n /\ \A s \in Slots \ {r} : req'[s] = req[s]
  BY <1>1, <1>2, SlotChanges
<1>4. HolderHeld' /\ ClaimStands' /\ NotYetSubmitted'
  BY <1>3, TaskStands DEF UnderWay
<1>5. WorkflowTypeOK'
  BY <1>3 DEF WorkflowInv, WorkflowTypeOK, task
<1>. QED
  BY <1>3, <1>4, <1>5 DEF WorkflowInv

\* Who the identity service makes of the holder has held the lock, if he is a user.
LEMMA InfoWasHeld ==
  ASSUME WorkflowInv
  PROVE  /\ UserInfo(assignee) \in Users \cup {Anonymous, NoUser, NoInfo}
         /\ UserInfo(assignee) \in Users => UserInfo(assignee) \in held
BY DEF WorkflowInv, WorkflowTypeOK, HolderHeld, UserInfo, Known, Names

\* The request whose thread has read the task.
LEMMA TaskIsRead ==
  ASSUME WorkflowInv, NEW r \in Slots, ReadTask(r)
  PROVE  \E n : /\ Sound(n) /\ n.pc \in {"read", "answered"} /\ n.page = req[r].page
                /\ open => /\ n.pc = "read" /\ n.seen.assignee = UserInfo(assignee)
                           /\ n.seen.priority = priority
                /\ req' = [req EXCEPT ![r] = n]
<1>1. UnderWay(r) /\ Sound(req[r])
  BY DEF ReadTask, WorkflowInv, RequestsSound
<1>2. PICK pc, a, v :
        pc = (IF open THEN "read" ELSE "answered") /\ pc \in {"read", "answered"}
        /\ a = (IF open THEN UserInfo(assignee) ELSE NoInfo) /\ v = priority
  OBVIOUS
<1>3. /\ a \in Users \cup {Anonymous, NoUser, NoInfo} /\ v \in AnyPriority
      /\ a \in Users => a \in held
  BY <1>2, InfoWasHeld DEF Names, WorkflowInv, WorkflowTypeOK
<1>4. PICK seen : seen = [req[r].seen EXCEPT !.assignee = a, !.priority = v] /\ seen = TaskSeen(r)
  BY <1>2 DEF TaskSeen
<1>5. seen \in Seen /\ seen.assignee = a /\ seen.priority = v
  BY <1>1, <1>3, <1>4 DEF Sound, Request, Seen
<1>6. PICK n : n = [req[r] EXCEPT !.pc = pc, !.seen = seen]
  OBVIOUS
<1>7. pc \in {"read", "answered"}
  BY <1>2
<1>8. Sound(n) /\ n.pc = pc /\ n.page = req[r].page /\ n.seen = seen
  BY <1>1, <1>3, <1>5, <1>6, <1>7 DEF Sound, Request
<1>9. req' = [req EXCEPT ![r] = n]
  BY <1>2, <1>4, <1>6 DEF ReadTask
<1>. QED
  BY <1>2, <1>5, <1>7, <1>8, <1>9

LEMMA ReadTaskKeeps ==
  ASSUME WorkflowInv, NEW r \in Slots, ReadTask(r)
  PROVE  WorkflowInv'
<1>1. PICK n : Sound(n) /\ n.pc # "claimed" /\ req' = [req EXCEPT ![r] = n]
  BY TaskIsRead
<1>2. shown' \in [Pages -> Shown] /\ MineWasTrue' /\ changed' \subseteq Pages
  BY DEF ReadTask, task, WorkflowInv, WorkflowTypeOK, MineWasTrue
<1>. QED
  BY <1>1, <1>2, AnswerKeeps DEF ReadTask

\* The request whose thread has read the candidates as well.
LEMMA CandidatesAreRead ==
  ASSUME WorkflowInv, NEW r \in Slots, ReadCandidates(r)
  PROVE  \E n : /\ Sound(n) /\ n.pc = "answered" /\ n.page = req[r].page
                /\ open => /\ n.seen.assignee = req[r].seen.assignee
                           /\ n.seen.priority = req[r].seen.priority
                           /\ n.seen.list = {Known(c) : c \in candidates}
                /\ req' = [req EXCEPT ![r] = n]
<1>1. UnderWay(r) /\ Sound(req[r])
  BY DEF ReadCandidates, WorkflowInv, RequestsSound
<1>2. PICK a, list : /\ a = (IF open THEN req[r].seen.assignee ELSE NoInfo)
                     /\ list = {Known(c) : c \in candidates}
  OBVIOUS
<1>3. /\ a \in Users \cup {Anonymous, NoUser, NoInfo} /\ list \in SUBSET (Users \cup {Anonymous})
      /\ a \in Users => a \in held
  BY <1>1, <1>2 DEF Sound, Request, Seen, Known, Names
<1>4. PICK seen : seen = [req[r].seen EXCEPT !.assignee = a, !.list = list]
  OBVIOUS
<1>5. /\ seen \in Seen /\ seen.assignee = a /\ seen.list = list
      /\ seen.priority = req[r].seen.priority
  BY <1>1, <1>3, <1>4 DEF Sound, Request, Seen
<1>6. PICK n : n = [req[r] EXCEPT !.pc = "answered", !.seen = seen]
  OBVIOUS
<1>7. Sound(n) /\ n.pc = "answered" /\ n.page = req[r].page /\ n.seen = seen
  BY <1>1, <1>3, <1>5, <1>6 DEF Sound, Request
<1>8. req' = [req EXCEPT ![r] = n]
  BY <1>1, <1>2, <1>4, <1>6 DEF ReadCandidates, Sound, Request, Seen
<1>. QED
  BY <1>2, <1>5, <1>7, <1>8

LEMMA ReadCandidatesKeeps ==
  ASSUME WorkflowInv, NEW r \in Slots, ReadCandidates(r)
  PROVE  WorkflowInv'
<1>1. PICK n : Sound(n) /\ n.pc = "answered" /\ req' = [req EXCEPT ![r] = n]
  BY CandidatesAreRead
<1>2. shown' \in [Pages -> Shown] /\ MineWasTrue' /\ changed' \subseteq Pages
  BY DEF ReadCandidates, history, task, WorkflowInv, WorkflowTypeOK, MineWasTrue
<1>. QED
  BY <1>1, <1>2, AnswerKeeps DEF ReadCandidates, history

LEMMA DeliverKeeps ==
  ASSUME WorkflowInv, NEW r \in Slots, Deliver(r)
  PROVE  WorkflowInv'
<1>1. UnderWay(r) /\ Sound(req[r]) /\ req' = [req EXCEPT ![r] = Idle]
  BY DEF Deliver, WorkflowInv, RequestsSound
<1>2. shown' \in [Pages -> Shown] /\ MineWasTrue'
  <2>1. CASE req[r].page = NoPage
    BY <2>1 DEF Deliver, task, WorkflowInv, WorkflowTypeOK, MineWasTrue
  <2>2. CASE req[r].page # NoPage
    <3>1. PICK p \in Pages : p = req[r].page
      BY <1>1, <2>2 DEF Sound, Request
    <3>2. PICK info : info = req[r].seen
      OBVIOUS
    <3>3. info \in Seen /\ (info.assignee \in Users => info.assignee \in held)
      BY <1>1, <3>2 DEF Sound, Request
    <3>4. PICK lock : lock = LockFor(p, info)
      OBVIOUS
    <3>5. lock \in {"free", "mine", "other"} /\ (lock = "mine" => UserOf[p] \in held)
      BY <3>3, <3>4 DEF LockFor
    <3>6. PICK n : n = RefreshedPage(p, info)
      OBVIOUS
    <3>7. shown[p] \in Shown
      BY DEF WorkflowInv, WorkflowTypeOK
    <3>8. n \in Shown /\ n.lock = lock
      BY <3>3, <3>4, <3>5, <3>6, <3>7 DEF RefreshedPage, Shown, Seen
    <3>9. shown' = [shown EXCEPT ![p] = n]
      BY <2>2, <3>1, <3>2, <3>6 DEF Deliver
    <3>. QED
      BY <3>5, <3>8, <3>9 DEF Deliver, task, WorkflowInv, WorkflowTypeOK, MineWasTrue
  <2>. QED
    BY <2>1, <2>2
<1>. QED
  BY <1>1, <1>2, AnswerKeeps DEF Deliver, history, WorkflowInv, WorkflowTypeOK

LEMMA LoseKeeps ==
  ASSUME WorkflowInv, NEW r \in Slots, Lose(r)
  PROVE  WorkflowInv'
<1>1. req' = [req EXCEPT ![r] = Idle]
  BY DEF Lose
<1>2. shown' \in [Pages -> Shown] /\ MineWasTrue' /\ changed' \subseteq Pages
  BY DEF Lose, task, WorkflowInv, WorkflowTypeOK, MineWasTrue
<1>. QED
  BY <1>1, <1>2, AnswerKeeps DEF Lose

LEMMA ClaimToSubmitKeeps ==
  ASSUME WorkflowInv, NEW r \in Slots, ClaimToSubmit(r)
  PROVE  WorkflowInv'
<1>1. UnderWay(r) /\ Sound(req[r])
  BY DEF ClaimToSubmit, WorkflowInv, RequestsSound
<1>2. PICK u \in Users : u = req[r].user
  BY <1>1 DEF Sound, Request
<1>3. PICK n : n = IF MayClaim(u) THEN [req[r] EXCEPT !.pc = "claimed"] ELSE Idle
  OBVIOUS
<1>4. /\ assignee' \in Names \cup {NoUser} /\ held' \subseteq Names /\ held \subseteq held'
      /\ assignee' \in held' \cup {NoUser} /\ (assignee' = assignee \/ assignee = NoUser)
      /\ MayClaim(u) => open /\ assignee' = u
      /\ ~ open => assignee' = assignee
  BY <1>2 DEF ClaimToSubmit, Claimed, MayClaim, Names, WorkflowInv, WorkflowTypeOK, HolderHeld
<1>5. /\ n = Idle \/ Sound(n)'
      /\ n # Idle => MayClaim(u) /\ n.user = u
  BY <1>1, <1>2, <1>3, <1>4 DEF Sound, Request
<1>6. req' = [req EXCEPT ![r] = n]
  BY <1>2, <1>3 DEF ClaimToSubmit
<1>7. /\ req' \in [Slots -> Request \cup {Idle}] /\ RequestsSound'
      /\ req'[r] = n /\ \A s \in Slots \ {r} : req'[s] = req[s]
  BY <1>4, <1>5, <1>6, SlotChanges
<1>8. UNCHANGED <<open, candidates, priority, submitter, released, shown, hasty>>
      /\ changed' = Pages
  BY DEF ClaimToSubmit
<1>9. WorkflowTypeOK'
  BY <1>4, <1>7, <1>8 DEF WorkflowInv, WorkflowTypeOK
<1>10. HolderHeld' /\ NotYetSubmitted' /\ MineWasTrue'
  BY <1>4, <1>8 DEF WorkflowInv, HolderHeld, NotYetSubmitted, MineWasTrue
<1>11. ASSUME NEW s \in Slots, UnderWay(s)', req'[s].pc = "claimed", open, s \notin released
       PROVE  assignee' = req'[s].user
  <2>1. CASE s = r
    BY <1>4, <1>5, <1>7, <1>11, <2>1 DEF UnderWay
  <2>2. CASE s # r
    <3>1. req'[s] = req[s] /\ UnderWay(s) /\ req[s].user \in Users
      BY <1>7, <1>11, <2>2 DEF UnderWay, WorkflowInv, RequestsSound, Sound, Request
    <3>2. assignee = req[s].user
      BY <1>11, <3>1 DEF WorkflowInv, ClaimStands
    <3>. QED
      BY <1>4, <3>1, <3>2 DEF Names
  <2>. QED
    BY <2>1, <2>2
<1>12. ClaimStands'
  BY <1>4, <1>8, <1>11 DEF WorkflowInv, ClaimStands, NotYetSubmitted
<1>. QED
  BY <1>7, <1>9, <1>10, <1>12 DEF WorkflowInv

\* The task ends: whoever has claimed it for his submission no longer matters.
LEMMA TaskEnds ==
  ASSUME WorkflowInv, ~ open',
         UNCHANGED <<assignee, candidates, priority, held, shown, hasty>>,
         changed' = Pages, released' \subseteq Slots, req' \in [Slots -> Request \cup {Idle}],
         \A r \in Slots : UnderWay(r)' => UnderWay(r) /\ req'[r] = req[r],
         submitter' \in Users \cup {NoUser},
         submitter' # NoUser /\ released' = {} => assignee = submitter',
         open' \in BOOLEAN
  PROVE  WorkflowInv'
<1>1. WorkflowTypeOK'
  BY DEF WorkflowInv, WorkflowTypeOK
<1>2. RequestsSound'
  BY DEF WorkflowInv, RequestsSound, Sound
<1>3. HolderHeld' /\ NotYetSubmitted' /\ MineWasTrue'
  BY DEF WorkflowInv, HolderHeld, NotYetSubmitted, MineWasTrue
<1>4. ClaimStands'
  BY DEF WorkflowInv, ClaimStands
<1>. QED
  BY <1>1, <1>2, <1>3, <1>4 DEF WorkflowInv

LEMMA CompleteKeeps ==
  ASSUME WorkflowInv, NEW r \in Slots, Complete(r)
  PROVE  WorkflowInv'
<1>1. UnderWay(r) /\ Sound(req[r]) /\ req[r].pc = "claimed"
  BY DEF Complete, WorkflowInv, RequestsSound
<1>2. /\ req' \in [Slots -> Request \cup {Idle}]
      /\ req'[r] = Idle /\ \A s \in Slots \ {r} : req'[s] = req[s]
  BY DEF Complete, WorkflowInv, WorkflowTypeOK
<1>3. /\ submitter' = IF open THEN req[r].user ELSE submitter
      /\ released' = IF open THEN released \cap {r} ELSE released
  BY DEF Complete
<1>4. submitter' \in Users \cup {NoUser} /\ released' \subseteq Slots
  BY <1>1, <1>3 DEF Sound, Request, WorkflowInv, WorkflowTypeOK
<1>5. submitter' # NoUser /\ released' = {} => assignee = submitter'
  BY <1>1, <1>3 DEF WorkflowInv, ClaimStands
<1>. QED
  BY <1>2, <1>4, <1>5, TaskEnds DEF Complete, UnderWay

LEMMA InvKept ==
  ASSUME WorkflowInv, [Next]_vars
  PROVE  WorkflowInv'
<1>1. ASSUME NEW p \in Pages, PageStep(p)
      PROVE  WorkflowInv'
  BY <1>1, PageStepKeeps
<1>2. ASSUME NEW r \in Slots, ServerStep(r) \/ Lose(r)
      PROVE  WorkflowInv'
  BY <1>2, PerformKeeps, ReadTaskKeeps, ReadCandidatesKeeps, ClaimToSubmitKeeps, CompleteKeeps,
     DeliverKeeps, LoseKeeps DEF ServerStep
<1>3. CASE EndTask
  BY <1>3, TaskEnds DEF EndTask, WorkflowInv, WorkflowTypeOK, ClaimStands, UnderWay
<1>4. CASE UNCHANGED vars
  BY <1>4 DEF vars, task, history, WorkflowInv, WorkflowTypeOK, RequestsSound, Sound, UnderWay,
     HolderHeld, MineWasTrue, ClaimStands, NotYetSubmitted
<1>. QED
  BY <1>1, <1>2, <1>3, <1>4 DEF Next

LEMMA Invariance == Spec => []WorkflowInv
BY InvAtFirst, InvKept, PTL DEF Spec

-----------------------------------------------------------------------------
(* What a patient page shows *)

\* As far as the answer of a request has been made, it tells the truth.
AnswerIsTrue(r) ==
  /\ req[r].pc \in {"read", "answered"} =>
       req[r].seen.assignee = UserInfo(assignee) /\ req[r].seen.priority = priority
  /\ req[r].pc = "answered" => req[r].seen.list = {Known(c) : c \in candidates}

\* A patient page waits for one answer at a time, and only while it is open; unless
\* the task was changed since, it shows the truth or is going to be told.
Patient(p) ==
  /\ p \notin hasty => \A r, s \in OfPage(p) : r = s
  /\ shown[p].state # "open" => OfPage(p) = {}
  /\ open /\ p \notin changed \cup hasty /\ shown[p].state = "open" =>
       /\ OfPage(p) = {} => ShowsTruth(p)
       /\ \A r \in OfPage(p) : AnswerIsTrue(r)

\* Neither the task, nor the page, nor what is under way for it has changed.
LEMMA PageStands ==
  ASSUME NEW p \in Pages, Patient(p), UNCHANGED <<task, shown[p]>>,
         \A r \in OfPage(p) : req'[r] = req[r],
         \A r \in Slots \ OfPage(p) : UnderWay(r)' => req'[r].page # p,
         p \in changed => p \in changed', p \in hasty => p \in hasty'
  PROVE  Patient(p)'
<1>1. OfPage(p)' = OfPage(p)
  BY DEF OfPage, UnderWay
<1>2. \A r \in OfPage(p) : AnswerIsTrue(r) => AnswerIsTrue(r)'
  BY DEF AnswerIsTrue, task
<1>3. ShowsTruth(p) => ShowsTruth(p)'
  BY DEF ShowsTruth, task
<1>. QED
  BY <1>1, <1>2, <1>3 DEF Patient, task

\* Something has changed that the page was not told yet.
LEMMA PageIsBehind ==
  ASSUME NEW p \in Pages, Patient(p), p \in changed',
         UNCHANGED <<shown, hasty>>, OfPage(p)' \subseteq OfPage(p)
  PROVE  Patient(p)'
BY DEF Patient

\* What is under way for a page when one slot gets another content.
LEMMA OneSlot ==
  ASSUME NEW s \in Slots, \A r \in Slots \ {s} : req'[r] = req[r], NEW p \in Pages
  PROVE  /\ UnderWay(s)' /\ req'[s].page = p => OfPage(p)' = OfPage(p) \cup {s}
         /\ ~ UnderWay(s)' \/ req'[s].page # p =>
              /\ OfPage(p)' = OfPage(p) \ {s}
              /\ s \notin OfPage(p) =>
                   /\ \A r \in OfPage(p) : req'[r] = req[r]
                   /\ \A r \in Slots \ OfPage(p) : UnderWay(r)' => req'[r].page # p
BY DEF OfPage, UnderWay

LEMMA SlotGets ==
  ASSUME WorkflowInv, NEW s \in Slots, NEW n, req' = [req EXCEPT ![s] = n]
  PROVE  /\ req'[s] = n /\ (UnderWay(s)' <=> n # Idle)
         /\ \A r \in Slots \ {s} : req'[r] = req[r]
BY DEF WorkflowInv, WorkflowTypeOK, UnderWay

LEMMA PostIsPatient ==
  ASSUME WorkflowInv, NEW q \in Pages, NEW op \in Ops, NEW arg,
         IF op = "setpriority" THEN arg \in AnyPriority ELSE arg \in Names,
         NEW pc \in {"sent", "done"}, Post(q, op, arg, pc), UNCHANGED <<task, changed>>,
         shown'[q].state = "open", \A p \in Pages \ {q} : shown'[p] = shown[p],
         NEW p \in Pages, Patient(p)
  PROVE  Patient(p)'
<1>1. PICK s \in Slots : s = FreeSlot /\ ~ UnderWay(s)
  BY FreeSlotIsFree DEF Post
<1>2. PICK n : n = NewRequest(q, UserOf[q], op, arg, pc)
  OBVIOUS
<1>3. n # Idle /\ n.pc = pc /\ n.page = q
  <2>1. Sound(n) /\ n.pc = pc
    BY <1>2, NewRequestSound
  <2>. QED
    BY <1>2, <2>1, IdleIsNoRequest DEF Sound, NewRequest
<1>4. req' = [req EXCEPT ![s] = n] /\ hasty' = IF OfPage(q) # {} THEN hasty \cup {q} ELSE hasty
  BY <1>1, <1>2 DEF Post
<1>5. s \notin OfPage(p)
  BY <1>1 DEF OfPage
<1>6. req'[s] = n /\ UnderWay(s)' /\ \A r \in Slots \ {s} : req'[r] = req[r]
  BY <1>3, <1>4, SlotGets
<1>7. CASE p = q
  <2>1. OfPage(p)' = OfPage(p) \cup {s} /\ req'[s] = n
    BY <1>3, <1>6, <1>7, OneSlot
  <2>2. CASE OfPage(p) # {}
    BY <1>4, <1>7, <2>2 DEF Patient
  <2>3. CASE OfPage(p) = {}
    <3>1. AnswerIsTrue(s)'
      BY <1>3, <2>1 DEF AnswerIsTrue
    <3>. QED
      BY <1>7, <2>1, <2>3, <3>1 DEF Patient
  <2>. QED
    BY <2>2, <2>3
<1>8. CASE p # q
  <2>1. /\ \A r \in OfPage(p) : req'[r] = req[r]
        /\ \A r \in Slots \ OfPage(p) : UnderWay(r)' => req'[r].page # p
    BY <1>3, <1>5, <1>6, <1>8, OneSlot
  <2>. QED
    BY <1>4, <1>8, <2>1, PageStands
<1>. QED
  BY <1>7, <1>8

\* A page that is left waits for nothing; the others wait for what they did.
LEMMA LeavingIsPatient ==
  ASSUME WorkflowInv, NEW q \in Pages, shown' = [shown EXCEPT ![q].state = "left"],
         UNCHANGED <<task, changed>>, hasty' = hasty \ {q},
         \A r \in Slots : req'[r] = Orphaned(q)[r] \/ (~ UnderWay(r) /\ req'[r].page = NoPage),
         NEW p \in Pages, Patient(p)
  PROVE  Patient(p)'
<1>1. \A r \in OfPage(q) : Orphaned(q)[r].page = NoPage
  BY DEF Orphaned, OfPage, WorkflowInv, RequestsSound, Sound, Request
<1>2. \A r \in Slots \ OfPage(q) : Orphaned(q)[r] = req[r]
  BY DEF Orphaned
<1>3. CASE p = q
  <2>1. OfPage(p)' = {}
    BY <1>1, <1>2, <1>3 DEF OfPage, UnderWay
  <2>2. shown'[p].state = "left"
    BY <1>3 DEF WorkflowInv, WorkflowTypeOK, Shown
  <2>. QED
    BY <2>1, <2>2 DEF Patient
<1>4. CASE p # q
  <2>1. \A r \in OfPage(p) : r \in Slots \ OfPage(q) /\ UnderWay(r)
    BY <1>4 DEF OfPage
  <2>2. \A r \in OfPage(p) : req'[r] = req[r]
    BY <1>2, <2>1
  <2>3. \A r \in Slots \ OfPage(p) : UnderWay(r)' => req'[r].page # p
    BY <1>1, <1>2 DEF OfPage, UnderWay
  <2>4. shown'[p] = shown[p]
    BY <1>4 DEF WorkflowInv, WorkflowTypeOK
  <2>. QED
    BY <1>4, <2>2, <2>3, <2>4, PageStands
<1>. QED
  BY <1>3, <1>4

LEMMA PageStepIsPatient ==
  ASSUME WorkflowInv, NEW q \in Pages, PageStep(q), NEW p \in Pages, Patient(p)
  PROVE  Patient(p)'
<1>0. UserOf[q] \in Names /\ UserOf[q] \in Users
  BY DEF Names
<1>1. ASSUME NEW op \in Ops, op # "setpriority", NEW arg \in Names, Click(q, op, arg)
      PROVE  Patient(p)'
  BY <1>1, PostIsPatient DEF Click
<1>2. CASE OpenPage(q)
  <2>1. shown'[q].state = "open" /\ \A t \in Pages \ {q} : shown'[t] = shown[t]
    BY <1>2 DEF OpenPage, Fresh, WorkflowInv, WorkflowTypeOK
  <2>2. Post(q, "load", UserOf[q], "done") /\ UNCHANGED <<task, changed>>
    BY <1>2 DEF OpenPage
  <2>. QED
    BY <1>0, <2>1, <2>2, PostIsPatient DEF Ops
<1>3. CASE LeavePage(q)
  BY <1>3, LeavingIsPatient DEF LeavePage
<1>4. CASE AssignToMe(q) \/ Release(q)
  BY <1>0, <1>1, <1>4 DEF AssignToMe, Release, Ops
<1>5. ASSUME NEW c \in Users \cup {Anonymous}, NEW b \in Ops, ClickCandidate(q, c, b)
      PROVE  Patient(p)'
  <2>1. c \in Names /\ b # "setpriority" /\ Click(q, b, c)
    BY <1>5 DEF ClickCandidate, Buttons, Names
  <2>. QED
    BY <1>1, <2>1
<1>6. ASSUME NEW n \in Typed, AddCandidate(q, n)
      PROVE  Patient(p)'
  BY <1>1, <1>6 DEF AddCandidate, Names, Ops
<1>7. ASSUME NEW v \in Priorities, SetPriority(q, v)
      PROVE  Patient(p)'
  <2>1. shown'[q].state = "open" /\ \A t \in Pages \ {q} : shown'[t] = shown[t]
    BY <1>7 DEF SetPriority, WorkflowInv, WorkflowTypeOK, Shown
  <2>2. Post(q, "setpriority", v, "sent") /\ UNCHANGED <<task, changed>> /\ v \in AnyPriority
    BY <1>7 DEF SetPriority, AnyPriority
  <2>. QED
    BY <2>1, <2>2, PostIsPatient DEF Ops
<1>8. CASE Submit(q)
  <2>1. PICK s \in Slots : s = FreeSlot /\ ~ UnderWay(s)
    BY <1>8, FreeSlotIsFree DEF Submit
  <2>2. PICK n : n = NewRequest(NoPage, UserOf[q], "submit", UserOf[q], "sent")
    OBVIOUS
  <2>3. req' = [Orphaned(q) EXCEPT ![s] = n] /\ n.page = NoPage
    BY <1>8, <2>1, <2>2 DEF Submit, NewRequest
  <2>4. \A r \in Slots : req'[r] = Orphaned(q)[r] \/ (~ UnderWay(r) /\ req'[r].page = NoPage)
    BY <2>1, <2>3, Orphans
  <2>. QED
    BY <1>8, <2>4, LeavingIsPatient DEF Submit
<1>. QED
  BY <1>2, <1>3, <1>4, <1>5, <1>6, <1>7, <1>8 DEF PageStep

\* A change of the task leaves every page behind.
LEMMA ChangeIsPatient ==
  ASSUME WorkflowInv, NEW p \in Pages, Patient(p),
         \/ \E r \in Slots : Perform(r) \/ ClaimToSubmit(r) \/ Complete(r)
         \/ EndTask
  PROVE  Patient(p)'
<1>1. changed' = Pages /\ UNCHANGED <<shown, hasty>>
  BY DEF Perform, ClaimToSubmit, Complete, EndTask
<1>2. \A r \in Slots : UnderWay(r)' => UnderWay(r) /\ req'[r].page = req[r].page
  <2>1. ASSUME NEW r \in Slots, Perform(r) \/ ClaimToSubmit(r) \/ Complete(r)
        PROVE  \A s \in Slots : UnderWay(s)' => UnderWay(s) /\ req'[s].page = req[s].page
    <3>1. PICK n : /\ req' = [req EXCEPT ![r] = n]
                   /\ n \in {Idle, [req[r] EXCEPT !.pc = "done"], [req[r] EXCEPT !.pc = "claimed"]}
      BY <2>1 DEF Perform, ClaimToSubmit, Complete
    <3>2. UnderWay(r) /\ req[r] \in Request
      BY <2>1 DEF Perform, ClaimToSubmit, Complete, WorkflowInv, RequestsSound, Sound
    <3>3. n = Idle \/ n.page = req[r].page
      BY <3>1, <3>2 DEF Request
    <3>4. req'[r] = n /\ \A s \in Slots \ {r} : req'[s] = req[s]
      BY <3>1, SlotGets
    <3>. QED
      BY <3>2, <3>3, <3>4 DEF UnderWay
  <2>2. CASE EndTask
    BY <2>2 DEF EndTask, UnderWay
  <2>. QED
    BY <2>1, <2>2
<1>3. OfPage(p)' \subseteq OfPage(p)
  BY <1>2 DEF OfPage
<1>. QED
  BY <1>1, <1>3, PageIsBehind

LEMMA ReadTaskIsPatient ==
  ASSUME WorkflowInv, NEW r \in Slots, ReadTask(r), NEW p \in Pages, Patient(p)
  PROVE  Patient(p)'
<1>1. PICK n : /\ Sound(n) /\ n.pc \in {"read", "answered"} /\ n.page = req[r].page
               /\ open => /\ n.pc = "read" /\ n.seen.assignee = UserInfo(assignee)
                          /\ n.seen.priority = priority
               /\ req' = [req EXCEPT ![r] = n]
  BY TaskIsRead
<1>2. /\ UnderWay(r) /\ changed' = changed \ {req[r].page}
      /\ UNCHANGED <<task, shown, hasty>>
  BY DEF ReadTask
<1>3. req'[r] = n /\ UnderWay(r)' /\ \A s \in Slots \ {r} : req'[s] = req[s]
  BY <1>1, SlotGets, IdleIsNoRequest DEF Sound
<1>4. CASE req[r].page = p
  <2>1. r \in OfPage(p) /\ OfPage(p)' = OfPage(p) /\ req'[r] = n
    <3>1. r \in OfPage(p)
      BY <1>2, <1>4 DEF OfPage
    <3>2. OfPage(p)' = OfPage(p) \cup {r}
      BY <1>1, <1>3, <1>4, OneSlot
    <3>. QED
      BY <1>3, <3>1, <3>2
  <2>2. open => AnswerIsTrue(r)'
    BY <1>1, <1>2, <2>1 DEF AnswerIsTrue, task
  <2>3. p \notin hasty => OfPage(p) = {r}
    BY <2>1 DEF Patient
  <2>. QED
    BY <1>2, <2>1, <2>2, <2>3 DEF Patient, task
<1>5. CASE req[r].page # p
  <2>1. r \notin OfPage(p)
    BY <1>5 DEF OfPage
  <2>2. /\ \A s \in OfPage(p) : req'[s] = req[s]
        /\ \A s \in Slots \ OfPage(p) : UnderWay(s)' => req'[s].page # p
    BY <1>1, <1>3, <1>5, <2>1, OneSlot
  <2>. QED
    BY <1>2, <1>5, <2>2, PageStands
<1>. QED
  BY <1>4, <1>5

LEMMA ReadCandidatesIsPatient ==
  ASSUME WorkflowInv, NEW r \in Slots, ReadCandidates(r), NEW p \in Pages, Patient(p)
  PROVE  Patient(p)'
<1>1. PICK n : /\ Sound(n) /\ n.pc = "answered" /\ n.page = req[r].page
               /\ open => /\ n.seen.assignee = req[r].seen.assignee
                          /\ n.seen.priority = req[r].seen.priority
                          /\ n.seen.list = {Known(c) : c \in candidates}
               /\ req' = [req EXCEPT ![r] = n]
  BY CandidatesAreRead
<1>2. UnderWay(r) /\ req[r].pc = "read" /\ UNCHANGED <<task, shown, changed, hasty>>
  BY DEF ReadCandidates, history
<1>3. req'[r] = n /\ UnderWay(r)' /\ \A s \in Slots \ {r} : req'[s] = req[s]
  BY <1>1, SlotGets, IdleIsNoRequest DEF Sound
<1>4. CASE req[r].page = p
  <2>1. r \in OfPage(p) /\ OfPage(p)' = OfPage(p) /\ req'[r] = n
    <3>1. r \in OfPage(p)
      BY <1>2, <1>4 DEF OfPage
    <3>2. OfPage(p)' = OfPage(p) \cup {r}
      BY <1>1, <1>3, <1>4, OneSlot
    <3>. QED
      BY <1>3, <3>1, <3>2
  <2>2. open /\ AnswerIsTrue(r) => AnswerIsTrue(r)'
    BY <1>1, <1>2, <2>1 DEF AnswerIsTrue, task
  <2>3. p \notin hasty => OfPage(p) = {r}
    BY <2>1 DEF Patient
  <2>. QED
    BY <1>2, <2>1, <2>2, <2>3 DEF Patient, task
<1>5. CASE req[r].page # p
  <2>1. r \notin OfPage(p)
    BY <1>5 DEF OfPage
  <2>2. /\ \A s \in OfPage(p) : req'[s] = req[s]
        /\ \A s \in Slots \ OfPage(p) : UnderWay(s)' => req'[s].page # p
    BY <1>1, <1>3, <1>5, <2>1, OneSlot
  <2>. QED
    BY <1>2, <2>2, PageStands
<1>. QED
  BY <1>4, <1>5

\* A page that is told the truth shows it.
LEMMA TruthIsShown ==
  ASSUME WorkflowInv, NEW p \in Pages, NEW info \in Seen, UNCHANGED task,
         shown'[p] = RefreshedPage(p, info),
         info.assignee = UserInfo(assignee), info.priority = priority,
         info.list = {Known(c) : c \in candidates}
  PROVE  ShowsTruth(p)'
<1>1. UserInfo(assignee) # NoInfo /\ (UserInfo(assignee) = NoUser) = (assignee = NoUser)
  BY DEF UserInfo, Known, WorkflowInv, WorkflowTypeOK, Names
<1>2. shown[p] \in Shown /\ UserOf[p] \in Users
  BY DEF WorkflowInv, WorkflowTypeOK
<1>3. /\ shown'[p].lock = LockFor(p, info) /\ shown'[p].holder = info.assignee
      /\ shown'[p].priority = info.priority /\ shown'[p].list = info.list
  BY <1>1, <1>2 DEF RefreshedPage, Shown
<1>4. /\ (LockFor(p, info) = "free") = (assignee = NoUser)
      /\ (LockFor(p, info) = "mine") = (UserInfo(assignee) = UserOf[p])
  BY <1>1, <1>2 DEF LockFor
<1>. QED
  BY <1>3, <1>4 DEF ShowsTruth, task, UserInfo

LEMMA DeliverIsPatient ==
  ASSUME WorkflowInv, NEW r \in Slots, Deliver(r), NEW p \in Pages, Patient(p)
  PROVE  Patient(p)'
<1>1. /\ UnderWay(r) /\ req[r].pc = "answered" /\ req' = [req EXCEPT ![r] = Idle]
      /\ UNCHANGED <<task, changed, hasty>>
  BY DEF Deliver, history
<1>2. req[r].seen \in Seen
  BY <1>1 DEF WorkflowInv, RequestsSound, Sound, Request
<1>3. OfPage(p)' = OfPage(p) \ {r}
  BY <1>1, SlotGets, OneSlot
<1>4. CASE req[r].page = p
  <2>1. r \in OfPage(p)
    BY <1>1, <1>4 DEF OfPage
  <2>2. shown'[p] = RefreshedPage(p, req[r].seen) /\ p # NoPage
    BY <1>4 DEF Deliver, WorkflowInv, WorkflowTypeOK
  <2>3. shown'[p].state = shown[p].state
    BY <2>2 DEF RefreshedPage, WorkflowInv, WorkflowTypeOK, Shown
  <2>4. AnswerIsTrue(r) => ShowsTruth(p)'
    BY <1>1, <1>2, <2>2, TruthIsShown DEF AnswerIsTrue
  <2>5. p \notin hasty => OfPage(p)' = {}
    BY <1>3, <2>1 DEF Patient
  <2>. QED
    BY <1>1, <1>3, <2>1, <2>3, <2>4, <2>5 DEF Patient, task
<1>5. CASE req[r].page # p
  <2>1. r \notin OfPage(p)
    BY <1>5 DEF OfPage
  <2>2. /\ \A s \in OfPage(p) : req'[s] = req[s]
        /\ \A s \in Slots \ OfPage(p) : UnderWay(s)' => req'[s].page # p
    BY <1>1, <2>1, SlotGets, OneSlot
  <2>3. shown'[p] = shown[p]
    BY <1>5 DEF Deliver, WorkflowInv, WorkflowTypeOK
  <2>. QED
    BY <1>1, <2>2, <2>3, PageStands
<1>. QED
  BY <1>4, <1>5

LEMMA LoseIsPatient ==
  ASSUME WorkflowInv, NEW r \in Slots, Lose(r), NEW p \in Pages, Patient(p)
  PROVE  Patient(p)'
<1>1. /\ UnderWay(r) /\ req' = [req EXCEPT ![r] = Idle] /\ UNCHANGED <<task, shown, hasty>>
      /\ changed' = changed \cup ({req[r].page} \cap Pages)
  BY DEF Lose
<1>2. CASE req[r].page = p
  <2>1. ~ UnderWay(r)' /\ \A s \in Slots \ {r} : req'[s] = req[s]
    BY <1>1, SlotGets
  <2>2. OfPage(p)' = OfPage(p) \ {r}
    BY <2>1, OneSlot
  <2>. QED
    BY <1>1, <1>2, <2>2, PageIsBehind
<1>3. CASE req[r].page # p
  <2>1. r \notin OfPage(p)
    BY <1>3 DEF OfPage
  <2>2. /\ \A s \in OfPage(p) : req'[s] = req[s]
        /\ \A s \in Slots \ OfPage(p) : UnderWay(s)' => req'[s].page # p
    BY <1>1, <2>1, SlotGets, OneSlot
  <2>. QED
    BY <1>1, <2>2, PageStands
<1>. QED
  BY <1>2, <1>3

LEMMA PatientKept ==
  ASSUME WorkflowInv, [Next]_vars, NEW p \in Pages, Patient(p)
  PROVE  Patient(p)'
<1>1. ASSUME UNCHANGED vars
      PROVE  Patient(p)'
  BY <1>1, PageStands DEF vars, task, history, OfPage, UnderWay
<1>. QED
  BY <1>1, PageStepIsPatient, ChangeIsPatient, ReadTaskIsPatient, ReadCandidatesIsPatient,
     DeliverIsPatient, LoseIsPatient DEF Next, ServerStep

PatientPages == \A p \in Pages : Patient(p)

\* A page whose user waits for each answer shows the truth when nothing is under way
\* for it, unless the task was changed since it was read: neither a failed claim, nor
\* a change between the two reads, nor an answer to a page that was left remains.
THEOREM PatienceIsRewarded == Spec => []PatientPageShowsTruth
<1>1. Init => PatientPages
  BY DEF Init, PatientPages, Patient, OfPage, UnderWay, Fresh
<1>2. WorkflowInv /\ [Next]_vars /\ PatientPages => PatientPages'
  BY PatientKept DEF PatientPages
<1>3. PatientPages => PatientPageShowsTruth
  BY DEF PatientPages, Patient, PatientPageShowsTruth
<1>. QED
  BY <1>1, <1>2, <1>3, Invariance, PTL DEF Spec

-----------------------------------------------------------------------------
(* The invariants *)

\* The task, the pages and the requests keep their types.
THEOREM TypeCorrect == Spec => []WorkflowTypeOK
BY Invariance, PTL DEF WorkflowInv

\* Who is told that he holds the task has held it.
THEOREM MineIsTrue == Spec => []MineWasTrue
BY Invariance, PTL DEF WorkflowInv

\* The assignee that goes on record is the user whose submission completed the task,
\* unless the lock was released between the claim and the completion of that submission.
THEOREM RecordIsTrue == Spec => []RecordedAsSubmitted
<1>1. WorkflowInv => RecordedAsSubmitted
  BY DEF WorkflowInv, ClaimStands, RecordedAsSubmitted
<1>. QED
  BY <1>1, Invariance, PTL
=============================================================================
