------------------------------ MODULE Workflow ------------------------------
(***************************************************************************)
(* One user task of a process, and the pages of the case workers' portal   *)
(* that show it: who holds the lock of the task (its assignee), who are    *)
(* candidates for it, and who performed it.                                *)
(*                                                                         *)
(* A page (motrice-internal.js) sends an AJAX request per click and redraws *)
(* itself from whatever answer arrives; answers may be overtaken. The       *)
(* server changes the task in one transaction, then reads the task in a     *)
(* second and its candidates in a third to make the answer. Submitting the  *)
(* form of the task claims it and completes it in two more.                 *)
(***************************************************************************)
EXTENDS Naturals, FiniteSets

CONSTANTS
  Pages,           \* browser pages that show the task
  Users,           \* known to the identity service
  UserOf,          \* page -> the user logged in
  Anonymous,       \* what the identity service makes of an unknown name
  Typed,           \* names that someone may type into the candidate field
  FirstCandidates, \* candidate users when the task is created
  Priorities,      \* options of the priority menu
  FirstPriority,   \* priority when the task is created
  Slots,           \* AJAX requests that may be under way at once
  PerPage,         \* bound on those of one page
  Lossy,           \* whether requests or answers may be lost
  Reopens,         \* whether a page that was left may be opened again
  NoUser, NoPage, NoInfo, Idle

ASSUME WorkflowAssumption ==
  /\ UserOf \in [Pages -> Users]
  /\ FirstCandidates \subseteq Users \cup Typed
  /\ NoUser \notin Users \cup Typed \cup {Anonymous}
  /\ NoInfo \notin Users \cup Typed \cup {Anonymous, NoUser}
  /\ Anonymous \notin Users
  /\ NoPage \notin Pages
  /\ PerPage \in Nat

Names == Users \cup Typed \cup {Anonymous}
AnyPriority == Priorities \cup {FirstPriority}

VARIABLES
  open,        \* the task is not completed
  assignee,    \* its holder
  candidates,  \* users with a candidate link
  priority,
  submitter,   \* whose submission completed the task
  shown,       \* page -> what it shows
  req,         \* slot -> a request under way
  held,        \* history: users who have held the lock
  released,    \* history: submissions under way that lost their claim to a release;
               \* of a completed task, the one that completed it if it is one of them
  changed,     \* history: pages to which the task was changed since it was read
  hasty        \* history: pages that had two requests under way at once

task == <<open, assignee, candidates, priority, submitter, held>>
history == <<changed, hasty>>
vars == <<task, shown, req, released, history>>

\* What a page shows: the group of controls made visible, the entries of the
\* candidate list with the holder they were drawn for, the priority menu.
Shown == [state: {"closed", "open", "left"},
          lock: {"free", "mine", "other"},
          list: SUBSET (Users \cup {Anonymous}),
          holder: Users \cup {Anonymous, NoUser},
          priority: AnyPriority]

Ops == {"load", "assign", "unassign", "addcandidate", "removecandidate",
        "setpriority", "submit"}

Seen == [assignee: Users \cup {Anonymous, NoUser, NoInfo},
         priority: AnyPriority,
         list: SUBSET (Users \cup {Anonymous})]

Request == [page: Pages \cup {NoPage}, user: Users, op: Ops,
            arg: Names \cup AnyPriority,
            pc: {"sent", "claimed", "done", "read", "answered"}, seen: Seen]

\* A slot without a request holds none.
ASSUME IdleIsNoRequest == Idle \notin Request

WorkflowTypeOK ==
  /\ open \in BOOLEAN
  /\ assignee \in Names \cup {NoUser}
  /\ candidates \subseteq Names
  /\ priority \in AnyPriority
  /\ submitter \in Users \cup {NoUser}
  /\ shown \in [Pages -> Shown]
  /\ req \in [Slots -> Request \cup {Idle}]
  /\ held \subseteq Names
  /\ released \subseteq Slots
  /\ changed \subseteq Pages
  /\ hasty \subseteq Pages

\* getUserByUuid of the identity service never answers nothing: a name that it
\* does not find gets the identity of the anonymous user.
Known(n) == IF n \in Users THEN n ELSE Anonymous

UserInfo(n) == IF n = NoUser THEN NoUser ELSE Known(n)

NothingSeen == [assignee |-> NoUser, priority |-> FirstPriority, list |-> {}]

\* The page as it is delivered: the list is filled by the first answer.
Fresh(state) == [state |-> state, lock |-> "free", list |-> {},
                 holder |-> NoUser, priority |-> FirstPriority]

Init ==
  /\ open = TRUE
  /\ assignee = NoUser
  /\ candidates = FirstCandidates
  /\ priority = FirstPriority
  /\ submitter = NoUser
  /\ shown = [p \in Pages |-> Fresh("closed")]
  /\ req = [r \in Slots |-> Idle]
  /\ held = {}
  /\ released = {}
  /\ changed = {}
  /\ hasty = {}

-----------------------------------------------------------------------------
(* The page *)

UnderWay(r) == req[r] # Idle
OfPage(p) == {r \in Slots : UnderWay(r) /\ req[r].page = p}
FreeSlots == {r \in Slots : ~ UnderWay(r)}
FreeSlot == CHOOSE r \in FreeSlots : TRUE

NewRequest(page, user, op, arg, pc) ==
  [page |-> page, user |-> user, op |-> op, arg |-> arg, pc |-> pc,
   seen |-> NothingSeen]

\* siteAjaxPost: an asynchronous request; the page does not wait.
Post(p, op, arg, pc) ==
  /\ FreeSlots # {}
  /\ Cardinality(OfPage(p)) < PerPage
  /\ req' = [req EXCEPT ![FreeSlot] = NewRequest(p, UserOf[p], op, arg, pc)]
  /\ hasty' = IF OfPage(p) # {} THEN hasty \cup {p} ELSE hasty

Click(p, op, arg) ==
  /\ shown[p].state = "open"
  /\ Post(p, op, arg, "sent")
  /\ UNCHANGED <<task, released, shown, changed>>

\* The page of a task is there as long as the task is; it asks for the
\* candidates and the holder as soon as it is loaded.
OpenPage(p) ==
  /\ open
  /\ \/ shown[p].state = "closed"
     \/ Reopens /\ shown[p].state = "left"
  /\ shown' = [shown EXCEPT ![p] = Fresh("open")]
  /\ Post(p, "load", UserOf[p], "done")
  /\ UNCHANGED <<task, released, changed>>

\* Answers to a page that is gone are received by nobody.
Orphaned(p) ==
  [r \in Slots |-> IF r \in OfPage(p) THEN [req[r] EXCEPT !.page = NoPage]
                   ELSE req[r]]

LeavePage(p) ==
  /\ shown[p].state = "open"
  /\ shown' = [shown EXCEPT ![p].state = "left"]
  /\ req' = Orphaned(p)
  /\ hasty' = hasty \ {p}
  /\ UNCHANGED <<task, released, changed>>

AssignToMe(p) ==
  /\ shown[p].lock = "free"
  /\ Click(p, "assign", UserOf[p])

\* The button is shown to the holder and to everybody else.
Release(p) ==
  /\ shown[p].lock \in {"mine", "other"}
  /\ Click(p, "unassign", UserOf[p])

\* The buttons beside the entry of a candidate.
Buttons(p, c) ==
  IF shown[p].holder = NoUser THEN {"removecandidate", "assign"}
  ELSE IF shown[p].holder = c THEN {"unassign"} ELSE {"removecandidate"}

\* One handler for the whole list.
ClickCandidate(p, c, button) ==
  /\ c \in shown[p].list
  /\ button \in Buttons(p, c)
  /\ Click(p, button, c)

AddCandidate(p, n) == Click(p, "addcandidate", n)

\* The menu shows the choice at once, whatever becomes of the request.
SetPriority(p, v) ==
  /\ shown[p].state = "open"
  /\ Post(p, "setpriority", v, "sent")
  /\ shown' = [shown EXCEPT ![p].priority = v]
  /\ UNCHANGED <<task, released, changed>>

\* The form is visible to the holder only. Submitting it leaves the page.
Submit(p) ==
  /\ shown[p].state = "open"
  /\ shown[p].lock = "mine"
  /\ FreeSlots # {}
  /\ shown' = [shown EXCEPT ![p].state = "left"]
  /\ req' = [Orphaned(p) EXCEPT ![FreeSlot] =
               NewRequest(NoPage, UserOf[p], "submit", UserOf[p], "sent")]
  /\ hasty' = hasty \ {p}
  /\ UNCHANGED <<task, released, changed>>

-----------------------------------------------------------------------------
(* The server. Every change swallows its exceptions. *)

\* Mutant: TaskService.setAssignee instead of claim.
MaySeize(u) == open

\* TaskService.claim fails when somebody else holds the task.
MayClaim(u) == open /\ assignee \in {NoUser, u}

Claimed(u) ==
  IF MayClaim(u)
  THEN assignee' = u /\ held' = held \cup {u}
  ELSE UNCHANGED <<assignee, held>>

Change(op, arg) ==
  \/ /\ op = "assign"
     /\ Claimed(arg)
     /\ UNCHANGED <<candidates, priority>>
  \/ /\ op = "unassign"
     /\ assignee' = IF open THEN NoUser ELSE assignee
     /\ UNCHANGED <<candidates, priority, held>>
  \/ /\ op = "addcandidate"
     /\ candidates' = IF open THEN candidates \cup {arg} ELSE candidates
     /\ UNCHANGED <<assignee, priority, held>>
  \/ /\ op = "removecandidate"
     /\ candidates' = IF open THEN candidates \ {arg} ELSE candidates
     /\ UNCHANGED <<assignee, priority, held>>
  \/ /\ op = "setpriority"
     /\ priority' = IF open THEN arg ELSE priority
     /\ UNCHANGED <<assignee, candidates, held>>

\* Submissions that have claimed the task, and not completed it yet.
Submitting == {r \in Slots : UnderWay(r) /\ req[r].pc = "claimed"}

Perform(r) ==
  /\ UnderWay(r)
  /\ req[r].op # "submit"
  /\ req[r].pc = "sent"
  /\ Change(req[r].op, req[r].arg)
  /\ released' = IF req[r].op = "unassign" /\ open THEN Submitting ELSE released
  /\ req' = [req EXCEPT ![r].pc = "done"]
  /\ changed' = Pages
  /\ UNCHANGED <<open, submitter, shown, hasty>>

\* Mutant: the exception of a task that is gone is not caught.
ReadOpenTask(r) ==
  /\ open
  /\ UnderWay(r)
  /\ req[r].pc = "done"
  /\ req' = [req EXCEPT ![r].pc = "read",
                        ![r].seen.assignee = UserInfo(assignee),
                        ![r].seen.priority = priority]
  /\ changed' = changed \ {req[r].page}
  /\ UNCHANGED <<task, released, shown, hasty>>

TaskSeen(r) ==
  [req[r].seen EXCEPT !.assignee = IF open THEN UserInfo(assignee) ELSE NoInfo,
                      !.priority = priority]

\* getActivityWorkflowInfo reads the task, which may be gone ...
ReadTask(r) ==
  /\ UnderWay(r)
  /\ req[r].pc = "done"
  /\ req' = [req EXCEPT ![r].pc = IF open THEN "read" ELSE "answered",
                        ![r].seen = TaskSeen(r)]
  /\ changed' = changed \ {req[r].page}
  /\ UNCHANGED <<task, released, shown, hasty>>

\* ... and then the candidate links of the task, which may be gone by now.
ReadCandidates(r) ==
  /\ UnderWay(r)
  /\ req[r].pc = "read"
  /\ req' = [req EXCEPT ![r].pc = "answered",
                        ![r].seen.assignee = IF open THEN req[r].seen.assignee ELSE NoInfo,
                        ![r].seen.list = {Known(c) : c \in candidates}]
  /\ UNCHANGED <<task, released, shown, history>>

\* executeTask claims the task for the submitter ...
ClaimToSubmit(r) ==
  /\ UnderWay(r)
  /\ req[r].op = "submit"
  /\ req[r].pc = "sent"
  /\ Claimed(req[r].user)
  /\ req' = [req EXCEPT ![r] =
               IF MayClaim(@.user) THEN [@ EXCEPT !.pc = "claimed"] ELSE Idle]
  /\ changed' = Pages
  /\ UNCHANGED <<open, candidates, priority, submitter, released, shown, hasty>>

\* Mutant: executeTask without its claim.
CompleteAnyhow(r) ==
  /\ UnderWay(r)
  /\ req[r].op = "submit"
  /\ req' = [req EXCEPT ![r] = Idle]
  /\ open' = FALSE
  /\ submitter' = IF open THEN req[r].user ELSE submitter
  /\ released' = IF open THEN released \cap {r} ELSE released
  /\ changed' = Pages
  /\ UNCHANGED <<assignee, candidates, priority, held, shown, hasty>>

\* ... and then completes it, whoever holds it by now.
Complete(r) ==
  /\ UnderWay(r)
  /\ req[r].pc = "claimed"
  /\ req' = [req EXCEPT ![r] = Idle]
  /\ open' = FALSE
  /\ submitter' = IF open THEN req[r].user ELSE submitter
  /\ released' = IF open THEN released \cap {r} ELSE released
  /\ changed' = Pages
  /\ UNCHANGED <<assignee, candidates, priority, held, shown, hasty>>

\* The process is stopped or moves on without the task: nobody has submitted it.
EndTask ==
  /\ open
  /\ open' = FALSE
  /\ changed' = Pages
  /\ UNCHANGED <<assignee, candidates, priority, submitter, held, released, shown,
                 req, hasty>>

-----------------------------------------------------------------------------
(* Answers *)

\* Mutant: a page takes any holder for its user.
LockOfAnybody(p, info) ==
  IF info.assignee \in {NoInfo, NoUser} THEN "free" ELSE "mine"

\* refreshActivityWorkflowInfo, first part: which controls are visible. No
\* information at all counts as nobody holding the task.
LockFor(p, info) ==
  IF info.assignee \in {NoInfo, NoUser} THEN "free"
  ELSE IF info.assignee = UserOf[p] THEN "mine" ELSE "other"

\* Mutant: the list is not emptied before it is filled.
AppendedPage(p, info) ==
  [shown[p] EXCEPT !.lock = LockFor(p, info), !.holder = info.assignee,
                   !.priority = info.priority, !.list = @ \cup info.list]

\* Mutant: an answer without information is taken for one.
RefreshedAnyway(p, info) ==
  [shown[p] EXCEPT !.lock = LockFor(p, info), !.holder = info.assignee,
                   !.priority = info.priority, !.list = info.list]

\* Second part: without information the list and the menu stay as they are.
RefreshedPage(p, info) ==
  IF info.assignee = NoInfo
  THEN [shown[p] EXCEPT !.lock = LockFor(p, info)]
  ELSE [shown[p] EXCEPT !.lock = LockFor(p, info), !.holder = info.assignee,
                        !.priority = info.priority, !.list = info.list]

Deliver(r) ==
  /\ UnderWay(r)
  /\ req[r].pc = "answered"
  /\ req' = [req EXCEPT ![r] = Idle]
  /\ shown' = IF req[r].page = NoPage THEN shown
              ELSE [shown EXCEPT ![req[r].page] =
                      RefreshedPage(req[r].page, req[r].seen)]
  /\ UNCHANGED <<task, released, history>>

\* The error handler of siteAjaxPost is empty: the page stays as it is. The
\* request was lost on its way, or its answer was.
Lose(r) ==
  /\ Lossy
  /\ UnderWay(r)
  /\ req[r].pc \in {"sent", "answered"}
  /\ req' = [req EXCEPT ![r] = Idle]
  /\ changed' = changed \cup ({req[r].page} \cap Pages)
  /\ UNCHANGED <<task, released, shown, hasty>>

-----------------------------------------------------------------------------

PageStep(p) ==
  \/ OpenPage(p)
  \/ LeavePage(p)
  \/ AssignToMe(p)
  \/ Release(p)
  \/ \E c \in Users \cup {Anonymous}, b \in Ops : ClickCandidate(p, c, b)
  \/ \E n \in Typed : AddCandidate(p, n)
  \/ \E v \in Priorities : SetPriority(p, v)
  \/ Submit(p)

ServerStep(r) ==
  \/ Perform(r)
  \/ ReadTask(r)
  \/ ReadCandidates(r)
  \/ ClaimToSubmit(r)
  \/ Complete(r)
  \/ Deliver(r)

Next ==
  \/ \E p \in Pages : PageStep(p)
  \/ \E r \in Slots : ServerStep(r) \/ Lose(r)
  \/ EndTask

Spec == Init /\ [][Next]_vars

\* A server thread goes on by itself; what it answers arrives.
FairSpec == Spec /\ \A r \in Slots : WF_vars(ServerStep(r))

-----------------------------------------------------------------------------
(* Properties *)

\* The lock of the task passes from one user to another only by being released:
\* however two clicks on 'lock' race, nobody is put out by the other's.
NoTakeover ==
  [][\A u \in Names : assignee = u => assignee' \in {u, NoUser}]_vars

\* The assignee of a completed task goes on record as the one who submitted it. He
\* is, unless the lock was released between the claim and the completion of the very
\* submission that completed it: neither a page that wrongly offers the form, nor a
\* submission that lost its claim to a release while another was under way, makes
\* anybody else's submission go on record as its own.
RecordedAsSubmitted ==
  submitter # NoUser /\ released = {} => assignee = submitter

\* A page tells its user that he holds the task only if he has held it, through
\* any number of overtaken answers and failed claims.
MineWasTrue == \A p \in Pages : shown[p].lock = "mine" => UserOf[p] \in held

\* What a page shows is true of the task.
ShowsTruth(p) ==
  /\ (shown[p].lock = "free") = (assignee = NoUser)
  /\ (shown[p].lock = "mine") = (UserInfo(assignee) = UserOf[p])
  /\ shown[p].holder = UserInfo(assignee)
  /\ shown[p].list = {Known(c) : c \in candidates}
  /\ shown[p].priority = priority

\* A page whose user waits for each answer shows the truth when it has arrived,
\* unless somebody has changed the task since the answer was made: neither a
\* failed claim, nor a change between the two reads, nor an answer to a page
\* that was left and opened again leaves a mixture behind.
PatientPageShowsTruth ==
  open => \A p \in Pages \ (changed \cup hasty) :
    shown[p].state = "open" /\ OfPage(p) = {} => ShowsTruth(p)

\* refreshActivityWorkflowInfo, 'Refresh work flow info in page i.e. activity
\* candidates and assigned': when nothing is under way a page shows the truth,
\* unless somebody has changed the task since it was last read for the page.
QuietPageShowsTruth ==
  open /\ (\A r \in Slots : ~ UnderWay(r)) =>
    \A p \in Pages \ changed : shown[p].state = "open" => ShowsTruth(p)

\* A user who clicks on is nevertheless answered: time and again nothing of his
\* page is under way. The reads after a completion race with it, and must end
\* with an answer all the same.
PageIsAnswered == \A p \in Pages : []<>(OfPage(p) = {})
=============================================================================
