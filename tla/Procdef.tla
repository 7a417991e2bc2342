------------------------------ MODULE Procdef ------------------------------
(***************************************************************************)
(* One version of a process definition in Coordinatrice. Activiti keeps the *)
(* definition and whether it is suspended, in transactions of its own; the  *)
(* table crd_procdef keeps its Motrice state, in transactions of Hibernate  *)
(* with a version column. Every request that looks at the definition tries  *)
(* to bring the two in line. Definitions share nothing but their requests.  *)
(***************************************************************************)
EXTENDS Naturals

CONSTANTS
  Requests,    \* requests that may be under way at once
  MaxVersion,  \* bound on the updates of the row
  MaxBreaks,   \* bound on the requests that break off
  NoRow

ASSUME ProcdefAssumption == MaxVersion \in Nat /\ MaxBreaks \in Nat

States == {"Active", "Suspended", "Edit", "Trial", "Approved", "Published", "Retired"}
Rows == [state: States, version: 0 .. MaxVersion]

ASSUME NoRowAssumption == NoRow \notin Rows

VARIABLES
  act,      \* the definition in Activiti
  crd,      \* its row in crd_procdef
  running,  \* whether it has process instances
  offered,  \* the states that some page has offered for it
  req,      \* the state of every request
  breaks    \* number of requests that have broken off

vars == <<act, crd, running, offered, req, breaks>>

InActiviti == {"active", "suspended"}

\* computeActivitiState
ActivitiState(s) ==
  IF s \in {"Edit", "Retired", "Suspended"} THEN "suspended" ELSE "active"

\* nextStates
NextStates(s) ==
  CASE s \in {"Active", "Suspended"} -> {"Edit", "Trial"}
    [] s = "Edit" -> {"Trial", "Approved"}
    [] s = "Trial" -> {"Edit", "Approved", "Published"}
    [] s = "Approved" -> {"Edit", "Published"}
    [] s = "Published" -> {"Retired"}
    [] s = "Retired" -> {"Published"}

\* op: what the request is for. An update looks at the definition first ("update")
\* and then changes it ("apply"). entity: what Activiti answered. row: the row as
\* the session read it. state: the state of the row in the session.
NoRequest == [pc |-> "idle", op |-> "view", entity |-> "none", row |-> NoRow,
              state |-> "Edit", to |-> "Edit"]

Ops == {"view", "update", "apply", "delete", "deploy", "reconnect"}

ProcTypeOK ==
  /\ act \in InActiviti \cup {"none", "gone"}
  /\ crd \in Rows \cup {NoRow}
  /\ running \in BOOLEAN
  /\ offered \subseteq States
  /\ req \in [Requests -> [pc: {"idle", "fetch", "look", "sync", "commit", "again",
                                "remove", "unrow"},
                           op: Ops, entity: InActiviti \cup {"none"},
                           row: Rows \cup {NoRow}, state: States, to: States]]
  /\ breaks \in 0 .. MaxBreaks

\* A definition that Coordinatrice has never seen, or none yet.
ProcInit ==
  /\ act \in InActiviti \cup {"none"}
  /\ crd = NoRow
  /\ running = FALSE
  /\ offered = {}
  /\ req = [r \in Requests |-> NoRequest]
  /\ breaks = 0

-----------------------------------------------------------------------------

Start(r, op, to) ==
  /\ req[r].pc = "idle"
  /\ req' = [req EXCEPT ![r] = [NoRequest EXCEPT !.pc = "fetch", !.op = op, !.to = to]]

Ends(r) == req' = [req EXCEPT ![r] = NoRequest]

\* show and editstate; a list does the same with every definition that is there.
View(r) ==
  /\ act # "none"
  /\ Start(r, "view", "Edit")
  /\ UNCHANGED <<act, crd, running, offered, breaks>>

\* updatestate takes whatever state some page has offered at some time.
UpdateState(r) ==
  /\ \E s \in offered : Start(r, "update", s)
  /\ UNCHANGED <<act, crd, running, offered, breaks>>

\* deleteall
Delete(r) ==
  /\ act # "none"
  /\ Start(r, "delete", "Edit")
  /\ UNCHANGED <<act, crd, running, offered, breaks>>

\* createNewProcdefVersionByDuplication, ...ByUpdate, createProcdefFromScratch: an
\* uploaded definition is active.
Deploy(r) ==
  /\ act = "none"
  /\ act' = "active"
  /\ Start(r, "deploy", "Edit")
  /\ UNCHANGED <<crd, running, offered, breaks>>

\* The definition is fetched from Activiti. If it is not there, findProcessDefinition
\* makes sure that there is no row either.
Fetch(r) ==
  /\ req[r].pc = "fetch"
  /\ \/ /\ act \in InActiviti
        /\ req' = [req EXCEPT ![r].pc = "look", ![r].entity = act]
        /\ UNCHANGED crd
     \/ /\ act \notin InActiviti
        /\ Ends(r)
        /\ crd' = IF req[r].op \in {"view", "update"} THEN NoRow ELSE crd
  /\ UNCHANGED <<act, running, offered, breaks>>

\* The state that createProcdef gives the row in the session.
InitState(r) ==
  IF req[r].op = "deploy" THEN "Edit"
  ELSE IF crd # NoRow THEN crd.state
  ELSE IF req[r].entity = "suspended" THEN "Suspended" ELSE "Active"

\* createProcdef finds the row, or makes one. A new row does not concern Activiti;
\* it is not in state Edit, so that a deletion is refused and makes none.
LookUp(r) ==
  /\ req[r].pc = "look"
  /\ \/ /\ req[r].op # "delete" \/ crd # NoRow
        /\ req' = [req EXCEPT ![r].pc = IF crd = NoRow THEN "commit" ELSE "sync",
                              ![r].row = crd, ![r].state = InitState(r),
                              ![r].entity = IF crd = NoRow THEN "none" ELSE @]
     \/ /\ req[r].op = "delete" /\ crd = NoRow
        /\ Ends(r)
  /\ UNCHANGED <<act, crd, running, offered, breaks>>

\* Mutant: the version of the row is not looked at.
RowStandsAnyway(r) == crd = NoRow <=> req[r].row = NoRow

\* The row in the database is the one that the session has read.
RowStands(r) == crd = req[r].row

\* A deletion is refused, unless the state is Edit, once Activiti knows the state.
PastSync(r) ==
  IF req[r].op # "delete" THEN req' = [req EXCEPT ![r].pc = "commit", ![r].entity = "none"]
  ELSE IF req[r].state = "Edit"
  THEN req' = [req EXCEPT ![r].pc = "remove", ![r].entity = "none"]
  ELSE Ends(r)

\* Mutant: the definition is activated, but never suspended.
ActivateOnly(r) ==
  /\ req[r].pc = "sync"
  /\ act' = IF ActivitiState(req[r].state) = "active" THEN "active" ELSE act
  /\ PastSync(r)
  /\ UNCHANGED <<crd, running, offered, breaks>>

\* propagateStateToActiviti. Activiti refuses to activate what is active, and to
\* suspend what is suspended: the exception ends the request. So does a
\* definition that is gone; findProcessDefinition then removes its row, if it
\* is as it was read, where a list only ends.
Sync(r) ==
  LET want == ActivitiState(req[r].state) IN
  /\ req[r].pc = "sync"
  /\ \/ /\ want = req[r].entity \/ act = req[r].entity
        /\ act' = IF want = req[r].entity THEN act ELSE want
        /\ PastSync(r)
        /\ UNCHANGED crd
     \/ /\ want # req[r].entity /\ act # req[r].entity
        /\ act \in InActiviti \/ req[r].op # "update"
        /\ Ends(r)
        /\ UNCHANGED <<act, crd>>
     \/ /\ want # req[r].entity /\ act \notin InActiviti
        /\ req[r].op \in {"view", "update"}
        /\ crd' = IF RowStands(r) THEN NoRow ELSE crd
        /\ Ends(r)
        /\ UNCHANGED act
  /\ UNCHANGED <<running, offered, breaks>>

Changed(r) == ~ (req[r].row # NoRow /\ req[r].row.state = req[r].state)

\* The row after the transaction.
Saved(r) ==
  IF req[r].row = NoRow THEN [state |-> req[r].state, version |-> 0]
  ELSE IF Changed(r) THEN [state |-> req[r].state, version |-> req[r].row.version + 1]
  ELSE crd

MayUpdate(r) ==
  Changed(r) /\ req[r].row # NoRow => req[r].row.version < MaxVersion

\* reconnectActivityForms: before its transaction commits, a request that has
\* deployed a new version looks at all versions, the new one among them.
Reconnect(r) ==
  /\ req[r].pc = "commit" /\ req[r].op = "deploy"
  /\ act \in InActiviti
  /\ req' = [req EXCEPT ![r].pc = "sync", ![r].op = "reconnect", ![r].entity = act]
  /\ UNCHANGED <<act, crd, running, offered, breaks>>

\* The transaction commits. A page offers the next states.
Commit(r) ==
  /\ req[r].pc = "commit"
  /\ MayUpdate(r)
  /\ \/ /\ Changed(r) => RowStands(r)
        /\ crd' = Saved(r)
        /\ offered' = IF req[r].op = "view" THEN offered \cup NextStates(req[r].state)
                      ELSE offered
        /\ \/ req[r].op # "update" /\ Ends(r)
           \/ /\ req[r].op = "update"
              /\ req' = [req EXCEPT ![r].pc = "again", ![r].row = Saved(r)]
     \/ /\ Changed(r) /\ ~ RowStands(r)
        /\ Ends(r)
        /\ UNCHANGED <<crd, offered>>
  /\ UNCHANGED <<act, running, breaks>>

\* Mutant: a definition that is not there is changed.
ApplyToNothing(r) ==
  /\ req[r].pc = "again"
  /\ req' = [req EXCEPT ![r].pc = "sync", ![r].op = "apply", ![r].entity = act,
                        ![r].state = req[r].to]
  /\ UNCHANGED <<act, crd, running, offered, breaks>>

\* updateProcdefState: the session still has the row as it read it.
Apply(r) ==
  /\ req[r].pc = "again"
  /\ IF act \in InActiviti
     THEN req' = [req EXCEPT ![r].pc = "sync", ![r].op = "apply", ![r].entity = act,
                             ![r].state = req[r].to]
     ELSE Ends(r)
  /\ UNCHANGED <<act, crd, running, offered, breaks>>

\* doDeleteDeployment: Activiti refuses if there are process instances ...
DeleteDeployment(r) ==
  /\ req[r].pc = "remove"
  /\ IF act \in InActiviti /\ ~ running
     THEN /\ act' = "gone"
          /\ req' = [req EXCEPT ![r].pc = "unrow"]
     ELSE Ends(r) /\ UNCHANGED act
  /\ UNCHANGED <<crd, running, offered, breaks>>

\* ... and the row goes when the transaction commits, if nobody has changed it.
DeleteRow(r) ==
  /\ req[r].pc = "unrow"
  /\ crd' = IF RowStands(r) THEN NoRow ELSE crd
  /\ Ends(r)
  /\ UNCHANGED <<act, running, offered, breaks>>

\* The server restarts, or the connection to the database fails.
Break(r) ==
  /\ breaks < MaxBreaks
  /\ req[r].pc # "idle"
  /\ Ends(r)
  /\ breaks' = breaks + 1
  /\ UNCHANGED <<act, crd, running, offered>>

\* Somebody submits a start form, or starts a test; the instance ends.
StartInstance ==
  /\ act = "active" /\ ~ running
  /\ running' = TRUE
  /\ UNCHANGED <<act, crd, offered, req, breaks>>

EndInstance ==
  /\ running
  /\ running' = FALSE
  /\ UNCHANGED <<act, crd, offered, req, breaks>>

-----------------------------------------------------------------------------

Continue(r) ==
  Fetch(r) \/ LookUp(r) \/ Sync(r) \/ Reconnect(r) \/ Commit(r) \/ Apply(r)
  \/ DeleteDeployment(r) \/ DeleteRow(r)

ProcNext ==
  \/ \E r \in Requests :
       View(r) \/ UpdateState(r) \/ Delete(r) \/ Deploy(r) \/ Continue(r) \/ Break(r)
  \/ StartInstance
  \/ EndInstance

ProcSpec == ProcInit /\ [][ProcNext]_vars

\* A request that is under way goes on.
ProcFairSpec == ProcSpec /\ \A r \in Requests : WF_vars(Continue(r))

-----------------------------------------------------------------------------
(* Properties *)

\* The state of a definition is changed only by a request that has seen the state
\* that it changes: of two coordinators who change it at once, one gets an error.
NoLostUpdate ==
  [][crd # NoRow /\ crd' # NoRow /\ crd'.state # crd.state =>
       \E r \in Requests : req[r].pc = "commit" /\ req[r].row = crd]_vars

InLine ==
  IF act \in InActiviti THEN crd # NoRow /\ act = ActivitiState(crd.state)
  ELSE crd = NoRow

UnderWay(ops) == \E r \in Requests : req[r].pc # "idle" /\ req[r].op \in ops

\* Whatever updates, deletions, deployments and restarts have left behind, once
\* they are over and the definition is looked at again and again, both databases
\* have it or none, and Activiti has it suspended or active as its state says.
BackInLine ==
  /\ <>[](~ UnderWay(Ops \ {"view"}))
  /\ []<>UnderWay({"view"})
  => <>[]InLine

\* CoordinatriceReleases.md, 'You cannot go back from state Published, only by
\* making a new version'; it may only be retired.
PublishedOnlyRetires ==
  [][crd # NoRow /\ crd.state = "Published" =>
       crd' # NoRow /\ crd'.state \in {"Published", "Retired"}]_vars
=============================================================================
