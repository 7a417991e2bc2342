---------------------------- MODULE FormsProofs -----------------------------
(* Proofs of the invariants of Forms. *)
EXTENDS Forms, FiniteSetTheorems, TLAPS

USE FormsAssumption, NoRowAssumption

-----------------------------------------------------------------------------
(* Types *)

LEMMA TypesAtFirst ==
  ASSUME FormsInit
  PROVE  FormsTypeOK
BY DEF FormsInit, FormsTypeOK

\* A page comes to a new state with the document it has.
LEMMA PageGoes ==
  ASSUME FormsTypeOK, NEW p \in Pages, page[p].pc # "closed",
         NEW pc \in {"shown"} \cup Loads \cup Sends \cup Answers, Goes(p, pc)
  PROVE  /\ page' \in [Pages -> Page \cup {Closed}]
         /\ page'[p].pc = pc /\ page'[p].doc = page[p].doc /\ page'[p].proc = page[p].proc
         /\ \A q \in Pages \ {p} : page'[q] = page[q]
<1>1. page[p] \in Page
  BY DEF FormsTypeOK, Closed
<1>2. [page[p] EXCEPT !.pc = pc] \in Page
  BY <1>1 DEF Page
<1>3. page' = [page EXCEPT ![p] = [page[p] EXCEPT !.pc = pc]]
  BY DEF Goes
<1>. QED
  BY <1>1, <1>2, <1>3 DEF FormsTypeOK, Page

\* A page that shows a document has one.
LEMMA PageHasDoc ==
  ASSUME FormsTypeOK, NEW p \in Pages, page[p].pc # "closed"
  PROVE  page[p] \in Page /\ page[p].doc \in Docs
BY DEF FormsTypeOK, Closed, Page

LEMMA TypesKept ==
  ASSUME FormsTypeOK, [FormsNext]_vars
  PROVE  FormsTypeOK'
<1>. USE DEF FormsTypeOK
<1>1. ASSUME NEW p \in Pages, OpenStart(p)
      PROVE  FormsTypeOK'
  <2>1. PICK pc \in {"shown", "create"}, d \in Docs : Shows(p, pc, d)
    BY <1>1 DEF OpenStart, DraftsOf, Fresh
  <2>2. [pc |-> pc, doc |-> d, proc |-> 0] \in Page
    BY DEF Page, Loads
  <2>. QED
    BY <1>1, <2>1, <2>2 DEF OpenStart, Shows
<1>2. ASSUME NEW p \in Pages, CreateDraft(p)
      PROVE  FormsTypeOK'
  <2>1. page[p].pc # "closed" /\ page[p].doc \in Docs
    BY <1>2, PageHasDoc DEF CreateDraft, At
  <2>2. page' \in [Pages -> Page \cup {Closed}]
    BY <1>2, <2>1, PageGoes DEF CreateDraft
  <2>3. DraftRow(p) \in Row
    BY DEF DraftRow, Row
  <2>4. rows' \in [Docs -> Row \cup {NoRow}] /\ faults' \in 0 .. MaxFaults
    BY <1>2, <2>1, <2>3 DEF CreateDraft
  <2>. QED
    BY <1>2, <2>2, <2>4 DEF CreateDraft
<1>3. ASSUME NEW p \in Pages, OpenTask(p)
      PROVE  FormsTypeOK'
  <2>1. PICK pc \in {"shown", "init"}, d \in Docs : Shows(p, pc, d)
    BY <1>3 DEF OpenTask, Fresh
  <2>2. [pc |-> pc, doc |-> d, proc |-> 0] \in Page
    BY DEF Page, Loads
  <2>. QED
    BY <1>3, <2>1, <2>2 DEF OpenTask, Shows
<1>4. ASSUME NEW p \in Pages, InitTask(p)
      PROVE  FormsTypeOK'
  <2>1. page[p].pc # "closed" /\ page[p].doc \in Docs
    BY <1>4, PageHasDoc DEF InitTask, At
  <2>2. page' \in [Pages -> Page \cup {Closed}]
    BY <1>4, <2>1, PageGoes DEF InitTask
  <2>. QED
    BY <1>4, <2>1, <2>2 DEF InitTask
<1>5. ASSUME NEW p \in Pages, Send(p)
      PROVE  FormsTypeOK'
  BY <1>5, PageGoes DEF Send, Answers, Sends
<1>6. ASSUME NEW p \in Pages, FindTask(p)
      PROVE  FormsTypeOK'
  <2>1. PICK pc \in Sends : Goes(p, pc)
    BY <1>6 DEF FindTask, Sends
  <2>. QED
    BY <1>6, <2>1, PageGoes DEF FindTask, At
<1>7. ASSUME NEW p \in Pages, ClaimTask(p)
      PROVE  FormsTypeOK'
  <2>1. PICK pc \in Sends : Goes(p, pc)
    BY <1>7 DEF ClaimTask, Sends
  <2>. QED
    BY <1>7, <2>1, PageGoes DEF ClaimTask, At
<1>8. ASSUME NEW p \in Pages, CompleteTask(p)
      PROVE  FormsTypeOK'
  <2>1. PICK pc \in Sends \cup Answers : Goes(p, pc)
    BY <1>8 DEF CompleteTask, Sends, Answers
  <2>2. page[p].pc # "closed" /\ page[p].doc \in Docs
    BY <1>8, PageHasDoc DEF CompleteTask, At
  <2>3. page' \in [Pages -> Page \cup {Closed}]
    BY <2>1, <2>2, PageGoes
  <2>4. task' = task \/ task' = [task EXCEPT !.open = FALSE, !.by = page[p].doc]
    BY <1>8 DEF CompleteTask
  <2>5. task' \in [open: BOOLEAN, holder: Users \cup {NoUser}, form: Docs \cup {NoDoc},
                   by: Docs \cup {NoDoc}]
    BY <2>2, <2>4
  <2>. QED
    BY <1>8, <2>3, <2>5 DEF CompleteTask
<1>9. ASSUME NEW p \in Pages, LookUpRow(p)
      PROVE  FormsTypeOK'
  <2>1. PICK pc \in Sends \cup Answers : Goes(p, pc)
    BY <1>9 DEF LookUpRow, Sends, Answers
  <2>2. page[p].pc # "closed" /\ page[p].doc \in Docs
    BY <1>9, PageHasDoc DEF LookUpRow, At
  <2>3. page' \in [Pages -> Page \cup {Closed}]
    BY <2>1, <2>2, PageGoes
  <2>. QED
    BY <1>9, <2>2, <2>3 DEF LookUpRow
<1>10. ASSUME NEW p \in Pages, StartProcess(p)
       PROVE  FormsTypeOK'
  <2>1. page[p].pc # "closed" /\ page[p].doc \in Docs /\ page[p] \in Page
    BY <1>10, PageHasDoc DEF StartProcess, At
  <2>2. CASE active
    <3>1. PICK n \in Nat : n = started[page[p].doc] + 1
      BY <2>1
    <3>2. [page[p] EXCEPT !.pc = "save", !.proc = n] \in Page
      BY <2>1 DEF Page, Sends
    <3>3. page' = [page EXCEPT ![p] = [page[p] EXCEPT !.pc = "save", !.proc = n]]
      BY <1>10, <2>2, <3>1 DEF StartProcess
    <3>4. started' = [started EXCEPT ![page[p].doc] = n]
      BY <1>10, <2>2, <3>1 DEF StartProcess
    <3>. QED
      BY <1>10, <3>2, <3>3, <3>4 DEF StartProcess
  <2>3. CASE ~ active
    <3>1. Goes(p, "save") /\ UNCHANGED started
      BY <1>10, <2>3 DEF StartProcess
    <3>. QED
      BY <1>10, <2>1, <3>1, PageGoes DEF StartProcess, Sends
  <2>. QED
    BY <2>2, <2>3
<1>11. ASSUME NEW p \in Pages, SaveRow(p)
       PROVE  FormsTypeOK'
  <2>1. page[p].doc \in Docs /\ page[p] \in Page
    BY <1>11, PageHasDoc DEF SaveRow, At
  <2>2. SubmittedRow(p) \in Row
    BY <2>1 DEF SubmittedRow, Row, Page
  <2>3. PICK pc \in Answers : pc = AnswerOf(p)
    BY DEF AnswerOf, Answers
  <2>4. page' = [page EXCEPT ![p] = [page[p] EXCEPT !.pc = pc, !.proc = 0]]
    BY <1>11, <2>3 DEF SaveRow
  <2>5. [page[p] EXCEPT !.pc = pc, !.proc = 0] \in Page
    BY <2>1 DEF Page
  <2>6. rows' \in [Docs -> Row \cup {NoRow}] /\ faults' \in 0 .. MaxFaults
    BY <1>11, <2>1, <2>2 DEF SaveRow
  <2>7. page' \in [Pages -> Page \cup {Closed}]
    BY <2>4, <2>5
  <2>. QED
    BY <1>11, <2>6, <2>7 DEF SaveRow
<1>12. ASSUME NEW p \in Pages, Break(p)
       PROVE  FormsTypeOK'
  <2>1. page[p] \in Page
    BY <1>12, PageHasDoc DEF Break, Resting
  <2>2. page' = [page EXCEPT ![p] = [page[p] EXCEPT !.pc = "error", !.proc = 0]]
    BY <1>12 DEF Break
  <2>3. [page[p] EXCEPT !.pc = "error", !.proc = 0] \in Page
    BY <2>1 DEF Page, Answers
  <2>. QED
    BY <1>12, <2>2, <2>3 DEF Break
<1>13. ASSUME Suspend
       PROVE  FormsTypeOK'
  BY <1>13 DEF Suspend
<1>14. ASSUME UNCHANGED vars
       PROVE  FormsTypeOK'
  BY <1>14 DEF vars
<1>. QED
  BY <1>1, <1>2, <1>3, <1>4, <1>5, <1>6, <1>7, <1>8, <1>9, <1>10, <1>11, <1>12,
     <1>13, <1>14 DEF FormsNext

\* Rows, documents and pages keep their types.
THEOREM TypeCorrect == FormsSpec => []FormsTypeOK
BY TypesAtFirst, TypesKept, PTL DEF FormsSpec

-----------------------------------------------------------------------------
(* The inductive invariant *)

\* A document that a load has made is known to that load alone.
NewDocIsOwn ==
  \A p \in Pages : page[p].pc \in Loads =>
    /\ rows[page[p].doc] = NoRow
    /\ task.form # page[p].doc
    /\ \A q \in Pages \ {p} : page[q].doc # page[p].doc

\* A submission that starts a process has found a row.
RowIsRead ==
  \A p \in Pages : page[p].pc \in {"start", "save"} => rows[page[p].doc] # NoRow

\* The task was completed by a submission of the document.
CompletedBy(d) == ~ task.open /\ task.by = d

\* The process that a submission reports has been started with its document.
ProcIsReal ==
  \A p \in Pages :
    /\ page[p].proc # 0 => page[p].pc = "save" /\ started[page[p].doc] > 0
    /\ page[p].pc = "confirmed" => CompletedBy(page[p].doc) \/ started[page[p].doc] > 0

\* The task does not have the document, or has ended, or is somebody else's.
NotForTask(p) ==
  task.form # page[p].doc \/ ~ task.open \/ task.holder \notin {NoUser, user[p]}

NoTaskLeft ==
  \A p \in Pages :
    /\ page[p].pc \in {"lookup", "nothing"} => NotForTask(p)
    /\ page[p].pc = "nothing" => rows[page[p].doc] = NoRow

Starting(p, d) == page[p].doc = d /\ page[p].pc \in {"start", "save"}

\* Before its first submission has found it a row is a draft, and no process knows it.
NotSentYet ==
  \A d \in Docs : sent[d] = 0 =>
    /\ started[d] = 0
    /\ rows[d] # NoRow => ~ rows[d].submitted
    /\ \A p \in Pages : ~ Starting(p, d)

\* The first submission is the only one under way, or has been recorded.
RecordedOnce(d) ==
  /\ \A p, q \in Pages : Starting(p, d) /\ Starting(q, d) => p = q
  /\ \A p \in Pages : Starting(p, d) =>
       started[d] = IF page[p].pc = "start" THEN 0 ELSE page[p].proc
  /\ (\A p \in Pages : ~ Starting(p, d)) =>
       rows[d] # NoRow /\ rows[d].submitted /\ rows[d].proc = started[d]

SentOnce == \A d \in Docs : sent[d] = 1 /\ faults = 0 => RecordedOnce(d)

FormsInv ==
  /\ FormsTypeOK /\ NewDocIsOwn /\ RowIsRead /\ ProcIsReal /\ NoTaskLeft
  /\ NotSentYet /\ SentOnce

\* The parts of the invariant that say something of every document or page.
Parts == NewDocIsOwn /\ RowIsRead /\ ProcIsReal /\ NoTaskLeft /\ NotSentYet /\ SentOnce

LEMMA InvAtFirst ==
  ASSUME FormsInit
  PROVE  FormsInv
<1>1. FormsTypeOK
  BY TypesAtFirst
<1>. QED
  BY <1>1 DEF FormsInit, FormsInv, NewDocIsOwn, RowIsRead, ProcIsReal, NoTaskLeft,
     NotSentYet, SentOnce, Starting, Closed, Loads

\* What an action leaves of the other pages.
Others(p) == \A q \in Pages \ {p} : page'[q] = page[q]

\* A page shows a document that it did not show.
LEMMA PageShows ==
  ASSUME FormsTypeOK, NEW p \in Pages, NEW pc, NEW d, Shows(p, pc, d)
  PROVE  page'[p].pc = pc /\ page'[p].doc = d /\ page'[p].proc = 0 /\ Others(p)
BY DEF FormsTypeOK, Shows, Others

\* A page shows a document that is new, or that is known already.
LEMMA ShowKeeps ==
  ASSUME FormsInv, NEW p \in Pages, NEW pc \in {"shown", "create", "init"}, NEW d \in Docs,
         Shows(p, pc, d), Resting(p),
         IF pc = "shown" THEN rows[d] # NoRow \/ task.form = d ELSE d \in Fresh,
         UNCHANGED <<user, task, rows, active, started, sent, faults>>
  PROVE  Parts'
<1>1. page'[p].pc = pc /\ page'[p].doc = d /\ page'[p].proc = 0 /\ Others(p)
  BY PageShows DEF FormsInv
<1>. USE <1>1 DEF FormsInv, Others
<1>2. NewDocIsOwn'
  <2>1. SUFFICES ASSUME NEW q \in Pages, page'[q].pc \in Loads
                 PROVE  /\ rows[page'[q].doc] = NoRow
                        /\ task.form # page'[q].doc
                        /\ \A r \in Pages \ {q} : page'[r].doc # page'[q].doc
    BY DEF NewDocIsOwn
  <2>2. CASE q = p
    BY <2>1, <2>2 DEF Loads, Fresh
  <2>3. CASE q # p
    BY <2>1, <2>3 DEF NewDocIsOwn, Fresh
  <2>. QED
    BY <2>2, <2>3
<1>3. RowIsRead'
  BY DEF RowIsRead
<1>4. ProcIsReal'
  BY DEF ProcIsReal, CompletedBy
<1>5. NoTaskLeft'
  BY DEF NoTaskLeft, NotForTask
<1>6. \A q \in Pages, e \in Docs : Starting(q, e)' = Starting(q, e)
  BY DEF Starting, Resting, Answers
<1>7. NotSentYet'
  BY <1>6 DEF NotSentYet
<1>8. SentOnce'
  <2>1. \A q \in Pages, e \in Docs : Starting(q, e) => page'[q] = page[q]
    BY DEF Starting, Resting, Answers
  <2>. QED
    BY <1>6, <2>1 DEF SentOnce, RecordedOnce
<1>. QED
  BY <1>2, <1>3, <1>4, <1>5, <1>7, <1>8 DEF Parts

LEMMA OpenStartKeeps ==
  ASSUME FormsInv, NEW p \in Pages, OpenStart(p)
  PROVE  Parts'
<1>1. CASE \E d \in DraftsOf(user[p]) : Shows(p, "shown", d)
  BY <1>1, ShowKeeps DEF OpenStart, DraftsOf, IsDraft
<1>2. CASE \E d \in Fresh : Shows(p, "create", d)
  BY <1>2, ShowKeeps DEF OpenStart, Fresh
<1>. QED
  BY <1>1, <1>2 DEF OpenStart

LEMMA OpenTaskKeeps ==
  ASSUME FormsInv, NEW p \in Pages, OpenTask(p)
  PROVE  Parts'
<1>1. CASE task.form # NoDoc /\ Shows(p, "shown", task.form)
  <2>1. task.form \in Docs
    BY <1>1 DEF FormsInv, FormsTypeOK
  <2>. QED
    BY <1>1, <2>1, ShowKeeps DEF OpenTask
<1>2. CASE \E d \in Fresh : Shows(p, "init", d)
  BY <1>2, ShowKeeps DEF OpenTask, Fresh
<1>. QED
  BY <1>1, <1>2 DEF OpenTask

\* A page that goes on keeps its document; what it does not touch keeps its part
\* of the invariant.
LEMMA GoesOn ==
  ASSUME FormsInv, NEW p \in Pages, page[p].pc # "closed",
         NEW pc \in {"shown"} \cup Loads \cup Sends \cup Answers, Goes(p, pc)
  PROVE  /\ page'[p].pc = pc /\ page'[p].doc = page[p].doc /\ page'[p].proc = page[p].proc
         /\ page[p].doc \in Docs /\ Others(p)
BY PageGoes, PageHasDoc DEF FormsInv, Others

LEMMA CreateDraftKeeps ==
  ASSUME FormsInv, NEW p \in Pages, CreateDraft(p)
  PROVE  Parts'
<1>1. page[p].pc = "create" /\ Goes(p, "shown")
  BY DEF CreateDraft, At
<1>2. /\ page'[p].pc = "shown" /\ page'[p].doc = page[p].doc /\ page'[p].proc = page[p].proc
      /\ page[p].doc \in Docs /\ Others(p)
  BY <1>1, GoesOn
<1>3. /\ rows[page[p].doc] = NoRow /\ task.form # page[p].doc
      /\ \A q \in Pages \ {p} : page[q].doc # page[p].doc
  BY <1>1 DEF FormsInv, NewDocIsOwn, Loads
<1>4. DraftRow(p) # NoRow /\ ~ DraftRow(p).submitted
  <2>1. DraftRow(p) \in Row
    BY DEF FormsInv, FormsTypeOK, DraftRow, Row
  <2>. QED
    BY <2>1 DEF DraftRow
<1>5. /\ \A d \in Docs \ {page[p].doc} : rows'[d] = rows[d]
      /\ \/ rows'[page[p].doc] = DraftRow(p) \/ rows'[page[p].doc] = NoRow
      /\ faults' = 0 => faults = 0
  BY <1>2, <1>3 DEF CreateDraft, FormsInv, FormsTypeOK
<1>6. UNCHANGED <<user, task, active, started, sent>>
  BY DEF CreateDraft
<1>7. \A q \in Pages : page'[q].doc = page[q].doc /\ page'[q].proc = page[q].proc
  BY <1>2 DEF Others
<1>8. \A q \in Pages : page[q].pc # "closed" => page[q].doc \in Docs
  BY PageHasDoc DEF FormsInv
<1>9. \A q \in Pages \ {p} : page[q].pc # "closed" => rows'[page[q].doc] = rows[page[q].doc]
  BY <1>3, <1>5, <1>8
<1>. USE <1>2, <1>6 DEF FormsInv, Others
<1>10. NewDocIsOwn'
  BY <1>7, <1>9 DEF NewDocIsOwn, Loads
<1>11. RowIsRead'
  BY <1>9 DEF RowIsRead
<1>12. ProcIsReal'
  BY <1>1 DEF ProcIsReal, CompletedBy
<1>13. NoTaskLeft'
  BY <1>1, <1>9 DEF NoTaskLeft, NotForTask
<1>14. \A q \in Pages, e \in Docs : Starting(q, e)' = Starting(q, e)
  BY <1>1 DEF Starting
<1>15. NotSentYet'
  BY <1>4, <1>5, <1>14 DEF NotSentYet
<1>16. SentOnce'
  <2>1. ASSUME NEW d \in Docs, sent[d] = 1, faults = 0
        PROVE  RecordedOnce(d)'
    <3>1. RecordedOnce(d)
      BY <2>1 DEF SentOnce
    <3>2. \A q \in Pages : Starting(q, d) => page'[q] = page[q]
      BY <1>1 DEF Starting
    <3>3. d # page[p].doc
      BY <1>1, <1>3, <3>1 DEF RecordedOnce, Starting
    <3>. QED
      BY <1>5, <1>14, <3>1, <3>2, <3>3 DEF RecordedOnce
  <2>. QED
    BY <1>5, <2>1 DEF SentOnce
<1>. QED
  BY <1>10, <1>11, <1>12, <1>13, <1>15, <1>16 DEF Parts

\* A step that leaves rows, processes and submissions alone, and does not come to or
\* from the start of a process.
LEMMA OnTheWay ==
  ASSUME FormsInv, NEW p \in Pages, page[p].pc \notin {"closed", "start", "save"},
         NEW pc \in {"shown", "find", "claim", "complete", "confirmed", "lookup"}, Goes(p, pc),
         UNCHANGED <<user, rows, active, started, sent, faults>>,
         task'.form # task.form => page[p].pc = "init" /\ task'.form = page[p].doc,
         ~ task.open => UNCHANGED task,
         task'.holder # task.holder => task.holder = NoUser,
         pc = "confirmed" => CompletedBy(page[p].doc)',
         pc = "lookup" => NotForTask(p)'
  PROVE  Parts'
<1>1. /\ page'[p].pc = pc /\ page'[p].doc = page[p].doc /\ page'[p].proc = page[p].proc
      /\ page[p].doc \in Docs /\ Others(p)
  BY GoesOn DEF Loads, Sends, Answers
<1>. USE <1>1 DEF FormsInv, Others
<1>2. \A q \in Pages : page'[q].doc = page[q].doc /\ page'[q].proc = page[q].proc
  OBVIOUS
<1>3. NewDocIsOwn'
  <2>1. \A q \in Pages : page'[q].pc \in Loads => q # p /\ page'[q] = page[q]
    BY DEF Loads
  <2>. QED
    BY <1>2, <2>1 DEF NewDocIsOwn, Loads
<1>4. RowIsRead'
  BY DEF RowIsRead
<1>5. ProcIsReal'
  <2>1. \A d : CompletedBy(d) => CompletedBy(d)'
    BY DEF CompletedBy
  <2>2. page[p].doc' = page'[p].doc
    OBVIOUS
  <2>. QED
    BY <2>1, <2>2 DEF ProcIsReal, CompletedBy
<1>6. ASSUME NEW q \in Pages \ {p}, page[q].pc \in {"lookup", "nothing"}
      PROVE  NotForTask(q)'
  <2>1. NotForTask(q)
    BY <1>6 DEF NoTaskLeft
  <2>2. task'.form # task.form => task'.form # page[q].doc
    BY <1>6 DEF NewDocIsOwn, Loads
  <2>. QED
    BY <2>1, <2>2 DEF NotForTask
<1>7. NoTaskLeft'
  BY <1>6 DEF NoTaskLeft, NotForTask
<1>8. \A q \in Pages, e \in Docs : Starting(q, e)' = Starting(q, e)
  BY DEF Starting
<1>9. NotSentYet'
  BY <1>8 DEF NotSentYet
<1>10. SentOnce'
  <2>1. \A q \in Pages, e \in Docs : Starting(q, e) => page'[q] = page[q]
    BY DEF Starting
  <2>. QED
    BY <1>8, <2>1 DEF SentOnce, RecordedOnce
<1>. QED
  BY <1>3, <1>4, <1>5, <1>7, <1>9, <1>10 DEF Parts

LEMMA InitTaskKeeps ==
  ASSUME FormsInv, NEW p \in Pages, InitTask(p)
  PROVE  Parts'
<1>. USE DEF FormsInv, FormsTypeOK
<1>1. CASE task.open
  <2>1. task' = [task EXCEPT !.form = page[p].doc] /\ Goes(p, "shown") /\ page[p].pc = "init"
    BY <1>1 DEF InitTask, At
  <2>2. /\ task'.form = page[p].doc /\ task'.holder = task.holder /\ task'.open = task.open
    BY <2>1
  <2>3. UNCHANGED <<user, rows, active, started, sent, faults>>
    BY DEF InitTask
  <2>. QED
    BY <1>1, <2>1, <2>2, <2>3, OnTheWay
<1>2. CASE ~ task.open
  <2>1. page' = [page EXCEPT ![p] = Closed] /\ UNCHANGED task /\ page[p].pc = "init"
    BY <1>2 DEF InitTask, At
  <2>2. page'[p] = Closed /\ Others(p)
    BY <2>1 DEF Others
  <2>3. UNCHANGED <<user, rows, active, started, sent, faults>>
    BY DEF InitTask
  <2>. USE <2>1, <2>2, <2>3 DEF Others, Closed
  <2>4. NewDocIsOwn'
    <3>1. \A q \in Pages : page[q].pc # "closed" => page[q].doc # NoDoc
      BY PageHasDoc
    <3>. QED
      BY <3>1 DEF NewDocIsOwn, Loads
  <2>5. RowIsRead' /\ ProcIsReal' /\ NoTaskLeft'
    BY DEF RowIsRead, ProcIsReal, CompletedBy, NoTaskLeft, NotForTask
  <2>6. \A q \in Pages, e \in Docs : Starting(q, e)' = Starting(q, e)
    BY DEF Starting
  <2>7. NotSentYet'
    BY <2>6 DEF NotSentYet
  <2>8. \A q \in Pages, e \in Docs : Starting(q, e) => page'[q] = page[q]
    BY DEF Starting
  <2>9. SentOnce'
    BY <2>6, <2>8 DEF SentOnce, RecordedOnce
  <2>. QED
    BY <2>4, <2>5, <2>7, <2>9 DEF Parts
<1>. QED
  BY <1>1, <1>2

LEMMA SendKeeps ==
  ASSUME FormsInv, NEW p \in Pages, Send(p)
  PROVE  Parts'
BY OnTheWay DEF Send, Answers

LEMMA FindTaskKeeps ==
  ASSUME FormsInv, NEW p \in Pages, FindTask(p)
  PROVE  Parts'
<1>1. UNCHANGED <<user, task, rows, active, started, sent, faults>> /\ page[p].pc = "find"
  BY DEF FindTask, At
<1>2. CASE task.open /\ task.form = page[p].doc
  BY <1>1, <1>2, OnTheWay DEF FindTask
<1>3. CASE ~ (task.open /\ task.form = page[p].doc)
  <2>1. Goes(p, "lookup")
    BY <1>3 DEF FindTask
  <2>2. NotForTask(p)'
    BY <1>1, <1>3, <2>1, GoesOn DEF NotForTask, Sends
  <2>. QED
    BY <1>1, <2>1, <2>2, OnTheWay
<1>. QED
  BY <1>2, <1>3

LEMMA ClaimTaskKeeps ==
  ASSUME FormsInv, NEW p \in Pages, ClaimTask(p)
  PROVE  Parts'
<1>1. UNCHANGED <<user, rows, active, started, sent, faults>> /\ page[p].pc = "claim"
  BY DEF ClaimTask, At
<1>2. CASE task.open /\ MayClaim(user[p])
  <2>1. task' = [task EXCEPT !.holder = user[p]] /\ Goes(p, "complete")
    BY <1>2 DEF ClaimTask
  <2>2. task'.holder = user[p] /\ task'.form = task.form /\ task'.open = task.open
    BY <2>1 DEF FormsInv, FormsTypeOK
  <2>. QED
    BY <1>1, <1>2, <2>1, <2>2, OnTheWay DEF MayClaim
<1>3. CASE ~ (task.open /\ MayClaim(user[p]))
  <2>1. Goes(p, "lookup") /\ UNCHANGED task
    BY <1>3 DEF ClaimTask
  <2>2. NotForTask(p)'
    BY <1>1, <1>3, <2>1 DEF NotForTask, MayClaim
  <2>. QED
    BY <1>1, <2>1, <2>2, OnTheWay
<1>. QED
  BY <1>2, <1>3

LEMMA CompleteTaskKeeps ==
  ASSUME FormsInv, NEW p \in Pages, CompleteTask(p)
  PROVE  Parts'
<1>1. UNCHANGED <<user, rows, active, started, sent, faults>> /\ page[p].pc = "complete"
  BY DEF CompleteTask, At
<1>2. CASE task.open
  <2>1. /\ task' = [task EXCEPT !.open = FALSE, !.by = page[p].doc]
        /\ Goes(p, "confirmed")
    BY <1>2 DEF CompleteTask
  <2>2. task'.holder = task.holder /\ task'.form = task.form /\ ~ task'.open
        /\ task'.by = page[p].doc
    BY <2>1 DEF FormsInv, FormsTypeOK
  <2>3. page'[p].doc = page[p].doc
    BY <1>1, <2>1, GoesOn DEF Answers
  <2>4. CompletedBy(page[p].doc)'
    BY <2>2, <2>3 DEF CompletedBy
  <2>. QED
    BY <1>1, <1>2, <2>1, <2>2, <2>4, OnTheWay
<1>3. CASE ~ task.open
  <2>1. Goes(p, "lookup") /\ UNCHANGED task
    BY <1>3 DEF CompleteTask
  <2>2. NotForTask(p)'
    BY <1>1, <1>3, <2>1 DEF NotForTask
  <2>. QED
    BY <1>1, <2>1, <2>2, OnTheWay
<1>. QED
  BY <1>2, <1>3

LEMMA LookUpRowKeeps ==
  ASSUME FormsInv, NEW p \in Pages, LookUpRow(p)
  PROVE  Parts'
<1>0. PICK d : d = page[p].doc
  OBVIOUS
<1>. USE <1>0 DEF FormsInv
<1>1. UNCHANGED <<user, task, rows, active, started, faults>> /\ page[p].pc = "lookup"
  BY DEF LookUpRow, At
<1>2. PICK pc \in {"start", "nothing"} :
        /\ Goes(p, pc)
        /\ pc = "start" => rows[d] # NoRow /\ sent' = [sent EXCEPT ![d] = @ + 1]
        /\ pc = "nothing" => rows[d] = NoRow /\ UNCHANGED sent
  BY DEF LookUpRow
<1>3. /\ page'[p].pc = pc /\ page'[p].doc = d /\ page'[p].proc = page[p].proc
      /\ d \in Docs /\ Others(p)
  BY <1>1, <1>2, GoesOn DEF Sends, Answers
<1>. USE <1>1, <1>2, <1>3 DEF Others
<1>4. \A q \in Pages : page'[q].doc = page[q].doc /\ page'[q].proc = page[q].proc
  OBVIOUS
<1>5. NewDocIsOwn'
  <2>1. \A q \in Pages : page'[q].pc \in Loads => q # p /\ page'[q] = page[q]
    BY DEF Loads
  <2>. QED
    BY <1>4, <2>1 DEF NewDocIsOwn, Loads
<1>6. RowIsRead'
  BY DEF RowIsRead
<1>7. ProcIsReal'
  BY DEF ProcIsReal, CompletedBy
<1>8. NoTaskLeft'
  BY DEF NoTaskLeft, NotForTask
<1>9. \A e \in Docs \ {d} : /\ sent'[e] = sent[e]
                            /\ \A q \in Pages : Starting(q, e)' = Starting(q, e)
  BY DEF Starting, FormsTypeOK
<1>10. \A q \in Pages, e \in Docs : Starting(q, e) => page'[q] = page[q]
  BY DEF Starting
<1>11. CASE pc = "nothing"
  <2>1. \A q \in Pages, e \in Docs : Starting(q, e)' = Starting(q, e)
    BY <1>11 DEF Starting
  <2>. QED
    BY <1>5, <1>6, <1>7, <1>8, <1>10, <1>11, <2>1 DEF NotSentYet, SentOnce, RecordedOnce, Parts
<1>12. CASE pc = "start"
  <2>1. sent'[d] = sent[d] + 1 /\ sent[d] \in Nat
    BY <1>12 DEF FormsTypeOK
  <2>2. NotSentYet'
    BY <1>9, <2>1 DEF NotSentYet
  <2>3. ASSUME NEW e \in Docs, sent'[e] = 1, faults = 0, e # d
        PROVE  RecordedOnce(e)'
    BY <1>9, <1>10, <2>3 DEF SentOnce, RecordedOnce
  <2>4. ASSUME sent'[d] = 1
        PROVE  RecordedOnce(d)'
    <3>1. started[d] = 0 /\ \A q \in Pages : ~ Starting(q, d)
      BY <2>1, <2>4 DEF NotSentYet
    <3>2. \A q \in Pages : Starting(q, d)' => q = p
      BY <3>1 DEF Starting
    <3>3. Starting(p, d)'
      BY <1>12 DEF Starting
    <3>. QED
      BY <1>12, <3>1, <3>2, <3>3 DEF RecordedOnce
  <2>5. SentOnce'
    BY <2>3, <2>4 DEF SentOnce
  <2>. QED
    BY <1>5, <1>6, <1>7, <1>8, <2>2, <2>5 DEF Parts
<1>. QED
  BY <1>11, <1>12

LEMMA StartProcessKeeps ==
  ASSUME FormsInv, NEW p \in Pages, StartProcess(p)
  PROVE  Parts'
<1>0. PICK d : d = page[p].doc
  OBVIOUS
<1>. USE <1>0 DEF FormsInv
<1>1. UNCHANGED <<user, task, rows, active, sent, faults>> /\ page[p].pc = "start"
  BY DEF StartProcess, At
<1>2. d \in Docs /\ page[p] \in Page
  BY <1>1, PageHasDoc
<1>3. started \in [Docs -> Nat] /\ started[d] \in Nat /\ page[p].proc = 0
  BY <1>1, <1>2 DEF FormsTypeOK, ProcIsReal
<1>4. /\ page'[p].pc = "save" /\ page'[p].doc = d /\ Others(p)
      /\ IF active THEN page'[p].proc = started[d] + 1 /\ started'[d] = started[d] + 1
                   ELSE page'[p].proc = 0 /\ started'[d] = started[d]
      /\ \A e \in Docs \ {d} : started'[e] = started[e]
  <2>1. CASE active
    <3>1. PICK n : n = started[d] + 1
      OBVIOUS
    <3>2. page' = [page EXCEPT ![p] = [page[p] EXCEPT !.pc = "save", !.proc = n]]
      BY <2>1, <3>1 DEF StartProcess
    <3>3. started' = [started EXCEPT ![d] = n]
      BY <2>1, <3>1 DEF StartProcess
    <3>. QED
      BY <1>2, <1>3, <2>1, <3>1, <3>2, <3>3 DEF Page, Others, FormsTypeOK
  <2>2. CASE ~ active
    <3>1. Goes(p, "save") /\ UNCHANGED started
      BY <2>2 DEF StartProcess
    <3>. QED
      BY <1>1, <1>3, <2>2, <3>1, GoesOn DEF Sends
  <2>. QED
    BY <2>1, <2>2
<1>5. \A e \in Docs : started'[e] \in Nat /\ started'[e] >= started[e]
  BY <1>3, <1>4
<1>6. \A q \in Pages : page[q].pc # "closed" => page[q].doc \in Docs
  BY PageHasDoc
<1>7. \A q \in Pages, e \in Docs : Starting(q, e)' = Starting(q, e)
  BY <1>1, <1>4 DEF Starting, Others
<1>8. Starting(p, d)
  BY <1>1 DEF Starting
<1>. USE <1>1, <1>2, <1>3, <1>4 DEF Others
<1>9. NewDocIsOwn'
  BY DEF NewDocIsOwn, Loads
<1>10. RowIsRead'
  BY DEF RowIsRead
<1>11. ProcIsReal'
  <2>1. ASSUME NEW q \in Pages \ {p}, page[q].proc # 0
        PROVE  page[q].pc = "save" /\ started'[page[q].doc] > 0
    BY <1>5, <1>6, <2>1 DEF ProcIsReal, CompletedBy, FormsTypeOK
  <2>2. ASSUME NEW q \in Pages \ {p}, page[q].pc = "confirmed"
        PROVE  CompletedBy(page[q].doc) \/ started'[page[q].doc] > 0
    BY <1>5, <1>6, <2>2 DEF ProcIsReal, CompletedBy, FormsTypeOK
  <2>3. page'[p].proc # 0 => started'[d] > 0
    OBVIOUS
  <2>. QED
    BY <2>1, <2>2, <2>3 DEF ProcIsReal, CompletedBy
<1>12. NoTaskLeft'
  BY DEF NoTaskLeft, NotForTask
<1>13. NotSentYet'
  BY <1>7, <1>8 DEF NotSentYet
<1>14. ASSUME NEW e \in Docs, e # d, RecordedOnce(e)
       PROVE  RecordedOnce(e)'
  <2>1. \A q \in Pages : Starting(q, e) => page'[q] = page[q]
    BY <1>14 DEF Starting
  <2>. QED
    BY <1>7, <1>14, <2>1 DEF RecordedOnce
<1>15. ASSUME RecordedOnce(d)
       PROVE  RecordedOnce(d)'
  <2>1. started[d] = 0 /\ \A q \in Pages : Starting(q, d) => q = p
    BY <1>8, <1>15 DEF RecordedOnce
  <2>. QED
    BY <1>7, <1>8, <2>1 DEF RecordedOnce
<1>16. SentOnce'
  BY <1>14, <1>15 DEF SentOnce
<1>. QED
  BY <1>9, <1>10, <1>11, <1>12, <1>13, <1>16 DEF Parts

LEMMA SaveRowKeeps ==
  ASSUME FormsInv, NEW p \in Pages, SaveRow(p)
  PROVE  Parts'
<1>0. PICK d : d = page[p].doc
  OBVIOUS
<1>. USE <1>0 DEF FormsInv
<1>1. UNCHANGED <<user, task, active, started, sent>> /\ page[p].pc = "save"
  BY DEF SaveRow, At
<1>2. d \in Docs /\ page[p] \in Page /\ rows[d] # NoRow
  BY <1>1, PageHasDoc DEF RowIsRead
<1>3. PICK row \in Row : row = SubmittedRow(p) /\ row.submitted /\ row.proc = page[p].proc
  <2>1. SubmittedRow(p) \in Row
    BY <1>2 DEF SubmittedRow, Row, Page, FormsTypeOK
  <2>. QED
    BY <2>1 DEF SubmittedRow
<1>4. /\ \A e \in Docs \ {d} : rows'[e] = rows[e]
      /\ rows'[d] \in {rows[d], row}
      /\ faults' = 0 => faults = 0 /\ rows'[d] = row
  BY <1>2, <1>3 DEF SaveRow, FormsTypeOK
<1>5. PICK pc \in {"confirmed", "error"} :
        pc = AnswerOf(p) /\ (pc = "confirmed" => page[p].proc # 0)
  BY DEF AnswerOf
<1>6. page'[p].pc = pc /\ page'[p].doc = d /\ page'[p].proc = 0 /\ Others(p)
  <2>1. page' = [page EXCEPT ![p] = [page[p] EXCEPT !.pc = pc, !.proc = 0]]
    BY <1>5 DEF SaveRow
  <2>. QED
    BY <1>2, <2>1 DEF Page, Others, FormsTypeOK
<1>7. row # NoRow
  BY <1>3
<1>8. \A q \in Pages : page[q].pc # "closed" => page[q].doc \in Docs
  BY PageHasDoc
<1>9. \A q \in Pages \ {p}, e \in Docs : Starting(q, e)' = Starting(q, e)
  BY <1>6 DEF Starting, Others
<1>10. Starting(p, d) /\ (\A e \in Docs : ~ Starting(p, e)') /\ \A e \in Docs \ {d} : ~ Starting(p, e)
  BY <1>1, <1>6 DEF Starting
<1>. USE <1>1, <1>2, <1>6 DEF Others
<1>11. NewDocIsOwn'
  <2>1. ASSUME NEW q \in Pages \ {p}, page[q].pc \in Loads
        PROVE  rows'[page[q].doc] = NoRow
    BY <1>4, <1>8, <2>1 DEF NewDocIsOwn, Loads
  <2>. QED
    BY <2>1 DEF NewDocIsOwn, Loads
<1>12. RowIsRead'
  BY <1>4, <1>7, <1>8 DEF RowIsRead
<1>13. ProcIsReal'
  BY <1>5 DEF ProcIsReal, CompletedBy
<1>14. NoTaskLeft'
  BY <1>4, <1>8 DEF NoTaskLeft, NotForTask
<1>15. NotSentYet'
  BY <1>4, <1>9, <1>10 DEF NotSentYet
<1>16. ASSUME NEW e \in Docs, e # d, RecordedOnce(e)
       PROVE  RecordedOnce(e)'
  <2>1. \A q \in Pages : Starting(q, e)' = Starting(q, e)
    BY <1>9, <1>10, <1>16 DEF Starting
  <2>2. \A q \in Pages : Starting(q, e) => page'[q] = page[q]
    BY <1>10, <1>16
  <2>. QED
    BY <1>4, <1>16, <2>1, <2>2 DEF RecordedOnce
<1>17. ASSUME RecordedOnce(d), faults' = 0
       PROVE  RecordedOnce(d)'
  <2>1. started[d] = page[p].proc /\ \A q \in Pages : Starting(q, d) => q = p
    BY <1>10, <1>17 DEF RecordedOnce
  <2>2. \A q \in Pages : ~ Starting(q, d)'
    BY <1>9, <1>10, <2>1
  <2>. QED
    BY <1>3, <1>4, <1>7, <1>17, <2>1, <2>2 DEF RecordedOnce
<1>18. SentOnce'
  BY <1>4, <1>16, <1>17 DEF SentOnce
<1>. QED
  BY <1>11, <1>12, <1>13, <1>14, <1>15, <1>18 DEF Parts

LEMMA BreakKeeps ==
  ASSUME FormsInv, NEW p \in Pages, Break(p)
  PROVE  Parts'
<1>. USE DEF FormsInv
<1>1. /\ UNCHANGED <<user, task, rows, active, started, sent>>
      /\ page[p].pc # "closed" /\ faults' # 0
  BY DEF Break, Resting, FormsTypeOK
<1>2. page[p] \in Page
  BY <1>1, PageHasDoc
<1>3. page'[p].pc = "error" /\ page'[p].doc = page[p].doc /\ page'[p].proc = 0 /\ Others(p)
  <2>1. page' = [page EXCEPT ![p] = [page[p] EXCEPT !.pc = "error", !.proc = 0]]
    BY DEF Break
  <2>. QED
    BY <1>2, <2>1 DEF Page, Others, FormsTypeOK
<1>. USE <1>1, <1>2, <1>3 DEF Others
<1>4. NewDocIsOwn'
  BY DEF NewDocIsOwn, Loads
<1>5. RowIsRead' /\ ProcIsReal' /\ NoTaskLeft'
  BY DEF RowIsRead, ProcIsReal, CompletedBy, NoTaskLeft, NotForTask
<1>6. NotSentYet'
  BY DEF NotSentYet, Starting
<1>7. SentOnce'
  BY DEF SentOnce
<1>. QED
  BY <1>4, <1>5, <1>6, <1>7 DEF Parts

\* Whether the definition is suspended does not matter.
LEMMA SuspendKeeps ==
  ASSUME FormsInv, UNCHANGED <<user, task, rows, started, page, sent, faults>>
  PROVE  Parts'
BY DEF FormsInv, Parts, NewDocIsOwn, RowIsRead, ProcIsReal, CompletedBy, NoTaskLeft, NotForTask,
   NotSentYet, SentOnce, RecordedOnce, Starting

LEMMA InvKept ==
  ASSUME FormsInv, [FormsNext]_vars
  PROVE  FormsInv'
<1>1. FormsTypeOK'
  BY TypesKept DEF FormsInv
<1>2. ASSUME NEW p \in Pages,
             \/ OpenStart(p) \/ CreateDraft(p) \/ OpenTask(p) \/ InitTask(p)
             \/ Send(p) \/ FindTask(p) \/ ClaimTask(p) \/ CompleteTask(p)
             \/ LookUpRow(p) \/ StartProcess(p) \/ SaveRow(p) \/ Break(p)
      PROVE  Parts'
  BY <1>2, OpenStartKeeps, CreateDraftKeeps, OpenTaskKeeps, InitTaskKeeps, SendKeeps,
     FindTaskKeeps, ClaimTaskKeeps, CompleteTaskKeeps, LookUpRowKeeps, StartProcessKeeps,
     SaveRowKeeps, BreakKeeps
<1>3. ASSUME Suspend \/ UNCHANGED vars
      PROVE  Parts'
  BY <1>3, SuspendKeeps DEF Suspend, vars
<1>4. Parts'
  BY <1>2, <1>3 DEF FormsNext
<1>. QED
  BY <1>1, <1>4 DEF FormsInv, Parts

LEMMA Invariance == FormsSpec => []FormsInv
BY InvAtFirst, InvKept, PTL DEF FormsSpec

-----------------------------------------------------------------------------
(* Submissions *)

\* Once a submission has found the row, and none is about to write it, it is recorded.
Recorded(d) ==
  sent[d] > 0 /\ faults = 0 /\ (\A p \in Pages : ~ Starting(p, d)) =>
    rows[d] # NoRow /\ rows[d].submitted /\ rows[d].proc <= started[d]

\* A row gets no process that was not started with the document.
SubmissionsSound ==
  /\ \A p \in Pages : page[p].pc = "save" => page[p].proc <= started[page[p].doc]
  /\ \A d \in Docs : Recorded(d)

\* A step that writes no row, and neither starts nor ends the start of a process.
LEMMA SubmissionsStand ==
  ASSUME FormsInv, SubmissionsSound, NEW p \in Pages, Others(p),
         page[p].pc \notin {"start", "save"}, page'[p].pc \notin {"start", "save"},
         UNCHANGED <<rows, started, sent>>, faults' = 0 => faults = 0
  PROVE  SubmissionsSound'
<1>1. \A q \in Pages, d \in Docs : Starting(q, d)' = Starting(q, d)
  BY DEF Starting, Others
<1>2. \A q \in Pages : page'[q].pc = "save" => page'[q] = page[q]
  BY DEF Others
<1>. QED
  BY <1>1, <1>2 DEF SubmissionsSound, Recorded

LEMMA SubmissionsSoundKept ==
  ASSUME FormsInv, SubmissionsSound, [FormsNext]_vars
  PROVE  SubmissionsSound'
<1>. USE DEF FormsInv
<1>1. ASSUME NEW p \in Pages,
             \/ OpenStart(p) \/ OpenTask(p) \/ InitTask(p) \/ Send(p) \/ FindTask(p)
             \/ ClaimTask(p) \/ CompleteTask(p)
      PROVE  SubmissionsSound'
  <2>1. UNCHANGED <<rows, started, sent, faults>> /\ Others(p)
    BY <1>1 DEF OpenStart, OpenTask, InitTask, Send, FindTask, ClaimTask, CompleteTask,
       Goes, Shows, Others, FormsTypeOK
  <2>2. page[p].pc \notin {"start", "save"} /\ page'[p].pc \notin {"start", "save"}
    BY <1>1 DEF OpenStart, OpenTask, InitTask, Send, FindTask, ClaimTask, CompleteTask,
       Goes, Shows, At, Resting, Answers, Closed, FormsTypeOK, Page
  <2>. QED
    BY <2>1, <2>2, SubmissionsStand
<1>2. ASSUME NEW p \in Pages, CreateDraft(p)
      PROVE  SubmissionsSound'
  <2>1. page[p].pc = "create" /\ UNCHANGED <<started, sent>> /\ (faults' = 0 => faults = 0)
    BY <1>2 DEF CreateDraft, At, FormsTypeOK
  <2>2. page'[p].pc = "shown" /\ Others(p) /\ page[p].doc \in Docs
    BY <1>2, <2>1, GoesOn DEF CreateDraft
  <2>3. \A q \in Pages, d \in Docs : Starting(q, d)' = Starting(q, d)
    BY <2>1, <2>2 DEF Starting, Others
  <2>4. ASSUME NEW d \in Docs
        PROVE  Recorded(d)'
    <3>1. CASE d # page[p].doc
      <4>1. rows'[d] = rows[d]
        BY <1>2, <2>2, <3>1 DEF CreateDraft, FormsTypeOK
      <4>. QED
        BY <2>1, <2>3, <4>1 DEF SubmissionsSound, Recorded
    <3>2. CASE d = page[p].doc
      <4>1. rows[d] = NoRow /\ \A q \in Pages : ~ Starting(q, d)
        BY <2>1, <3>2 DEF NewDocIsOwn, Loads, Starting
      <4>. QED
        BY <2>1, <4>1 DEF SubmissionsSound, Recorded
    <3>. QED
      BY <3>1, <3>2
  <2>5. \A q \in Pages : page'[q].pc = "save" => page'[q] = page[q]
    BY <2>2 DEF Others
  <2>. QED
    BY <2>1, <2>4, <2>5 DEF SubmissionsSound
<1>3. ASSUME NEW p \in Pages, LookUpRow(p)
      PROVE  SubmissionsSound'
  <2>1. PICK pc \in {"start", "nothing"} :
          /\ Goes(p, pc)
          /\ pc = "start" => sent' = [sent EXCEPT ![page[p].doc] = @ + 1]
          /\ pc = "nothing" => UNCHANGED sent
    BY <1>3 DEF LookUpRow
  <2>2. page[p].pc = "lookup" /\ UNCHANGED <<rows, started, faults>>
    BY <1>3 DEF LookUpRow, At
  <2>3. page'[p].pc = pc /\ page'[p].doc = page[p].doc /\ Others(p)
    BY <2>1, <2>2, GoesOn DEF Sends, Answers
  <2>4. CASE pc = "nothing"
    BY <2>1, <2>2, <2>3, <2>4, SubmissionsStand
  <2>5. CASE pc = "start"
    <3>1. /\ Starting(p, page[p].doc)'
          /\ \A q \in Pages, d \in Docs : Starting(q, d) => Starting(q, d)'
      BY <2>2, <2>3, <2>5 DEF Starting, Others
    <3>2. \A d \in Docs \ {page[p].doc} : sent'[d] = sent[d]
      BY <2>1, <2>5 DEF FormsTypeOK
    <3>3. ASSUME NEW d \in Docs
          PROVE  Recorded(d)'
      <4>1. CASE d = page[p].doc
        <5>1. Starting(p, d)'
          BY <2>3, <2>5, <4>1 DEF Starting
        <5>. QED
          BY <5>1 DEF Recorded
      <4>2. CASE d # page[p].doc
        <5>1. sent'[d] = sent[d] /\ Recorded(d)
          BY <3>2, <4>2 DEF SubmissionsSound
        <5>. QED
          BY <2>2, <3>1, <5>1 DEF Recorded
      <4>. QED
        BY <4>1, <4>2
    <3>4. \A q \in Pages : page'[q].pc = "save" => page'[q] = page[q]
      BY <2>3, <2>5 DEF Others
    <3>. QED
      BY <2>2, <3>3, <3>4 DEF SubmissionsSound
  <2>. QED
    BY <2>4, <2>5
<1>4. ASSUME NEW p \in Pages, StartProcess(p)
      PROVE  SubmissionsSound'
  <2>1. /\ page[p].pc = "start" /\ UNCHANGED <<rows, sent, faults>>
        /\ page[p] \in Page /\ page[p].doc \in Docs
    BY <1>4, PageHasDoc DEF StartProcess, At
  <2>2. page[p].proc = 0
    BY <2>1 DEF ProcIsReal, Page
  <2>3. /\ page'[p].pc = "save" /\ page'[p].doc = page[p].doc /\ Others(p)
        /\ page'[p].proc <= started'[page[p].doc]
        /\ \A d \in Docs : started[d] \in Nat /\ started'[d] \in Nat /\ started[d] <= started'[d]
    <3>1. CASE active
      <4>1. PICK n \in Nat : n = started[page[p].doc] + 1
        BY <2>1 DEF FormsTypeOK
      <4>2. /\ page' = [page EXCEPT ![p] = [page[p] EXCEPT !.pc = "save", !.proc = n]]
            /\ started' = [started EXCEPT ![page[p].doc] = n]
        BY <1>4, <3>1, <4>1 DEF StartProcess
      <4>. QED
        BY <2>1, <4>1, <4>2 DEF Others, FormsTypeOK, Page
    <3>2. CASE ~ active
      <4>1. Goes(p, "save") /\ UNCHANGED started
        BY <1>4, <3>2 DEF StartProcess
      <4>2. page'[p].pc = "save" /\ page'[p].doc = page[p].doc /\ page'[p].proc = 0 /\ Others(p)
        BY <2>1, <2>2, <4>1, GoesOn DEF Sends
      <4>. QED
        BY <2>1, <4>1, <4>2 DEF FormsTypeOK
    <3>. QED
      BY <3>1, <3>2
  <2>4. \A q \in Pages, d \in Docs : Starting(q, d)' = Starting(q, d)
    BY <2>1, <2>3 DEF Starting, Others
  <2>5. ASSUME NEW q \in Pages, page'[q].pc = "save"
        PROVE  page'[q].proc <= started'[page'[q].doc]
    <3>1. CASE q # p
      <4>1. page'[q] = page[q] /\ page[q] \in Page
        BY <2>3, <2>5, <3>1, PageHasDoc DEF Others
      <4>2. page[q].proc <= started[page[q].doc]
        BY <2>5, <4>1 DEF SubmissionsSound
      <4>. QED
        BY <2>3, <4>1, <4>2 DEF Page
    <3>. QED
      BY <2>3, <3>1
  <2>6. ASSUME NEW d \in Docs
        PROVE  Recorded(d)'
    <3>1. Recorded(d) /\ started[d] \in Nat /\ started'[d] \in Nat /\ started[d] <= started'[d]
      BY <2>3 DEF SubmissionsSound
    <3>2. rows[d] # NoRow => rows[d].proc \in Nat
      BY DEF FormsTypeOK, Row
    <3>. QED
      BY <2>1, <2>4, <3>1, <3>2 DEF Recorded
  <2>. QED
    BY <2>5, <2>6 DEF SubmissionsSound
<1>5. ASSUME NEW p \in Pages, SaveRow(p)
      PROVE  SubmissionsSound'
  <2>1. /\ page[p].pc = "save" /\ UNCHANGED <<started, sent>>
        /\ page[p] \in Page /\ page[p].doc \in Docs
    BY <1>5, PageHasDoc DEF SaveRow, At
  <2>2. SubmittedRow(p) \in Row
    BY <2>1 DEF SubmittedRow, Row, Page, FormsTypeOK
  <2>3. /\ \A d \in Docs \ {page[p].doc} : rows'[d] = rows[d]
        /\ faults' = 0 => faults = 0 /\ rows'[page[p].doc] = SubmittedRow(p)
    BY <1>5, <2>1 DEF SaveRow, FormsTypeOK
  <2>4. page'[p].pc \in {"confirmed", "error"} /\ Others(p)
    <3>1. PICK pc \in {"confirmed", "error"} : pc = AnswerOf(p)
      BY DEF AnswerOf
    <3>2. page' = [page EXCEPT ![p] = [page[p] EXCEPT !.pc = pc, !.proc = 0]]
      BY <1>5, <3>1 DEF SaveRow
    <3>. QED
      BY <2>1, <3>2 DEF Page, Others, FormsTypeOK
  <2>5. \A q \in Pages : page'[q].pc = "save" => page'[q] = page[q]
    BY <2>4 DEF Others
  <2>6. ASSUME NEW d \in Docs
        PROVE  Recorded(d)'
    <3>1. CASE d = page[p].doc
      <4>1. /\ SubmittedRow(p) # NoRow /\ SubmittedRow(p).submitted
            /\ SubmittedRow(p).proc <= started[d]
        BY <2>1, <2>2, <3>1 DEF SubmittedRow, SubmissionsSound
      <4>. QED
        BY <2>1, <2>3, <3>1, <4>1 DEF Recorded
    <3>2. CASE d # page[p].doc
      <4>1. \A q \in Pages : Starting(q, d)' = Starting(q, d)
        BY <2>1, <2>4, <3>2 DEF Starting, Others
      <4>. QED
        BY <2>1, <2>3, <3>2, <4>1 DEF SubmissionsSound, Recorded
    <3>. QED
      BY <3>1, <3>2
  <2>. QED
    BY <2>1, <2>5, <2>6 DEF SubmissionsSound
<1>6. ASSUME NEW p \in Pages, Break(p)
      PROVE  SubmissionsSound'
  <2>1. UNCHANGED <<rows, started, sent>> /\ faults' # 0
    BY <1>6 DEF Break, FormsTypeOK
  <2>2. \A q \in Pages : page'[q].pc = "save" => page'[q] = page[q]
    BY <1>6 DEF Break, FormsTypeOK, Page, Closed
  <2>. QED
    BY <2>1, <2>2 DEF SubmissionsSound, Recorded
<1>7. CASE Suspend \/ UNCHANGED vars
  BY <1>7 DEF Suspend, vars, SubmissionsSound, Recorded, Starting
<1>. QED
  BY <1>1, <1>2, <1>3, <1>4, <1>5, <1>6, <1>7 DEF FormsNext

-----------------------------------------------------------------------------
(* Drafts *)

PagesOf(u) == {p \in Pages : user[p] = u}

\* Pages that found no draft, and have not stored theirs yet.
Creating(u) == {p \in PagesOf(u) : page[p].pc = "create"}

\* The drafts of a user, and those he is about to get, are no more than his pages:
\* a page starts to create one only when there is none.
DraftsSound(u) ==
  /\ IsFiniteSet(DraftsOf(u))
  /\ Cardinality(DraftsOf(u)) + Cardinality(Creating(u)) <= Cardinality(PagesOf(u))

LEMMA PagesFinite ==
  ASSUME NEW u
  PROVE  /\ IsFiniteSet(PagesOf(u)) /\ IsFiniteSet(Creating(u))
         /\ Cardinality(PagesOf(u)) \in Nat /\ Cardinality(Creating(u)) \in Nat
         /\ Cardinality(Creating(u)) <= Cardinality(PagesOf(u))
<1>1. PagesOf(u) \subseteq Pages /\ Creating(u) \subseteq PagesOf(u)
  BY DEF PagesOf, Creating
<1>. QED
  BY <1>1, FS_Subset, FS_CardinalityType

\* A step that adds neither a draft nor a page that creates one.
LEMMA NoMoreDrafts ==
  ASSUME NEW u, DraftsSound(u), UNCHANGED user,
         DraftsOf(u)' \subseteq DraftsOf(u), Creating(u)' \subseteq Creating(u)
  PROVE  DraftsSound(u)'
<1>1. PagesOf(u)' = PagesOf(u)
  BY DEF PagesOf
<1>2. /\ IsFiniteSet(DraftsOf(u)')
      /\ Cardinality(DraftsOf(u)') <= Cardinality(DraftsOf(u))
      /\ Cardinality(DraftsOf(u)') \in Nat /\ Cardinality(DraftsOf(u)) \in Nat
  BY FS_Subset, FS_CardinalityType DEF DraftsSound
<1>3. IsFiniteSet(Creating(u))
  BY PagesFinite
<1>4. /\ Cardinality(Creating(u)') <= Cardinality(Creating(u))
      /\ Cardinality(Creating(u)') \in Nat /\ Cardinality(Creating(u)) \in Nat
  BY <1>3, FS_Subset, FS_CardinalityType
<1>5. Cardinality(PagesOf(u)) \in Nat
  BY PagesFinite
<1>. QED
  BY <1>1, <1>2, <1>4, <1>5 DEF DraftsSound

\* Without a draft there may be as many pages that create one as there are pages.
LEMMA NoDraftYet ==
  ASSUME NEW u, UNCHANGED user, DraftsOf(u)' = {}
  PROVE  DraftsSound(u)'
<1>1. PagesOf(u)' = PagesOf(u) /\ Creating(u)' \subseteq PagesOf(u)
  BY DEF PagesOf, Creating
<1>2. IsFiniteSet(PagesOf(u)) /\ Cardinality(PagesOf(u)) \in Nat
  BY PagesFinite
<1>3. /\ Cardinality(Creating(u)') <= Cardinality(PagesOf(u))
      /\ Cardinality(Creating(u)') \in Nat
  BY <1>1, <1>2, FS_Subset, FS_CardinalityType
<1>4. IsFiniteSet(DraftsOf(u)') /\ Cardinality(DraftsOf(u)') = 0
  BY FS_EmptySet
<1>. QED
  BY <1>1, <1>2, <1>3, <1>4 DEF DraftsSound

\* A page stores the draft it has been creating.
LEMMA DraftStored ==
  ASSUME NEW u, DraftsSound(u), UNCHANGED user, NEW d, NEW p \in Creating(u),
         DraftsOf(u)' \subseteq DraftsOf(u) \cup {d}, Creating(u)' = Creating(u) \ {p}
  PROVE  DraftsSound(u)'
<1>1. PagesOf(u)' = PagesOf(u)
  BY DEF PagesOf
<1>2. /\ IsFiniteSet(DraftsOf(u) \cup {d})
      /\ Cardinality(DraftsOf(u) \cup {d}) <= Cardinality(DraftsOf(u)) + 1
      /\ Cardinality(DraftsOf(u)) \in Nat
  <2>1. IsFiniteSet(DraftsOf(u)) /\ Cardinality(DraftsOf(u)) \in Nat
    BY FS_CardinalityType DEF DraftsSound
  <2>2. /\ IsFiniteSet(DraftsOf(u) \cup {d})
        /\ Cardinality(DraftsOf(u) \cup {d}) =
             IF d \in DraftsOf(u) THEN Cardinality(DraftsOf(u))
             ELSE Cardinality(DraftsOf(u)) + 1
    BY <2>1, FS_AddElement
  <2>. QED
    BY <2>1, <2>2
<1>3. /\ IsFiniteSet(DraftsOf(u)')
      /\ Cardinality(DraftsOf(u)') <= Cardinality(DraftsOf(u) \cup {d})
      /\ Cardinality(DraftsOf(u)') \in Nat /\ Cardinality(DraftsOf(u) \cup {d}) \in Nat
  BY <1>2, FS_Subset, FS_CardinalityType
<1>4. /\ Cardinality(Creating(u)') = Cardinality(Creating(u)) - 1
      /\ Cardinality(Creating(u)) \in Nat /\ Cardinality(PagesOf(u)) \in Nat
  BY PagesFinite, FS_RemoveElement
<1>. QED
  BY <1>1, <1>2, <1>3, <1>4 DEF DraftsSound

\* The pages that create a draft, after a step of one page.
LEMMA OnePageMoves ==
  ASSUME NEW u, NEW p \in Pages, UNCHANGED user, Others(p)
  PROVE  /\ page'[p].pc # "create" => Creating(u)' = Creating(u) \ {p}
         /\ page'[p].pc = page[p].pc \/ user[p] # u => Creating(u)' = Creating(u)
BY DEF Others, Creating, PagesOf

LEMMA DraftsSoundKept ==
  ASSUME FormsInv, [FormsNext]_vars, NEW u \in Users, DraftsSound(u)
  PROVE  DraftsSound(u)'
<1>. USE DEF FormsInv
<1>0. UNCHANGED rows => DraftsOf(u)' = DraftsOf(u)
  BY DEF DraftsOf, IsDraft
<1>1. ASSUME NEW p \in Pages, OpenStart(p)
      PROVE  DraftsSound(u)'
  <2>1. UNCHANGED <<user, rows>>
    BY <1>1 DEF OpenStart
  <2>2. CASE \E d : Shows(p, "shown", d)
    <3>1. page'[p].pc = "shown" /\ Others(p)
      BY <2>2, PageShows
    <3>. QED
      BY <1>0, <2>1, <3>1, OnePageMoves, NoMoreDrafts
  <2>3. CASE DraftsOf(user[p]) = {} /\ \E d : Shows(p, "create", d)
    <3>1. Others(p)
      BY <2>3, PageShows
    <3>2. CASE user[p] = u
      BY <1>0, <2>1, <2>3, <3>2, NoDraftYet
    <3>3. CASE user[p] # u
      BY <1>0, <2>1, <3>1, <3>3, OnePageMoves, NoMoreDrafts
    <3>. QED
      BY <3>2, <3>3
  <2>. QED
    BY <1>1, <2>2, <2>3 DEF OpenStart
<1>2. ASSUME NEW p \in Pages, CreateDraft(p)
      PROVE  DraftsSound(u)'
  <2>0. /\ page[p].pc = "create" /\ Goes(p, "shown") /\ UNCHANGED user
        /\ UNCHANGED rows \/ rows' = [rows EXCEPT ![page[p].doc] = DraftRow(p)]
    BY <1>2 DEF CreateDraft, At
  <2>1. page'[p].pc = "shown" /\ Others(p)
    BY <2>0, GoesOn
  <2>2. CASE user[p] = u
    <3>1. p \in Creating(u) /\ Creating(u)' = Creating(u) \ {p}
      BY <2>0, <2>1, <2>2, OnePageMoves DEF Creating, PagesOf
    <3>2. DraftsOf(u)' \subseteq DraftsOf(u) \cup {page[p].doc}
      BY <2>0 DEF DraftsOf, IsDraft, FormsTypeOK
    <3>. QED
      BY <2>0, <3>1, <3>2, DraftStored
  <2>3. CASE user[p] # u
    <3>1. DraftsOf(u)' \subseteq DraftsOf(u)
      BY <2>0, <2>3 DEF DraftsOf, IsDraft, FormsTypeOK, DraftRow
    <3>. QED
      BY <2>0, <2>1, <2>3, <3>1, OnePageMoves, NoMoreDrafts
  <2>. QED
    BY <2>2, <2>3
<1>3. ASSUME NEW p \in Pages,
             \/ OpenTask(p) \/ InitTask(p) \/ Send(p) \/ FindTask(p) \/ ClaimTask(p)
             \/ CompleteTask(p) \/ LookUpRow(p) \/ StartProcess(p) \/ Break(p)
      PROVE  DraftsSound(u)'
  <2>1. UNCHANGED <<user, rows>>
    BY <1>3 DEF OpenTask, InitTask, Send, FindTask, ClaimTask, CompleteTask, LookUpRow,
       StartProcess, Break
  <2>2. page'[p].pc # "create" /\ Others(p)
    BY <1>3 DEF OpenTask, InitTask, Send, FindTask, ClaimTask, CompleteTask, LookUpRow,
       StartProcess, Break, Goes, Shows, Closed, Others, FormsTypeOK, Page
  <2>. QED
    BY <1>0, <2>1, <2>2, OnePageMoves, NoMoreDrafts
<1>4. ASSUME NEW p \in Pages, SaveRow(p)
      PROVE  DraftsSound(u)'
  <2>1. UNCHANGED user /\ page'[p].pc # "create" /\ Others(p)
    BY <1>4 DEF SaveRow, AnswerOf, Others, FormsTypeOK, Page, Closed
  <2>2. DraftsOf(u)' \subseteq DraftsOf(u)
    BY <1>4 DEF SaveRow, SubmittedRow, DraftsOf, IsDraft, FormsTypeOK
  <2>. QED
    BY <2>1, <2>2, OnePageMoves, NoMoreDrafts
<1>5. CASE Suspend \/ UNCHANGED vars
  <2>1. UNCHANGED <<user, rows, page>>
    BY <1>5 DEF Suspend, vars
  <2>. QED
    BY <1>0, <2>1, NoMoreDrafts DEF Creating, PagesOf
<1>. QED
  BY <1>1, <1>2, <1>3, <1>4, <1>5 DEF FormsNext

-----------------------------------------------------------------------------
(* The properties *)

\* What is confirmed to a user has happened: a submission of the document on his page
\* completed the task, or a process was started with that document.
THEOREM ConfirmationIsReal == FormsSpec => []ConfirmedIsReal
<1>1. FormsInv => ConfirmedIsReal
  BY DEF FormsInv, ProcIsReal, CompletedBy, ConfirmedIsReal, At
<1>. QED
  BY <1>1, Invariance, PTL

\* A submission that comes to nothing is one of a document that has no row, and is not
\* that of an open task that nobody else holds.
THEOREM RefusalIsReal == FormsSpec => []NothingMeansGone
<1>1. FormsInv => NothingMeansGone
  BY DEF FormsInv, NoTaskLeft, NotForTask, NothingMeansGone, At
<1>. QED
  BY <1>1, Invariance, PTL

\* Without faults, and with nothing of it under way, a start form that was submitted any
\* number of times has a submitted row with no process that was not started with it; if
\* it was submitted exactly once the row has the process that was started, if any was.
THEOREM SubmissionRecorded == FormsSpec => []SubmissionIsRecorded
<1>1. FormsInit => SubmissionsSound
  BY DEF FormsInit, SubmissionsSound, Recorded, Closed
<1>2. FormsInv /\ SubmissionsSound /\ [FormsNext]_vars => SubmissionsSound'
  BY SubmissionsSoundKept
<1>3. FormsInv /\ SubmissionsSound => SubmissionIsRecorded
  <2>1. SUFFICES ASSUME FormsInv, SubmissionsSound, NEW d \in Docs, sent[d] > 0, faults = 0,
                        ~ Submitting(d)
                 PROVE  /\ rows[d] # NoRow /\ rows[d].submitted
                        /\ rows[d].proc <= started[d]
                        /\ sent[d] = 1 => rows[d].proc = started[d]
    BY DEF SubmissionIsRecorded
  <2>2. \A p \in Pages : ~ Starting(p, d)
    BY <2>1 DEF Submitting, Starting, Sends
  <2>. QED
    BY <2>1, <2>2 DEF FormsInv, SentOnce, RecordedOnce, SubmissionsSound, Recorded
<1>. QED
  BY <1>1, <1>2, <1>3, Invariance, PTL DEF FormsSpec

\* However often a start form is opened, left and submitted, on however many pages,
\* a user has no more drafts of it than he has pages: only loads that found no draft
\* at the same time make a second one.
THEOREM DraftsStayBounded == FormsSpec => []DraftsBounded
<1>. DEFINE Sound == \A u \in Users : DraftsSound(u)
<1>1. FormsInit => Sound
  <2>. SUFFICES ASSUME FormsInit, NEW u \in Users
                PROVE  DraftsSound(u)
    OBVIOUS
  <2>1. DraftsOf(u) = {} /\ Creating(u) = {}
    BY DEF FormsInit, DraftsOf, IsDraft, Creating, PagesOf, Closed
  <2>. QED
    BY <2>1, FS_EmptySet, PagesFinite DEF DraftsSound
<1>2. FormsInv /\ Sound /\ [FormsNext]_vars => Sound'
  BY DraftsSoundKept
<1>3. Sound => DraftsBounded
  <2>. SUFFICES ASSUME NEW u \in Users, DraftsSound(u)
                PROVE  Cardinality(DraftsOf(u)) <= Cardinality(PagesOf(u))
    BY DEF DraftsBounded, PagesOf
  <2>1. /\ Cardinality(DraftsOf(u)) \in Nat /\ Cardinality(Creating(u)) \in Nat
        /\ Cardinality(PagesOf(u)) \in Nat
    BY PagesFinite, FS_CardinalityType DEF DraftsSound
  <2>. QED
    BY <2>1 DEF DraftsSound
<1>. HIDE DEF Sound
<1>. QED
  BY <1>1, <1>2, <1>3, Invariance, PTL DEF FormsSpec
=============================================================================
