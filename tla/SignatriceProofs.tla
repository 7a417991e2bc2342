-------------------------- MODULE SignatriceProofs --------------------------
(* Proofs of the safety properties of Signatrice. *)
EXTENDS Signatrice, RestDocProofs

-----------------------------------------------------------------------------
(* The inductive invariant *)

\* The runs of the jobs have the parts that the actions assign.
Shapes ==
  /\ DOMAIN collector = Collectors
  /\ \A c \in Collectors : DOMAIN collector[c] = {"todo", "rows", "changed", "pc"}
  /\ DOMAIN poster = Posters
  /\ \A p \in Posters :
       DOMAIN poster[p] = {"todo", "rows", "changed", "pc", "tx", "count", "steps", "pdfs",
                           "versions", "rollbackOnly"}

\* An order is asked for over a PDF, and stored only after it was placed.
AsksSound ==
  \A t \in Txs :
    /\ ask[t].pc \in {"order", "store"} => ask[t].ref \in DOMAIN pdf
    /\ ask[t].pc = "store" => order[t] # "none"
    /\ ask[t].pc \in {"new", "order", "store"} => t \notin DOMAIN sig
    /\ t \in DOMAIN sig => order[t] # "none"

\* A signature comes with its time and with complete progress; only then is it
\* added or refused, and not both.
RowSound(row) ==
  /\ row.ref \in DOMAIN pdf
  /\ row.signature = "none" <=> row.signed = None
  /\ row.signature # "none" => row.progress = "COMPLETE"
  /\ row.out # None \/ row.conflict => row.signature # "none"
  /\ row.out # None => ~ row.conflict

RowsSound == \A t \in DOMAIN sig : RowSound(sig[t])

\* As long as a row has the version that a run has loaded, it was not finished by
\* anybody else.
Loaded(t, row) ==
  /\ row.version <= sig[t].version
  /\ row.ref = sig[t].ref
  /\ row.version = sig[t].version => sig[t].out = None /\ ~ sig[t].conflict

\* A run of CollectJob.
CollectedSound(b) ==
  /\ BatchOK(b)
  /\ b.pc = "idle" => b.changed = {}
  /\ \A t \in DOMAIN b.rows :
       /\ Loaded(t, b.rows[t]) /\ RowSound(b.rows[t])
       /\ b.rows[t].out = None /\ ~ b.rows[t].conflict
       /\ b.rows[t].version = sig[t].version => sig[t].signature = "none"
       /\ t \in b.todo => b.rows[t].signature = "none"

\* The step that is about to be inserted for an order.
StepFor(b, t, r) ==
  LET base == b.rows[t].ref
      count == b.steps[r].step IN
  /\ r \in DOMAIN b.steps
  /\ count \in Nat
  /\ docStep[base].step < count
  /\ count <= StepCount(docStep[base].doc)
  /\ b.steps[r] = SignedStep(base, count)
  /\ b.pdfs[r] = SignedContents(base, t)

\* The count is above the number of the step that is being signed.
CountSound(b) ==
  b.pc = "append" =>
    LET base == b.rows[b.tx].ref IN
    b.count \in Nat /\ docStep[base].step < b.count /\ b.count <= StepCount(docStep[base].doc)

\* The rows of a run of PostprocessJob.
PostedRows(b) ==
  \A t \in DOMAIN b.rows :
    /\ Loaded(t, b.rows[t]) /\ RowSound(b.rows[t])
    /\ b.rows[t].signature # "none"
    /\ b.rows[t].version = sig[t].version => sig[t].signature = b.rows[t].signature
    /\ t \notin b.changed => b.rows[t].out = None /\ ~ b.rows[t].conflict

\* Its steps: one for each order that it has added.
PostedSteps(b) ==
  /\ DOMAIN b.steps \subseteq Refs \ DOMAIN docStep
  /\ DOMAIN b.pdfs = DOMAIN b.steps
  /\ \A t \in b.changed : b.rows[t].out # None => StepFor(b, t, b.rows[t].out)
  /\ \A r \in DOMAIN b.steps : \E t \in b.changed : b.rows[t].out = r

PostedSound(b) ==
  /\ BatchOK(b)
  /\ b.pc = "idle" => b.changed = {}
  /\ b.pc \in {"count", "append"} => b.tx \in b.todo
  /\ PostedRows(b) /\ PostedSteps(b) /\ CountSound(b)

\* No two runs are about to insert the same step.
PendingApart ==
  \A p, q \in Posters : p # q => DOMAIN poster[p].steps \cap DOMAIN poster[q].steps = {}

\* The requests of RestDoc bring other signatures than those of orders.
ForeignSigs ==
  \A q \in Requests : req[q].pc \in {"count", "load", "sign", "append"} => req[q].sig \notin Txs

\* Every step that a row names has the signature of its order.
OutIsReal ==
  \A t \in DOMAIN sig : sig[t].out # None =>
    /\ sig[t].out \in DOMAIN pdf
    /\ docStep[sig[t].out].doc = docStep[sig[t].ref].doc
    /\ pdf[sig[t].out] = SignedContents(sig[t].ref, t)

SigInv ==
  /\ Inv /\ SigTypeOK /\ Shapes
  /\ AsksSound /\ RowsSound
  /\ \A c \in Collectors : CollectedSound(collector[c])
  /\ \A p \in Posters : PostedSound(poster[p])
  /\ PendingApart /\ ForeignSigs
  /\ OutIsReal /\ AddedOnce

-----------------------------------------------------------------------------
(* The documents *)

\* Several signed steps are inserted at once, each with its contents.
SignedAll(steps, pdfs) ==
  /\ DOMAIN steps \subseteq FreshRefs
  /\ DOMAIN pdfs = DOMAIN steps
  /\ docStep' = Upsert(docStep, steps)
  /\ pdf' = Upsert(pdf, pdfs)
  /\ \A r \in DOMAIN steps : \E base \in DOMAIN pdf, s \in Sigs, count \in Nat :
       /\ steps[r] = SignedStep(base, count)
       /\ pdfs[r] = SignedContents(base, s)
       /\ docStep[base].step < count
       /\ count <= StepCount(docStep[base].doc)

\* What becomes of the tables then.
LEMMA SignedAllTables ==
  ASSUME StoreTypeOK, NEW steps, NEW pdfs, SignedAll(steps, pdfs)
  PROVE  /\ DOMAIN docStep' = DOMAIN docStep \cup DOMAIN steps
         /\ DOMAIN pdf' = DOMAIN pdf \cup DOMAIN steps
         /\ \A x \in DOMAIN docStep : docStep'[x] = docStep[x] /\ x \notin DOMAIN steps
         /\ \A x \in DOMAIN pdf : pdf'[x] = pdf[x] /\ x \notin DOMAIN steps
         /\ \A x \in DOMAIN steps : docStep'[x] = steps[x] /\ pdf'[x] = pdfs[x]
         /\ docStep' = [x \in DOMAIN docStep' |-> docStep'[x]]
         /\ pdf' = [x \in DOMAIN pdf' |-> pdf'[x]]
<1>1. DOMAIN pdf \subseteq DOMAIN docStep
  BY DEF StoreTypeOK
<1>2. DOMAIN steps \cap DOMAIN docStep = {} /\ DOMAIN pdfs = DOMAIN steps
  BY DEF SignedAll, FreshRefs
<1>3. docStep' = Upsert(docStep, steps) /\ pdf' = Upsert(pdf, pdfs)
  BY DEF SignedAll
<1>. QED
  BY <1>1, <1>2, <1>3 DEF Upsert

\* Each of the steps.
LEMMA SignedOne ==
  ASSUME StoreTypeOK, NEW steps, NEW pdfs, SignedAll(steps, pdfs), NEW r \in DOMAIN steps
  PROVE  \E base \in DOMAIN pdf, s \in Sigs, count \in Nat :
           /\ docStep'[r] = SignedStep(base, count) /\ steps[r] = SignedStep(base, count)
           /\ pdf'[r] = SignedContents(base, s)
           /\ docStep[base].step < count
           /\ count <= StepCount(docStep[base].doc)
           /\ SignedStep(base, count) \in StepRow
           /\ SignedContents(base, s) \in Contents
           /\ SignedStep(base, count).doc = docStep[base].doc
           /\ SignedStep(base, count).step = count
           /\ base \in DOMAIN docStep
<1>1. PICK base \in DOMAIN pdf, s \in Sigs, count \in Nat :
        /\ steps[r] = SignedStep(base, count)
        /\ pdfs[r] = SignedContents(base, s)
        /\ docStep[base].step < count
        /\ count <= StepCount(docStep[base].doc)
  BY DEF SignedAll
<1>2. docStep'[r] = steps[r] /\ pdf'[r] = pdfs[r]
  BY DEF SignedAll, Upsert
<1>3. base \in DOMAIN docStep /\ docStep[base] \in StepRow
  BY DEF StoreTypeOK
<1>4. SignedStep(base, count) \in StepRow
  BY <1>3 DEF SignedStep, StepRow
<1>5. SignedStep(base, count).doc = docStep[base].doc /\ SignedStep(base, count).step = count
  BY DEF SignedStep
<1>6. SignedContents(base, s) \in Contents
  BY SignedContentsType
<1>. QED
  BY <1>1, <1>2, <1>3, <1>4, <1>5, <1>6

\* The tables keep their types.
LEMMA SignedAllTypes ==
  ASSUME StoreTypeOK, NEW steps, NEW pdfs, NEW D, SignedAll(steps, pdfs), InsertSteps(steps, D)
  PROVE  StoreTypeOK' /\ Grows
<1>1. /\ DOMAIN docStep' = DOMAIN docStep \cup DOMAIN steps
      /\ DOMAIN pdf' = DOMAIN pdf \cup DOMAIN steps
      /\ \A x \in DOMAIN docStep : docStep'[x] = docStep[x]
      /\ \A x \in DOMAIN pdf : pdf'[x] = pdf[x]
      /\ docStep' = [x \in DOMAIN docStep' |-> docStep'[x]]
      /\ pdf' = [x \in DOMAIN pdf' |-> pdf'[x]]
  BY SignedAllTables
<1>2. ASSUME NEW x \in DOMAIN steps
      PROVE  /\ docStep'[x] \in StepRow /\ pdf'[x] \in Contents
             /\ docStep'[x].doc \in DOMAIN boxDoc
  <2>1. PICK base \in DOMAIN docStep, count \in Nat :
          /\ docStep'[x] = SignedStep(base, count)
          /\ pdf'[x] \in Contents
          /\ SignedStep(base, count) \in StepRow
          /\ SignedStep(base, count).doc = docStep[base].doc
    BY SignedOne
  <2>. QED
    BY <2>1 DEF StoreTypeOK
<1>3. DOMAIN boxDoc' = DOMAIN boxDoc /\ boxDoc' \in [DOMAIN boxDoc' -> BoxDocRow]
  BY DEF InsertSteps, StoreTypeOK, BoxDocRow
<1>4. DOMAIN steps \subseteq Refs
  BY DEF SignedAll, FreshRefs
<1>5. docStep' \in [DOMAIN docStep' -> StepRow]
  <2>1. \A x \in DOMAIN docStep' : docStep'[x] \in StepRow
    BY <1>1, <1>2 DEF StoreTypeOK
  <2>. QED
    BY <1>1, <2>1
<1>6. pdf' \in [DOMAIN pdf' -> Contents]
  <2>1. \A x \in DOMAIN pdf' : pdf'[x] \in Contents
    BY <1>1, <1>2 DEF StoreTypeOK
  <2>. QED
    BY <1>1, <2>1
<1>7. \A x \in DOMAIN docStep' : docStep'[x].doc \in DOMAIN boxDoc'
  BY <1>1, <1>2, <1>3 DEF StoreTypeOK
<1>8. DOMAIN docStep' \subseteq Refs /\ DOMAIN pdf' \subseteq DOMAIN docStep'
      /\ DOMAIN boxDoc' \subseteq Docs
  BY <1>1, <1>3, <1>4 DEF StoreTypeOK
<1>9. StoreTypeOK'
  BY <1>3, <1>5, <1>6, <1>7, <1>8 DEF StoreTypeOK
<1>. QED
  BY <1>1, <1>3, <1>9 DEF Grows

\* A document that gets a step has one step more, or several.
LEMMA CountOfNewSteps ==
  ASSUME StoreTypeOK, StoreTypeOK', Grows, NEW d, NEW x \in DOMAIN docStep' \ DOMAIN docStep,
         docStep'[x].doc = d
  PROVE  StepCount(d) < StepCount(d)'
<1>1. StepsOf(d) \cup {x} \subseteq StepsOf(d)' /\ x \notin StepsOf(d)
  BY DEF StepsOf, Grows
<1>2. StepsOf(d)' \subseteq Refs
  BY DEF StepsOf, StoreTypeOK
<1>3. IsFiniteSet(StepsOf(d)') /\ IsFiniteSet(StepsOf(d))
  BY <1>2, RefsFinite, FS_Subset, StepsFinite
<1>4. Cardinality(StepsOf(d) \cup {x}) = Cardinality(StepsOf(d)) + 1
  BY <1>1, <1>3, FS_AddElement
<1>5. Cardinality(StepsOf(d) \cup {x}) <= Cardinality(StepsOf(d)')
  BY <1>1, <1>3, FS_Subset
<1>6. Cardinality(StepsOf(d)) \in Nat /\ Cardinality(StepsOf(d)') \in Nat
  BY <1>3, FS_CardinalityType
<1>. QED
  BY <1>4, <1>5, <1>6 DEF StepCount

\* The invariant of RestDoc allows for the steps of a batch.
LEMMA SignedAllInv ==
  ASSUME Inv, NEW steps, NEW pdfs, NEW D, SignedAll(steps, pdfs), InsertSteps(steps, D),
         UNCHANGED req
  PROVE  Inv' /\ Grows
<1>0. StoreTypeOK /\ OneFirstStep /\ StepBelowCount /\ NoPdfNoSignature
      /\ AnswersStand /\ req \in [Requests -> Request]
  BY DEF Inv, TypeOK
<1>1. StoreTypeOK' /\ Grows
  BY <1>0, SignedAllTypes
<1>2. /\ DOMAIN docStep' = DOMAIN docStep \cup DOMAIN steps
      /\ DOMAIN pdf' = DOMAIN pdf \cup DOMAIN steps
      /\ \A x \in DOMAIN docStep : docStep'[x] = docStep[x] /\ x \notin DOMAIN steps
  BY <1>0, SignedAllTables
<1>3. TypeOK'
  BY <1>0, <1>1 DEF TypeOK
<1>4. DOMAIN boxDoc' = DOMAIN boxDoc
  BY DEF InsertSteps
<1>5. ASSUME NEW x \in DOMAIN steps
      PROVE  /\ 0 < docStep'[x].step
             /\ (docStep[x].step < StepCount(docStep[x].doc))'
             /\ PdfSound(x)'
  <2>1. PICK base \in DOMAIN pdf, s \in Sigs, count \in Nat :
          /\ docStep'[x] = SignedStep(base, count)
          /\ pdf'[x] = SignedContents(base, s)
          /\ docStep[base].step < count
          /\ count <= StepCount(docStep[base].doc)
          /\ SignedStep(base, count).doc = docStep[base].doc
          /\ SignedStep(base, count).step = count
          /\ base \in DOMAIN docStep
    BY <1>0, SignedOne
  <2>2. docStep[base].step \in Nat
    BY <1>0, <2>1 DEF StoreTypeOK, StepRow
  <2>3. PICK d : d = docStep[base].doc
    OBVIOUS
  <2>4. docStep'[x].step = count /\ docStep'[x].doc = d
    BY <2>1, <2>3
  <2>5. StepCount(d) < StepCount(d)'
    BY <1>0, <1>1, <1>2, <1>5, <2>4, CountOfNewSteps
  <2>6. StepCount(d) \in Nat /\ StepCount(d)' \in Nat
    <3>1. StepsOf(d)' \subseteq Refs
      BY <1>1 DEF StoreTypeOK, StepsOf
    <3>. QED
      BY <1>0, <3>1, StepsFinite, RefsFinite, FS_Subset, FS_CardinalityType DEF StepCount
  <2>7. count < StepCount(d)'
    BY <2>1, <2>3, <2>5, <2>6
  <2>8. (docStep[x].step < StepCount(docStep[x].doc))'
    BY <2>4, <2>7
  <2>9. PdfSound(x)'
    BY <1>1, <1>2, <2>1, SignedStands
  <2>. QED
    BY <2>1, <2>2, <2>4, <2>8, <2>9
<1>6. OneFirstStep'
  <2>1. ASSUME NEW d \in DOMAIN boxDoc
        PROVE  FirstOf(d)' = FirstOf(d)
    BY <1>2, <1>5 DEF FirstOf, StepsOf
  <2>. QED
    BY <1>0, <1>4, <2>1 DEF OneFirstStep, FirstOf
<1>7. StepBelowCount'
  <2>1. ASSUME NEW x \in DOMAIN docStep
        PROVE  (docStep[x].step < StepCount(docStep[x].doc))'
    <3>1. PICK d : d = docStep[x].doc
      OBVIOUS
    <3>2. StepCount(d) <= StepCount(d)' /\ docStep[x].step < StepCount(d)
      BY <1>0, <1>1, <3>1, CountGrows DEF StepBelowCount
    <3>3. docStep[x].step \in Nat /\ StepCount(d) \in Nat /\ StepCount(d)' \in Nat
      <4>1. StepsOf(d)' \subseteq Refs
        BY <1>1 DEF StoreTypeOK, StepsOf
      <4>. QED
        BY <1>0, <4>1, StepsFinite, RefsFinite, FS_Subset, FS_CardinalityType
        DEF StepCount, StoreTypeOK, StepRow
    <3>4. docStep[x].step < StepCount(d)'
      BY <3>2, <3>3
    <3>5. docStep'[x] = docStep[x]
      BY <1>2
    <3>. QED
      BY <3>1, <3>4, <3>5
  <2>. QED
    BY <1>2, <1>5, <2>1 DEF StepBelowCount
<1>8. NoPdfNoSignature'
  BY <1>0, <1>2 DEF NoPdfNoSignature
<1>9. CoversItsBase' /\ SignedIsLater' /\ SignCountIsPages'
  <2>1. \A x \in DOMAIN pdf : PdfSound(x)'
    BY <1>1, PdfStands
  <2>2. (\A x \in DOMAIN pdf : PdfSound(x))'
    BY <1>2, <1>5, <2>1
  <2>. QED
    BY <2>2 DEF PdfSound, CoversItsBase, SignedIsLater, SignCountIsPages
<1>10. (\A q \in Requests : Knows(q))'
  BY <1>1, <1>3, KnowsKept
<1>11. AnswersStand'
  BY <1>0, <1>1 DEF AnswersStand, Answered, Grows
<1>. QED
  BY <1>1, <1>3, <1>6, <1>7, <1>8, <1>9, <1>10, <1>11 DEF Inv

\* A copy of a PDF with a page more, in full.
LEMMA PageAppended ==
  ASSUME NEW d, NEW o, NEW p, NEW s, NEW base
  PROVE  Store!WithPage([doc |-> d, origin |-> o, pages |-> p], s, base) =
           [doc |-> d, origin |-> o, pages |-> Append(p, [sig |-> s, over |-> base])]
BY DEF Store!WithPage

\* Every new PDF is a copy of a stored one with a page more.
LEMMA SignedAllCopies ==
  ASSUME StoreTypeOK, NEW steps, NEW pdfs, SignedAll(steps, pdfs)
  PROVE  Store!Next
<1>1. /\ DOMAIN pdf' = DOMAIN pdf \cup DOMAIN steps
      /\ \A x \in DOMAIN pdf : docStep'[x] = docStep[x] /\ pdf'[x] = pdf[x]
      /\ \A x \in DOMAIN pdf : x \notin DOMAIN steps
  BY SignedAllTables DEF StoreTypeOK
<1>2. /\ DOMAIN Copies = DOMAIN pdf
      /\ \A x \in DOMAIN pdf :
           Copies[x] = [doc |-> docStep[x].doc, origin |-> pdf[x].origin, pages |-> pdf[x].pages]
  BY DEF Copies
<1>3. /\ DOMAIN Copies' = DOMAIN pdf'
      /\ \A x \in DOMAIN pdf' :
           Copies'[x] = [doc |-> docStep'[x].doc, origin |-> pdf'[x].origin,
                         pages |-> pdf'[x].pages]
  BY DEF Copies
<1>4. Store!Keep
  BY <1>1, <1>2, <1>3 DEF Store!Keep
<1>5. Store!New = DOMAIN steps
  BY <1>1, <1>2, <1>3 DEF Store!New
<1>6. ASSUME NEW r \in DOMAIN steps
      PROVE  \E base \in DOMAIN Copies, s \in Sigs :
               Copies'[r] = Store!WithPage(Copies[base], s, base)
  <2>1. PICK base \in DOMAIN pdf, s \in Sigs, count \in Nat :
          docStep'[r] = SignedStep(base, count) /\ pdf'[r] = SignedContents(base, s)
    BY SignedOne
  <2>2. /\ docStep'[r].doc = docStep[base].doc
        /\ pdf'[r].origin = pdf[base].origin
        /\ pdf'[r].pages = Append(pdf[base].pages, [sig |-> s, over |-> base])
    BY <2>1 DEF SignedStep, SignedContents
  <2>3. PICK copy : copy = Copies[base]
    OBVIOUS
  <2>4. PICK p : p = pdf[base].pages
    OBVIOUS
  <2>5. PICK d, o : d = docStep[base].doc /\ o = pdf[base].origin
    OBVIOUS
  <2>6. copy = [doc |-> d, origin |-> o, pages |-> p]
    BY <1>2, <2>3, <2>4, <2>5
  <2>7. Store!WithPage(copy, s, base) =
          [doc |-> d, origin |-> o, pages |-> Append(p, [sig |-> s, over |-> base])]
    BY <2>6, PageAppended
  <2>8. Copies'[r] = [doc |-> docStep'[r].doc, origin |-> pdf'[r].origin, pages |-> pdf'[r].pages]
    BY <1>1, <1>3, <1>6
  <2>9. Copies'[r] = [doc |-> d, origin |-> o, pages |-> Append(p, [sig |-> s, over |-> base])]
    BY <2>2, <2>4, <2>5, <2>8
  <2>10. Copies'[r] = Store!WithPage(Copies[base], s, base)
    BY <2>3, <2>7, <2>9
  <2>. QED
    BY <1>2, <2>10
<1>. QED
  BY <1>4, <1>5, <1>6 DEF Store!Next, Store!Sign

\* What a batch of PostprocessJob inserts.
LEMMA PostedAll ==
  ASSUME SigInv, NEW p \in Posters, InsertSteps(poster[p].steps, DOMAIN poster[p].versions),
         pdf' = Upsert(pdf, poster[p].pdfs)
  PROVE  SignedAll(poster[p].steps, poster[p].pdfs)
<1>. PICK b : b = poster[p]
  OBVIOUS
<1>1. PostedSteps(b) /\ PostedRows(b) /\ BatchOK(b)
  BY DEF SigInv, PostedSound
<1>2. /\ DOMAIN b.steps \subseteq FreshRefs
      /\ DOMAIN b.pdfs = DOMAIN b.steps
      /\ docStep' = Upsert(docStep, b.steps)
      /\ pdf' = Upsert(pdf, b.pdfs)
  BY <1>1 DEF PostedSteps, InsertSteps, FreshRefs
<1>3. b.changed \subseteq DOMAIN b.rows /\ DOMAIN b.rows \subseteq Sigs
  BY <1>1, TxsAreSigs DEF BatchOK, SigInv, SigTypeOK
<1>4. ASSUME NEW r \in DOMAIN b.steps
      PROVE  \E base \in DOMAIN pdf, s \in Sigs, count \in Nat :
               /\ b.steps[r] = SignedStep(base, count)
               /\ b.pdfs[r] = SignedContents(base, s)
               /\ docStep[base].step < count
               /\ count <= StepCount(docStep[base].doc)
  <2>1. PICK t \in b.changed : b.rows[t].out = r
    BY <1>1 DEF PostedSteps
  <2>2. StepFor(b, t, r)
    BY <1>1, <2>1, NoneIsNothing DEF PostedSteps
  <2>3. b.rows[t].ref \in DOMAIN pdf /\ t \in Sigs
    BY <1>1, <1>3, <2>1 DEF PostedRows, RowSound
  <2>. QED
    BY <2>2, <2>3 DEF StepFor
<1>. QED
  BY <1>2, <1>4 DEF SignedAll

\* The requests take steps of RestDoc.
LEMMA RestStep ==
  ASSUME RestNext
  PROVE  Next /\ UNCHANGED sigVars
BY DEF RestNext, Next

\* Only a request and the commit of a batch change documents.
LEMMA OtherSteps ==
  ASSUME [SigNext]_allVars
  PROVE  RestNext \/ UNCHANGED vars \/ \E p \in Posters : PostCommit(p)
<1>1. ASSUME NEW t \in Txs,
             \/ \E r \in Refs : SignCheck(t, r)
             \/ DoSign(t)
             \/ SignatureRequest(t)
             \/ Outcome(t)
             \/ GrowOlder(t)
      PROVE  UNCHANGED vars
  BY <1>1 DEF SignCheck, DoSign, SignatureRequest, Outcome, GrowOlder
<1>2. ASSUME NEW c \in Collectors,
             \/ CollectAll(c)
             \/ \E t \in Txs : Collect(c, t)
             \/ CollectFails(c)
             \/ CollectCommit(c)
      PROVE  UNCHANGED vars
  BY <1>2 DEF CollectAll, Collect, CollectFails, CollectCommit
<1>3. ASSUME NEW p \in Posters,
             \/ SigPostProcessAll(p)
             \/ \E t \in Txs : SigPostProcess(p, t)
             \/ PostCount(p)
             \/ PostAppend(p)
      PROVE  UNCHANGED vars
  BY <1>3 DEF SigPostProcessAll, SigPostProcess, PostCount, PostAppend
<1>4. CASE UNCHANGED allVars
  BY <1>4 DEF allVars
<1>. QED
  BY <1>1, <1>2, <1>3, <1>4 DEF SigNext

\* The documents keep the invariant of RestDoc, and PDFs stay.
LEMMA StoreStep ==
  ASSUME SigInv, [SigNext]_allVars
  PROVE  Inv' /\ Grows /\ [Store!Next]_Copies
<1>0. Inv /\ StoreTypeOK
  BY DEF SigInv, Inv, TypeOK
<1>1. CASE RestNext \/ UNCHANGED vars
  <2>1. [Next]_vars
    BY <1>1, RestStep
  <2>. QED
    BY <1>0, <2>1, NextInv, TypeStep, CopiesStep
<1>2. ASSUME NEW p \in Posters, PostCommit(p)
      PROVE  Inv' /\ Grows /\ [Store!Next]_Copies
  <2>1. CASE UNCHANGED storeVars
    <3>1. UNCHANGED vars
      BY <1>2, <2>1 DEF PostCommit, storeVars, vars
    <3>2. [Next]_vars
      BY <3>1
    <3>. QED
      BY <1>0, <3>2, NextInv, TypeStep, CopiesStep
  <2>2. CASE ~UNCHANGED storeVars
    <3>1. /\ InsertSteps(poster[p].steps, DOMAIN poster[p].versions)
          /\ pdf' = Upsert(pdf, poster[p].pdfs)
          /\ UNCHANGED req
      BY <1>2, <2>2 DEF PostCommit
    <3>2. SignedAll(poster[p].steps, poster[p].pdfs)
      BY <3>1, PostedAll
    <3>. QED
      BY <1>0, <3>1, <3>2, SignedAllInv, SignedAllCopies
  <2>. QED
    BY <2>1, <2>2
<1>. QED
  BY <1>1, <1>2, OtherSteps

-----------------------------------------------------------------------------
(* The rows of sig_result *)

\* A new row.
NewRow(r) ==
  [ref |-> r, version |-> 0, created |-> "young", progress |-> "INIT", fault |-> FALSE,
   signature |-> "none", signed |-> None, out |-> None, conflict |-> FALSE]

\* What no step does to a row, and what becomes of its version.
RowMoves(t) ==
  /\ sig'[t].ref = sig[t].ref
  /\ sig[t].version <= sig'[t].version
  /\ sig'[t].version = sig[t].version =>
       /\ sig'[t].signature = sig[t].signature
       /\ sig'[t].out = sig[t].out
       /\ sig'[t].conflict = sig[t].conflict
  /\ sig[t].signature # "none" => sig'[t].signature = sig[t].signature
  /\ sig[t].out # None => sig'[t].out = sig[t].out /\ ~ sig'[t].conflict
  /\ sig[t].conflict => sig'[t].conflict

RowsMove ==
  /\ DOMAIN sig \subseteq DOMAIN sig' /\ DOMAIN sig' \subseteq Txs
  /\ sig' \in [DOMAIN sig' -> SigResult]
  /\ \A t \in DOMAIN sig : RowMoves(t)
  /\ \A t \in DOMAIN sig' \ DOMAIN sig : \E r \in DOMAIN pdf : sig'[t] = NewRow(r)

\* Its parts.
LEMMA NewRowType ==
  ASSUME NEW r \in Refs
  PROVE  /\ NewRow(r) \in SigResult
         /\ NewRow(r).ref = r /\ NewRow(r).version = 0 /\ NewRow(r).signature = "none"
         /\ NewRow(r).signed = None /\ NewRow(r).out = None /\ NewRow(r).conflict = FALSE
         /\ NewRow(r).fault = FALSE /\ NewRow(r).created = "young"
<1>1. NewRow(r) \in SigResult
  BY DEF NewRow, SigResult, Age, Progress
<1>. QED
  BY <1>1 DEF NewRow

\* A row as a commit saves it.
SavedRow(row, old) ==
  [row EXCEPT !.version = @ + 1, !.created = old.created,
              !.signed = IF old.signed = None THEN @ ELSE old.signed]

\* Its parts: of those that matter only version and age are new.
LEMMA SavedRowType ==
  ASSUME NEW row \in SigResult, NEW old \in SigResult
  PROVE  /\ SavedRow(row, old) \in SigResult
         /\ SavedRow(row, old).ref = row.ref
         /\ SavedRow(row, old).version = row.version + 1
         /\ SavedRow(row, old).progress = row.progress
         /\ SavedRow(row, old).signature = row.signature
         /\ SavedRow(row, old).out = row.out
         /\ SavedRow(row, old).conflict = row.conflict
         /\ SavedRow(row, old).signed = IF old.signed = None THEN row.signed ELSE old.signed
<1>1. PICK signed : signed = IF old.signed = None THEN row.signed ELSE old.signed
  OBVIOUS
<1>2. PICK n : n = [row EXCEPT !.version = row.version + 1, !.created = old.created,
                               !.signed = signed]
  OBVIOUS
<1>3. SavedRow(row, old) = n
  BY <1>1, <1>2 DEF SavedRow
<1>4. row.version + 1 \in Nat /\ old.created \in Age /\ signed \in Age \cup {None}
  BY <1>1 DEF SigResult
<1>5. n \in SigResult
  BY <1>2, <1>4 DEF SigResult
<1>6. /\ n.ref = row.ref /\ n.version = row.version + 1 /\ n.progress = row.progress
      /\ n.signature = row.signature /\ n.out = row.out /\ n.conflict = row.conflict
      /\ n.signed = signed
  BY <1>2 DEF SigResult
<1>. QED
  BY <1>1, <1>3, <1>5, <1>6

\* What holds of a row does not depend on what is stored later.
LEMMA RowSoundKept ==
  ASSUME Grows, NEW row, RowSound(row)
  PROVE  RowSound(row)'
BY DEF RowSound, Grows

\* The rows after the commit of a batch.
LEMMA SavedRows ==
  ASSUME DOMAIN sig \subseteq Txs, sig \in [DOMAIN sig -> SigResult], RowsSound, Grows,
         NEW b, BatchOK(b), RowsStand(b), sig' = Saved(b),
         \A t \in b.changed :
           /\ Loaded(t, b.rows[t]) /\ RowSound(b.rows[t])
           /\ sig[t].signature \in {"none", b.rows[t].signature}
  PROVE  RowsMove /\ RowsSound'
<1>1. DOMAIN sig' = DOMAIN sig /\ b.changed \subseteq DOMAIN sig
      /\ b.changed \subseteq DOMAIN b.rows
  BY DEF Saved, BatchOK
<1>2. ASSUME NEW t \in DOMAIN sig \ b.changed
      PROVE  sig'[t] \in SigResult /\ RowMoves(t) /\ RowSound(sig[t])'
  <2>1. sig'[t] = sig[t] /\ sig[t] \in SigResult
    BY <1>2 DEF Saved
  <2>2. PICK row \in SigResult : row = sig[t]
    BY <2>1
  <2>3. row.version \in Nat /\ (row.out # None => ~ row.conflict)
    BY <2>2 DEF SigResult, RowsSound, RowSound
  <2>4. RowSound(row)'
    BY <2>2, RowSoundKept DEF RowsSound
  <2>. QED
    BY <2>1, <2>2, <2>3, <2>4 DEF RowMoves, RowSound
<1>3. ASSUME NEW t \in b.changed
      PROVE  sig'[t] \in SigResult /\ RowMoves(t) /\ RowSound(sig[t])'
  <2>1. PICK row \in SigResult, old \in SigResult : row = b.rows[t] /\ old = sig[t]
    BY <1>1 DEF BatchOK
  <2>2. sig'[t] = SavedRow(row, old)
    BY <1>1, <2>1 DEF Saved, SavedRow
  <2>3. PICK n : n = sig'[t]
    OBVIOUS
  <2>4. /\ n \in SigResult /\ n.ref = row.ref /\ n.version = row.version + 1
        /\ n.progress = row.progress /\ n.signature = row.signature /\ n.out = row.out
        /\ n.conflict = row.conflict
        /\ n.signed = IF old.signed = None THEN row.signed ELSE old.signed
    BY <2>2, <2>3, SavedRowType
  <2>5. /\ row.version = old.version /\ row.ref = old.ref
        /\ old.out = None /\ ~ old.conflict /\ old.signature \in {"none", row.signature}
    BY <2>1 DEF RowsStand, Loaded
  <2>6. row.version \in Nat
    BY DEF SigResult
  <2>7. RowMoves(t)
    <3>1. old.version <= n.version /\ n.version # old.version
      BY <2>4, <2>5, <2>6
    <3>. QED
      BY <2>1, <2>3, <2>4, <2>5, <3>1 DEF RowMoves
  <2>8. RowSound(row)' /\ RowSound(old)
    BY <1>1, <2>1, RowSoundKept DEF RowsSound
  <2>9. RowSound(n)'
    BY <2>4, <2>5, <2>8 DEF RowSound
  <2>. QED
    BY <2>3, <2>4, <2>7, <2>9 DEF RowSound
<1>4. sig' = [t \in DOMAIN sig' |-> sig'[t]]
  BY DEF Saved
<1>5. sig' \in [DOMAIN sig' -> SigResult]
  <2>1. \A t \in DOMAIN sig' : sig'[t] \in SigResult
    BY <1>1, <1>2, <1>3
  <2>. QED
    BY <1>4, <2>1
<1>6. RowsSound'
  BY <1>1, <1>2, <1>3 DEF RowsSound
<1>. QED
  BY <1>1, <1>2, <1>3, <1>5, <1>6 DEF RowsMove

\* Growing older leads to an age.
LEMMA OlderType ==
  ASSUME NEW a \in Age
  PROVE  Older(a) \in Age /\ Older(a) # None
BY NoneIsNothing DEF Older, Age

\* Time changes neither a version nor an outcome.
LEMMA AgeRows ==
  ASSUME SigInv, Grows, NEW t \in Txs, GrowOlder(t)
  PROVE  RowsMove /\ RowsSound'
<1>0. DOMAIN sig \subseteq Txs /\ sig \in [DOMAIN sig -> SigResult] /\ RowsSound /\ t \in DOMAIN sig
  BY DEF SigInv, SigTypeOK, GrowOlder
<1>1. PICK old \in SigResult : old = sig[t]
  BY <1>0
<1>2. PICK n : sig' = [sig EXCEPT ![t] = n] /\
               \/ n = [old EXCEPT !.created = Older(old.created)]
               \/ /\ old.signed \in Age
                  /\ n = [old EXCEPT !.signed = Older(old.signed)]
  <2>1. CASE sig' = [sig EXCEPT ![t].created = Older(@)]
    <3>1. sig' = [sig EXCEPT ![t] = [old EXCEPT !.created = Older(old.created)]]
      BY <1>1, <2>1
    <3>. QED
      BY <3>1
  <2>2. CASE sig[t].signed \in {"young", "due"} /\ sig' = [sig EXCEPT ![t].signed = Older(@)]
    <3>1. sig' = [sig EXCEPT ![t] = [old EXCEPT !.signed = Older(old.signed)]]
      BY <1>1, <2>2
    <3>. QED
      BY <1>1, <2>2, <3>1 DEF Age
  <2>. QED
    BY <2>1, <2>2 DEF GrowOlder
<1>3. /\ n \in SigResult
      /\ n.ref = old.ref /\ n.version = old.version /\ n.progress = old.progress
      /\ n.signature = old.signature /\ n.out = old.out /\ n.conflict = old.conflict
      /\ n.signed = None <=> old.signed = None
  <2>1. CASE n = [old EXCEPT !.created = Older(old.created)]
    <3>1. Older(old.created) \in Age
      BY OlderType DEF SigResult
    <3>2. n \in SigResult
      BY <2>1, <3>1 DEF SigResult
    <3>. QED
      BY <2>1, <3>2 DEF SigResult
  <2>2. CASE old.signed \in Age /\ n = [old EXCEPT !.signed = Older(old.signed)]
    <3>1. Older(old.signed) \in Age /\ Older(old.signed) # None /\ old.signed # None
      BY <2>2, OlderType, NoneIsNothing DEF Age
    <3>2. n \in SigResult
      BY <2>2, <3>1 DEF SigResult
    <3>. QED
      BY <2>2, <3>1, <3>2 DEF SigResult
  <2>. QED
    BY <1>2, <2>1, <2>2
<1>4. DOMAIN sig' = DOMAIN sig /\ sig'[t] = n /\ \A x \in DOMAIN sig \ {t} : sig'[x] = sig[x]
  BY <1>0, <1>2
<1>5. sig' \in [DOMAIN sig' -> SigResult]
  BY <1>0, <1>2, <1>3
<1>6. \A x \in DOMAIN sig : RowSound(sig[x]) /\ RowSound(sig[x])'
  <2>1. ASSUME NEW x \in DOMAIN sig \ {t}
        PROVE  RowSound(sig[x])'
    <3>1. PICK row : row = sig[x]
      OBVIOUS
    <3>2. RowSound(row)'
      BY <1>0, <3>1, RowSoundKept DEF RowsSound
    <3>. QED
      BY <1>4, <3>1, <3>2 DEF RowSound
  <2>2. RowSound(sig[t])'
    <3>1. RowSound(old)'
      BY <1>0, <1>1, RowSoundKept DEF RowsSound
    <3>2. RowSound(n)'
      BY <1>3, <3>1 DEF RowSound
    <3>. QED
      BY <1>4, <3>2 DEF RowSound
  <2>. QED
    BY <1>0, <2>1, <2>2 DEF RowsSound
<1>7. ASSUME NEW x \in DOMAIN sig
      PROVE  RowMoves(x)
  <2>1. /\ sig'[x].ref = sig[x].ref /\ sig'[x].version = sig[x].version
        /\ sig'[x].signature = sig[x].signature /\ sig'[x].out = sig[x].out
        /\ sig'[x].conflict = sig[x].conflict
    BY <1>1, <1>3, <1>4
  <2>2. sig[x].version \in Nat
    BY <1>0 DEF SigResult
  <2>. QED
    BY <1>6, <2>1, <2>2 DEF RowMoves, RowSound
<1>. QED
  BY <1>0, <1>4, <1>5, <1>6, <1>7 DEF RowsMove, RowsSound

\* A new row.
LEMMA RequestRows ==
  ASSUME SigInv, Grows, NEW t \in Txs, SignatureRequest(t), sig' # sig
  PROVE  /\ RowsMove /\ RowsSound'
         /\ DOMAIN sig' = DOMAIN sig \cup {t}
<1>0. /\ DOMAIN sig \subseteq Txs /\ sig \in [DOMAIN sig -> SigResult] /\ RowsSound
      /\ StoreTypeOK
  BY DEF SigInv, SigTypeOK, Inv, TypeOK
<1>1. ask[t].ref \in DOMAIN pdf /\ t \notin DOMAIN sig
  BY DEF SignatureRequest, SigInv, AsksSound
<1>2. PICK r \in DOMAIN pdf : r = ask[t].ref
  BY <1>1
<1>3. r \in Refs /\ r \in DOMAIN pdf'
  BY <1>0 DEF StoreTypeOK, Grows
<1>4. sig' = Upsert(sig, Row(t, NewRow(r)))
  BY <1>2 DEF SignatureRequest, NewRow
<1>5. PICK n : n = NewRow(r)
  OBVIOUS
<1>6. /\ n \in SigResult /\ n.ref = r /\ n.signature = "none" /\ n.signed = None
      /\ n.out = None /\ n.conflict = FALSE
  BY <1>3, <1>5, NewRowType
<1>7. /\ DOMAIN sig' = DOMAIN sig \cup {t}
      /\ sig'[t] = n
      /\ \A x \in DOMAIN sig : sig'[x] = sig[x]
      /\ sig' = [x \in DOMAIN sig' |-> sig'[x]]
  BY <1>1, <1>4, <1>5 DEF Upsert, Row
<1>8. sig' \in [DOMAIN sig' -> SigResult]
  <2>1. \A x \in DOMAIN sig' : sig'[x] \in SigResult
    BY <1>0, <1>6, <1>7
  <2>. QED
    BY <1>7, <2>1
<1>9. ASSUME NEW x \in DOMAIN sig
      PROVE  RowMoves(x) /\ RowSound(sig[x])'
  <2>1. PICK row : row = sig[x]
    OBVIOUS
  <2>2. row.version \in Nat
    BY <1>0, <2>1 DEF SigResult
  <2>3. RowSound(row) /\ RowSound(row)'
    BY <1>0, <2>1, RowSoundKept DEF RowsSound
  <2>4. RowMoves(x)
    BY <1>7, <2>1, <2>2, <2>3 DEF RowMoves, RowSound
  <2>. QED
    BY <1>7, <2>1, <2>3, <2>4 DEF RowSound
<1>10. RowSound(sig[t])'
  BY <1>3, <1>6, <1>7 DEF RowSound
<1>. QED
  BY <1>0, <1>5, <1>7, <1>8, <1>9, <1>10 DEF RowsMove, RowsSound

\* A step that leaves the table alone.
LEMMA SameRows ==
  ASSUME SigInv, Grows, UNCHANGED sig
  PROVE  RowsMove /\ RowsSound'
<1>1. DOMAIN sig \subseteq Txs /\ sig \in [DOMAIN sig -> SigResult] /\ RowsSound
  BY DEF SigInv, SigTypeOK
<1>2. ASSUME NEW t \in DOMAIN sig
      PROVE  RowMoves(t) /\ RowSound(sig[t])'
  <2>1. PICK row : row = sig[t]
    OBVIOUS
  <2>2. row.version \in Nat /\ RowSound(row) /\ RowSound(row)'
    BY <1>1, <2>1, RowSoundKept DEF SigResult, RowsSound
  <2>. QED
    BY <2>1, <2>2 DEF RowMoves, RowSound
<1>. QED
  BY <1>1, <1>2 DEF RowsMove, RowsSound

\* The commit of CollectJob.
LEMMA CollectedRows ==
  ASSUME SigInv, Grows, NEW c \in Collectors, CollectCommit(c)
  PROVE  RowsMove /\ RowsSound'
<1>1. PICK b : b = collector[c]
  OBVIOUS
<1>2. CASE RowsStand(b) /\ sig' = Saved(b)
  <2>1. CollectedSound(b)
    BY <1>1 DEF SigInv
  <2>2. \A t \in b.changed : t \in DOMAIN b.rows /\ b.rows[t].version = sig[t].version
    BY <1>2, <2>1 DEF CollectedSound, BatchOK, RowsStand
  <2>3. \A t \in b.changed :
           /\ Loaded(t, b.rows[t]) /\ RowSound(b.rows[t])
           /\ sig[t].signature \in {"none", b.rows[t].signature}
    BY <2>1, <2>2 DEF CollectedSound
  <2>. QED
    BY <1>2, <2>1, <2>3, SavedRows DEF CollectedSound, SigInv, SigTypeOK
<1>. QED
  BY <1>1, <1>2, SameRows DEF CollectCommit

\* The commit of PostprocessJob.
LEMMA PostedRowsSaved ==
  ASSUME SigInv, Grows, NEW p \in Posters, PostCommit(p)
  PROVE  RowsMove /\ RowsSound'
<1>1. PICK b : b = poster[p]
  OBVIOUS
<1>2. CASE RowsStand(b) /\ sig' = Saved(b)
  <2>1. PostedRows(b) /\ BatchOK(b)
    BY <1>1 DEF SigInv, PostedSound
  <2>2. \A t \in b.changed : t \in DOMAIN b.rows /\ b.rows[t].version = sig[t].version
    BY <1>2, <2>1 DEF BatchOK, RowsStand
  <2>3. \A t \in b.changed :
           /\ Loaded(t, b.rows[t]) /\ RowSound(b.rows[t])
           /\ sig[t].signature \in {"none", b.rows[t].signature}
    BY <2>1, <2>2 DEF PostedRows
  <2>. QED
    BY <1>2, <2>1, <2>3, SavedRows DEF SigInv, SigTypeOK
<1>. QED
  BY <1>1, <1>2, SameRows DEF PostCommit, PostStands

\* In every step rows are made and finished, and never undone.
LEMMA RowsStep ==
  ASSUME SigInv, [SigNext]_allVars, Grows
  PROVE  RowsMove /\ RowsSound'
<1>1. CASE UNCHANGED sig
  BY <1>1, SameRows
<1>2. ASSUME NEW t \in Txs, \/ \E r \in Refs : SignCheck(t, r)
                            \/ DoSign(t)
                            \/ SignatureRequest(t)
                            \/ Outcome(t)
                            \/ GrowOlder(t)
      PROVE  RowsMove /\ RowsSound'
  BY <1>1, <1>2, AgeRows, RequestRows DEF SignCheck, DoSign, Outcome
<1>3. ASSUME NEW c \in Collectors, \/ CollectAll(c)
                                   \/ \E t \in Txs : Collect(c, t)
                                   \/ CollectFails(c)
                                   \/ CollectCommit(c)
      PROVE  RowsMove /\ RowsSound'
  BY <1>1, <1>3, CollectedRows DEF CollectAll, Collect, CollectFails
<1>4. ASSUME NEW p \in Posters, \/ SigPostProcessAll(p)
                                \/ \E t \in Txs : SigPostProcess(p, t)
                                \/ PostCount(p)
                                \/ PostAppend(p)
                                \/ PostCommit(p)
      PROVE  RowsMove /\ RowsSound'
  BY <1>1, <1>4, PostedRowsSaved DEF SigPostProcessAll, SigPostProcess, PostCount, PostAppend
<1>5. CASE UNCHANGED allVars \/ RestNext
  <2>1. UNCHANGED sig
    BY <1>5, RestStep DEF allVars, sigVars
  <2>. QED
    BY <1>1, <2>1
<1>. QED
  BY <1>2, <1>3, <1>4, <1>5 DEF SigNext

-----------------------------------------------------------------------------
(* Orders and requests for them *)

\* What is asked for one transaction id.
AskSound(t) ==
  /\ ask[t].pc \in {"order", "store"} => ask[t].ref \in DOMAIN pdf
  /\ ask[t].pc = "store" => order[t] # "none"
  /\ ask[t].pc \in {"new", "order", "store"} => t \notin DOMAIN sig
  /\ t \in DOMAIN sig => order[t] # "none"

AskTypes ==
  scheme \in Nat /\ ask \in [Txs -> Ask] /\ order \in [Txs -> Order]

\* The request for another one does not touch it.
LEMMA AskKept ==
  ASSUME SigInv, Grows, NEW t \in Txs, ask'[t] = ask[t], order'[t] = order[t],
         t \in DOMAIN sig' <=> t \in DOMAIN sig
  PROVE  AskSound(t)'
BY DEF SigInv, AsksSound, AskSound, Grows

\* The two parts that the steps of one transaction id may change.
LEMMA AskChanged ==
  ASSUME SigInv, Grows, NEW t \in Txs, NEW a \in Ask, NEW o \in Order,
         ask' = [ask EXCEPT ![t] = a], order' = [order EXCEPT ![t] = o], scheme' \in Nat,
         \A x \in Txs \ {t} : x \in DOMAIN sig' <=> x \in DOMAIN sig, AskSound(t)'
  PROVE  AskTypes' /\ AsksSound'
<1>1. ask \in [Txs -> Ask] /\ order \in [Txs -> Order]
  BY DEF SigInv, SigTypeOK
<1>2. \A x \in Txs \ {t} : ask'[x] = ask[x] /\ order'[x] = order[x]
  BY <1>1
<1>3. \A x \in Txs \ {t} : AskSound(x)'
  BY <1>2, AskKept
<1>. QED
  BY <1>1, <1>3 DEF AskTypes, AsksSound, AskSound

\* A step that leaves the orders alone.
LEMMA AskUnchanged ==
  ASSUME SigInv, Grows, UNCHANGED <<scheme, ask, order>>, DOMAIN sig' = DOMAIN sig
  PROVE  AskTypes' /\ AsksSound'
<1>1. \A x \in Txs : AskSound(x)'
  BY AskKept
<1>. QED
  BY <1>1 DEF SigInv, SigTypeOK, AskTypes, AsksSound, AskSound

\* Whatever is done, an order is stored only after it was placed.
LEMMA AsksStep ==
  ASSUME SigInv, [SigNext]_allVars, Grows
  PROVE  AskTypes' /\ AsksSound'
<1>0. /\ ask \in [Txs -> Ask] /\ order \in [Txs -> Order] /\ scheme \in Nat
      /\ StoreTypeOK
      /\ \A t \in Txs : AskSound(t)
  BY DEF SigInv, SigTypeOK, Inv, TypeOK, AsksSound, AskSound
<1>1. ASSUME NEW t \in Txs, NEW r \in Refs, SignCheck(t, r)
      PROVE  AskTypes' /\ AsksSound'
  <2>1. PICK a : a = [pc |-> "order", ref |-> r, version |-> scheme]
    OBVIOUS
  <2>2. ask' = [ask EXCEPT ![t] = a] /\ UNCHANGED <<order, sig, scheme, pdf>>
    BY <1>1, <2>1 DEF SignCheck, vars
  <2>3. a \in Ask
    BY <1>0, <2>1 DEF Ask
  <2>4. order[t] \in Order /\ order' = [order EXCEPT ![t] = order[t]]
    BY <1>0, <2>2
  <2>5. ask'[t].pc = "order" /\ ask'[t].ref = r
    BY <1>0, <2>1, <2>2
  <2>6. r \in DOMAIN pdf /\ t \notin DOMAIN sig
    BY <1>0, <1>1 DEF SignCheck, PdfFoundByRef, AskSound
  <2>7. AskSound(t)'
    BY <2>2, <2>5, <2>6 DEF AskSound
  <2>. QED
    BY <1>0, <2>2, <2>3, <2>4, <2>7, AskChanged
<1>2. ASSUME NEW t \in Txs, DoSign(t)
      PROVE  AskTypes' /\ AsksSound'
  <2>1. UNCHANGED <<sig, scheme, pdf>> /\ ask[t].pc = "order" /\ t \notin DOMAIN sig
    BY <1>0, <1>2 DEF DoSign, vars, AskSound
  <2>2. CASE /\ order' = [order EXCEPT ![t] = "OUTSTANDING_TRANSACTION"]
             /\ ask' = [ask EXCEPT ![t].pc = "store"]
    <3>1. PICK a : a = [ask[t] EXCEPT !.pc = "store"]
      OBVIOUS
    <3>2. a \in Ask /\ a.pc = "store" /\ a.ref = ask[t].ref
      BY <1>0, <3>1 DEF Ask
    <3>3. ask' = [ask EXCEPT ![t] = a]
      BY <2>2, <3>1
    <3>4. ask'[t] = a /\ order'[t] = "OUTSTANDING_TRANSACTION"
      BY <1>0, <2>2, <3>3
    <3>5. a.ref \in DOMAIN pdf
      BY <1>0, <2>1, <3>2 DEF AskSound
    <3>6. AskSound(t)'
      BY <2>1, <3>2, <3>4, <3>5 DEF AskSound
    <3>. QED
      BY <1>0, <2>1, <2>2, <3>2, <3>3, <3>6, AskChanged DEF Order
  <2>3. CASE ask' = [ask EXCEPT ![t] = Ended("failed")] /\ UNCHANGED order
    <3>1. Ended("failed") \in Ask /\ Ended("failed").pc = "failed"
      BY DEF Ended, Ask
    <3>2. ask'[t].pc = "failed"
      BY <1>0, <2>3, <3>1
    <3>3. order[t] \in Order /\ order' = [order EXCEPT ![t] = order[t]]
      BY <1>0, <2>3
    <3>4. AskSound(t)'
      BY <2>1, <3>2 DEF AskSound
    <3>. QED
      BY <1>0, <2>1, <2>3, <3>1, <3>3, <3>4, AskChanged
  <2>. QED
    BY <1>2, <2>2, <2>3 DEF DoSign
<1>3. ASSUME NEW t \in Txs, SignatureRequest(t)
      PROVE  AskTypes' /\ AsksSound'
  <2>1. /\ UNCHANGED <<order, pdf>> /\ ask[t].pc = "store" /\ t \notin DOMAIN sig
        /\ order[t] # "none"
    BY <1>0, <1>3 DEF SignatureRequest, vars, AskSound
  <2>2. PICK pc \in {"stored", "failed"} : ask' = [ask EXCEPT ![t] = Ended(pc)]
    BY <1>3 DEF SignatureRequest
  <2>3. Ended(pc) \in Ask /\ Ended(pc).pc = pc
    BY <2>2 DEF Ended, Ask
  <2>4. ask'[t].pc = pc
    BY <1>0, <2>2, <2>3
  <2>5. scheme' \in Nat
    BY <1>0, <1>3 DEF SignatureRequest
  <2>6. \A x \in Txs \ {t} : x \in DOMAIN sig' <=> x \in DOMAIN sig
    <3>1. CASE sig' = sig
      BY <3>1
    <3>2. CASE sig' # sig
      BY <1>3, <3>2, RequestRows
    <3>. QED
      BY <3>1, <3>2
  <2>7. order[t] \in Order /\ order' = [order EXCEPT ![t] = order[t]]
    BY <1>0, <2>1
  <2>8. AskSound(t)'
    BY <2>1, <2>2, <2>4 DEF AskSound
  <2>. QED
    BY <2>2, <2>3, <2>5, <2>6, <2>7, <2>8, AskChanged
<1>4. ASSUME NEW t \in Txs, Outcome(t)
      PROVE  AskTypes' /\ AsksSound'
  <2>1. UNCHANGED <<ask, scheme, sig, pdf>>
    BY <1>4 DEF Outcome, vars
  <2>2. PICK o \in Order \ {"none"} : order' = [order EXCEPT ![t] = o]
    BY <1>4 DEF Outcome, Order
  <2>3. ask[t] \in Ask /\ ask' = [ask EXCEPT ![t] = ask[t]]
    BY <1>0, <2>1
  <2>4. order'[t] = o
    BY <1>0, <2>2
  <2>5. AskSound(t)'
    BY <1>0, <2>1, <2>2, <2>4 DEF AskSound
  <2>. QED
    BY <1>0, <2>1, <2>2, <2>3, <2>5, AskChanged
<1>5. CASE UNCHANGED <<scheme, ask, order>> /\ DOMAIN sig' = DOMAIN sig
  BY <1>5, AskUnchanged
<1>6. ASSUME NEW t \in Txs, GrowOlder(t)
      PROVE  UNCHANGED <<scheme, ask, order>> /\ DOMAIN sig' = DOMAIN sig
  BY <1>6 DEF GrowOlder, SigInv, SigTypeOK
<1>7. ASSUME NEW c \in Collectors, \/ CollectAll(c)
                                   \/ \E t \in Txs : Collect(c, t)
                                   \/ CollectFails(c)
                                   \/ CollectCommit(c)
      PROVE  UNCHANGED <<scheme, ask, order>> /\ DOMAIN sig' = DOMAIN sig
  BY <1>7 DEF CollectAll, Collect, CollectFails, CollectCommit, Saved
<1>8. ASSUME NEW p \in Posters, \/ SigPostProcessAll(p)
                                \/ \E t \in Txs : SigPostProcess(p, t)
                                \/ PostCount(p)
                                \/ PostAppend(p)
                                \/ PostCommit(p)
      PROVE  UNCHANGED <<scheme, ask, order>> /\ DOMAIN sig' = DOMAIN sig
  BY <1>8 DEF SigPostProcessAll, SigPostProcess, PostCount, PostAppend, PostCommit, Saved
<1>9. CASE UNCHANGED allVars \/ RestNext
  <2>1. UNCHANGED <<scheme, ask, order, sig>>
    BY <1>9, RestStep DEF allVars, sigVars
  <2>. QED
    BY <1>5, <2>1
<1>. QED
  BY <1>1, <1>2, <1>3, <1>4, <1>5, <1>6, <1>7, <1>8, <1>9 DEF SigNext

-----------------------------------------------------------------------------
(* Runs of CollectJob *)

\* What a run has loaded stays sound while others commit.
LEMMA LoadedKept ==
  ASSUME SigInv, RowsMove, NEW t \in DOMAIN sig, NEW row \in SigResult, Loaded(t, row)
  PROVE  /\ Loaded(t, row)'
         /\ (row.version = sig[t].version)' =>
              row.version = sig[t].version /\ sig'[t].signature = sig[t].signature
<1>1. PICK old \in SigResult, n \in SigResult : old = sig[t] /\ n = sig'[t]
  BY DEF SigInv, SigTypeOK, RowsMove
<1>2. row.version \in Nat /\ old.version \in Nat /\ n.version \in Nat
  BY DEF SigResult
<1>3. row.version <= old.version /\ old.version <= n.version
  BY <1>1 DEF Loaded, RowsMove, RowMoves
<1>4. row.version <= n.version /\ (row.version = n.version => row.version = old.version)
  BY <1>2, <1>3
<1>. QED
  BY <1>1, <1>4 DEF Loaded, RowsMove, RowMoves

\* The rows of a run stay rows of the table.
LEMMA BatchKept ==
  ASSUME RowsMove, NEW b, BatchOK(b)
  PROVE  BatchOK(b)'
BY DEF RowsMove, BatchOK

\* What a run of CollectJob knows stays true while others commit.
LEMMA CollectedKept ==
  ASSUME SigInv, RowsMove, Grows, NEW b, CollectedSound(b)
  PROVE  CollectedSound(b)'
<1>1. BatchOK(b) /\ BatchOK(b)'
  BY BatchKept DEF CollectedSound
<1>2. ASSUME NEW t \in DOMAIN b.rows
      PROVE  (/\ Loaded(t, b.rows[t]) /\ RowSound(b.rows[t])
              /\ b.rows[t].out = None /\ ~ b.rows[t].conflict
              /\ b.rows[t].version = sig[t].version => sig[t].signature = "none"
              /\ t \in b.todo => b.rows[t].signature = "none")'
  <2>1. PICK row \in SigResult : row = b.rows[t]
    BY <1>1 DEF BatchOK
  <2>2. t \in DOMAIN sig
    BY <1>1 DEF BatchOK
  <2>3. /\ Loaded(t, row) /\ RowSound(row)
        /\ row.out = None /\ ~ row.conflict
        /\ row.version = sig[t].version => sig[t].signature = "none"
        /\ t \in b.todo => row.signature = "none"
    BY <2>1 DEF CollectedSound
  <2>4. Loaded(t, row)' /\ RowSound(row)'
    BY <2>2, <2>3, LoadedKept, RowSoundKept
  <2>5. (row.version = sig[t].version)' => sig'[t].signature = "none"
    BY <2>2, <2>3, LoadedKept
  <2>. QED
    BY <2>1, <2>3, <2>4, <2>5
<1>. QED
  BY <1>1, <1>2 DEF CollectedSound

CollectorFields == {"todo", "rows", "changed", "pc"}

CollectorsSound ==
  /\ DOMAIN collector = Collectors
  /\ \A c \in Collectors : DOMAIN collector[c] = CollectorFields /\ CollectedSound(collector[c])

\* A run changes its own state only.
LEMMA CollectorChanged ==
  ASSUME SigInv, RowsMove, Grows, NEW c \in Collectors, NEW b,
         collector' = [collector EXCEPT ![c] = b], DOMAIN b = CollectorFields, CollectedSound(b)'
  PROVE  CollectorsSound'
<1>1. DOMAIN collector = Collectors
  BY DEF SigInv, Shapes
<1>2. DOMAIN collector' = Collectors /\ collector'[c] = b
  BY <1>1
<1>3. ASSUME NEW x \in Collectors \ {c}
      PROVE  DOMAIN collector'[x] = CollectorFields /\ CollectedSound(collector[x])'
  <2>1. PICK a : a = collector[x]
    OBVIOUS
  <2>2. collector'[x] = a
    BY <1>1, <2>1
  <2>3. CollectedSound(a) /\ DOMAIN a = CollectorFields
    BY <2>1 DEF SigInv, Shapes, CollectorFields
  <2>4. CollectedSound(a)'
    BY <2>3, CollectedKept
  <2>. QED
    BY <2>2, <2>3, <2>4
<1>4. CollectedSound(collector[c])'
  BY <1>2
<1>. QED
  BY <1>2, <1>3, <1>4 DEF CollectorsSound

\* Steps of others.
LEMMA CollectorsUnchanged ==
  ASSUME SigInv, RowsMove, Grows, UNCHANGED collector
  PROVE  CollectorsSound'
<1>1. ASSUME NEW x \in Collectors
      PROVE  DOMAIN collector'[x] = CollectorFields /\ CollectedSound(collector[x])'
  <2>1. PICK a : a = collector[x]
    OBVIOUS
  <2>2. CollectedSound(a) /\ DOMAIN a = CollectorFields
    BY <2>1 DEF SigInv, Shapes, CollectorFields
  <2>3. CollectedSound(a)'
    BY <2>2, CollectedKept
  <2>. QED
    BY <2>1, <2>2, <2>3
<1>. QED
  BY <1>1 DEF CollectorsSound, SigInv, Shapes

\* A run that has not begun knows nothing.
LEMMA NoBatchSound == CollectedSound(NoBatch) /\ DOMAIN NoBatch = CollectorFields
<1>1. NoBatch.todo = {} /\ NoBatch.changed = {} /\ DOMAIN NoBatch.rows = {}
      /\ NoBatch.rows = [x \in {} |-> None]
  BY DEF NoBatch, Empty
<1>2. BatchOK(NoBatch)
  BY <1>1 DEF BatchOK
<1>. QED
  BY <1>1, <1>2 DEF CollectedSound, NoBatch, CollectorFields

\* What the service answers makes a sound row of one without a signature.
LEMMA CollectedRow ==
  ASSUME NEW row \in SigResult, NEW o \in Order \ {"none"}, RowSound(row),
         row.signature = "none", row.out = None, ~ row.conflict
  PROVE  LET n == Collected(row, o) IN
         /\ n \in SigResult /\ RowSound(n)
         /\ n.out = None /\ ~ n.conflict
         /\ n.ref = row.ref /\ n.version = row.version
<1>1. PICK n : n = Collected(row, o)
  OBVIOUS
<1>2. CASE o = "fault"
  <2>1. n = [row EXCEPT !.fault = TRUE]
    BY <1>1, <1>2 DEF Collected
  <2>2. n \in SigResult
    BY <2>1 DEF SigResult
  <2>3. n.signature = row.signature /\ n.signed = row.signed /\ n.progress = row.progress
        /\ n.out = row.out /\ n.conflict = row.conflict /\ n.ref = row.ref
        /\ n.version = row.version
    BY <2>1 DEF SigResult
  <2>. QED
    BY <1>1, <2>2, <2>3 DEF RowSound
<1>3. CASE o \in {"COMPLETE", "garbled"}
  <2>1. PICK s \in {"good", "garbled"} :
          n = [row EXCEPT !.progress = "COMPLETE", !.signature = s, !.signed = "young"]
    BY <1>1, <1>3 DEF Collected
  <2>2. n \in SigResult
    BY <2>1 DEF SigResult, Progress, Age
  <2>3. n.signature = s /\ n.signed = "young" /\ n.progress = "COMPLETE"
        /\ n.out = row.out /\ n.conflict = row.conflict /\ n.ref = row.ref
        /\ n.version = row.version
    BY <2>1 DEF SigResult
  <2>. QED
    BY <1>1, <2>1, <2>2, <2>3, NoneIsNothing DEF RowSound
<1>4. CASE o \in {"OUTSTANDING_TRANSACTION", "OTHER"}
  <2>1. n = [row EXCEPT !.progress = o]
    BY <1>1, <1>4 DEF Collected
  <2>2. n \in SigResult
    BY <1>4, <2>1 DEF SigResult, Progress
  <2>3. n.signature = row.signature /\ n.signed = row.signed
        /\ n.out = row.out /\ n.conflict = row.conflict /\ n.ref = row.ref
        /\ n.version = row.version
    BY <2>1 DEF SigResult
  <2>. QED
    BY <1>1, <2>2, <2>3 DEF RowSound
<1>. QED
  BY <1>2, <1>3, <1>4 DEF Order

\* Whatever is done, the runs of CollectJob stay sound.
LEMMA CollectorsStep ==
  ASSUME SigInv, [SigNext]_allVars, RowsMove, Grows
  PROVE  CollectorsSound'
<1>0. /\ StoreTypeOK /\ RowsSound
      /\ DOMAIN sig \subseteq Txs /\ sig \in [DOMAIN sig -> SigResult]
      /\ order \in [Txs -> Order]
      /\ \A t \in DOMAIN sig : order[t] # "none" /\ sig[t].version \in Nat
      /\ DOMAIN collector = Collectors
      /\ \A c \in Collectors : CollectedSound(collector[c]) /\ DOMAIN collector[c] = CollectorFields
  BY DEF SigInv, SigTypeOK, Inv, TypeOK, AsksSound, Shapes, SigResult, CollectorFields
<1>1. ASSUME NEW c \in Collectors, CollectAll(c)
      PROVE  CollectorsSound'
  <2>1. PICK old : old = collector[c]
    OBVIOUS
  <2>2. PICK b : b = [old EXCEPT !.pc = "run", !.todo = CollectCandidates,
                                 !.rows = [t \in CollectCandidates |-> sig[t]]]
    OBVIOUS
  <2>3. collector' = [collector EXCEPT ![c] = b]
    BY <1>1, <2>1, <2>2 DEF CollectAll
  <2>4. DOMAIN b = CollectorFields /\ b.pc = "run" /\ b.todo = CollectCandidates
        /\ b.changed = old.changed /\ b.rows = [t \in CollectCandidates |-> sig[t]]
    BY <1>0, <2>1, <2>2 DEF CollectorFields
  <2>5. old.changed = {}
    BY <1>0, <1>1, <2>1 DEF CollectAll, CollectedSound
  <2>6. CollectCandidates \subseteq DOMAIN sig
    BY DEF CollectCandidates
  <2>7. BatchOK(b)
    BY <1>0, <2>4, <2>5, <2>6 DEF BatchOK
  <2>8. ASSUME NEW t \in CollectCandidates
        PROVE  /\ Loaded(t, b.rows[t]) /\ RowSound(b.rows[t])
               /\ b.rows[t].signature = "none"
               /\ b.rows[t].out = None /\ ~ b.rows[t].conflict
               /\ b.rows[t].version = sig[t].version => sig[t].signature = "none"
    <3>1. PICK row \in SigResult : row = sig[t]
      BY <1>0, <2>6
    <3>2. b.rows[t] = row /\ RowSound(row) /\ row.version \in Nat
      BY <1>0, <2>4, <2>6, <3>1 DEF RowsSound, SigResult
    <3>3. row.progress # "COMPLETE"
      BY <3>1 DEF CollectCandidates, Active
    <3>4. row.signature = "none" /\ row.out = None /\ ~ row.conflict
      BY <3>2, <3>3 DEF RowSound
    <3>. QED
      BY <3>1, <3>2, <3>4 DEF Loaded
  <2>9. CollectedSound(b)
    BY <2>4, <2>7, <2>8 DEF CollectedSound
  <2>10. CollectedSound(b)'
    BY <2>9, CollectedKept
  <2>. QED
    BY <2>3, <2>4, <2>10, CollectorChanged
<1>2. ASSUME NEW c \in Collectors, NEW t \in Txs, Collect(c, t)
      PROVE  CollectorsSound'
  <2>1. PICK old : old = collector[c]
    OBVIOUS
  <2>2. CollectedSound(old) /\ DOMAIN old = CollectorFields /\ t \in old.todo /\ old.pc = "run"
    BY <1>0, <1>2, <2>1 DEF Collect
  <2>3. PICK row : row = Collected(old.rows[t], order[t])
    OBVIOUS
  <2>4. PICK changed : changed = IF row = old.rows[t] THEN old.changed ELSE old.changed \cup {t}
    OBVIOUS
  <2>5. PICK rows : rows = [old.rows EXCEPT ![t] = row]
    OBVIOUS
  <2>6. PICK b : b = [old EXCEPT !.todo = old.todo \ {t}, !.rows = rows, !.changed = changed]
    OBVIOUS
  <2>7. collector' = [collector EXCEPT ![c] = b]
    <3>1. collector' = [collector EXCEPT ![c] =
            [old EXCEPT !.todo = @ \ {t}, !.rows[t] = row,
                        !.changed = IF row = old.rows[t] THEN @ ELSE @ \cup {t}]]
      BY <1>2, <2>1, <2>3 DEF Collect
    <3>2. [old EXCEPT !.todo = @ \ {t}, !.rows[t] = row,
                      !.changed = IF row = old.rows[t] THEN @ ELSE @ \cup {t}] = b
      BY <2>2, <2>4, <2>5, <2>6 DEF CollectorFields
    <3>. QED
      BY <3>1, <3>2
  <2>8. /\ DOMAIN b = CollectorFields /\ b.pc = "run" /\ b.todo = old.todo \ {t}
        /\ b.changed = changed /\ b.rows = rows
    BY <2>2, <2>6 DEF CollectorFields
  <2>9. BatchOK(old)
    BY <2>2 DEF CollectedSound
  <2>10. /\ t \in DOMAIN old.rows /\ t \in DOMAIN sig /\ old.rows[t] \in SigResult
         /\ RowSound(old.rows[t]) /\ old.rows[t].signature = "none"
         /\ old.rows[t].out = None /\ ~ old.rows[t].conflict /\ Loaded(t, old.rows[t])
    BY <2>2, <2>9 DEF BatchOK, CollectedSound
  <2>11. order[t] \in Order \ {"none"}
    BY <1>0, <2>10
  <2>12. /\ row \in SigResult /\ RowSound(row) /\ row.out = None /\ ~ row.conflict
         /\ row.ref = old.rows[t].ref /\ row.version = old.rows[t].version
    BY <2>3, <2>10, <2>11, CollectedRow
  <2>13. DOMAIN rows = DOMAIN old.rows /\ rows[t] = row
         /\ \A x \in DOMAIN old.rows \ {t} : rows[x] = old.rows[x]
    BY <2>5, <2>10
  <2>14. BatchOK(b)
    <3>1. rows \in [DOMAIN rows -> SigResult]
      BY <2>5, <2>9, <2>12 DEF BatchOK
    <3>2. changed \subseteq DOMAIN rows \ (old.todo \ {t})
      BY <2>4, <2>9, <2>10, <2>13 DEF BatchOK
    <3>. QED
      BY <2>8, <2>9, <2>13, <3>1, <3>2 DEF BatchOK
  <2>15. ASSUME NEW x \in DOMAIN rows
         PROVE  /\ Loaded(x, rows[x]) /\ RowSound(rows[x])
                /\ rows[x].out = None /\ ~ rows[x].conflict
                /\ rows[x].version = sig[x].version => sig[x].signature = "none"
                /\ x \in b.todo => rows[x].signature = "none"
    <3>1. CASE x = t
      <4>1. Loaded(t, row)
        BY <2>10, <2>12 DEF Loaded
      <4>2. row.version = sig[t].version => sig[t].signature = "none"
        BY <2>2, <2>10, <2>12 DEF CollectedSound
      <4>. QED
        BY <2>8, <2>12, <2>13, <3>1, <4>1, <4>2
    <3>2. CASE x # t
      BY <2>2, <2>8, <2>13, <3>2 DEF CollectedSound
    <3>. QED
      BY <3>1, <3>2
  <2>16. CollectedSound(b)
    BY <2>8, <2>14, <2>15 DEF CollectedSound
  <2>17. CollectedSound(b)'
    BY <2>16, CollectedKept
  <2>. QED
    BY <2>7, <2>8, <2>17, CollectorChanged
<1>3. ASSUME NEW c \in Collectors, CollectFails(c) \/ CollectCommit(c)
      PROVE  CollectorsSound'
  <2>1. collector' = [collector EXCEPT ![c] = NoBatch]
    BY <1>3 DEF CollectFails, CollectCommit
  <2>2. CollectedSound(NoBatch)'
    BY NoBatchSound, CollectedKept
  <2>. QED
    BY <2>1, <2>2, NoBatchSound, CollectorChanged
<1>4. CASE UNCHANGED collector
  BY <1>4, CollectorsUnchanged
<1>5. ASSUME NEW t \in Txs, \/ \E r \in Refs : SignCheck(t, r)
                            \/ DoSign(t)
                            \/ SignatureRequest(t)
                            \/ Outcome(t)
                            \/ GrowOlder(t)
      PROVE  UNCHANGED collector
  BY <1>5 DEF SignCheck, DoSign, SignatureRequest, Outcome, GrowOlder
<1>6. ASSUME NEW p \in Posters, \/ SigPostProcessAll(p)
                                \/ \E t \in Txs : SigPostProcess(p, t)
                                \/ PostCount(p)
                                \/ PostAppend(p)
                                \/ PostCommit(p)
      PROVE  UNCHANGED collector
  BY <1>6 DEF SigPostProcessAll, SigPostProcess, PostCount, PostAppend, PostCommit
<1>7. CASE UNCHANGED allVars \/ RestNext
  <2>1. UNCHANGED collector
    BY <1>7, RestStep DEF allVars, sigVars
  <2>. QED
    BY <1>4, <2>1
<1>. QED
  BY <1>1, <1>2, <1>3, <1>4, <1>5, <1>6, <1>7 DEF SigNext

-----------------------------------------------------------------------------
(* Runs of PostprocessJob *)

\* A step that may be numbered so now may be later: the number is above that of
\* the step it signs and not above the count.
LEMMA NumberKept ==
  ASSUME StoreTypeOK, StoreTypeOK', Grows, NEW base \in DOMAIN pdf, NEW n \in Nat,
         docStep[base].step < n, n <= StepCount(docStep[base].doc)
  PROVE  /\ (docStep[base].step < n)'
         /\ (n <= StepCount(docStep[base].doc))'
<1>1. docStep'[base] = docStep[base]
  BY DEF StoreTypeOK, Grows
<1>2. PICK d : d = docStep[base].doc
  OBVIOUS
<1>3. StepCount(d) <= StepCount(d)'
  BY CountGrows
<1>4. StepCount(d) \in Nat /\ StepCount(d)' \in Nat
  <2>1. StepsOf(d)' \subseteq Refs
    BY DEF StoreTypeOK, StepsOf
  <2>. QED
    BY <2>1, StepsFinite, RefsFinite, FS_Subset, FS_CardinalityType DEF StepCount
<1>5. n <= StepCount(d)'
  BY <1>2, <1>3, <1>4
<1>. QED
  BY <1>1, <1>2, <1>5

\* The step that is to be inserted is still right.
LEMMA StepForKept ==
  ASSUME StoreTypeOK, StoreTypeOK', Grows, NEW b, NEW t, NEW r, b.rows[t].ref \in DOMAIN pdf,
         StepFor(b, t, r)
  PROVE  StepFor(b, t, r)'
<1>1. PICK base \in DOMAIN pdf : base = b.rows[t].ref
  OBVIOUS
<1>2. PICK n : n = b.steps[r].step
  OBVIOUS
<1>3. docStep'[base] = docStep[base] /\ pdf'[base] = pdf[base]
  BY DEF StoreTypeOK, Grows
<1>4. SignedStep(base, n)' = SignedStep(base, n) /\ SignedContents(base, t)' = SignedContents(base, t)
  BY <1>3 DEF SignedStep, SignedContents
<1>5. /\ r \in DOMAIN b.steps
      /\ n \in Nat
      /\ docStep[base].step < n
      /\ n <= StepCount(docStep[base].doc)
      /\ b.steps[r] = SignedStep(base, n)
      /\ b.pdfs[r] = SignedContents(base, t)
  BY <1>1, <1>2 DEF StepFor
<1>6. (docStep[base].step < n)' /\ (n <= StepCount(docStep[base].doc))'
  BY <1>5, NumberKept
<1>. QED
  BY <1>1, <1>2, <1>4, <1>5, <1>6 DEF StepFor

\* The rows of a run of PostprocessJob stay sound while others commit.
LEMMA PostedRowsKept ==
  ASSUME SigInv, RowsMove, Grows, NEW b, BatchOK(b), PostedRows(b)
  PROVE  PostedRows(b)'
<1>1. ASSUME NEW t \in DOMAIN b.rows
      PROVE  (/\ Loaded(t, b.rows[t]) /\ RowSound(b.rows[t])
              /\ b.rows[t].signature # "none"
              /\ b.rows[t].version = sig[t].version => sig[t].signature = b.rows[t].signature
              /\ t \notin b.changed => b.rows[t].out = None /\ ~ b.rows[t].conflict)'
  <2>1. PICK row \in SigResult : row = b.rows[t]
    BY DEF BatchOK
  <2>2. t \in DOMAIN sig
    BY DEF BatchOK
  <2>3. /\ Loaded(t, row) /\ RowSound(row)
        /\ row.signature # "none"
        /\ row.version = sig[t].version => sig[t].signature = row.signature
        /\ t \notin b.changed => row.out = None /\ ~ row.conflict
    BY <2>1 DEF PostedRows
  <2>4. Loaded(t, row)' /\ RowSound(row)'
    BY <2>2, <2>3, LoadedKept, RowSoundKept
  <2>5. (row.version = sig[t].version)' => sig'[t].signature = row.signature
    BY <2>2, <2>3, LoadedKept
  <2>. QED
    BY <2>1, <2>3, <2>4, <2>5
<1>. QED
  BY <1>1 DEF PostedRows

\* So do the steps it is about to insert.
LEMMA PostedStepsKept ==
  ASSUME StoreTypeOK, StoreTypeOK', Grows, NEW b, BatchOK(b), PostedRows(b), PostedSteps(b),
         DOMAIN b.steps \cap DOMAIN docStep' = {}
  PROVE  PostedSteps(b)'
<1>1. ASSUME NEW t \in b.changed, b.rows[t].out # None
      PROVE  StepFor(b, t, b.rows[t].out)'
  <2>1. b.rows[t].ref \in DOMAIN pdf
    BY DEF PostedRows, RowSound, BatchOK
  <2>2. PICK r : r = b.rows[t].out
    OBVIOUS
  <2>3. StepFor(b, t, r)
    BY <1>1, <2>2 DEF PostedSteps
  <2>4. StepFor(b, t, r)'
    BY <2>1, <2>3, StepForKept
  <2>. QED
    BY <2>2, <2>4
<1>2. /\ DOMAIN b.steps \subseteq Refs \ DOMAIN docStep'
      /\ DOMAIN b.pdfs = DOMAIN b.steps
      /\ \A r \in DOMAIN b.steps : \E t \in b.changed : b.rows[t].out = r
  BY DEF PostedSteps
<1>. QED
  BY <1>1, <1>2 DEF PostedSteps

\* So does its count.
LEMMA CountKept ==
  ASSUME StoreTypeOK, StoreTypeOK', Grows, NEW b, PostedRows(b), b.tx \in DOMAIN b.rows,
         CountSound(b)
  PROVE  CountSound(b)'
<1>1. CASE b.pc # "append"
  BY <1>1 DEF CountSound
<1>2. CASE b.pc = "append"
  <2>1. PICK base \in DOMAIN pdf : base = b.rows[b.tx].ref
    BY DEF PostedRows, RowSound
  <2>2. PICK n : n = b.count
    OBVIOUS
  <2>3. n \in Nat /\ docStep[base].step < n /\ n <= StepCount(docStep[base].doc)
    BY <1>2, <2>1, <2>2 DEF CountSound
  <2>4. (docStep[base].step < n)' /\ (n <= StepCount(docStep[base].doc))'
    BY <2>3, NumberKept
  <2>. QED
    BY <2>1, <2>2, <2>3, <2>4 DEF CountSound
<1>. QED
  BY <1>1, <1>2

\* What a run knows stays true while others commit, if they leave it the steps that
\* it is about to insert.
LEMMA PostedKept ==
  ASSUME SigInv, RowsMove, Grows, StoreTypeOK', NEW b, PostedSound(b),
         DOMAIN b.steps \cap DOMAIN docStep' = {}
  PROVE  PostedSound(b)'
<1>0. StoreTypeOK
  BY DEF SigInv, Inv, TypeOK
<1>1. BatchOK(b) /\ PostedRows(b) /\ PostedSteps(b) /\ CountSound(b)
  BY DEF PostedSound
<1>2. BatchOK(b)' /\ PostedRows(b)' /\ PostedSteps(b)'
  BY <1>0, <1>1, BatchKept, PostedRowsKept, PostedStepsKept
<1>3. CountSound(b)'
  <2>1. CASE b.pc # "append"
    BY <2>1 DEF CountSound
  <2>2. CASE b.pc = "append"
    <3>1. b.tx \in DOMAIN b.rows
      BY <1>1, <2>2 DEF PostedSound, BatchOK
    <3>. QED
      BY <1>0, <1>1, <3>1, CountKept
  <2>. QED
    BY <2>1, <2>2
<1>. QED
  BY <1>2, <1>3 DEF PostedSound

PosterFields ==
  {"todo", "rows", "changed", "pc", "tx", "count", "steps", "pdfs", "versions", "rollbackOnly"}

PostersSound ==
  /\ DOMAIN poster = Posters
  /\ \A p \in Posters : DOMAIN poster[p] = PosterFields /\ PostedSound(poster[p])
  /\ PendingApart

\* A run changes its own state only.
LEMMA PosterChanged ==
  ASSUME SigInv, RowsMove, Grows, StoreTypeOK', NEW p \in Posters, NEW b,
         poster' = [poster EXCEPT ![p] = b], DOMAIN b = PosterFields, PostedSound(b)',
         \A x \in Posters \ {p} : DOMAIN poster[x].steps \cap DOMAIN docStep' = {},
         \A x \in Posters \ {p} : DOMAIN poster[x].steps \cap DOMAIN b.steps = {}
  PROVE  PostersSound'
<1>1. DOMAIN poster = Posters /\ PendingApart
  BY DEF SigInv, Shapes
<1>2. DOMAIN poster' = Posters /\ poster'[p] = b
      /\ \A x \in Posters \ {p} : poster'[x] = poster[x]
  BY <1>1
<1>3. ASSUME NEW x \in Posters \ {p}
      PROVE  DOMAIN poster'[x] = PosterFields /\ PostedSound(poster[x])'
  <2>1. PICK a : a = poster[x]
    OBVIOUS
  <2>2. poster'[x] = a
    BY <1>2, <2>1
  <2>3. PostedSound(a) /\ DOMAIN a = PosterFields /\ DOMAIN a.steps \cap DOMAIN docStep' = {}
    BY <2>1 DEF SigInv, Shapes, PosterFields
  <2>4. PostedSound(a)'
    BY <2>3, PostedKept
  <2>. QED
    BY <2>2, <2>3, <2>4
<1>4. PostedSound(poster[p])'
  BY <1>2
<1>5. PendingApart'
  BY <1>1, <1>2 DEF PendingApart
<1>. QED
  BY <1>2, <1>3, <1>4, <1>5 DEF PostersSound

\* Steps of others.
LEMMA PostersUnchanged ==
  ASSUME SigInv, RowsMove, Grows, StoreTypeOK', UNCHANGED poster,
         \A x \in Posters : DOMAIN poster[x].steps \cap DOMAIN docStep' = {}
  PROVE  PostersSound'
<1>1. ASSUME NEW x \in Posters
      PROVE  DOMAIN poster'[x] = PosterFields /\ PostedSound(poster[x])'
  <2>1. PICK a : a = poster[x]
    OBVIOUS
  <2>2. PostedSound(a) /\ DOMAIN a = PosterFields /\ DOMAIN a.steps \cap DOMAIN docStep' = {}
    BY <2>1 DEF SigInv, Shapes, PosterFields
  <2>3. PostedSound(a)'
    BY <2>2, PostedKept
  <2>. QED
    BY <2>1, <2>2, <2>3
<1>2. PendingApart'
  BY DEF SigInv, PendingApart
<1>. QED
  BY <1>1, <1>2 DEF PostersSound, SigInv, Shapes

\* A run that has not begun knows nothing.
LEMMA NoPostSound == PostedSound(NoPost) /\ DOMAIN NoPost = PosterFields /\ DOMAIN NoPost.steps = {}
<1>1. /\ NoPost.todo = {} /\ NoPost.changed = {} /\ NoPost.pc = "idle"
      /\ NoPost.rows = [x \in {} |-> None] /\ DOMAIN NoPost.rows = {}
      /\ DOMAIN NoPost.steps = {} /\ DOMAIN NoPost.pdfs = {}
  BY DEF NoPost, Empty
<1>2. BatchOK(NoPost)
  BY <1>1 DEF BatchOK
<1>3. PostedRows(NoPost) /\ PostedSteps(NoPost) /\ CountSound(NoPost)
  BY <1>1 DEF PostedRows, PostedSteps, CountSound
<1>. QED
  BY <1>1, <1>2, <1>3 DEF PostedSound, NoPost, PosterFields

\* The steps that a run is about to insert are not those of another, and not stored.
LEMMA StepsApart ==
  ASSUME SigInv, NEW p \in Posters
  PROVE  /\ DOMAIN poster[p].steps \cap DOMAIN docStep = {}
         /\ \A x \in Posters \ {p} :
              /\ DOMAIN poster[x].steps \cap DOMAIN poster[p].steps = {}
              /\ DOMAIN poster[x].steps \cap DOMAIN docStep = {}
BY DEF SigInv, PendingApart, PostedSound, PostedSteps

\* Loading the candidates.
LEMMA BatchLoaded ==
  ASSUME SigInv, RowsMove, Grows, StoreTypeOK', NEW p \in Posters, SigPostProcessAll(p)
  PROVE  PostersSound'
<1>0. /\ RowsSound /\ DOMAIN sig \subseteq Txs /\ sig \in [DOMAIN sig -> SigResult]
  BY DEF SigInv, SigTypeOK
<1>1. PICK old : old = poster[p]
  OBVIOUS
<1>2. PICK b : b = [old EXCEPT !.pc = "check", !.todo = PostCandidates,
                               !.rows = [t \in PostCandidates |-> sig[t]]]
  OBVIOUS
<1>3. poster' = [poster EXCEPT ![p] = b] /\ UNCHANGED docStep /\ old.pc = "idle"
  BY <1>1, <1>2 DEF SigPostProcessAll, vars, storeVars
<1>4. DOMAIN old = PosterFields /\ PostedSound(old)
  BY <1>1 DEF SigInv, Shapes, PosterFields
<1>5. /\ DOMAIN b = PosterFields /\ b.pc = "check" /\ b.todo = PostCandidates
      /\ b.rows = [t \in PostCandidates |-> sig[t]]
      /\ b.changed = old.changed /\ b.steps = old.steps /\ b.pdfs = old.pdfs
  BY <1>2, <1>4 DEF PosterFields
<1>6. old.changed = {} /\ DOMAIN old.steps = {} /\ DOMAIN old.pdfs = {}
  BY <1>3, <1>4 DEF PostedSound, PostedSteps
<1>7. PostCandidates \subseteq DOMAIN sig
  BY DEF PostCandidates
<1>8. BatchOK(b)
  BY <1>0, <1>5, <1>6, <1>7 DEF BatchOK
<1>9. ASSUME NEW t \in PostCandidates
      PROVE  /\ Loaded(t, b.rows[t]) /\ RowSound(b.rows[t])
             /\ b.rows[t].signature # "none"
             /\ b.rows[t].version = sig[t].version => sig[t].signature = b.rows[t].signature
             /\ t \notin b.changed => b.rows[t].out = None /\ ~ b.rows[t].conflict
  <2>1. PICK row \in SigResult : row = sig[t]
    BY <1>0, <1>7
  <2>2. b.rows[t] = row /\ RowSound(row) /\ row.version \in Nat
    BY <1>0, <1>5, <1>7, <2>1 DEF RowsSound, SigResult
  <2>3. row.out = None /\ ~ row.conflict /\ row.signed = "due"
    BY <2>1 DEF PostCandidates
  <2>4. row.signature # "none"
    BY <2>2, <2>3, NoneIsNothing DEF RowSound
  <2>. QED
    BY <2>1, <2>2, <2>3, <2>4 DEF Loaded
<1>10. PostedRows(b)
  BY <1>5, <1>9 DEF PostedRows
<1>11. PostedSteps(b)
  BY <1>5, <1>6 DEF PostedSteps
<1>12. PostedSound(b)
  BY <1>5, <1>8, <1>10, <1>11 DEF PostedSound, CountSound
<1>13. DOMAIN b.steps = {}
  BY <1>5, <1>6
<1>14. PostedSound(b)'
  BY <1>12, <1>13, PostedKept
<1>15. \A x \in Posters \ {p} : DOMAIN poster[x].steps \cap DOMAIN docStep' = {}
  BY <1>3, StepsApart
<1>. QED
  BY <1>3, <1>5, <1>13, <1>14, <1>15, PosterChanged

\* A change of the state of a run that inserts nothing yet.
LEMMA PosterMoves ==
  ASSUME SigInv, RowsMove, Grows, StoreTypeOK', UNCHANGED docStep, NEW p \in Posters, NEW b,
         poster' = [poster EXCEPT ![p] = b], DOMAIN b = PosterFields, PostedSound(b),
         DOMAIN b.steps \cap DOMAIN docStep = {},
         \A x \in Posters \ {p} : DOMAIN poster[x].steps \cap DOMAIN b.steps = {}
  PROVE  PostersSound'
<1>1. PostedSound(b)'
  BY PostedKept
<1>2. \A x \in Posters \ {p} : DOMAIN poster[x].steps \cap DOMAIN docStep' = {}
  BY StepsApart
<1>. QED
  BY <1>1, <1>2, PosterChanged

\* Refusing an order.
LEMMA BatchRefuses ==
  ASSUME SigInv, RowsMove, Grows, StoreTypeOK', UNCHANGED docStep, NEW p \in Posters,
         NEW t \in Txs, NEW rb, poster[p].pc = "check", t \in poster[p].todo, Refuse(p, t, rb)
  PROVE  PostersSound'
<1>1. PICK old : old = poster[p]
  OBVIOUS
<1>2. DOMAIN old = PosterFields /\ PostedSound(old) /\ t \in old.todo
  BY <1>1 DEF SigInv, Shapes, PosterFields
<1>3. BatchOK(old) /\ PostedRows(old) /\ PostedSteps(old)
  BY <1>2 DEF PostedSound
<1>4. t \in DOMAIN old.rows /\ t \notin old.changed
  BY <1>2, <1>3 DEF BatchOK
<1>5. PICK row \in SigResult : row = old.rows[t]
  BY <1>3, <1>4 DEF BatchOK
<1>6. PICK n : n = [row EXCEPT !.conflict = TRUE]
  OBVIOUS
<1>7. PICK rows : rows = [old.rows EXCEPT ![t] = n]
  OBVIOUS
<1>8. PICK b : b = [old EXCEPT !.todo = old.todo \ {t}, !.rows = rows,
                               !.changed = old.changed \cup {t},
                               !.rollbackOnly = old.rollbackOnly \/ rb]
  OBVIOUS
<1>9. poster' = [poster EXCEPT ![p] = b]
  <2>1. poster' = [poster EXCEPT ![p] =
          [poster[p] EXCEPT !.todo = @ \ {t}, !.rows[t].conflict = TRUE,
                            !.changed = @ \cup {t}, !.rollbackOnly = @ \/ rb]]
    BY DEF Refuse
  <2>2. [old.rows EXCEPT ![t].conflict = TRUE] = rows
    BY <1>5, <1>6, <1>7
  <2>3. [old EXCEPT !.todo = @ \ {t}, !.rows[t].conflict = TRUE, !.changed = @ \cup {t},
                    !.rollbackOnly = @ \/ rb] = b
    BY <1>2, <1>8, <2>2 DEF PosterFields
  <2>. QED
    BY <1>1, <2>1, <2>3
<1>10. /\ DOMAIN b = PosterFields /\ b.pc = old.pc /\ b.todo = old.todo \ {t}
       /\ b.rows = rows /\ b.changed = old.changed \cup {t}
       /\ b.steps = old.steps /\ b.pdfs = old.pdfs
  BY <1>2, <1>8 DEF PosterFields
<1>11. /\ n \in SigResult /\ n.conflict /\ n.ref = row.ref /\ n.version = row.version
       /\ n.signature = row.signature /\ n.signed = row.signed /\ n.out = row.out
       /\ n.progress = row.progress
  BY <1>6 DEF SigResult
<1>12. DOMAIN rows = DOMAIN old.rows /\ rows[t] = n
       /\ \A x \in DOMAIN old.rows \ {t} : rows[x] = old.rows[x]
  BY <1>4, <1>7
<1>13. BatchOK(b)
  <2>1. rows \in [DOMAIN rows -> SigResult]
    BY <1>3, <1>7, <1>11 DEF BatchOK
  <2>2. b.changed \subseteq DOMAIN rows \ b.todo
    BY <1>3, <1>4, <1>10, <1>12 DEF BatchOK
  <2>. QED
    BY <1>3, <1>10, <1>12, <2>1, <2>2 DEF BatchOK
<1>14. /\ Loaded(t, row) /\ RowSound(row) /\ row.signature # "none"
       /\ row.version = sig[t].version => sig[t].signature = row.signature
       /\ row.out = None
  BY <1>3, <1>4, <1>5 DEF PostedRows
<1>15. /\ Loaded(t, n) /\ RowSound(n) /\ n.signature # "none"
       /\ n.version = sig[t].version => sig[t].signature = n.signature
       /\ n.out = None
  BY <1>11, <1>14 DEF Loaded, RowSound
<1>16. PostedRows(b)
  <2>1. ASSUME NEW x \in DOMAIN rows
        PROVE  /\ Loaded(x, rows[x]) /\ RowSound(rows[x])
               /\ rows[x].signature # "none"
               /\ rows[x].version = sig[x].version => sig[x].signature = rows[x].signature
               /\ x \notin b.changed => rows[x].out = None /\ ~ rows[x].conflict
    <3>1. CASE x = t
      BY <1>10, <1>12, <1>15, <3>1
    <3>2. CASE x # t
      BY <1>3, <1>10, <1>12, <3>2 DEF PostedRows
    <3>. QED
      BY <3>1, <3>2
  <2>. QED
    BY <1>10, <2>1 DEF PostedRows
<1>17. PostedSteps(b)
  <2>1. ASSUME NEW x \in b.changed, b.rows[x].out # None
        PROVE  StepFor(b, x, b.rows[x].out)
    <3>1. x # t
      BY <1>10, <1>12, <1>15, <2>1
    <3>2. x \in old.changed /\ x \in DOMAIN old.rows /\ rows[x] = old.rows[x]
      BY <1>3, <1>10, <1>12, <2>1, <3>1 DEF BatchOK
    <3>3. StepFor(old, x, old.rows[x].out)
      BY <1>3, <1>10, <2>1, <3>2 DEF PostedSteps
    <3>. QED
      BY <1>10, <3>2, <3>3 DEF StepFor
  <2>2. ASSUME NEW r \in DOMAIN b.steps
        PROVE  \E x \in b.changed : b.rows[x].out = r
    <3>1. PICK x \in old.changed : old.rows[x].out = r
      BY <1>3, <1>10 DEF PostedSteps
    <3>2. x # t /\ x \in DOMAIN old.rows
      BY <1>3, <1>4 DEF BatchOK
    <3>. QED
      BY <1>10, <1>12, <3>1, <3>2
  <2>. QED
    BY <1>3, <1>10, <2>1, <2>2 DEF PostedSteps
<1>18. PostedSound(b)
  BY <1>1, <1>10, <1>13, <1>16, <1>17 DEF PostedSound, CountSound
<1>19. /\ DOMAIN b.steps \cap DOMAIN docStep = {}
       /\ \A x \in Posters \ {p} : DOMAIN poster[x].steps \cap DOMAIN b.steps = {}
  <2>1. b.steps = poster[p].steps
    BY <1>1, <1>10
  <2>. QED
    BY <2>1, StepsApart
<1>. QED
  BY <1>9, <1>10, <1>18, <1>19, PosterMoves

\* The checks of one order.
LEMMA BatchChecks ==
  ASSUME SigInv, RowsMove, Grows, StoreTypeOK', NEW p \in Posters, NEW t \in Txs,
         SigPostProcess(p, t)
  PROVE  PostersSound'
<1>1. UNCHANGED docStep /\ poster[p].pc = "check" /\ t \in poster[p].todo
  BY DEF SigPostProcess, vars, storeVars
<1>2. CASE poster' = [poster EXCEPT ![p].pc = "count", ![p].tx = t]
  <2>1. PICK old : old = poster[p]
    OBVIOUS
  <2>2. DOMAIN old = PosterFields /\ PostedSound(old) /\ t \in old.todo /\ DOMAIN poster = Posters
    BY <1>1, <2>1 DEF SigInv, Shapes, PosterFields
  <2>3. PICK b : b = [old EXCEPT !.pc = "count", !.tx = t]
    OBVIOUS
  <2>4. poster' = [poster EXCEPT ![p] = b]
    BY <1>2, <2>1, <2>2, <2>3
  <2>5. /\ DOMAIN b = PosterFields /\ b.pc = "count" /\ b.tx = t /\ b.todo = old.todo
        /\ b.rows = old.rows /\ b.changed = old.changed
        /\ b.steps = old.steps /\ b.pdfs = old.pdfs
    BY <2>2, <2>3 DEF PosterFields
  <2>6. BatchOK(b) /\ PostedRows(b)
    BY <2>2, <2>5 DEF PostedSound, BatchOK, PostedRows
  <2>7. PostedSteps(b)
    BY <2>2, <2>5 DEF PostedSound, PostedSteps, StepFor
  <2>8. PostedSound(b)
    BY <2>2, <2>5, <2>6, <2>7 DEF PostedSound, CountSound
  <2>9. /\ DOMAIN b.steps \cap DOMAIN docStep = {}
        /\ \A x \in Posters \ {p} : DOMAIN poster[x].steps \cap DOMAIN b.steps = {}
    <3>1. b.steps = poster[p].steps
      BY <2>1, <2>5
    <3>. QED
      BY <3>1, StepsApart
  <2>. QED
    BY <1>1, <2>4, <2>5, <2>8, <2>9, PosterMoves
<1>3. CASE Refuse(p, t, FALSE) \/ Refuse(p, t, TRUE)
  BY <1>1, <1>3, BatchRefuses
<1>. QED
  BY <1>2, <1>3 DEF SigPostProcess

\* Counting the steps: the step to be signed is among them.
LEMMA BatchCounts ==
  ASSUME SigInv, RowsMove, Grows, StoreTypeOK', NEW p \in Posters, PostCount(p)
  PROVE  PostersSound'
<1>0. StoreTypeOK /\ StepBelowCount
  BY DEF SigInv, Inv, TypeOK
<1>1. PICK old : old = poster[p]
  OBVIOUS
<1>2. /\ DOMAIN old = PosterFields /\ PostedSound(old) /\ old.pc = "count"
      /\ DOMAIN poster = Posters /\ UNCHANGED docStep
  BY <1>1 DEF SigInv, Shapes, PosterFields, PostCount, vars, storeVars
<1>3. BatchOK(old) /\ PostedRows(old) /\ PostedSteps(old) /\ old.tx \in old.todo
  BY <1>2 DEF PostedSound
<1>4. PICK base : base = old.rows[old.tx].ref
  OBVIOUS
<1>5. base \in DOMAIN pdf /\ base \in DOMAIN docStep
  BY <1>0, <1>3, <1>4 DEF BatchOK, PostedRows, RowSound, StoreTypeOK
<1>6. PICK n : n = StepCount(docStep[base].doc)
  OBVIOUS
<1>7. PICK b : b = [old EXCEPT !.pc = "append", !.count = n]
  OBVIOUS
<1>8. poster' = [poster EXCEPT ![p] = b]
  BY <1>1, <1>2, <1>4, <1>6, <1>7 DEF PostCount
<1>9. /\ DOMAIN b = PosterFields /\ b.pc = "append" /\ b.tx = old.tx /\ b.todo = old.todo
      /\ b.rows = old.rows /\ b.changed = old.changed /\ b.count = n
      /\ b.steps = old.steps /\ b.pdfs = old.pdfs
  BY <1>2, <1>7 DEF PosterFields
<1>10. BatchOK(b) /\ PostedRows(b)
  BY <1>3, <1>9 DEF BatchOK, PostedRows
<1>11. PostedSteps(b)
  BY <1>3, <1>9 DEF PostedSteps, StepFor
<1>12. n \in Nat /\ docStep[base].step < n /\ n <= n
  <2>1. n \in Nat
    BY <1>0, <1>6, StepsFinite, FS_CardinalityType DEF StepCount
  <2>2. docStep[base].step < n
    BY <1>0, <1>5, <1>6 DEF StepBelowCount
  <2>. QED
    BY <2>1, <2>2
<1>13. CountSound(b)
  BY <1>4, <1>6, <1>9, <1>12 DEF CountSound
<1>14. PostedSound(b)
  BY <1>3, <1>9, <1>10, <1>11, <1>13 DEF PostedSound
<1>15. /\ DOMAIN b.steps \cap DOMAIN docStep = {}
       /\ \A x \in Posters \ {p} : DOMAIN poster[x].steps \cap DOMAIN b.steps = {}
  <2>1. b.steps = poster[p].steps
    BY <1>1, <1>9
  <2>. QED
    BY <2>1, StepsApart
<1>. QED
  BY <1>2, <1>8, <1>9, <1>14, <1>15, PosterMoves

\* The number of a step that is to be inserted.
LEMMA SignedStepNumber ==
  ASSUME NEW base, NEW n
  PROVE  SignedStep(base, n).step = n
BY DEF SignedStep

\* Making the step for an order.
LEMMA BatchAppends ==
  ASSUME SigInv, RowsMove, Grows, StoreTypeOK', NEW p \in Posters, PostAppend(p)
  PROVE  PostersSound'
<1>1. PICK old : old = poster[p]
  OBVIOUS
<1>2. /\ DOMAIN old = PosterFields /\ PostedSound(old) /\ old.pc = "append"
      /\ DOMAIN poster = Posters /\ UNCHANGED docStep
  BY <1>1 DEF SigInv, Shapes, PosterFields, PostAppend, vars, storeVars
<1>3. BatchOK(old) /\ PostedRows(old) /\ PostedSteps(old) /\ old.tx \in old.todo /\ CountSound(old)
  BY <1>2 DEF PostedSound
<1>4. PICK t : t = old.tx
  OBVIOUS
<1>5. t \in DOMAIN old.rows /\ t \notin old.changed /\ t \in DOMAIN sig /\ t \in old.todo
  BY <1>3, <1>4 DEF BatchOK
<1>6. PICK row \in SigResult : row = old.rows[t]
  BY <1>3, <1>5 DEF BatchOK
<1>7. PICK base, n : base = row.ref /\ n = old.count
  OBVIOUS
<1>8. PICK r \in UnusedRefs :
        poster' = [poster EXCEPT ![p] =
          [old EXCEPT !.pc = "check", !.todo = @ \ {t}, !.tx = None, !.count = 0,
                      !.changed = @ \cup {t}, !.rows[t].out = r,
                      !.steps = Upsert(@, Row(r, SignedStep(base, n))),
                      !.pdfs = Upsert(@, Row(r, SignedContents(base, t))),
                      !.versions = IF NumberFree(docStep[base].doc, n)
                                   THEN Upsert(@, Row(docStep[base].doc,
                                                      boxDoc[docStep[base].doc].version))
                                   ELSE @]]
  BY <1>1, <1>4, <1>6, <1>7 DEF PostAppend
<1>9. PICK row2, rows, steps, pdfs, versions :
        /\ row2 = [row EXCEPT !.out = r]
        /\ rows = [old.rows EXCEPT ![t] = row2]
        /\ steps = Upsert(old.steps, Row(r, SignedStep(base, n)))
        /\ pdfs = Upsert(old.pdfs, Row(r, SignedContents(base, t)))
        /\ versions = IF NumberFree(docStep[base].doc, n)
                      THEN Upsert(old.versions, Row(docStep[base].doc,
                                                    boxDoc[docStep[base].doc].version))
                      ELSE old.versions
  OBVIOUS
<1>10. PICK b : b = [old EXCEPT !.pc = "check", !.todo = old.todo \ {t}, !.tx = None,
                                !.count = 0, !.changed = old.changed \cup {t}, !.rows = rows,
                                !.steps = steps, !.pdfs = pdfs, !.versions = versions]
  OBVIOUS
<1>11. poster' = [poster EXCEPT ![p] = b]
  <2>1. [old.rows EXCEPT ![t].out = r] = rows
    BY <1>6, <1>9
  <2>2. [old EXCEPT !.pc = "check", !.todo = @ \ {t}, !.tx = None, !.count = 0,
                    !.changed = @ \cup {t}, !.rows[t].out = r,
                    !.steps = Upsert(@, Row(r, SignedStep(base, n))),
                    !.pdfs = Upsert(@, Row(r, SignedContents(base, t))),
                    !.versions = IF NumberFree(docStep[base].doc, n)
                                 THEN Upsert(@, Row(docStep[base].doc,
                                                    boxDoc[docStep[base].doc].version))
                                 ELSE @] = b
    BY <1>2, <1>9, <1>10, <2>1 DEF PosterFields
  <2>. QED
    BY <1>8, <2>2
<1>12. /\ DOMAIN b = PosterFields /\ b.pc = "check" /\ b.todo = old.todo \ {t}
       /\ b.rows = rows /\ b.changed = old.changed \cup {t}
       /\ b.steps = steps /\ b.pdfs = pdfs
  BY <1>2, <1>10 DEF PosterFields
<1>13. r \in Refs /\ r \notin DOMAIN docStep /\ r # None
       /\ \A x \in Posters : r \notin DOMAIN poster[x].steps
  BY NoneIsNothing DEF UnusedRefs, PendingRefs, FreshRefs
<1>14. /\ row2 \in SigResult /\ row2.out = r /\ row2.ref = row.ref /\ row2.version = row.version
       /\ row2.signature = row.signature /\ row2.signed = row.signed
       /\ row2.conflict = row.conflict /\ row2.progress = row.progress
  BY <1>9, <1>13 DEF SigResult
<1>15. DOMAIN rows = DOMAIN old.rows /\ rows[t] = row2
       /\ \A x \in DOMAIN old.rows \ {t} : rows[x] = old.rows[x]
  BY <1>5, <1>9
<1>16. BatchOK(b)
  <2>1. rows \in [DOMAIN rows -> SigResult]
    BY <1>3, <1>9, <1>14 DEF BatchOK
  <2>2. b.changed \subseteq DOMAIN rows \ b.todo
    BY <1>3, <1>5, <1>12, <1>15 DEF BatchOK
  <2>. QED
    BY <1>3, <1>12, <1>15, <2>1, <2>2 DEF BatchOK
<1>17. /\ Loaded(t, row) /\ RowSound(row) /\ row.signature # "none"
       /\ row.version = sig[t].version => sig[t].signature = row.signature
       /\ row.out = None /\ ~ row.conflict
  BY <1>3, <1>5, <1>6 DEF PostedRows
<1>18. /\ Loaded(t, row2) /\ RowSound(row2) /\ row2.signature # "none"
       /\ row2.version = sig[t].version => sig[t].signature = row2.signature
  BY <1>14, <1>17 DEF Loaded, RowSound
<1>19. PostedRows(b)
  <2>1. ASSUME NEW x \in DOMAIN rows
        PROVE  /\ Loaded(x, rows[x]) /\ RowSound(rows[x])
               /\ rows[x].signature # "none"
               /\ rows[x].version = sig[x].version => sig[x].signature = rows[x].signature
               /\ x \notin b.changed => rows[x].out = None /\ ~ rows[x].conflict
    <3>1. CASE x = t
      BY <1>12, <1>15, <1>18, <3>1
    <3>2. CASE x # t
      BY <1>3, <1>12, <1>15, <3>2 DEF PostedRows
    <3>. QED
      BY <3>1, <3>2
  <2>. QED
    BY <1>12, <2>1 DEF PostedRows
<1>20. /\ r \notin DOMAIN old.steps /\ DOMAIN old.pdfs = DOMAIN old.steps
       /\ DOMAIN old.steps \subseteq Refs \ DOMAIN docStep
  BY <1>1, <1>3, <1>13 DEF PostedSteps
<1>21. /\ DOMAIN steps = DOMAIN old.steps \cup {r} /\ DOMAIN pdfs = DOMAIN old.steps \cup {r}
       /\ steps[r] = SignedStep(base, n) /\ pdfs[r] = SignedContents(base, t)
       /\ \A x \in DOMAIN old.steps : steps[x] = old.steps[x] /\ pdfs[x] = old.pdfs[x]
  <2>1. PICK s, c : s = SignedStep(base, n) /\ c = SignedContents(base, t)
    OBVIOUS
  <2>2. steps = Upsert(old.steps, Row(r, s)) /\ pdfs = Upsert(old.pdfs, Row(r, c))
    BY <1>9, <2>1
  <2>3. /\ DOMAIN steps = DOMAIN old.steps \cup {r}
        /\ steps[r] = s
        /\ \A x \in DOMAIN old.steps : steps[x] = old.steps[x]
    BY <1>20, <2>2 DEF Upsert, Row
  <2>4. /\ DOMAIN pdfs = DOMAIN old.steps \cup {r}
        /\ pdfs[r] = c
        /\ \A x \in DOMAIN old.steps : pdfs[x] = old.pdfs[x]
    BY <1>20, <2>2 DEF Upsert, Row
  <2>. QED
    BY <2>1, <2>3, <2>4
<1>22. n \in Nat /\ docStep[base].step < n /\ n <= StepCount(docStep[base].doc)
  BY <1>2, <1>3, <1>4, <1>6, <1>7 DEF CountSound
<1>23. StepFor(b, t, r)
  BY <1>7, <1>12, <1>14, <1>15, <1>21, <1>22, SignedStepNumber DEF StepFor
<1>24. PostedSteps(b)
  <2>1. ASSUME NEW x \in b.changed, b.rows[x].out # None
        PROVE  StepFor(b, x, b.rows[x].out)
    <3>1. CASE x = t
      BY <1>12, <1>14, <1>15, <1>23, <3>1
    <3>2. CASE x # t
      <4>1. x \in old.changed /\ x \in DOMAIN old.rows /\ rows[x] = old.rows[x]
        BY <1>3, <1>12, <1>15, <3>2 DEF BatchOK
      <4>2. PICK y : y = old.rows[x].out
        OBVIOUS
      <4>3. StepFor(old, x, y)
        BY <1>3, <1>12, <2>1, <4>1, <4>2 DEF PostedSteps
      <4>4. y \in DOMAIN old.steps
        BY <4>3 DEF StepFor
      <4>5. StepFor(b, x, y)
        BY <1>12, <1>21, <4>1, <4>3, <4>4 DEF StepFor
      <4>. QED
        BY <1>12, <4>1, <4>2, <4>5
    <3>. QED
      BY <3>1, <3>2
  <2>2. ASSUME NEW y \in DOMAIN b.steps
        PROVE  \E x \in b.changed : b.rows[x].out = y
    <3>1. CASE y = r
      BY <1>12, <1>14, <1>15, <3>1
    <3>2. CASE y # r
      <4>1. PICK x \in old.changed : old.rows[x].out = y
        BY <1>3, <1>12, <1>21, <3>2 DEF PostedSteps
      <4>2. x # t /\ x \in DOMAIN old.rows
        BY <1>3, <1>5 DEF BatchOK
      <4>. QED
        BY <1>12, <1>15, <4>1, <4>2
    <3>. QED
      BY <3>1, <3>2
  <2>3. DOMAIN b.steps \subseteq Refs \ DOMAIN docStep /\ DOMAIN b.pdfs = DOMAIN b.steps
    BY <1>12, <1>13, <1>20, <1>21
  <2>. QED
    BY <2>1, <2>2, <2>3 DEF PostedSteps
<1>25. PostedSound(b)
  BY <1>12, <1>16, <1>19, <1>24 DEF PostedSound, CountSound
<1>26. /\ DOMAIN b.steps \cap DOMAIN docStep = {}
       /\ \A x \in Posters \ {p} : DOMAIN poster[x].steps \cap DOMAIN b.steps = {}
  <2>1. DOMAIN b.steps = DOMAIN poster[p].steps \cup {r}
    BY <1>1, <1>12, <1>21
  <2>. QED
    BY <1>13, <2>1, StepsApart
<1>. QED
  BY <1>2, <1>11, <1>12, <1>25, <1>26, PosterMoves

\* A commit inserts the steps of its own run only.
LEMMA BatchCommits ==
  ASSUME SigInv, RowsMove, Grows, StoreTypeOK', NEW p \in Posters, PostCommit(p)
  PROVE  PostersSound'
<1>1. poster' = [poster EXCEPT ![p] = NoPost]
  BY DEF PostCommit
<1>2. \A x \in Posters \ {p} : DOMAIN poster[x].steps \cap DOMAIN docStep' = {}
  <2>1. CASE UNCHANGED docStep
    BY <2>1, StepsApart
  <2>2. CASE InsertSteps(poster[p].steps, DOMAIN poster[p].versions)
    <3>1. DOMAIN docStep' = DOMAIN docStep \cup DOMAIN poster[p].steps
      BY <2>2 DEF InsertSteps, Upsert
    <3>. QED
      BY <3>1, StepsApart
  <2>. QED
    BY <2>1, <2>2 DEF PostCommit, storeVars
<1>3. PostedSound(NoPost)'
  BY NoPostSound, PostedKept
<1>. QED
  BY <1>1, <1>2, <1>3, NoPostSound, PosterChanged

\* Whatever is done, the runs of PostprocessJob stay sound.
LEMMA PostersStep ==
  ASSUME SigInv, [SigNext]_allVars, RowsMove, Grows, StoreTypeOK'
  PROVE  PostersSound'
<1>1. ASSUME NEW p \in Posters, \/ SigPostProcessAll(p)
                                \/ \E t \in Txs : SigPostProcess(p, t)
                                \/ PostCount(p)
                                \/ PostAppend(p)
                                \/ PostCommit(p)
      PROVE  PostersSound'
  BY <1>1, BatchLoaded, BatchChecks, BatchCounts, BatchAppends, BatchCommits
<1>2. CASE RestNext
  <2>1. \A x \in Posters : DOMAIN poster[x].steps \cap DOMAIN docStep = {}
    BY DEF SigInv, PostedSound, PostedSteps
  <2>2. \A x \in Posters : DOMAIN poster[x].steps \subseteq PendingRefs
    BY DEF PendingRefs
  <2>3. DOMAIN docStep' \cap PendingRefs \subseteq DOMAIN docStep /\ UNCHANGED poster
    BY <1>2 DEF RestNext, sigVars
  <2>4. \A x \in Posters : DOMAIN poster[x].steps \cap DOMAIN docStep' = {}
    BY <2>1, <2>2, <2>3
  <2>. QED
    BY <2>3, <2>4, PostersUnchanged
<1>3. CASE UNCHANGED poster /\ UNCHANGED docStep
  <2>1. \A x \in Posters : DOMAIN poster[x].steps \cap DOMAIN docStep' = {}
    BY <1>3 DEF SigInv, PostedSound, PostedSteps
  <2>. QED
    BY <1>3, <2>1, PostersUnchanged
<1>4. ASSUME NEW t \in Txs, \/ \E r \in Refs : SignCheck(t, r)
                            \/ DoSign(t)
                            \/ SignatureRequest(t)
                            \/ Outcome(t)
                            \/ GrowOlder(t)
      PROVE  UNCHANGED poster /\ UNCHANGED docStep
  BY <1>4 DEF SignCheck, DoSign, SignatureRequest, Outcome, GrowOlder, vars, storeVars
<1>5. ASSUME NEW c \in Collectors, \/ CollectAll(c)
                                   \/ \E t \in Txs : Collect(c, t)
                                   \/ CollectFails(c)
                                   \/ CollectCommit(c)
      PROVE  UNCHANGED poster /\ UNCHANGED docStep
  BY <1>5 DEF CollectAll, Collect, CollectFails, CollectCommit, vars, storeVars
<1>6. CASE UNCHANGED allVars
  BY <1>3, <1>6 DEF allVars, sigVars, vars, storeVars
<1>. QED
  BY <1>1, <1>2, <1>3, <1>4, <1>5, <1>6 DEF SigNext

-----------------------------------------------------------------------------
(* Signatures and steps *)

Signing == {"count", "load", "sign", "append"}

\* A step of one request.
LEMMA ForeignOne ==
  ASSUME SigInv, NEW q \in Requests, NEW new, req' = [req EXCEPT ![q] = new],
         new.pc \in Signing => new.sig \notin Txs
  PROVE  ForeignSigs'
<1>1. req \in [Requests -> Request] /\ ForeignSigs
  BY DEF SigInv, Inv, TypeOK
<1>. QED
  BY <1>1 DEF ForeignSigs, Signing

\* Requests go on bringing the signatures that they came with.
LEMMA ForeignStep ==
  ASSUME SigInv, [SigNext]_allVars
  PROVE  ForeignSigs'
<1>0. req \in [Requests -> Request] /\ ForeignSigs
  BY DEF SigInv, Inv, TypeOK
<1>1. ASSUME NEW q \in Requests,
             \/ \E r \in Refs, s \in Sigs \ Txs : DocboxSigPut(q, r, s)
             \/ CountSteps(q)
             \/ LoadBoxDoc(q)
             \/ AddToSteps(q)
             \/ AddSignature(q)
      PROVE  ForeignSigs'
  <2>1. PICK old \in Request : old = req[q]
    BY <1>0
  <2>2. old.pc \in Signing => old.sig \notin Txs
    <3>1. req[q].pc \in Signing => req[q].sig \notin Txs
      BY <1>0 DEF ForeignSigs, Signing
    <3>. QED
      BY <2>1, <3>1
  <2>3. ASSUME NEW r \in Refs, NEW s \in Sigs \ Txs, DocboxSigPut(q, r, s)
        PROVE  ForeignSigs'
    <3>1. CASE req' = [req EXCEPT ![q] = [old EXCEPT !.pc = "count", !.ref = r, !.sig = s,
                                            !.doc = docStep[r].doc]]
      <4>1. PICK new : new = [old EXCEPT !.pc = "count", !.ref = r, !.sig = s,
                                         !.doc = docStep[r].doc]
        OBVIOUS
      <4>2. new.sig = s
        BY <4>1 DEF Request
      <4>3. req' = [req EXCEPT ![q] = new]
        BY <3>1, <4>1
      <4>. QED
        BY <4>2, <4>3, ForeignOne
    <3>2. CASE req' = [req EXCEPT ![q] = [old EXCEPT !.pc = "done", !.status = 409, !.sig = s]]
      <4>1. PICK new : new = [old EXCEPT !.pc = "done", !.status = 409, !.sig = s]
        OBVIOUS
      <4>2. new.sig = s
        BY <4>1 DEF Request
      <4>3. req' = [req EXCEPT ![q] = new]
        BY <3>2, <4>1
      <4>. QED
        BY <4>2, <4>3, ForeignOne
    <3>. QED
      BY <2>1, <2>3, <3>1, <3>2 DEF DocboxSigPut
  <2>4. CASE CountSteps(q)
    <3>1. PICK new : new = [old EXCEPT !.pc = "load", !.count = StepCount(old.doc)]
      OBVIOUS
    <3>2. new.sig = old.sig /\ old.pc = "count" /\ req' = [req EXCEPT ![q] = new]
      BY <2>1, <2>4, <3>1 DEF CountSteps, Request
    <3>. QED
      BY <2>2, <3>2, ForeignOne DEF Signing
  <2>5. CASE LoadBoxDoc(q)
    <3>1. PICK new : new = [old EXCEPT !.pc = "sign", !.version = boxDoc[old.doc].version]
      OBVIOUS
    <3>2. new.sig = old.sig /\ old.pc = "load" /\ req' = [req EXCEPT ![q] = new]
      BY <2>1, <2>5, <3>1 DEF LoadBoxDoc, Request
    <3>. QED
      BY <2>2, <3>2, ForeignOne DEF Signing
  <2>6. CASE AddToSteps(q)
    <3>1. PICK new : new = [old EXCEPT !.pc = IF old.pc = "add" THEN "insert" ELSE "append",
                                       !.free = NumberFree(old.doc, old.count)]
      OBVIOUS
    <3>2. /\ new.sig = old.sig /\ old.pc \in {"add", "sign"} /\ req' = [req EXCEPT ![q] = new]
          /\ old.pc = "add" => new.pc = "insert"
      BY <2>1, <2>6, <3>1 DEF AddToSteps, Request
    <3>. QED
      BY <2>2, <3>2, ForeignOne DEF Signing
  <2>7. CASE AddSignature(q)
    <3>1. PICK status, r, c : Reply(q, status, r, c)
      BY <2>7 DEF AddSignature, Fail
    <3>2. PICK new : new = [old EXCEPT !.pc = "done", !.status = status, !.ref = r, !.body = c]
      OBVIOUS
    <3>3. new.pc = "done" /\ req' = [req EXCEPT ![q] = new]
      BY <2>1, <3>1, <3>2 DEF Reply, Request
    <3>. QED
      BY <3>3, ForeignOne DEF Signing
  <2>. QED
    BY <1>1, <2>3, <2>4, <2>5, <2>6, <2>7
<1>2. CASE UNCHANGED req
  BY <1>0, <1>2 DEF ForeignSigs
<1>3. CASE UNCHANGED vars
  BY <1>2, <1>3 DEF vars
<1>4. ASSUME NEW p \in Posters, PostCommit(p)
      PROVE  ForeignSigs'
  BY <1>2, <1>4 DEF PostCommit
<1>. QED
  BY <1>1, <1>3, <1>4, OtherSteps DEF RestNext

\* Only the commit of a run of PostprocessJob names the step of an order.
LEMMA NewOut ==
  ASSUME SigInv, [SigNext]_allVars, Grows, NEW t \in DOMAIN sig, sig'[t].out # sig[t].out
  PROVE  \E p \in Posters :
           /\ PostCommit(p) /\ RowsStand(poster[p])
           /\ t \in poster[p].changed
           /\ sig'[t].out = poster[p].rows[t].out
           /\ InsertSteps(poster[p].steps, DOMAIN poster[p].versions)
           /\ pdf' = Upsert(pdf, poster[p].pdfs)
<1>0. RowsMove /\ sig \in [DOMAIN sig -> SigResult]
  BY RowsStep DEF SigInv, SigTypeOK
<1>1. sig' # sig
  OBVIOUS
<1>2. ASSUME NEW b, BatchOK(b), sig' = Saved(b)
      PROVE  t \in b.changed /\ sig'[t].out = b.rows[t].out
  <2>1. t \in b.changed
    BY <1>2 DEF Saved
  <2>2. PICK row \in SigResult, old \in SigResult : row = b.rows[t] /\ old = sig[t]
    BY <1>0, <1>2, <2>1 DEF BatchOK
  <2>3. sig'[t] = SavedRow(row, old)
    BY <1>2, <2>1, <2>2 DEF Saved, SavedRow
  <2>. QED
    BY <2>1, <2>2, <2>3, SavedRowType
<1>3. ASSUME NEW x \in Txs, \/ \E r \in Refs : SignCheck(x, r)
                            \/ DoSign(x)
                            \/ SignatureRequest(x)
                            \/ Outcome(x)
                            \/ GrowOlder(x)
      PROVE  FALSE
  <2>1. CASE SignatureRequest(x)
    <3>1. sig[t] = sig'[t]
      <4>1. PICK n : sig' = Upsert(sig, Row(x, n))
        BY <1>1, <2>1 DEF SignatureRequest
      <4>2. x \notin DOMAIN sig
        BY <2>1 DEF SignatureRequest, SigInv, AsksSound
      <4>. QED
        BY <4>1, <4>2 DEF Upsert, Row
    <3>. QED
      BY <3>1
  <2>2. CASE GrowOlder(x)
    <3>1. PICK old \in SigResult : old = sig[x]
      BY <1>0, <2>2 DEF GrowOlder
    <3>2. PICK n : sig' = [sig EXCEPT ![x] = n] /\ n.out = old.out
      <4>1. CASE sig' = [sig EXCEPT ![x].created = Older(@)]
        <5>1. PICK n : n = [old EXCEPT !.created = Older(old.created)]
          OBVIOUS
        <5>2. sig' = [sig EXCEPT ![x] = n] /\ n.out = old.out
          BY <3>1, <4>1, <5>1 DEF SigResult
        <5>. QED
          BY <5>2
      <4>2. CASE sig' = [sig EXCEPT ![x].signed = Older(@)]
        <5>1. PICK n : n = [old EXCEPT !.signed = Older(old.signed)]
          OBVIOUS
        <5>2. sig' = [sig EXCEPT ![x] = n] /\ n.out = old.out
          BY <3>1, <4>2, <5>1 DEF SigResult
        <5>. QED
          BY <5>2
      <4>. QED
        BY <2>2, <4>1, <4>2 DEF GrowOlder
    <3>. QED
      BY <1>0, <3>1, <3>2
  <2>. QED
    BY <1>1, <1>3, <2>1, <2>2 DEF SignCheck, DoSign, Outcome
<1>4. ASSUME NEW c \in Collectors, \/ CollectAll(c)
                                   \/ \E x \in Txs : Collect(c, x)
                                   \/ CollectFails(c)
                                   \/ CollectCommit(c)
      PROVE  FALSE
  <2>1. PICK b : b = collector[c]
    OBVIOUS
  <2>2. RowsStand(b) /\ sig' = Saved(b)
    BY <1>1, <1>4, <2>1 DEF CollectAll, Collect, CollectFails, CollectCommit
  <2>3. CollectedSound(b) /\ BatchOK(b)
    BY <2>1 DEF SigInv, CollectedSound
  <2>4. t \in b.changed /\ sig'[t].out = b.rows[t].out
    BY <1>2, <2>2, <2>3
  <2>5. t \in DOMAIN b.rows /\ sig[t].version = b.rows[t].version
    BY <2>2, <2>3, <2>4 DEF BatchOK, RowsStand
  <2>6. b.rows[t].out = None /\ sig[t].out = None
    BY <2>3, <2>5 DEF CollectedSound, Loaded
  <2>. QED
    BY <2>4, <2>6
<1>5. ASSUME NEW p \in Posters, \/ SigPostProcessAll(p)
                                \/ \E x \in Txs : SigPostProcess(p, x)
                                \/ PostCount(p)
                                \/ PostAppend(p)
      PROVE  FALSE
  BY <1>1, <1>5 DEF SigPostProcessAll, SigPostProcess, PostCount, PostAppend
<1>6. ASSUME NEW p \in Posters, PostCommit(p)
      PROVE  /\ PostCommit(p) /\ RowsStand(poster[p])
             /\ t \in poster[p].changed
             /\ sig'[t].out = poster[p].rows[t].out
             /\ InsertSteps(poster[p].steps, DOMAIN poster[p].versions)
             /\ pdf' = Upsert(pdf, poster[p].pdfs)
  <2>1. /\ RowsStand(poster[p]) /\ sig' = Saved(poster[p])
        /\ InsertSteps(poster[p].steps, DOMAIN poster[p].versions)
        /\ pdf' = Upsert(pdf, poster[p].pdfs)
    BY <1>1, <1>6 DEF PostCommit, PostStands
  <2>2. BatchOK(poster[p])
    BY DEF SigInv, PostedSound
  <2>. QED
    BY <1>2, <1>6, <2>1, <2>2
<1>7. CASE UNCHANGED allVars \/ RestNext
  <2>1. UNCHANGED sig
    BY <1>7, RestStep DEF allVars, sigVars
  <2>. QED
    BY <1>1, <2>1
<1>. QED
  BY <1>3, <1>4, <1>5, <1>6, <1>7 DEF SigNext

\* The step of an order that is committed.
LEMMA StepCommitted ==
  ASSUME SigInv, NEW p \in Posters, RowsStand(poster[p]), Grows,
         InsertSteps(poster[p].steps, DOMAIN poster[p].versions),
         pdf' = Upsert(pdf, poster[p].pdfs),
         NEW t \in poster[p].changed, poster[p].rows[t].out # None
  PROVE  LET r == poster[p].rows[t].out
             base == sig[t].ref IN
         /\ t \in DOMAIN sig /\ base \in DOMAIN pdf
         /\ r \in DOMAIN poster[p].steps /\ r \in DOMAIN pdf'
         /\ docStep'[r].doc = docStep[base].doc
         /\ pdf'[r] = SignedContents(base, t)
<1>1. PICK b : b = poster[p]
  OBVIOUS
<1>2. BatchOK(b) /\ PostedRows(b) /\ PostedSteps(b) /\ StoreTypeOK
  BY <1>1 DEF SigInv, PostedSound, Inv, TypeOK
<1>3. t \in DOMAIN b.rows /\ t \in DOMAIN sig
  BY <1>1, <1>2 DEF BatchOK
<1>4. PICK r, base, n : r = b.rows[t].out /\ base = sig[t].ref /\ n = b.steps[r].step
  OBVIOUS
<1>5. b.rows[t].ref = base /\ base \in DOMAIN pdf
  BY <1>2, <1>3, <1>4 DEF PostedRows, Loaded, RowSound
<1>6. /\ r \in DOMAIN b.steps /\ b.steps[r] = SignedStep(base, n)
      /\ b.pdfs[r] = SignedContents(base, t)
  <2>1. StepFor(b, t, r)
    BY <1>1, <1>2, <1>4 DEF PostedSteps
  <2>. QED
    BY <1>4, <1>5, <2>1 DEF StepFor
<1>7. SignedAll(b.steps, b.pdfs)
  BY <1>1, PostedAll
<1>8. docStep'[r] = b.steps[r] /\ pdf'[r] = b.pdfs[r] /\ r \in DOMAIN pdf'
  BY <1>6, <1>7 DEF SignedAll, Upsert
<1>9. SignedStep(base, n).doc = docStep[base].doc
  BY DEF SignedStep
<1>. QED
  BY <1>1, <1>3, <1>4, <1>5, <1>6, <1>8, <1>9

\* The step that a row names has the signature of its order, in every step.
LEMMA OutIsRealStep ==
  ASSUME SigInv, [SigNext]_allVars, RowsMove, Grows
  PROVE  OutIsReal'
<1>0. StoreTypeOK /\ RowsSound
  BY DEF SigInv, Inv, TypeOK
<1>. SUFFICES ASSUME NEW t \in DOMAIN sig', sig'[t].out # None
              PROVE  (/\ sig[t].out \in DOMAIN pdf
                      /\ docStep[sig[t].out].doc = docStep[sig[t].ref].doc
                      /\ pdf[sig[t].out] = SignedContents(sig[t].ref, t))'
  BY DEF OutIsReal
<1>1. t \in DOMAIN sig
  <2>1. ASSUME NEW r \in DOMAIN pdf, sig'[t] = NewRow(r)
        PROVE  FALSE
    <3>1. r \in Refs
      BY <1>0 DEF StoreTypeOK
    <3>. QED
      BY <2>1, <3>1, NewRowType
  <2>. QED
    BY <2>1 DEF RowsMove
<1>2. PICK r, base : r = sig'[t].out /\ base = sig[t].ref
  OBVIOUS
<1>3. sig'[t].ref = base /\ base \in DOMAIN pdf
  BY <1>0, <1>1, <1>2 DEF RowsMove, RowMoves, RowsSound, RowSound
<1>4. docStep'[base] = docStep[base] /\ pdf'[base] = pdf[base]
  BY <1>0, <1>3 DEF StoreTypeOK, Grows
<1>5. SignedContents(base, t)' = SignedContents(base, t)
  BY <1>4 DEF SignedContents
<1>6. r \in DOMAIN pdf' /\ docStep'[r].doc = docStep[base].doc /\ pdf'[r] = SignedContents(base, t)
  <2>1. CASE sig[t].out = r
    <3>1. r \in DOMAIN pdf /\ docStep[r].doc = docStep[base].doc
          /\ pdf[r] = SignedContents(base, t)
      BY <1>1, <1>2, <2>1 DEF SigInv, OutIsReal
    <3>2. r \in DOMAIN docStep
      BY <1>0, <3>1 DEF StoreTypeOK
    <3>. QED
      BY <3>1, <3>2 DEF Grows
  <2>2. CASE sig[t].out # r
    <3>1. PICK p \in Posters :
            /\ RowsStand(poster[p])
            /\ t \in poster[p].changed
            /\ r = poster[p].rows[t].out
            /\ InsertSteps(poster[p].steps, DOMAIN poster[p].versions)
            /\ pdf' = Upsert(pdf, poster[p].pdfs)
      BY <1>1, <1>2, <2>2, NewOut
    <3>. QED
      BY <1>2, <3>1, StepCommitted
  <2>. QED
    BY <2>1, <2>2
<1>. QED
  BY <1>2, <1>3, <1>4, <1>5, <1>6

\* The signature on the last page.
SigOf(c) == c.pages[Len(c.pages)].sig

\* It is the one that was added.
LEMMA LastPage ==
  ASSUME NEW pages \in Seq(Page), NEW s \in Sigs, NEW b \in Refs, NEW o, NEW c,
         c = [origin |-> o, pages |-> Append(pages, [sig |-> s, over |-> b])]
  PROVE  SigOf(c) = s
<1>1. PICK x \in Page : x = [sig |-> s, over |-> b]
  BY DEF Page
<1>2. c.pages = Append(pages, x)
  BY <1>1
<1>3. Len(Append(pages, x)) = Len(pages) + 1 /\ Append(pages, x)[Len(pages) + 1] = x
  OBVIOUS
<1>. QED
  BY <1>1, <1>2, <1>3 DEF SigOf

\* Which PDFs a step adds, and with which signature.
LEMMA NewPdf ==
  ASSUME SigInv, [SigNext]_allVars, Grows, NEW r \in DOMAIN pdf' \ DOMAIN pdf
  PROVE  \/ \E s \in Sigs \ Txs : SigOf(pdf'[r]) = s
         \/ \E t \in DOMAIN sig :
              SigOf(pdf'[r]) = t /\ t \in DOMAIN sig' /\ sig'[t].out = r
<1>0. /\ StoreTypeOK /\ DOMAIN sig \subseteq Txs /\ sig \in [DOMAIN sig -> SigResult]
      /\ \A q \in Requests : Knows(q) /\ RowsMove
  BY RowsStep DEF SigInv, SigTypeOK, Inv, TypeOK
<1>1. ASSUME NEW q \in Requests, AddSignature(q)
      PROVE  \E s \in Sigs \ Txs : SigOf(pdf'[r]) = s
  <2>1. PICK base, s : base = req[q].ref /\ s = req[q].sig
    OBVIOUS
  <2>2. base \in DOMAIN pdf /\ s \in Sigs \ Txs
    BY <1>0, <1>1, <2>1 DEF AddSignature, Knows, SigInv, ForeignSigs
  <2>3. PICK x : pdf' = Upsert(pdf, Row(x, SignedContents(base, s)))
    BY <1>1, <2>1 DEF AddSignature, storeVars
  <2>4. pdf'[r] = SignedContents(base, s)
    BY <2>3 DEF Upsert, Row
  <2>5. pdf[base].pages \in Seq(Page) /\ base \in Refs
    BY <1>0, <2>2 DEF StoreTypeOK, Contents
  <2>6. SigOf(pdf'[r]) = s
    BY <2>2, <2>4, <2>5, LastPage DEF SignedContents
  <2>. QED
    BY <2>2, <2>6
<1>2. CASE RestNext
  <2>1. PICK q \in Requests :
          \/ \E x \in Refs, s \in Sigs \ Txs : DocboxSigPut(q, x, s)
          \/ CountSteps(q)
          \/ LoadBoxDoc(q)
          \/ AddToSteps(q)
          \/ AddSignature(q)
    BY <1>2 DEF RestNext
  <2>. QED
    BY <1>1, <2>1 DEF DocboxSigPut, CountSteps, LoadBoxDoc, AddToSteps, storeVars
<1>3. ASSUME NEW p \in Posters, PostCommit(p)
      PROVE  \E t \in DOMAIN sig :
               SigOf(pdf'[r]) = t /\ t \in DOMAIN sig' /\ sig'[t].out = r
  <2>1. /\ RowsStand(poster[p]) /\ sig' = Saved(poster[p])
        /\ InsertSteps(poster[p].steps, DOMAIN poster[p].versions)
        /\ pdf' = Upsert(pdf, poster[p].pdfs)
    BY <1>3 DEF PostCommit, PostStands, storeVars
  <2>2. PICK b : b = poster[p]
    OBVIOUS
  <2>3. BatchOK(b) /\ PostedRows(b) /\ PostedSteps(b)
    BY <2>2 DEF SigInv, PostedSound
  <2>4. r \in DOMAIN b.pdfs
    BY <2>1, <2>2 DEF Upsert
  <2>5. PICK t \in b.changed : b.rows[t].out = r
    BY <2>3, <2>4 DEF PostedSteps
  <2>6. r \in Refs /\ r # None
    BY <2>3, <2>4, NoneIsNothing DEF PostedSteps
  <2>7. /\ t \in DOMAIN sig /\ sig[t].ref \in DOMAIN pdf
        /\ pdf'[r] = SignedContents(sig[t].ref, t)
    BY <2>1, <2>2, <2>5, <2>6, StepCommitted
  <2>8. t \in Sigs
    BY <1>0, <2>7, TxsAreSigs
  <2>9. PICK base : base = sig[t].ref
    OBVIOUS
  <2>10. pdf[base].pages \in Seq(Page) /\ base \in Refs
    BY <1>0, <2>7, <2>9 DEF StoreTypeOK, Contents
  <2>11. SigOf(pdf'[r]) = t
    BY <2>7, <2>8, <2>9, <2>10, LastPage DEF SignedContents
  <2>12. PICK row \in SigResult, old \in SigResult : row = b.rows[t] /\ old = sig[t]
    BY <1>0, <2>3, <2>5, <2>7 DEF BatchOK
  <2>13. sig'[t] = SavedRow(row, old) /\ t \in DOMAIN sig'
    BY <2>1, <2>2, <2>5, <2>7, <2>12 DEF Saved, SavedRow
  <2>14. sig'[t].out = r
    BY <2>5, <2>12, <2>13, SavedRowType
  <2>. QED
    BY <2>7, <2>11, <2>13, <2>14
<1>4. ~ UNCHANGED vars
  BY DEF vars
<1>. QED
  BY <1>2, <1>3, <1>4, OtherSteps

\* A signature of an order is only on the step that its row names, in every step.
LEMMA AddedOnceStep ==
  ASSUME SigInv, [SigNext]_allVars, RowsMove, Grows, Inv'
  PROVE  AddedOnce'
<1>0. StoreTypeOK /\ CoversItsBase /\ StoreTypeOK' /\ CoversItsBase'
  BY DEF SigInv, Inv, TypeOK
<1>. SUFFICES ASSUME NEW r \in DOMAIN pdf', NEW t \in Txs, Signed(r)',
                     (pdf[r] = SignedContents(Base(r), t))'
              PROVE  t \in DOMAIN sig' /\ sig'[t].out = r
  BY DEF AddedOnce
<1>1. CASE r \in DOMAIN pdf
  <2>1. pdf'[r] = pdf[r] /\ r \in Refs
    BY <1>0, <1>1 DEF Grows, StoreTypeOK
  <2>2. Signed(r) /\ Base(r)' = Base(r)
    BY <1>1, <2>1 DEF Signed, Base
  <2>3. PICK base \in DOMAIN pdf : base = Base(r)
    BY <1>0, <1>1, <2>2 DEF CoversItsBase
  <2>4. pdf'[base] = pdf[base]
    BY DEF Grows
  <2>5. SignedContents(base, t)' = SignedContents(base, t)
    BY <2>4 DEF SignedContents
  <2>6. pdf[r] = SignedContents(Base(r), t)
    BY <2>1, <2>2, <2>3, <2>5
  <2>7. t \in DOMAIN sig /\ sig[t].out = r
    BY <1>1, <2>2, <2>6 DEF SigInv, AddedOnce
  <2>8. r # None
    BY <2>1, NoneIsNothing
  <2>. QED
    BY <2>7, <2>8 DEF RowsMove, RowMoves
<1>2. CASE r \notin DOMAIN pdf
  <2>1. PICK base \in DOMAIN pdf' : base = Base(r)'
    BY <1>0 DEF CoversItsBase
  <2>2. pdf'[base].pages \in Seq(Page) /\ base \in Refs
    BY <1>0 DEF StoreTypeOK, Contents
  <2>3. pdf'[r] = [origin |-> pdf'[base].origin,
                   pages |-> Append(pdf'[base].pages, [sig |-> t, over |-> base])]
    BY <2>1 DEF SignedContents
  <2>4. SigOf(pdf'[r]) = t
    BY <2>2, <2>3, LastPage, TxsAreSigs
  <2>. QED
    BY <1>2, <2>4, NewPdf
<1>. QED
  BY <1>1, <1>2

-----------------------------------------------------------------------------
(* The invariant *)

\* Every document starts with its first step.
LEMMA FirstOnly ==
  ASSUME SigInit, NEW d \in Docs
  PROVE  /\ First[d] \in DOMAIN docStep /\ docStep[First[d]].doc = d
         /\ docStep[First[d]].step = 0 /\ docStep[First[d]].signCount = 0
         /\ StepsOf(d) = {First[d]} /\ StepCount(d) = 1
<1>1. /\ DOMAIN docStep = {First[e] : e \in Docs}
      /\ docStep = [r \in {First[e] : e \in Docs} |->
                      [doc |-> CHOOSE e \in Docs : First[e] = r, step |-> 0, signCount |-> 0]]
  BY DEF SigInit
<1>2. ASSUME NEW e \in Docs
      PROVE  (CHOOSE x \in Docs : First[x] = First[e]) = e
  <2>1. \A x \in Docs : First[x] = First[e] => x = e
    BY FirstSteps
  <2>. QED
    BY <2>1
<1>3. ASSUME NEW e \in Docs
      PROVE  /\ First[e] \in DOMAIN docStep /\ docStep[First[e]].doc = e
             /\ docStep[First[e]].step = 0 /\ docStep[First[e]].signCount = 0
  <2>1. PICK r : r = First[e]
    OBVIOUS
  <2>2. r \in {First[x] : x \in Docs}
    BY <2>1
  <2>3. docStep[r] = [doc |-> CHOOSE x \in Docs : First[x] = r, step |-> 0, signCount |-> 0]
    BY <1>1, <2>2
  <2>4. (CHOOSE x \in Docs : First[x] = r) = e
    BY <1>2, <2>1
  <2>5. docStep[r] = [doc |-> e, step |-> 0, signCount |-> 0]
    BY <2>3, <2>4
  <2>. QED
    BY <1>1, <2>1, <2>2, <2>5
<1>4. StepsOf(d) = {First[d]}
  BY <1>1, <1>3 DEF StepsOf
<1>5. Cardinality({First[d]}) = 1
  BY FS_Singleton
<1>. QED
  BY <1>3, <1>4, <1>5 DEF StepCount

\* The invariant holds at first.
LEMMA SigInitInv == SigInit => SigInv
<1>. SUFFICES ASSUME SigInit PROVE SigInv
  OBVIOUS
<1>1. /\ DOMAIN boxDoc = Docs /\ DOMAIN docStep = {First[d] : d \in Docs}
      /\ DOMAIN pdf = DOMAIN docStep
      /\ \A r \in DOMAIN pdf : pdf[r] = [origin |-> None, pages |-> <<>>]
  BY DEF SigInit
<1>2. \A r \in DOMAIN docStep : \E d \in Docs : r = First[d]
  BY <1>1
<1>3. \A r \in DOMAIN docStep :
        docStep[r].doc \in Docs /\ docStep[r].step = 0 /\ docStep[r].signCount = 0
  BY <1>2, FirstOnly
<1>4. StoreTypeOK
  <2>1. boxDoc \in [Docs -> BoxDocRow]
    BY FormsOfDocs DEF SigInit, BoxDocRow
  <2>2. docStep \in [DOMAIN docStep -> StepRow]
    <3>1. \A r \in DOMAIN docStep : docStep[r] \in StepRow
      <4>1. ASSUME NEW r \in DOMAIN docStep
            PROVE  docStep[r] \in StepRow
        <5>1. PICK d : docStep[r] = [doc |-> d, step |-> 0, signCount |-> 0]
          BY DEF SigInit
        <5>2. d \in Docs
          BY <1>3, <5>1
        <5>. QED
          BY <5>1, <5>2 DEF StepRow
      <4>. QED
        BY <4>1
    <3>2. docStep = [r \in DOMAIN docStep |-> docStep[r]]
      BY DEF SigInit
    <3>. QED
      BY <3>1, <3>2
  <2>3. pdf \in [DOMAIN pdf -> Contents]
    <3>1. <<>> \in Seq(Page)
      OBVIOUS
    <3>2. [origin |-> None, pages |-> <<>>] \in Contents
      BY <3>1 DEF Contents
    <3>. QED
      BY <3>2 DEF SigInit
  <2>4. DOMAIN docStep \subseteq Refs
    BY <1>1, FirstSteps
  <2>. QED
    BY <1>1, <1>3, <2>1, <2>2, <2>3, <2>4 DEF StoreTypeOK
<1>5. NewRequest \in Request
  BY DEF NewRequest, Request, Phase
<1>6. \A q \in Requests : req[q] = NewRequest
  BY DEF SigInit
<1>7. TypeOK
  BY <1>4, <1>5 DEF TypeOK, SigInit
<1>8. Inv
  <2>1. \A q \in Requests : Knows(q)
    BY <1>6 DEF Knows, NewRequest
  <2>2. AnswersStand
    BY <1>6 DEF AnswersStand, Answered, NewRequest
  <2>3. ASSUME NEW d \in DOMAIN boxDoc
        PROVE  Cardinality({r \in StepsOf(d) : docStep[r].step = 0}) = 1
    <3>1. {r \in StepsOf(d) : docStep[r].step = 0} = {First[d]}
      BY <1>1, FirstOnly
    <3>. QED
      BY <3>1, FS_Singleton
  <2>4. StepBelowCount
    <3>1. ASSUME NEW r \in DOMAIN docStep
          PROVE  docStep[r].step < StepCount(docStep[r].doc)
      <4>1. docStep[r].step = 0 /\ StepCount(docStep[r].doc) = 1
        BY <1>3, FirstOnly
      <4>. QED
        BY <4>1
    <3>. QED
      BY <3>1 DEF StepBelowCount
  <2>5. \A r \in DOMAIN pdf : ~ Signed(r) /\ docStep[r].signCount = Len(pdf[r].pages)
    BY <1>1, <1>3 DEF Signed
  <2>. QED
    BY <1>1, <1>7, <2>1, <2>2, <2>3, <2>4, <2>5
    DEF Inv, OneFirstStep, NoPdfNoSignature, CoversItsBase, SignedIsLater, SignCountIsPages
<1>9. DOMAIN sig = {} /\ sig \in [DOMAIN sig -> SigResult]
  BY DEF SigInit, Empty
<1>10. /\ DOMAIN collector = Collectors
       /\ \A c \in Collectors : collector[c] = NoBatch
       /\ DOMAIN poster = Posters
       /\ \A p \in Posters : poster[p] = NoPost
  BY DEF SigInit
<1>11. \A c \in Collectors : CollectedSound(collector[c]) /\ DOMAIN collector[c] = CollectorFields
  BY <1>10, NoBatchSound
<1>12. /\ \A p \in Posters : PostedSound(poster[p]) /\ DOMAIN poster[p] = PosterFields
       /\ \A p \in Posters : DOMAIN poster[p].steps = {}
  BY <1>10, NoPostSound
<1>13. Shapes /\ PendingApart
  BY <1>10, <1>11, <1>12 DEF Shapes, PendingApart, CollectorFields, PosterFields
<1>14. scheme \in Nat /\ ask \in [Txs -> Ask] /\ order \in [Txs -> Order]
  BY DEF SigInit, Ask, Order
<1>15. SigTypeOK
  BY <1>7, <1>9, <1>11, <1>12, <1>14 DEF SigTypeOK, CollectedSound, PostedSound
<1>16. AsksSound
  BY <1>9 DEF SigInit, AsksSound
<1>17. ForeignSigs
  BY <1>6 DEF ForeignSigs, NewRequest
<1>18. RowsSound /\ OutIsReal
  BY <1>9 DEF RowsSound, OutIsReal
<1>19. AddedOnce
  BY <1>1 DEF AddedOnce, Signed
<1>. QED
  BY <1>8, <1>11, <1>12, <1>13, <1>15, <1>16, <1>17, <1>18, <1>19 DEF SigInv

\* Every step keeps the invariant, and moves the rows as they may.
LEMMA SigNextInv == SigInv /\ [SigNext]_allVars => SigInv' /\ RowsMove
<1>. SUFFICES ASSUME SigInv, [SigNext]_allVars PROVE SigInv' /\ RowsMove
  OBVIOUS
<1>1. Inv' /\ Grows
  BY StoreStep
<1>2. RowsMove /\ RowsSound'
  BY <1>1, RowsStep
<1>3. AskTypes' /\ AsksSound'
  BY <1>1, AsksStep
<1>4. CollectorsSound'
  BY <1>1, <1>2, CollectorsStep
<1>5. TypeOK' /\ StoreTypeOK'
  BY <1>1 DEF Inv, TypeOK
<1>6. PostersSound'
  BY <1>1, <1>2, <1>5, PostersStep
<1>7. ForeignSigs' /\ OutIsReal' /\ AddedOnce'
  BY <1>1, <1>2, ForeignStep, OutIsRealStep, AddedOnceStep
<1>8. Shapes'
  BY <1>4, <1>6 DEF Shapes, CollectorsSound, CollectorFields, PostersSound, PosterFields
<1>9. SigTypeOK'
  <2>1. (\A c \in Collectors : BatchOK(collector[c]))'
    BY <1>4 DEF CollectorsSound, CollectedSound
  <2>2. (\A p \in Posters : BatchOK(poster[p]))'
    BY <1>6 DEF PostersSound, PostedSound
  <2>. QED
    BY <1>2, <1>3, <1>5, <2>1, <2>2 DEF SigTypeOK, AskTypes, RowsMove
<1>10. /\ (\A c \in Collectors : CollectedSound(collector[c]))'
       /\ (\A p \in Posters : PostedSound(poster[p]))'
       /\ PendingApart'
  BY <1>4, <1>6 DEF CollectorsSound, PostersSound
<1>. QED
  BY <1>1, <1>2, <1>3, <1>7, <1>8, <1>9, <1>10 DEF SigInv

\* What is known of overlapping runs of the jobs, of requests and of the tables holds in
\* every reachable state.
THEOREM SigInvariance == SigSpec => []SigInv
  BY SigInitInv, SigNextInv, PTL DEF SigSpec

\* The tables, the orders and the runs of the jobs have their types.
THEOREM SigTypes == SigSpec => []SigTypeOK
<1>1. SigInv => SigTypeOK
  BY DEF SigInv
<1>. QED
  BY <1>1, SigInvariance, PTL

\* The signature of an order is added to a document once, however runs of the jobs
\* overlap and fail, and the SigResult of the order names the step.
THEOREM AddedOnlyOnce == SigSpec => []AddedOnce
<1>1. SigInv => AddedOnce
  BY DEF SigInv
<1>. QED
  BY <1>1, SigInvariance, PTL

\* A success that is reported is one: the step named belongs to the document, and its last
\* page is the signature of this order over the step the client named.
THEOREM SuccessReal == SigSpec => []SuccessIsReal
<1>1. SigInv => SuccessIsReal
  BY DEF SigInv, OutIsReal, SuccessIsReal, Success
<1>. QED
  BY <1>1, SigInvariance, PTL

\* While the jobs sign documents too, a signed step is a later step of the document of the
\* step that was signed.
THEOREM SignedLaterByOrder == SigSpec => []SignedIsLater
<1>1. SigInv => SignedIsLater
  BY DEF SigInv, Inv
<1>. QED
  BY <1>1, SigInvariance, PTL

\* No overlapping run takes back a signature, a success or a conflict.
THEOREM OutcomesStand == SigSpec => OutcomeStands
<1>1. SigInv /\ [SigNext]_allVars =>
        [\A t \in DOMAIN sig :
           /\ sig[t].signature # "none" => sig'[t].signature = sig[t].signature
           /\ sig[t].out # None => sig'[t].out = sig[t].out /\ ~sig'[t].conflict
           /\ sig[t].conflict => sig'[t].conflict]_allVars
  BY SigNextInv DEF RowsMove, RowMoves
<1>. QED
  BY <1>1, SigInvariance, PTL DEF SigSpec, OutcomeStands

\* With the jobs at work the store still only grows, by originals and by copies with one more
\* signature.
THEOREM StoreGrowsByOrder == SigSpec => StoreOnlyGrows
<1>1. SigInit => Store!Init
  BY DEF SigInit, Copies, Store!Init
<1>2. SigInv /\ [SigNext]_allVars => [Store!Next]_Copies
  BY StoreStep
<1>. QED
  BY <1>1, <1>2, SigInvariance, PTL DEF SigSpec, StoreOnlyGrows, Store!Spec

-----------------------------------------------------------------------------
(* What a client is told *)

\* An order that was stored just now is pending.
LEMMA OutcomeNew ==
  ASSUME NEW t \in DOMAIN sig', NEW r \in Refs, sig'[t] = NewRow(r)
  PROVE  OutcomeOf(t)' = "pending"
<1>1. /\ sig'[t].fault = FALSE /\ sig'[t].conflict = FALSE /\ sig'[t].out = None
      /\ sig'[t].signed = None /\ sig'[t].created = "young"
  BY NewRowType
<1>2. ~ Success(t)' /\ ~ ProcessingComplete(t)'
  BY <1>1, NoneIsNothing DEF Success, ProcessingComplete
<1>. QED
  BY <1>2 DEF OutcomeOf

\* A success stays one.
LEMMA SuccessStays ==
  ASSUME SigInv', RowsMove, NEW t \in DOMAIN sig, Success(t)
  PROVE  Success(t)'
<1>1. t \in DOMAIN sig' /\ sig'[t].out = sig[t].out /\ sig[t].out # None /\ ~ sig'[t].conflict
  BY DEF RowsMove, RowMoves, Success
<1>2. sig'[t].signed # None
  BY <1>1 DEF SigInv, RowsSound, RowSound
<1>. QED
  BY <1>1, <1>2 DEF Success

\* What a client may be told next.
LEMMA OutcomeMoves ==
  ASSUME SigInv, SigInv', RowsMove, NEW t \in Txs
  PROVE  /\ OutcomeOf(t)' \in {"none", "pending", "failed", "success"}
         /\ OutcomeOf(t)' # OutcomeOf(t) =>
              \/ OutcomeOf(t) = "none" /\ OutcomeOf(t)' = "pending"
              \/ OutcomeOf(t) = "pending" /\ OutcomeOf(t)' \in {"failed", "success"}
              \/ OutcomeOf(t) = "failed" /\ OutcomeOf(t)' \in {"pending", "success"}
<1>1. CASE t \notin DOMAIN sig /\ t \notin DOMAIN sig'
  BY <1>1 DEF OutcomeOf
<1>2. CASE t \notin DOMAIN sig /\ t \in DOMAIN sig'
  <2>1. PICK r \in Refs : sig'[t] = NewRow(r)
    BY <1>2 DEF RowsMove, SigInv, Inv, TypeOK, StoreTypeOK
  <2>2. OutcomeOf(t)' = "pending" /\ OutcomeOf(t) = "none"
    BY <1>2, <2>1, OutcomeNew DEF OutcomeOf
  <2>. QED
    BY <2>2
<1>3. CASE t \in DOMAIN sig
  <2>1. t \in DOMAIN sig'
    BY <1>3 DEF RowsMove
  <2>2. /\ OutcomeOf(t) \in {"pending", "failed", "success"}
        /\ OutcomeOf(t)' \in {"pending", "failed", "success"}
    BY <1>3, <2>1 DEF OutcomeOf
  <2>3. OutcomeOf(t) = "success" => OutcomeOf(t)' = "success"
    BY <1>3, <2>1, SuccessStays DEF OutcomeOf
  <2>. QED
    BY <2>2, <2>3
<1>. QED
  BY <1>1, <1>2, <1>3

\* The tables, the jobs and the clock implement what the engine is promised of an order: a
\* success is never taken back, and what is known of an order never becomes unknown.
THEOREM OrdersKept == SigSpec => OrdersAreKept
<1>1. SigInit => Client!OrderInit
  BY DEF SigInit, Empty, Client!OrderInit, OutcomeOf
<1>2. ASSUME SigInv, [SigNext]_allVars, SigInv', RowsMove
      PROVE  [Client!OrderNext]_([t \in Txs |-> OutcomeOf(t)])
  <2>1. \A t \in Txs : /\ OutcomeOf(t)' \in Client!Outcomes
                       /\ \/ OutcomeOf(t)' = OutcomeOf(t)
                          \/ <<OutcomeOf(t), OutcomeOf(t)'>> \in Client!OrderSteps
    BY <1>2, OutcomeMoves
    DEF Client!Outcomes, Client!OrderSteps, Client!MayEnd, Client!MayRevive
  <2>. QED
    BY <2>1 DEF Client!OrderNext
<1>3. SigInv /\ [SigNext]_allVars => [Client!OrderNext]_([t \in Txs |-> OutcomeOf(t)])
  BY <1>2, SigNextInv
<1>. QED
  BY <1>1, <1>3, SigInvariance, PTL DEF SigSpec, OrdersAreKept, Client!OrderSpec

-----------------------------------------------------------------------------
(* How processing may be resumed *)

\* An order that the service has failed has no signature.
OneEnd(row) == row.signature # "none" => ~ row.fault

\* A run of CollectJob took up orders that were due and not failed. Only it may have
\* failed or signed them as long as the versions are the same.
CollectsOpen(b) ==
  \A t \in DOMAIN b.rows :
    /\ b.rows[t].created = "due" /\ OneEnd(b.rows[t])
    /\ t \in b.todo => ~ b.rows[t].fault
    /\ b.rows[t].version = sig[t].version => ~ sig[t].fault

\* A run of PostprocessJob takes up none that has failed.
PostsUnfailed(b) == \A t \in DOMAIN b.rows : ~ b.rows[t].fault

EndsSound ==
  /\ \A t \in DOMAIN sig : OneEnd(sig[t])
  /\ \A c \in Collectors : CollectsOpen(collector[c])
  /\ \A p \in Posters : PostsUnfailed(poster[p])

\* Time and failures are not taken back.
RowAges(t) ==
  /\ sig'[t].version = sig[t].version => sig'[t].fault = sig[t].fault
  /\ sig[t].fault => sig'[t].fault
  /\ sig[t].created = "expired" => sig'[t].created = "expired"
  /\ sig[t].signed = "expired" => sig'[t].signed = "expired"
  /\ sig[t].signed # None => sig'[t].signed # None

\* A run of CollectJob that took up the order when it was due stores its signature.
StoredLate(t) ==
  \E c \in Collectors :
    /\ t \in collector[c].changed
    /\ collector[c].rows[t].created = "due"
    /\ sig'[t].signature = collector[c].rows[t].signature

\* How a row may change.
RowEnds(t) ==
  /\ RowAges(t) /\ OneEnd(sig'[t])
  /\ sig[t].signed = None /\ sig'[t].signed # None => StoredLate(t)

RowsEnd == \A t \in DOMAIN sig : RowEnds(t)

\* The other parts of a row as a commit saves it.
LEMMA SavedRowAge ==
  ASSUME NEW row \in SigResult, NEW old \in SigResult
  PROVE  SavedRow(row, old).created = old.created /\ SavedRow(row, old).fault = row.fault
BY DEF SavedRow, SigResult

\* A row after a commit.
LEMMA SavedEnds ==
  ASSUME sig \in [DOMAIN sig -> SigResult], NEW b, BatchOK(b), RowsStand(b), sig' = Saved(b),
         NEW t \in DOMAIN sig, OneEnd(sig[t]),
         t \in b.changed => OneEnd(b.rows[t]) /\ ~ sig[t].fault
  PROVE  /\ RowAges(t) /\ OneEnd(sig'[t])
         /\ t \notin b.changed => sig'[t] = sig[t]
         /\ t \in b.changed => sig'[t].signature = b.rows[t].signature
<1>1. CASE t \notin b.changed
  <2>1. sig'[t] = sig[t]
    BY <1>1 DEF Saved
  <2>. QED
    BY <1>1, <2>1 DEF RowAges
<1>2. CASE t \in b.changed
  <2>1. PICK row \in SigResult, old \in SigResult : row = b.rows[t] /\ old = sig[t]
    BY <1>2 DEF BatchOK
  <2>2. sig'[t] = SavedRow(row, old)
    BY <1>2, <2>1 DEF Saved, SavedRow
  <2>3. PICK n : n = sig'[t]
    OBVIOUS
  <2>4. /\ n.version = row.version + 1 /\ n.signature = row.signature
        /\ n.signed = IF old.signed = None THEN row.signed ELSE old.signed
        /\ n.created = old.created /\ n.fault = row.fault
    <3>1. n = SavedRow(row, old)
      BY <2>2, <2>3
    <3>2. n.created = old.created /\ n.fault = row.fault
      BY <3>1, SavedRowAge
    <3>. QED
      BY <3>1, <3>2, SavedRowType
  <2>5. row.version = old.version /\ row.version \in Nat
    BY <1>2, <2>1 DEF RowsStand, SigResult
  <2>6. n.version # old.version
    BY <2>4, <2>5
  <2>7. ~ old.fault /\ OneEnd(row)
    BY <1>2, <2>1
  <2>. QED
    BY <1>2, <2>1, <2>3, <2>4, <2>6, <2>7, NoneIsNothing DEF RowAges, OneEnd
<1>. QED
  BY <1>1, <1>2

\* A row that stays as it is.
LEMMA SameEnd ==
  ASSUME EndsSound, NEW t \in DOMAIN sig, sig'[t] = sig[t]
  PROVE  RowEnds(t)
BY DEF RowEnds, RowAges, EndsSound

\* The commit of a run of CollectJob.
LEMMA CollectedEnds ==
  ASSUME SigInv, EndsSound, NEW c \in Collectors, CollectCommit(c)
  PROVE  RowsEnd
<1>0. sig \in [DOMAIN sig -> SigResult]
  BY DEF SigInv, SigTypeOK
<1>1. PICK b : b = collector[c]
  OBVIOUS
<1>2. CASE RowsStand(b) /\ sig' = Saved(b)
  <2>1. BatchOK(b) /\ CollectsOpen(b)
    BY <1>1 DEF SigInv, CollectedSound, EndsSound
  <2>2. ASSUME NEW t \in DOMAIN sig
        PROVE  RowEnds(t)
    <3>1. t \in b.changed => t \in DOMAIN b.rows /\ b.rows[t].version = sig[t].version
      BY <1>2, <2>1 DEF BatchOK, RowsStand
    <3>2. t \in b.changed => /\ OneEnd(b.rows[t]) /\ ~ sig[t].fault
                             /\ b.rows[t].created = "due"
      BY <2>1, <3>1 DEF CollectsOpen
    <3>3. OneEnd(sig[t])
      BY DEF EndsSound
    <3>4. /\ RowAges(t) /\ OneEnd(sig'[t])
          /\ t \notin b.changed => sig'[t] = sig[t]
          /\ t \in b.changed => sig'[t].signature = b.rows[t].signature
      BY <1>0, <1>2, <2>1, <3>2, <3>3, SavedEnds
    <3>5. t \in b.changed => StoredLate(t)
      BY <1>1, <3>2, <3>4 DEF StoredLate
    <3>. QED
      BY <3>4, <3>5 DEF RowEnds
  <2>. QED
    BY <2>2 DEF RowsEnd
<1>3. CASE UNCHANGED sig
  BY <1>3, SameEnd DEF RowsEnd
<1>. QED
  BY <1>1, <1>2, <1>3 DEF CollectCommit

\* The commit of a run of PostprocessJob. It stores no signature.
LEMMA PostedEnds ==
  ASSUME SigInv, EndsSound, NEW p \in Posters, PostCommit(p)
  PROVE  RowsEnd
<1>0. sig \in [DOMAIN sig -> SigResult]
  BY DEF SigInv, SigTypeOK
<1>1. PICK b : b = poster[p]
  OBVIOUS
<1>2. CASE RowsStand(b) /\ sig' = Saved(b)
  <2>1. BatchOK(b) /\ PostedRows(b) /\ PostsUnfailed(b)
    BY <1>1 DEF SigInv, PostedSound, EndsSound
  <2>2. ASSUME NEW t \in DOMAIN sig
        PROVE  RowEnds(t)
    <3>1. t \in b.changed => t \in DOMAIN b.rows /\ b.rows[t].version = sig[t].version
      BY <1>2, <2>1 DEF BatchOK, RowsStand
    <3>2. OneEnd(sig[t]) /\ RowSound(sig[t])
      BY DEF EndsSound, SigInv, RowsSound
    <3>3. t \in b.changed => OneEnd(b.rows[t]) /\ sig[t].signature # "none"
      BY <2>1, <3>1 DEF PostedRows, PostsUnfailed, OneEnd
    <3>4. t \in b.changed => ~ sig[t].fault /\ sig[t].signed # None
      BY <3>2, <3>3 DEF OneEnd, RowSound
    <3>5. /\ RowAges(t) /\ OneEnd(sig'[t])
          /\ t \notin b.changed => sig'[t] = sig[t]
      BY <1>0, <1>2, <2>1, <3>2, <3>3, <3>4, SavedEnds
    <3>. QED
      BY <3>4, <3>5 DEF RowEnds
  <2>. QED
    BY <2>2 DEF RowsEnd
<1>3. CASE UNCHANGED sig
  BY <1>3, SameEnd DEF RowsEnd
<1>. QED
  BY <1>1, <1>2, <1>3 DEF PostCommit, PostStands

\* The passing of time.
LEMMA OlderEnds ==
  ASSUME SigInv, EndsSound, NEW t \in Txs, GrowOlder(t)
  PROVE  RowsEnd
<1>0. sig \in [DOMAIN sig -> SigResult] /\ t \in DOMAIN sig
  BY DEF SigInv, SigTypeOK, GrowOlder
<1>1. \A x \in DOMAIN sig \ {t} : sig'[x] = sig[x]
  BY <1>0 DEF GrowOlder
<1>2. RowEnds(t)
  <2>1. PICK old \in SigResult : old = sig[t] /\ OneEnd(old)
    BY <1>0 DEF EndsSound
  <2>2. CASE old.created # "expired" /\ sig'[t] = [old EXCEPT !.created = Older(old.created)]
    <3>1. PICK n : n = sig'[t]
      OBVIOUS
    <3>2. n.version = old.version /\ n.fault = old.fault /\ n.signed = old.signed
          /\ n.signature = old.signature
      BY <2>2, <3>1 DEF SigResult
    <3>3. OneEnd(n)
      BY <2>1, <3>2 DEF OneEnd
    <3>. QED
      BY <2>1, <2>2, <3>1, <3>2, <3>3 DEF RowEnds, RowAges
  <2>3. CASE /\ old.signed \in {"young", "due"}
             /\ sig'[t] = [old EXCEPT !.signed = Older(old.signed)]
    <3>1. PICK n : n = sig'[t]
      OBVIOUS
    <3>2. n.version = old.version /\ n.fault = old.fault /\ n.created = old.created
          /\ n.signature = old.signature /\ n.signed = Older(old.signed)
      BY <2>3, <3>1 DEF SigResult
    <3>3. n.signed # None /\ old.signed # None /\ old.signed # "expired"
      BY <2>3, <3>2, OlderType, NoneIsNothing DEF Age
    <3>4. OneEnd(n)
      BY <2>1, <3>2 DEF OneEnd
    <3>. QED
      BY <2>1, <3>1, <3>2, <3>3, <3>4 DEF RowEnds, RowAges
  <2>. QED
    BY <1>0, <2>1, <2>2, <2>3 DEF GrowOlder
<1>. QED
  BY <1>1, <1>2, SameEnd DEF RowsEnd

\* How rows may change in any step.
LEMMA RowsEndStep ==
  ASSUME SigInv, EndsSound, [SigNext]_allVars
  PROVE  RowsEnd
<1>1. CASE UNCHANGED sig
  BY <1>1, SameEnd DEF RowsEnd
<1>2. ASSUME NEW t \in Txs, SignatureRequest(t)
      PROVE  RowsEnd
  <2>1. t \notin DOMAIN sig
    BY <1>2 DEF SignatureRequest, SigInv, AsksSound
  <2>2. UNCHANGED sig \/ \E n : sig' = Upsert(sig, Row(t, n))
    BY <1>2 DEF SignatureRequest
  <2>3. \A x \in DOMAIN sig : sig'[x] = sig[x]
    BY <2>1, <2>2 DEF Upsert, Row
  <2>. QED
    BY <2>3, SameEnd DEF RowsEnd
<1>3. ASSUME NEW t \in Txs, \/ \E r \in Refs : SignCheck(t, r)
                            \/ DoSign(t)
                            \/ Outcome(t)
                            \/ GrowOlder(t)
      PROVE  RowsEnd
  BY <1>1, <1>3, OlderEnds DEF SignCheck, DoSign, Outcome
<1>4. ASSUME NEW c \in Collectors, \/ CollectAll(c)
                                   \/ \E t \in Txs : Collect(c, t)
                                   \/ CollectFails(c)
                                   \/ CollectCommit(c)
      PROVE  RowsEnd
  BY <1>1, <1>4, CollectedEnds DEF CollectAll, Collect, CollectFails
<1>5. ASSUME NEW p \in Posters, \/ SigPostProcessAll(p)
                                \/ \E t \in Txs : SigPostProcess(p, t)
                                \/ PostCount(p)
                                \/ PostAppend(p)
                                \/ PostCommit(p)
      PROVE  RowsEnd
  BY <1>1, <1>5, PostedEnds DEF SigPostProcessAll, SigPostProcess, PostCount, PostAppend
<1>6. CASE UNCHANGED allVars \/ RestNext
  <2>1. UNCHANGED sig
    BY <1>6, RestStep DEF allVars, sigVars
  <2>. QED
    BY <1>1, <2>1
<1>. QED
  BY <1>2, <1>3, <1>4, <1>5, <1>6 DEF SigNext

\* What a run of CollectJob knows stays true while others commit.
LEMMA OpenKept ==
  ASSUME SigInv, RowsMove, RowsEnd, NEW b, BatchOK(b), CollectedSound(b), CollectsOpen(b)
  PROVE  CollectsOpen(b)'
<1>1. ASSUME NEW t \in DOMAIN b.rows, b.rows[t].version = sig'[t].version
      PROVE  ~ sig'[t].fault
  <2>1. PICK row \in SigResult : row = b.rows[t] /\ t \in DOMAIN sig
    BY DEF BatchOK
  <2>2. Loaded(t, row)
    BY <2>1 DEF CollectedSound
  <2>3. row.version = sig[t].version
    BY <1>1, <2>1, <2>2, LoadedKept
  <2>4. ~ sig[t].fault /\ sig'[t].version = sig[t].version
    BY <1>1, <2>1, <2>3 DEF CollectsOpen
  <2>. QED
    BY <2>1, <2>4 DEF RowsEnd, RowEnds, RowAges
<1>. QED
  BY <1>1 DEF CollectsOpen

\* One run changes, the others go on.
LEMMA OpenChanged ==
  ASSUME SigInv, EndsSound, RowsMove, RowsEnd, NEW c \in Collectors, NEW b,
         collector' = [collector EXCEPT ![c] = b], CollectsOpen(b)'
  PROVE  (\A x \in Collectors : CollectsOpen(collector[x]))'
<1>1. DOMAIN collector = Collectors
  BY DEF SigInv, Shapes
<1>2. ASSUME NEW x \in Collectors \ {c}
      PROVE  CollectsOpen(collector[x])'
  <2>1. PICK a : a = collector[x] /\ a = collector'[x]
    BY <1>1
  <2>2. BatchOK(a) /\ CollectedSound(a) /\ CollectsOpen(a)
    BY <2>1 DEF SigInv, CollectedSound, EndsSound
  <2>3. CollectsOpen(a)'
    BY <2>2, OpenKept
  <2>. QED
    BY <2>1, <2>3
<1>3. CollectsOpen(collector[c])'
  BY <1>1
<1>. QED
  BY <1>2, <1>3

\* None changes.
LEMMA OpenUnchanged ==
  ASSUME SigInv, EndsSound, RowsMove, RowsEnd, UNCHANGED collector
  PROVE  (\A x \in Collectors : CollectsOpen(collector[x]))'
<1>1. ASSUME NEW x \in Collectors
      PROVE  CollectsOpen(collector[x])'
  <2>1. PICK a : a = collector[x] /\ a = collector'[x]
    OBVIOUS
  <2>2. BatchOK(a) /\ CollectedSound(a) /\ CollectsOpen(a)
    BY <2>1 DEF SigInv, CollectedSound, EndsSound
  <2>3. CollectsOpen(a)'
    BY <2>2, OpenKept
  <2>. QED
    BY <2>1, <2>3
<1>. QED
  BY <1>1

\* The answer of the service fails an order or brings its signature, not both.
LEMMA CollectedEnd ==
  ASSUME NEW row \in SigResult, NEW o, row.signature = "none", ~ row.fault
  PROVE  LET n == Collected(row, o) IN
         n.created = row.created /\ n.version = row.version /\ OneEnd(n)
<1>1. PICK n : n = Collected(row, o)
  OBVIOUS
<1>2. CASE o = "fault"
  <2>1. n = [row EXCEPT !.fault = TRUE]
    BY <1>1, <1>2 DEF Collected
  <2>2. n.created = row.created /\ n.version = row.version /\ n.signature = "none"
    BY <2>1 DEF SigResult
  <2>. QED
    BY <1>1, <2>2 DEF OneEnd
<1>3. CASE o # "fault"
  <2>1. \/ n = [row EXCEPT !.progress = o]
        \/ \E s : n = [row EXCEPT !.progress = "COMPLETE", !.signature = s, !.signed = "young"]
    BY <1>1, <1>3 DEF Collected
  <2>2. n.created = row.created /\ n.version = row.version /\ ~ n.fault
    BY <2>1 DEF SigResult
  <2>. QED
    BY <1>1, <2>2 DEF OneEnd
<1>. QED
  BY <1>2, <1>3

\* Whatever is done, every run of CollectJob works on orders that were open.
LEMMA OpenStep ==
  ASSUME SigInv, EndsSound, RowsMove, RowsEnd, [SigNext]_allVars
  PROVE  (\A x \in Collectors : CollectsOpen(collector[x]))'
<1>0. /\ sig \in [DOMAIN sig -> SigResult] /\ DOMAIN collector = Collectors
      /\ \A c \in Collectors : /\ DOMAIN collector[c] = CollectorFields
                               /\ CollectedSound(collector[c]) /\ BatchOK(collector[c])
  BY DEF SigInv, SigTypeOK, Shapes, CollectedSound, CollectorFields
<1>1. ASSUME NEW c \in Collectors, CollectAll(c)
      PROVE  (\A x \in Collectors : CollectsOpen(collector[x]))'
  <2>1. PICK b : b = [collector[c] EXCEPT !.pc = "run", !.todo = CollectCandidates,
                                          !.rows = [t \in CollectCandidates |-> sig[t]]]
    OBVIOUS
  <2>2. collector' = [collector EXCEPT ![c] = b] /\ UNCHANGED sig
    BY <1>1, <2>1 DEF CollectAll
  <2>3. b.rows = [t \in CollectCandidates |-> sig[t]]
    BY <1>0, <2>1 DEF CollectorFields
  <2>4. CollectsOpen(b)'
    BY <2>2, <2>3 DEF CollectsOpen, CollectCandidates, OneEnd
  <2>. QED
    BY <2>2, <2>4, OpenChanged
<1>2. ASSUME NEW c \in Collectors, NEW t \in Txs, Collect(c, t)
      PROVE  (\A x \in Collectors : CollectsOpen(collector[x]))'
  <2>1. PICK old : old = collector[c]
    OBVIOUS
  <2>2. /\ DOMAIN old = CollectorFields /\ t \in old.todo /\ CollectsOpen(old)
        /\ CollectedSound(old) /\ BatchOK(old)
    BY <1>0, <1>2, <2>1 DEF Collect, EndsSound
  <2>3. PICK row \in SigResult : row = old.rows[t] /\ t \in DOMAIN old.rows
    BY <2>2 DEF BatchOK
  <2>4. /\ row.signature = "none" /\ ~ row.fault /\ row.created = "due"
        /\ row.version = sig[t].version => ~ sig[t].fault
    BY <2>2, <2>3 DEF CollectsOpen, CollectedSound
  <2>5. PICK n : n = Collected(row, order[t])
    OBVIOUS
  <2>6. n.created = "due" /\ n.version = row.version /\ OneEnd(n)
    BY <2>4, <2>5, CollectedEnd
  <2>7. PICK b : collector' = [collector EXCEPT ![c] = b] /\
                 b = [old EXCEPT !.todo = @ \ {t}, !.rows[t] = n,
                                 !.changed = IF n = old.rows[t] THEN @ ELSE @ \cup {t}]
    BY <1>2, <2>1, <2>3, <2>5 DEF Collect
  <2>8. b.rows = [old.rows EXCEPT ![t] = n] /\ b.todo = old.todo \ {t}
    BY <2>2, <2>7 DEF CollectorFields
  <2>9. /\ DOMAIN b.rows = DOMAIN old.rows /\ b.rows[t] = n
        /\ \A x \in DOMAIN old.rows \ {t} : b.rows[x] = old.rows[x]
    BY <2>3, <2>8
  <2>10. UNCHANGED sig
    BY <1>2 DEF Collect
  <2>11. CollectsOpen(b)'
    <3>1. ASSUME NEW x \in DOMAIN b.rows
          PROVE  /\ b.rows[x].created = "due" /\ OneEnd(b.rows[x])
                 /\ x \in b.todo => ~ b.rows[x].fault
                 /\ b.rows[x].version = sig'[x].version => ~ sig'[x].fault
      <4>1. CASE x = t
        BY <2>4, <2>6, <2>8, <2>9, <2>10, <4>1
      <4>2. CASE x # t
        BY <2>2, <2>8, <2>9, <2>10, <4>2 DEF CollectsOpen
      <4>. QED
        BY <4>1, <4>2
    <3>. QED
      BY <3>1 DEF CollectsOpen
  <2>. QED
    BY <2>7, <2>11, OpenChanged
<1>3. ASSUME NEW c \in Collectors, CollectFails(c) \/ CollectCommit(c)
      PROVE  (\A x \in Collectors : CollectsOpen(collector[x]))'
  <2>1. collector' = [collector EXCEPT ![c] = NoBatch]
    BY <1>3 DEF CollectFails, CollectCommit
  <2>2. CollectsOpen(NoBatch)'
    BY DEF CollectsOpen, NoBatch, Empty
  <2>. QED
    BY <2>1, <2>2, OpenChanged
<1>4. ASSUME NEW t \in Txs, \/ \E r \in Refs : SignCheck(t, r)
                            \/ DoSign(t)
                            \/ SignatureRequest(t)
                            \/ Outcome(t)
                            \/ GrowOlder(t)
      PROVE  UNCHANGED collector
  BY <1>4 DEF SignCheck, DoSign, SignatureRequest, Outcome, GrowOlder
<1>5. ASSUME NEW p \in Posters, \/ SigPostProcessAll(p)
                                \/ \E t \in Txs : SigPostProcess(p, t)
                                \/ PostCount(p)
                                \/ PostAppend(p)
                                \/ PostCommit(p)
      PROVE  UNCHANGED collector
  BY <1>5 DEF SigPostProcessAll, SigPostProcess, PostCount, PostAppend, PostCommit
<1>6. CASE UNCHANGED allVars \/ RestNext
  <2>1. UNCHANGED collector
    BY <1>6, RestStep DEF allVars, sigVars
  <2>. QED
    BY <2>1, OpenUnchanged
<1>. QED
  BY <1>1, <1>2, <1>3, <1>4, <1>5, <1>6, OpenUnchanged DEF SigNext

\* A run of PostprocessJob takes up orders with a signature, which have not failed.
LEMMA UnfailedStep ==
  ASSUME SigInv, EndsSound, [SigNext]_allVars
  PROVE  (\A x \in Posters : PostsUnfailed(poster[x]))'
<1>0. /\ DOMAIN poster = Posters
      /\ \A p \in Posters : DOMAIN poster[p] = PosterFields /\ PostsUnfailed(poster[p])
  BY DEF SigInv, Shapes, EndsSound, PosterFields
<1>1. ASSUME NEW p \in Posters, NEW b, poster' = [poster EXCEPT ![p] = b], PostsUnfailed(b)
      PROVE  (\A x \in Posters : PostsUnfailed(poster[x]))'
  <2>1. poster'[p] = b /\ \A x \in Posters \ {p} : poster'[x] = poster[x]
    BY <1>0, <1>1
  <2>. QED
    BY <1>0, <1>1, <2>1 DEF PostsUnfailed
<1>2. ASSUME NEW p \in Posters, SigPostProcessAll(p)
      PROVE  (\A x \in Posters : PostsUnfailed(poster[x]))'
  <2>1. PICK b : b = [poster[p] EXCEPT !.pc = "check", !.todo = PostCandidates,
                                       !.rows = [t \in PostCandidates |-> sig[t]]]
    OBVIOUS
  <2>2. poster' = [poster EXCEPT ![p] = b]
    BY <1>2, <2>1 DEF SigPostProcessAll
  <2>3. b.rows = [t \in PostCandidates |-> sig[t]]
    BY <1>0, <2>1 DEF PosterFields
  <2>4. ASSUME NEW t \in PostCandidates
        PROVE  ~ sig[t].fault
    <3>1. RowSound(sig[t]) /\ OneEnd(sig[t]) /\ sig[t].signed # None
      BY NoneIsNothing DEF PostCandidates, SigInv, RowsSound, EndsSound
    <3>. QED
      BY <3>1 DEF RowSound, OneEnd
  <2>5. PostsUnfailed(b)
    BY <2>3, <2>4 DEF PostsUnfailed
  <2>. QED
    BY <1>1, <2>2, <2>5
<1>3. ASSUME NEW p \in Posters, NEW t, NEW rb, t \in poster[p].todo, Refuse(p, t, rb)
      PROVE  (\A x \in Posters : PostsUnfailed(poster[x]))'
  <2>1. PICK old : old = poster[p]
    OBVIOUS
  <2>2. DOMAIN old = PosterFields /\ BatchOK(old) /\ PostsUnfailed(old)
    BY <1>0, <2>1 DEF SigInv, PostedSound
  <2>3. PICK b : poster' = [poster EXCEPT ![p] = b] /\
          b = [old EXCEPT !.todo = @ \ {t}, !.rows[t].conflict = TRUE,
                          !.changed = @ \cup {t}, !.rollbackOnly = @ \/ rb]
    BY <1>3, <2>1 DEF Refuse
  <2>4. b.rows = [old.rows EXCEPT ![t].conflict = TRUE]
    BY <2>2, <2>3 DEF PosterFields
  <2>5. t \in DOMAIN old.rows /\ old.rows[t] \in SigResult
    BY <1>3, <2>1, <2>2 DEF BatchOK
  <2>6. b.rows[t].fault = old.rows[t].fault
    BY <2>4, <2>5 DEF SigResult
  <2>7. PostsUnfailed(b)
    BY <2>2, <2>4, <2>6 DEF PostsUnfailed
  <2>. QED
    BY <1>1, <2>3, <2>7
<1>4. ASSUME NEW p \in Posters, NEW t \in Txs, SigPostProcess(p, t)
      PROVE  (\A x \in Posters : PostsUnfailed(poster[x]))'
  <2>1. CASE poster' = [poster EXCEPT ![p].pc = "count", ![p].tx = t]
    <3>1. PICK b : b = [poster[p] EXCEPT !.pc = "count", !.tx = t]
      OBVIOUS
    <3>2. poster' = [poster EXCEPT ![p] = b]
      BY <1>0, <2>1, <3>1
    <3>3. b.rows = poster[p].rows
      BY <1>0, <3>1 DEF PosterFields
    <3>. QED
      BY <1>0, <1>1, <3>2, <3>3 DEF PostsUnfailed
  <2>2. CASE Refuse(p, t, FALSE) \/ Refuse(p, t, TRUE)
    BY <1>3, <1>4, <2>2 DEF SigPostProcess
  <2>. QED
    BY <1>4, <2>1, <2>2 DEF SigPostProcess
<1>5. ASSUME NEW p \in Posters, PostCount(p)
      PROVE  (\A x \in Posters : PostsUnfailed(poster[x]))'
  <2>1. PICK n : poster' = [poster EXCEPT ![p].pc = "append", ![p].count = n]
    BY <1>5 DEF PostCount
  <2>2. PICK b : b = [poster[p] EXCEPT !.pc = "append", !.count = n]
    OBVIOUS
  <2>3. poster' = [poster EXCEPT ![p] = b]
    BY <1>0, <2>1, <2>2
  <2>4. b.rows = poster[p].rows
    BY <1>0, <2>2 DEF PosterFields
  <2>. QED
    BY <1>0, <1>1, <2>3, <2>4 DEF PostsUnfailed
<1>6. ASSUME NEW p \in Posters, PostAppend(p)
      PROVE  (\A x \in Posters : PostsUnfailed(poster[x]))'
  <2>1. PICK old : old = poster[p]
    OBVIOUS
  <2>2. /\ DOMAIN old = PosterFields /\ BatchOK(old) /\ PostsUnfailed(old)
        /\ old.tx \in old.todo
    BY <1>0, <1>6, <2>1 DEF SigInv, PostedSound, PostAppend
  <2>3. PICK t : t = old.tx
    OBVIOUS
  <2>4. PICK r, steps, pdfs, versions :
          poster' = [poster EXCEPT ![p] =
            [old EXCEPT !.pc = "check", !.todo = @ \ {old.tx}, !.tx = None, !.count = 0,
                        !.changed = @ \cup {old.tx}, !.rows[old.tx].out = r,
                        !.steps = steps, !.pdfs = pdfs, !.versions = versions]]
    <3>. DEFINE base == old.rows[old.tx].ref
                d == docStep[base].doc
    <3>1. PICK r : poster' = [poster EXCEPT ![p] =
            [old EXCEPT !.pc = "check", !.todo = @ \ {old.tx}, !.tx = None, !.count = 0,
                        !.changed = @ \cup {old.tx}, !.rows[old.tx].out = r,
                        !.steps = Upsert(@, Row(r, SignedStep(base, old.count))),
                        !.pdfs = Upsert(@, Row(r, SignedContents(base, old.tx))),
                        !.versions = IF NumberFree(d, old.count)
                                     THEN Upsert(@, Row(d, boxDoc[d].version)) ELSE @]]
      BY <1>6, <2>1 DEF PostAppend
    <3>2. PICK steps : steps = Upsert(old.steps, Row(r, SignedStep(base, old.count)))
      OBVIOUS
    <3>3. PICK pdfs : pdfs = Upsert(old.pdfs, Row(r, SignedContents(base, old.tx)))
      OBVIOUS
    <3>4. PICK versions : versions = IF NumberFree(d, old.count)
                                     THEN Upsert(old.versions, Row(d, boxDoc[d].version))
                                     ELSE old.versions
      OBVIOUS
    <3>. HIDE DEF base, d
    <3>. QED
      BY <3>1, <3>2, <3>3, <3>4
  <2>5. PICK b : poster' = [poster EXCEPT ![p] = b] /\
          b = [old EXCEPT !.pc = "check", !.todo = @ \ {t}, !.tx = None, !.count = 0,
                          !.changed = @ \cup {t}, !.rows[t].out = r,
                          !.steps = steps, !.pdfs = pdfs, !.versions = versions]
    BY <2>3, <2>4
  <2>6. b.rows = [old.rows EXCEPT ![t].out = r]
    BY <2>2, <2>5 DEF PosterFields
  <2>7. t \in DOMAIN old.rows /\ old.rows[t] \in SigResult
    BY <2>2, <2>3 DEF BatchOK
  <2>8. b.rows[t].fault = old.rows[t].fault
    BY <2>6, <2>7 DEF SigResult
  <2>9. PostsUnfailed(b)
    BY <2>2, <2>6, <2>8 DEF PostsUnfailed
  <2>. QED
    BY <1>1, <2>5, <2>9
<1>7. ASSUME NEW p \in Posters, PostCommit(p)
      PROVE  (\A x \in Posters : PostsUnfailed(poster[x]))'
  <2>1. poster' = [poster EXCEPT ![p] = NoPost]
    BY <1>7 DEF PostCommit
  <2>2. PostsUnfailed(NoPost)
    BY DEF PostsUnfailed, NoPost, Empty
  <2>. QED
    BY <1>1, <2>1, <2>2
<1>8. CASE UNCHANGED poster
  BY <1>0, <1>8 DEF PostsUnfailed
<1>9. ASSUME NEW t \in Txs, \/ \E r \in Refs : SignCheck(t, r)
                            \/ DoSign(t)
                            \/ SignatureRequest(t)
                            \/ Outcome(t)
                            \/ GrowOlder(t)
      PROVE  UNCHANGED poster
  BY <1>9 DEF SignCheck, DoSign, SignatureRequest, Outcome, GrowOlder
<1>10. ASSUME NEW c \in Collectors, \/ CollectAll(c)
                                    \/ \E t \in Txs : Collect(c, t)
                                    \/ CollectFails(c)
                                    \/ CollectCommit(c)
       PROVE  UNCHANGED poster
  BY <1>10 DEF CollectAll, Collect, CollectFails, CollectCommit
<1>11. CASE UNCHANGED allVars \/ RestNext
  <2>1. UNCHANGED poster
    BY <1>11, RestStep DEF allVars, sigVars
  <2>. QED
    BY <1>8, <2>1
<1>. QED
  BY <1>2, <1>4, <1>5, <1>6, <1>7, <1>8, <1>9, <1>10, <1>11 DEF SigNext

\* No step fails an order that is signed, or signs one that has failed.
LEMMA EndsStep ==
  ASSUME SigInv, EndsSound, [SigNext]_allVars
  PROVE  EndsSound' /\ RowsEnd
<1>1. RowsMove
  BY SigNextInv
<1>2. RowsEnd
  BY RowsEndStep
<1>3. ASSUME NEW t \in DOMAIN sig'
      PROVE  OneEnd(sig'[t])
  <2>1. CASE t \in DOMAIN sig
    BY <1>2, <2>1 DEF RowsEnd, RowEnds
  <2>2. CASE t \notin DOMAIN sig
    <3>1. PICK r \in Refs : sig'[t] = NewRow(r)
      BY <1>1, <2>2 DEF RowsMove, SigInv, Inv, TypeOK, StoreTypeOK
    <3>2. sig'[t].signature = "none"
      BY <3>1, NewRowType
    <3>. QED
      BY <3>2 DEF OneEnd
  <2>. QED
    BY <2>1, <2>2
<1>4. (\A t \in DOMAIN sig : OneEnd(sig[t]))'
  BY <1>3
<1>. QED
  BY <1>1, <1>2, <1>4, OpenStep, UnfailedStep DEF EndsSound

\* The invariant that this needs.
THEOREM EndsInvariance == SigSpec => []EndsSound
<1>1. SigInit => EndsSound
  BY DEF SigInit, Empty, EndsSound, NoBatch, NoPost, CollectsOpen, PostsUnfailed
<1>2. SigInv /\ EndsSound /\ [SigNext]_allVars => EndsSound'
  BY EndsStep
<1>. QED
  BY <1>1, <1>2, SigInvariance, PTL DEF SigSpec

\* What was reported as ended goes on only if the order had expired without a
\* signature and a run of CollectJob that took it up before stores one. Neither a
\* failure nor a conflict nor a success nor the expiry of a signature is taken back,
\* and no run of PostprocessJob resumes anything.
THEOREM ResumedLate == SigSpec => ResumedOnlyLate
<1>1. ASSUME SigInv, EndsSound, [SigNext]_allVars, NEW t \in Txs, Completed(t), ~ Completed(t)'
      PROVE  /\ sig[t].signed = None /\ sig[t].created = "expired"
             /\ \E c \in Collectors :
                  /\ t \in collector[c].changed
                  /\ collector[c].rows[t].created = "due"
                  /\ sig'[t].signature = collector[c].rows[t].signature
                  /\ sig'[t].signature # "none"
  <2>1. RowsMove /\ SigInv' /\ RowsEnd
    BY <1>1, SigNextInv, EndsStep
  <2>2. t \in DOMAIN sig /\ t \in DOMAIN sig' /\ ProcessingComplete(t) /\ ~ ProcessingComplete(t)'
    BY <1>1, <2>1 DEF Completed, RowsMove
  <2>3. RowMoves(t) /\ RowEnds(t)
    BY <2>1, <2>2 DEF RowsMove, RowsEnd
  <2>4. sig[t].signed = None /\ sig[t].created = "expired" /\ sig'[t].created = "expired"
    BY <2>2, <2>3 DEF ProcessingComplete, RowMoves, RowEnds, RowAges
  <2>5. sig'[t].signed # None
    BY <2>2, <2>4 DEF ProcessingComplete
  <2>6. sig'[t].signature # "none"
    BY <2>1, <2>2, <2>5 DEF SigInv, RowsSound, RowSound
  <2>. QED
    BY <2>3, <2>4, <2>5, <2>6 DEF RowEnds, StoredLate
<1>2. SigInv /\ EndsSound /\ [SigNext]_allVars =>
        [\A t \in Txs : Completed(t) /\ ~Completed(t)' =>
           /\ sig[t].signed = None /\ sig[t].created = "expired"
           /\ \E c \in Collectors :
                /\ t \in collector[c].changed
                /\ collector[c].rows[t].created = "due"
                /\ sig'[t].signature = collector[c].rows[t].signature
                /\ sig'[t].signature # "none"]_allVars
  BY <1>1
<1>. QED
  BY <1>2, SigInvariance, EndsInvariance, PTL DEF SigSpec, ResumedOnlyLate

-----------------------------------------------------------------------------
(* The pages of the PDFs that the jobs sign *)

\* Every signature of a PDF, whether a client or a run of PostprocessJob added it,
\* was made over contents that the store still has.
THEOREM PagesCoverByOrder == SigSpec => []EveryPageCovers
<1>1. SigInit => EveryPageCovers
  <2>1. SigInit => \A r \in DOMAIN pdf : pdf[r].pages = <<>>
    BY DEF SigInit
  <2>. QED
    BY <2>1 DEF EveryPageCovers
<1>2. SigInv /\ SigInv' /\ [SigNext]_allVars /\ EveryPageCovers => EveryPageCovers'
  <2>. SUFFICES ASSUME SigInv, SigInv', [SigNext]_allVars, EveryPageCovers
                PROVE  EveryPageCovers'
    OBVIOUS
  <2>1. Grows /\ [Store!Next]_Copies
    BY StoreStep
  <2>. QED
    BY <2>1, EveryPageStep DEF SigInv, Inv, TypeOK
<1>. QED
  BY <1>1, <1>2, SigInvariance, PTL DEF SigSpec

==============================================================================
