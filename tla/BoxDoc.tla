------------------------------- MODULE BoxDoc -------------------------------
(***************************************************************************)
(* The DocBox document store: the tables box_doc, box_doc_step and         *)
(* box_contents, and the queries and inserts of DocService that the REST   *)
(* controllers and the post-processing job share.                          *)
(*                                                                         *)
(* A document (BoxDoc) evolves in steps (BoxDocStep). Every step has a     *)
(* docboxRef, a fresh uuid. Step contents (BoxContents) are written once:  *)
(* a PDF generated from form data, or the PDF of another step of the same  *)
(* document with one signature page added.                                 *)
(***************************************************************************)
EXTENDS Naturals, FiniteSets, Sequences

CONSTANTS
  Uuids,     \* form data uuids
  Docs,      \* document ids, 30-bit random numbers in the code
  Refs,      \* docboxRefs, fresh uuids in the code
  Sigs,      \* signatures, each made by somebody over the text of one step
  Requests,  \* HTTP requests, each served by a thread of its own
  None

ASSUME RefsFinite == IsFiniteSet(Refs)

\* No signature is not a signature.
ASSUME NoneIsNoSignature == None \notin Sigs

VARIABLES
  boxDoc,    \* document id -> its form data uuid and Hibernate version
  docStep,   \* docboxRef -> the BoxDocStep row
  pdf        \* docboxRef -> the contents named 'pdf', once there are any

storeVars == <<boxDoc, docStep, pdf>>

BoxDocRow == [formDataUuid: Uuids, version: Nat]
StepRow   == [doc: Docs, step: Nat, signCount: Nat]

\* A signature page carries the signature and the document number and the
\* checksum of the contents it was added to, here named by their docboxRef.
Page == [sig: Sigs, over: Refs]

\* Two runs of the PDF conversion never give the same bytes, so the contents
\* are the conversion they stem from and the pages added to it.
Contents == [origin: Requests \cup {None}, pages: Seq(Page)]

StoreTypeOK ==
  /\ DOMAIN boxDoc \subseteq Docs
  /\ boxDoc \in [DOMAIN boxDoc -> BoxDocRow]
  /\ DOMAIN docStep \subseteq Refs
  /\ docStep \in [DOMAIN docStep -> StepRow]
  /\ \A r \in DOMAIN docStep : docStep[r].doc \in DOMAIN boxDoc
  /\ DOMAIN pdf \subseteq DOMAIN docStep
  /\ pdf \in [DOMAIN pdf -> Contents]

Empty == [x \in {} |-> None]

\* The rows of f after the rows of g were inserted or updated.
Upsert(f, g) ==
  [x \in DOMAIN f \cup DOMAIN g |-> IF x \in DOMAIN g THEN g[x] ELSE f[x]]

Row(key, value) == [x \in {key} |-> value]

StoreInit ==
  /\ boxDoc = Empty
  /\ docStep = Empty
  /\ pdf = Empty

-----------------------------------------------------------------------------
(* Queries *)

StepsOf(d) == {r \in DOMAIN docStep : docStep[r].doc = d}

\* Mutant: steps that have no PDF are not counted.
StepCountOfPdfs(d) == Cardinality(StepsOf(d) \cap DOMAIN pdf)

StepCount(d) == Cardinality(StepsOf(d))

Latest(S) == {r \in S : \A x \in S : docStep[x].step <= docStep[r].step}

\* findStepByUuid without a step number. The query may match several rows, the
\* code takes the first of an unordered list.
FindStepByUuid(u) ==
  Latest({r \in DOMAIN docStep : boxDoc[docStep[r].doc].formDataUuid = u})

\* requireLatestStep: no step of the document has a higher number.
IsLatestStep(r) == r \in Latest(StepsOf(docStep[r].doc))

\* findPdfByRef with requireLatest succeeds.
PdfFoundByRef(r) ==
  /\ r \in DOMAIN docStep
  /\ IsLatestStep(r)
  /\ r \in DOMAIN pdf

-----------------------------------------------------------------------------
(* Inserts *)

\* addToSteps adds to the steps of a BoxDoc, a set sorted by document number. A
\* step that has the number of another one is not added and leaves the set as it
\* was. It is inserted into box_doc_step all the same.
NumberFree(d, n) == \A r \in StepsOf(d) : docStep[r].step # n

\* createBoxDocStep: inserting rows of box_doc_step. A change to the set of steps
\* of a BoxDoc makes Hibernate increment its version.
InsertSteps(new, changedDocs) ==
  /\ docStep' = Upsert(docStep, new)
  /\ boxDoc' = [d \in DOMAIN boxDoc |->
                  IF d \in changedDocs
                  THEN [boxDoc[d] EXCEPT !.version = @ + 1]
                  ELSE boxDoc[d]]

\* Mutants of SignedStep: steps numbered from one, the number of the signed step
\* taken again, the number of signatures left to its default.
SignedStepFromOne(r, count) ==
  [doc |-> docStep[r].doc, step |-> count + 1, signCount |-> docStep[r].signCount + 1]
SignedStepSame(r, count) ==
  [doc |-> docStep[r].doc, step |-> count - 1, signCount |-> docStep[r].signCount + 1]
SignedStepUncounted(r, count) ==
  [doc |-> docStep[r].doc, step |-> count, signCount |-> 0]

\* The step that carries one more signature than step r.
SignedStep(r, count) ==
  [doc |-> docStep[r].doc, step |-> count, signCount |-> docStep[r].signCount + 1]

\* Mutants of SignedContents: the page inserted in front, and the page added to
\* the original rather than to the contents of r.
SignedInFront(r, s) ==
  [origin |-> pdf[r].origin, pages |-> <<[sig |-> s, over |-> r]>> \o pdf[r].pages]
SignedOriginal(r, s) ==
  [origin |-> pdf[r].origin, pages |-> <<[sig |-> s, over |-> r]>>]

\* addPage: the contents of r with one page for signature s at the end.
SignedContents(r, s) ==
  [origin |-> pdf[r].origin, pages |-> Append(pdf[r].pages, [sig |-> s, over |-> r])]

-----------------------------------------------------------------------------
(* What the store promises about signatures *)

Signed(r) == r \in DOMAIN pdf /\ pdf[r].pages # <<>>

\* The step whose contents the last signature of r was added to.
Base(r) == pdf[r].pages[Len(pdf[r].pages)].over

\* Every signature page applies to all contents before it: the contents of a
\* signed step are those of the step named on its last page, complete and
\* unchanged, and that page. (The page says so in print, SigndocService.addPage.)
CoversItsBase ==
  \A r \in DOMAIN pdf : Signed(r) =>
    /\ Base(r) \in DOMAIN pdf
    /\ \E s \in Sigs : pdf[r] = SignedContents(Base(r), s)

\* So it is for every signature page of a PDF, not only for the last one: the step
\* it names is a step of the document, which has a PDF, and that PDF is what comes
\* before the page. Whoever holds a PDF with several signatures can find what each
\* of them was made over, unchanged.
EveryPageCovers ==
  \A r \in DOMAIN pdf : \A k \in DOMAIN pdf[r].pages :
    LET over == pdf[r].pages[k].over IN
    /\ over \in DOMAIN pdf
    /\ docStep[over].doc = docStep[r].doc
    /\ pdf[over].origin = pdf[r].origin
    /\ pdf[over].pages = SubSeq(pdf[r].pages, 1, k - 1)

\* A signed step belongs to the document of the step that was signed and has a
\* higher number. This is what makes requireLatestStep refuse, from then on, to
\* sign that step again.
SignedIsLater ==
  \A r \in DOMAIN pdf : Signed(r) =>
    /\ Base(r) \in DOMAIN docStep
    /\ docStep[r].doc = docStep[Base(r)].doc
    /\ docStep[r].step > docStep[Base(r)].step

\* signCount, which the REST interface reports without opening the PDF, is the
\* number of signature pages in the PDF.
SignCountIsPages ==
  \A r \in DOMAIN pdf : docStep[r].signCount = Len(pdf[r].pages)

\* A document has exactly one first step, and no later step takes its number.
OneFirstStep ==
  \A d \in DOMAIN boxDoc : Cardinality({r \in StepsOf(d) : docStep[r].step = 0}) = 1

\* The number of a step is below the number of steps of its document.
StepBelowCount ==
  \A r \in DOMAIN docStep : docStep[r].step < StepCount(docStep[r].doc)

\* A step that has no PDF has no signature.
NoPdfNoSignature == \A r \in DOMAIN docStep \ DOMAIN pdf : docStep[r].signCount = 0

\* A stored PDF as SignedCopies sees it.
Copies ==
  [r \in DOMAIN pdf |->
     [doc |-> docStep[r].doc, origin |-> pdf[r].origin, pages |-> pdf[r].pages]]

Store == INSTANCE SignedCopies WITH copies <- Copies

\* The store only ever grows, by originals and by copies with one more signature:
\* the tables implement SignedCopies. No request or job changes or removes a PDF,
\* or adds to it a page for another PDF or document.
StoreOnlyGrows == Store!Spec

=============================================================================
