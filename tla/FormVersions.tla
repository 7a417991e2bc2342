---------------------------- MODULE FormVersions ----------------------------
(***************************************************************************)
(* The form definitions of the forms database (src/postxdb): the form      *)
(* editor saves drafts, publishes, and a REST call adds languages.  Each   *)
(* operation is one transaction: it reads the definition, validates what   *)
(* it is about to add against what other transactions have committed, and  *)
(* is written at once when the transaction commits, except for what was    *)
(* not valid, or not at all.                                               *)
(***************************************************************************)
EXTENDS Naturals

CONSTANTS
  None,        \* no definition, no text, no path
  Forms,       \* names "app/form"
  Texts,       \* what an editor may send
  LongTexts,   \* those whose title, author, ... a version row has no room for
  Carried,     \* versions that the form name in a text may carry
  Requests,    \* requests at work at one time
  MaxVersion,  \* 999 in the code
  MaxDraft     \* 999 in the code

\* Magic draft number of a version that has been published.
Published == 9999

ASSUME BoundsOfPaths ==
  /\ MaxVersion \in Nat \ {0}
  /\ MaxDraft \in 1 .. (Published - 2)

VARIABLES
  formdef,  \* per form: the row of PxdFormdef, or None
  vers,     \* per form: paths of its PxdFormdefVer rows
  items,    \* per form: its PxdItem rows, a function of their paths
  req,      \* per request: what it is about and how far it has come
  stray     \* history, per form: items of first saves that came second

formVars == <<formdef, vers, items, req, stray>>

-----------------------------------------------------------------------------
(* Paths, <<version, draft>>, and rows of PxdFormdef.                       *)

Paths == (1 .. (MaxVersion + 1)) \X ((1 .. (MaxDraft + 1)) \union {Published})
Rows == [cur : Paths, ver : Nat]

ASSUME NoneIsNothing == None \notin Texts \union Paths \union Rows
ASSUME SomeAreLong == LongTexts \subseteq Texts

\* Mutant: numbers are not checked.
ParsesUnchecked(p) == p[1] > 0

\* Numbers are checked when a path is parsed, never when it is made.
Parses(p) == /\ p[1] \in 1 .. MaxVersion
             /\ p[2] \in (1 .. MaxDraft) \union {Published}

ASSUME CarriedParse == Carried \subseteq Paths /\ \A p \in Carried : Parses(p)

FirstDraft == <<1, 1>>
NextDraft(p) == IF p[2] < Published THEN <<p[1], p[2] + 1>> ELSE <<p[1] + 1, 1>>
NextVersion(p) == <<p[1] + 1, 1>>
PublishedPath(p) == <<p[1], Published>>

-----------------------------------------------------------------------------
(* Requests.                                                               *)

Nothing == [def |-> FALSE, vers |-> {}, items |-> {}]
Idle == [op |-> "none", at |-> "idle", form |-> None, text |-> None,
         carried |-> None, row |-> None, new |-> Nothing]

\* A form begins with its first draft, or where another form left off whose
\* version is still in the form name of the text.
BeginsAt(carried) == IF carried = None THEN FirstDraft ELSE NextDraft(carried)

\* Mutant: a publication goes on with the drafts of the same version.
NewCurrentDraft(q) == IF q.row = None THEN BeginsAt(q.carried) ELSE NextDraft(q.row.cur)

\* The path of the current draft once the request is done.
NewCurrent(q) == IF q.row = None THEN BeginsAt(q.carried)
                 ELSE IF q.op = "publish" THEN NextVersion(q.row.cur)
                 ELSE NextDraft(q.row.cur)

\* All paths the request adds.
NewPaths(q) == {NewCurrent(q)} \union
               (IF q.op = "publish" THEN {PublishedPath(q.row.cur)} ELSE {})

\* The path of the draft the text of a new item is copied from, if it is.
Source(q, p) == IF q.op = "language" \/ (q.op = "publish" /\ p[2] # Published)
                THEN q.row.cur ELSE None

NewItem(q, p) == LET s == Source(q, p) IN
  [text |-> IF s = None THEN q.text ELSE items[q.form][s].text, from |-> s]

\* The paths whose version rows are valid: there is room for the title, the
\* description, the language and the author of the text.
Fitting(q) == {p \in NewPaths(q) : NewItem(q, p).text \notin LongTexts}

Free(r) == req[r].at \in {"idle", "done", "failed"}

\* A request reads the definition; a current draft that does not parse ends
\* it with an exception.
Reads(r, op, f, x, c) ==
  /\ Free(r)
  /\ req' = [req EXCEPT ![r] =
       [op |-> op, form |-> f, text |-> x, carried |-> c,
        row |-> formdef[f], new |-> Nothing,
        at |-> IF formdef[f] = None \/ Parses(formdef[f].cur)
               THEN "read" ELSE "failed"]]
  /\ UNCHANGED <<formdef, vers, items, stray>>

\* Only the first save looks at the version that the form name carries.
SaveReads(r, f, x, c) == (formdef[f] # None => c = None) /\ Reads(r, "save", f, x, c)

\* Without a definition there is nothing to add a language to (404) or to
\* publish (409).
LanguageReads(r, f) == formdef[f] # None /\ Reads(r, "language", f, None, None)
PublishReads(r, f, x) == formdef[f] # None /\ Reads(r, "publish", f, x, None)

\* Mutant: a publication does not store the draft of the next version.
ValidatesPublished(r) ==
  /\ req[r].at = "read"
  /\ LET q == req[r] f == req[r].form
         next == IF q.op = "publish" THEN {NewCurrent(q)} ELSE {}
     IN req' = [req EXCEPT ![r].at = "valid",
                  ![r].new = [def |-> q.row # None \/ formdef[f] = None,
                              vers |-> Fitting(q) \ vers[f],
                              items |-> (NewPaths(q) \ next) \ DOMAIN items[f]]]
  /\ UNCHANGED <<formdef, vers, items, stray>>

\* save() of each object: one whose path is taken is not valid, nor is a
\* version whose metadata do not fit; that is logged, the object is left out,
\* and the request goes on.
Validates(r) ==
  /\ req[r].at = "read"
  /\ LET q == req[r] f == req[r].form IN
       req' = [req EXCEPT ![r].at = "valid",
                 ![r].new = [def |-> q.row # None \/ formdef[f] = None,
                             vers |-> Fitting(q) \ vers[f],
                             items |-> NewPaths(q) \ DOMAIN items[f]]]
  /\ UNCHANGED <<formdef, vers, items, stray>>

\* Mutant: no optimistic lock.
StaleIfCreated(q) == q.new.def /\ q.row = None /\ formdef[q.form] # None

\* The row of the definition is not the one that was read (optimistic lock),
\* or was created meanwhile (unique path).
Stale(q) == q.new.def /\ \/ q.row = None /\ formdef[q.form] # None
                         \/ q.row # None /\ formdef[q.form].ver # q.row.ver

\* What makes the flush throw: a stale definition, a path taken since the
\* validation, a version without its definition, a latest draft that is gone.
FlushFails(q) ==
  \/ Stale(q)
  \/ q.new.vers \intersect vers[q.form] # {}
  \/ q.new.items \intersect DOMAIN items[q.form] # {}
  \/ ~q.new.def /\ q.new.vers # {}
  \/ \E p \in q.new.items : Source(q, p) \notin DOMAIN items[q.form] \union {None}

CommitFails(r) ==
  /\ req[r].at = "valid" /\ FlushFails(req[r])
  /\ req' = [req EXCEPT ![r].at = "failed"]
  /\ UNCHANGED <<formdef, vers, items, stray>>

Commits(r) ==
  /\ req[r].at = "valid" /\ ~FlushFails(req[r])
  /\ LET q == req[r] f == req[r].form new == req[r].new IN
       /\ formdef' = IF ~new.def THEN formdef ELSE [formdef EXCEPT ![f] =
            [cur |-> NewCurrent(q), ver |-> IF q.row = None THEN 0 ELSE q.row.ver + 1]]
       /\ vers' = [vers EXCEPT ![f] = @ \union new.vers]
       /\ items' = [items EXCEPT ![f] =
            [p \in DOMAIN items[f] \union new.items |->
               IF p \in new.items THEN NewItem(q, p) ELSE items[f][p]]]
       /\ stray' = IF new.def THEN stray ELSE [stray EXCEPT ![f] = @ \union new.items]
  /\ req' = [req EXCEPT ![r].at = "done"]

-----------------------------------------------------------------------------
FormInit == /\ formdef = [f \in Forms |-> None]
            /\ vers = [f \in Forms |-> {}]
            /\ items = [f \in Forms |-> [p \in {} |-> None]]
            /\ req = [r \in Requests |-> Idle]
            /\ stray = [f \in Forms |-> {}]

FormStep(r) == \/ \E f \in Forms, x \in Texts, c \in Carried \union {None} : SaveReads(r, f, x, c)
               \/ \E f \in Forms, x \in Texts : PublishReads(r, f, x)
               \/ \E f \in Forms : LanguageReads(r, f)
               \/ Validates(r) \/ CommitFails(r) \/ Commits(r)

FormNext == \E r \in Requests : FormStep(r)

FormSpec == FormInit /\ [][FormNext]_formVars

-----------------------------------------------------------------------------
ItemRows == [text : Texts, from : Paths \union {None}]
RequestRows ==
  [op : {"none", "save", "language", "publish"},
   at : {"idle", "read", "valid", "done", "failed"},
   form : Forms \union {None}, text : Texts \union {None},
   carried : Carried \union {None}, row : Rows \union {None},
   new : [def : BOOLEAN, vers : SUBSET Paths, items : SUBSET Paths]]

\* Type invariant of the form definitions.
VersionsTypeOK ==
  /\ formdef \in [Forms -> Rows \union {None}]
  /\ vers \in [Forms -> SUBSET Paths]
  /\ \A f \in Forms : DOMAIN items[f] \subseteq Paths
                      /\ \A p \in DOMAIN items[f] : items[f][p] \in ItemRows
  /\ DOMAIN items = Forms
  /\ req \in [Requests -> RequestRows]
  /\ stray \in [Forms -> SUBSET Paths]

Before(p, q) == p[1] < q[1] \/ (p[1] = q[1] /\ p[2] < q[2])

\* The text of the current draft is stored, and every version and every text
\* of the form comes before it, except the text of a first save that came
\* second: no save or publication that overlaps another one, or whose version
\* row was not valid, leaves a draft behind the current one, a version without
\* its text, or a definition that names a draft which is not there.
NothingBehindCurrent ==
  \A f \in Forms :
    /\ formdef[f] = None => DOMAIN items[f] = {}
    /\ formdef[f] # None =>
         /\ formdef[f].cur \in DOMAIN items[f]
         /\ \A p \in vers[f] \union (DOMAIN items[f] \ stray[f]) :
              p = formdef[f].cur \/ Before(p, formdef[f].cur)
    /\ vers[f] \subseteq DOMAIN items[f]

\* A draft that was derived from another one in the database, by adding a
\* language or by publishing, takes over from the latest draft there was: no
\* draft was saved in between whose changes would be lost (but for a first
\* save that came second), and a version that the copy begins follows one
\* whose published text is stored.
DerivedFromLatest ==
  \A f \in Forms : \A p \in DOMAIN items[f] :
    LET s == items[f][p].from IN
    s # None =>
      /\ s \in DOMAIN items[f] /\ items[f][p].text = items[f][s].text
      /\ \/ p = NextDraft(s)
         \/ p = NextVersion(s) /\ PublishedPath(s) \in DOMAIN items[f]
      /\ \A t \in DOMAIN items[f] \ stray[f] :
           Before(s, t) => ~Before(t, p) \/ t = PublishedPath(s)

\* A save, publication or new language that found the definition and was
\* answered with 201 is in the database under the paths it was given, with
\* its text, for as long as the client may look, unless a first save that came
\* second sits there; and it is listed as a version exactly if its metadata
\* fit into the row.
AnsweredIsStored ==
  \A r \in Requests : LET q == req[r] IN
    q.at = "done" /\ q.row # None =>
      \A p \in NewPaths(q) \ stray[q.form] :
        /\ p \in DOMAIN items[q.form] /\ items[q.form][p] = NewItem(q, p)
        /\ p \in vers[q.form] <=> p \in Fitting(q)

\* The first save too: PxdItem says that each save creates a new draft.
EachSaveIsADraft ==
  \A r \in Requests : LET q == req[r] IN
    q.at = "done" /\ q.op = "save" =>
      /\ NewCurrent(q) \in DOMAIN items[q.form]
      /\ items[q.form][NewCurrent(q)].text = q.text

\* "If there are versions, one of them is the current draft."
CurrentIsAVersion ==
  \A f \in Forms : vers[f] # {} => formdef[f].cur \in vers[f]

\* "The application will probably prevent this from happening anyway": the
\* path of a current draft can be parsed again.
CurrentParses == \A f \in Forms : formdef[f] # None => Parses(formdef[f].cur)
=============================================================================
