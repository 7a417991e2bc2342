-------------------------- MODULE FormVersionsProofs --------------------------
(***************************************************************************)
(* The form definitions keep their types, nothing ends up behind the       *)
(* current draft, what is derived follows the latest draft, and what was   *)
(* answered with 201 is stored, for any number of forms, texts, requests,  *)
(* versions and drafts, and any texts whose version rows are not valid.    *)
(***************************************************************************)
EXTENDS FormVersions, TLAPS

\* A request at work works with a current draft that could be parsed.
RowParses(q) == q.at \in {"read", "valid"} /\ q.row # None => Parses(q.row.cur)

\* The row a request has read is an earlier one, or the one that is stored:
\* the lock version tells which.
RowKnown(q) ==
  /\ q.at # "idle" => q.form \in Forms
  /\ q.row # None => /\ q.form \in Forms
                     /\ q.row.cur[2] # Published
                     /\ formdef[q.form] # None
                     /\ q.row.cur \in DOMAIN items[q.form]
                     /\ q.row.ver <= formdef[q.form].ver
                     /\ q.row.ver = formdef[q.form].ver => q.row = formdef[q.form]

\* What the validation has let through: every path that is still free, a
\* version row if it fits, and the definition unless another request has
\* created it.
NewKnown(q) ==
  q.at = "valid" =>
    /\ q.new.vers \subseteq Fitting(q) /\ Fitting(q) \ vers[q.form] \subseteq q.new.vers
    /\ q.new.items \subseteq NewPaths(q)
    /\ NewPaths(q) \ DOMAIN items[q.form] \subseteq q.new.items
    /\ q.row # None => q.new.def
    /\ ~q.new.def => formdef[q.form] # None

\* A request has a text unless it adds a language, and only a request that
\* has found the definition adds languages or publishes.
OpKnown(q) == /\ q.op \in {"save", "publish"} => q.text \in Texts
              /\ q.op \in {"language", "publish"} => q.row # None
              /\ q.at # "idle" => q.op # "none"

\* The current draft of a definition is a draft; a first save that came second
\* has left an item that is a copy of nothing.
DefSound(f) ==
  /\ formdef[f] # None => formdef[f].cur[2] # Published
  /\ stray[f] \subseteq DOMAIN items[f]
  /\ \A p \in stray[f] : items[f][p].from = None

FormInv == /\ VersionsTypeOK /\ NothingBehindCurrent /\ DerivedFromLatest /\ AnsweredIsStored
           /\ \A f \in Forms : DefSound(f)
           /\ \A r \in Requests : /\ RowParses(req[r]) /\ RowKnown(req[r])
                                  /\ NewKnown(req[r]) /\ OpKnown(req[r])
-----------------------------------------------------------------------------
(* Paths.                                                                  *)

LEMMA NextPathsAreLater ==
  ASSUME NEW p \in Paths, Parses(p), p[2] # Published
  PROVE  /\ NextDraft(p) \in Paths /\ NextVersion(p) \in Paths /\ PublishedPath(p) \in Paths
         /\ NextDraft(p)[2] # Published /\ NextVersion(p)[2] # Published
         /\ Before(p, NextDraft(p)) /\ Before(p, NextVersion(p))
         /\ Before(p, PublishedPath(p)) /\ Before(PublishedPath(p), NextVersion(p))
BY BoundsOfPaths, SMT DEF Paths, Parses, NextDraft, NextVersion, PublishedPath, Before, Published

LEMMA BeginningIsPath ==
  ASSUME NEW c \in Carried \union {None}
  PROVE  BeginsAt(c) \in Paths /\ BeginsAt(c)[2] # Published
<1>1. CASE c = None
  BY <1>1, BoundsOfPaths, SMT DEF BeginsAt, FirstDraft, Paths, Published
<1>2. CASE c # None
  <2>1. c \in Paths /\ Parses(c) /\ BeginsAt(c) = NextDraft(c)
    BY <1>2, CarriedParse DEF BeginsAt
  <2> QED
    BY <2>1, BoundsOfPaths, SMT DEF NextDraft, Parses, Paths, Published
<1> QED
  BY <1>1, <1>2

LEMMA BeforeIsOrder ==
  ASSUME NEW p \in Paths, NEW q \in Paths, NEW s \in Paths
  PROVE  /\ Before(p, q) /\ Before(q, s) => Before(p, s)
         /\ Before(p, q) => ~Before(q, p) /\ p # q
BY BoundsOfPaths, SMT DEF Paths, Before, Published

\* What a request that found the current draft adds comes after it.
LEMMA NewPathsAreLater ==
  ASSUME NEW q \in RequestRows, q.row # None, Parses(q.row.cur), q.row.cur[2] # Published
  PROVE  /\ NewPaths(q) \subseteq Paths /\ NewCurrent(q) \in NewPaths(q)
         /\ NewCurrent(q)[2] # Published
         /\ \A p \in NewPaths(q) : Before(q.row.cur, p)
         /\ \A p \in NewPaths(q) : p = NewCurrent(q) \/ Before(p, NewCurrent(q))
<1> DEFINE c == q.row.cur
<1>1. c \in Paths
  BY DEF RequestRows, Rows
<1>2. /\ NextDraft(c) \in Paths /\ NextVersion(c) \in Paths /\ PublishedPath(c) \in Paths
      /\ NextDraft(c)[2] # Published /\ NextVersion(c)[2] # Published
      /\ Before(c, NextDraft(c)) /\ Before(c, NextVersion(c))
      /\ Before(c, PublishedPath(c)) /\ Before(PublishedPath(c), NextVersion(c))
  BY <1>1, NextPathsAreLater
<1> QED
  BY <1>2 DEF NewPaths, NewCurrent

LEMMA FirstPaths ==
  ASSUME NEW q, q.row = None, q.op # "publish"
  PROVE  NewPaths(q) = {BeginsAt(q.carried)} /\ NewCurrent(q) = BeginsAt(q.carried)
BY DEF NewPaths, NewCurrent

-----------------------------------------------------------------------------
(* The steps.                                                              *)

LEMMA InitFormInv == FormInit => FormInv
<1> SUFFICES ASSUME FormInit PROVE FormInv
  OBVIOUS
<1>1. VersionsTypeOK
  BY DEF FormInit, VersionsTypeOK, RequestRows, Idle, Nothing
<1>2. NothingBehindCurrent
  BY DEF FormInit, NothingBehindCurrent
<1>3. DerivedFromLatest
  BY DEF FormInit, DerivedFromLatest
<1>4. AnsweredIsStored
  BY DEF FormInit, AnsweredIsStored, Idle
<1>5. \A f \in Forms : DefSound(f)
  BY DEF FormInit, DefSound
<1>6. \A r \in Requests : /\ RowParses(req[r]) /\ RowKnown(req[r])
                          /\ NewKnown(req[r]) /\ OpKnown(req[r])
  BY DEF FormInit, RowParses, RowKnown, NewKnown, OpKnown, Idle
<1> QED
  BY <1>1, <1>2, <1>3, <1>4, <1>5, <1>6 DEF FormInv

\* A step that changes only the request r keeps what is said of the rows, and
\* of the other requests.
LEMMA OneRequestChanges ==
  ASSUME FormInv, NEW r \in Requests, NEW q \in RequestRows,
         req' = [req EXCEPT ![r] = q], UNCHANGED <<formdef, vers, items, stray>>,
         RowParses(q), RowKnown(q), NewKnown(q), OpKnown(q), q.at # "done"
  PROVE  FormInv'
<1>1. /\ VersionsTypeOK' /\ NothingBehindCurrent' /\ DerivedFromLatest'
      /\ \A f \in Forms : DefSound(f)'
  BY DEF FormInv, VersionsTypeOK, NothingBehindCurrent, DerivedFromLatest, DefSound
<1>2. \A s \in Requests : req'[s] = IF s = r THEN q ELSE req[s]
  BY DEF FormInv, VersionsTypeOK
<1>3. ASSUME NEW s \in Requests
      PROVE  (RowParses(req[s]) /\ RowKnown(req[s]) /\ NewKnown(req[s]) /\ OpKnown(req[s]))'
  <2>1. CASE s = r
    BY <1>2, <2>1 DEF RowParses, RowKnown, NewKnown, OpKnown, Fitting, NewItem
  <2>2. CASE s # r
    <3>1. RowParses(req[s]) /\ RowKnown(req[s]) /\ NewKnown(req[s]) /\ OpKnown(req[s])
      BY DEF FormInv
    <3> QED
      BY <1>2, <2>2, <3>1 DEF RowParses, RowKnown, NewKnown, OpKnown, Fitting, NewItem
  <2> QED
    BY <2>1, <2>2
<1>4. AnsweredIsStored'
  BY <1>2 DEF FormInv, AnsweredIsStored, NewItem, Fitting
<1> QED
  BY <1>1, <1>3, <1>4 DEF FormInv

LEMMA ReadsKeep ==
  ASSUME FormInv, NEW r \in Requests, NEW op \in {"save", "language", "publish"},
         NEW f \in Forms, NEW x \in Texts \union {None},
         NEW c \in Carried \union {None},
         op # "language" => x \in Texts, op # "save" => formdef[f] # None, Reads(r, op, f, x, c),
         op \in {"publish", "language"} => formdef[f] # None
  PROVE  FormInv'
<1> DEFINE q == [op |-> op, form |-> f, text |-> x, carried |-> c,
                 row |-> formdef[f], new |-> Nothing,
                 at |-> IF formdef[f] = None \/ Parses(formdef[f].cur) THEN "read" ELSE "failed"]
<1>1. formdef[f] \in Rows \union {None}
  BY DEF FormInv, VersionsTypeOK
<1>2. q \in RequestRows
  BY <1>1 DEF RequestRows, Nothing
<1>3. RowParses(q) /\ OpKnown(q) /\ NewKnown(q)
  BY DEF RowParses, OpKnown, NewKnown
<1>4. RowKnown(q)
  BY <1>1 DEF RowKnown, FormInv, DefSound, NothingBehindCurrent, Rows
<1>5. q.at # "done"
  OBVIOUS
<1>6. req' = [req EXCEPT ![r] = q] /\ UNCHANGED <<formdef, vers, items, stray>>
  BY DEF Reads
<1> QED
  BY <1>2, <1>3, <1>4, <1>5, <1>6, OneRequestChanges

LEMMA NewPathsArePaths ==
  ASSUME NEW q \in RequestRows, q.at \in {"read", "valid"},
         RowParses(q), RowKnown(q), OpKnown(q)
  PROVE  NewPaths(q) \subseteq Paths /\ NewCurrent(q) \in NewPaths(q)
         /\ NewCurrent(q)[2] # Published
<1>1. CASE q.row = None
  BY <1>1, FirstPaths, BeginningIsPath DEF OpKnown, RequestRows
<1>2. CASE q.row # None
  BY <1>2, NewPathsAreLater DEF RowParses, RowKnown
<1> QED
  BY <1>1, <1>2

LEMMA ValidatesKeep ==
  ASSUME FormInv, NEW r \in Requests, Validates(r)
  PROVE  FormInv'
<1> DEFINE o == req[r]
           n == [def |-> o.row # None \/ formdef[o.form] = None,
                 vers |-> Fitting(o) \ vers[o.form],
                 items |-> NewPaths(o) \ DOMAIN items[o.form]]
           q == [[o EXCEPT !.at = "valid"] EXCEPT !.new = n]
<1>1. /\ o \in RequestRows /\ o.at = "read"
      /\ RowParses(o) /\ RowKnown(o) /\ OpKnown(o)
  BY DEF FormInv, VersionsTypeOK, Validates
<1>2. NewPaths(o) \subseteq Paths /\ Fitting(o) \subseteq Paths
  BY <1>1, NewPathsArePaths DEF Fitting
<1>3. /\ q.op = o.op /\ q.at = "valid" /\ q.form = o.form /\ q.text = o.text
      /\ q.carried = o.carried /\ q.row = o.row /\ q.new = n /\ q \in RequestRows
  BY <1>1, <1>2 DEF RequestRows
<1> HIDE DEF q
<1>4. NewPaths(q) = NewPaths(o) /\ Fitting(q) = Fitting(o)
  BY <1>3 DEF NewPaths, NewCurrent, Fitting, NewItem, Source
<1>5. RowParses(q) /\ RowKnown(q) /\ OpKnown(q)
  BY <1>1, <1>3 DEF RowParses, RowKnown, OpKnown
<1>6. NewKnown(q)
  <2>1. q.new.vers = Fitting(o) \ vers[q.form] /\ q.new.items = NewPaths(o) \ DOMAIN items[q.form]
    BY <1>3
  <2>2. n.def = (o.row # None \/ formdef[o.form] = None)
    OBVIOUS
  <2>3. q.new.def = (q.row # None \/ formdef[q.form] = None)
    BY <1>3, <2>2
  <2> QED
    BY <1>4, <2>1, <2>3, Zenon DEF NewKnown
<1>7. req' = [req EXCEPT ![r] = q] /\ UNCHANGED <<formdef, vers, items, stray>>
  BY DEF Validates, q, FormInv, VersionsTypeOK
<1> QED
  BY <1>3, <1>5, <1>6, <1>7, OneRequestChanges

LEMMA CommitFailsKeep ==
  ASSUME FormInv, NEW r \in Requests, CommitFails(r)
  PROVE  FormInv'
<1> DEFINE o == req[r]
           q == [o EXCEPT !.at = "failed"]
<1>1. o \in RequestRows /\ o.at = "valid" /\ RowKnown(o) /\ OpKnown(o)
  BY DEF FormInv, VersionsTypeOK, CommitFails
<1>2. /\ q.op = o.op /\ q.at = "failed" /\ q.form = o.form /\ q.text = o.text
      /\ q.row = o.row /\ q \in RequestRows
  BY <1>1 DEF RequestRows
<1> HIDE DEF q
<1>3. RowParses(q) /\ RowKnown(q) /\ OpKnown(q) /\ NewKnown(q)
  BY <1>1, <1>2 DEF RowParses, RowKnown, OpKnown, NewKnown
<1>4. req' = [req EXCEPT ![r] = q] /\ UNCHANGED <<formdef, vers, items, stray>>
  BY DEF CommitFails, q
<1> QED
  BY <1>2, <1>3, <1>4, OneRequestChanges

\* A commit goes on from the definition it has read and adds all its texts
\* whose paths are free, and all its versions that fit; or it is the first save
\* that came second, and adds no more than its text.
LEMMA CommitGoesOnOrIsStray ==
  ASSUME FormInv, NEW r \in Requests, Commits(r)
  PROVE  LET q == req[r] f == req[r].form IN
         \/ /\ q.row = None /\ ~q.new.def /\ formdef[f] # None
            /\ q.new.vers = {} /\ \A p \in q.new.items : Source(q, p) = None
         \/ /\ q.row = formdef[f] /\ q.new.def /\ q.new.vers = Fitting(q)
            /\ DOMAIN items[f] \union q.new.items = DOMAIN items[f] \union NewPaths(q)
<1> DEFINE q == req[r]
           f == q.form
<1>1. /\ q \in RequestRows /\ q.at = "valid" /\ f \in Forms
      /\ RowParses(q) /\ RowKnown(q) /\ NewKnown(q) /\ OpKnown(q)
  BY DEF FormInv, VersionsTypeOK, Commits, RowKnown
<1>2. ~FlushFails(q)
  BY DEF Commits
<1>3. /\ formdef[f] = None => vers[f] = {} /\ DOMAIN items[f] = {}
      /\ formdef[f] # None => \A p \in vers[f] : p = formdef[f].cur \/ Before(p, formdef[f].cur)
      /\ vers[f] \subseteq Paths
      /\ formdef[f] \in Rows \union {None}
  BY <1>1 DEF FormInv, NothingBehindCurrent, VersionsTypeOK
<1>4. Fitting(q) \subseteq NewPaths(q)
  BY DEF Fitting
<1>5. DOMAIN items[f] \union q.new.items = DOMAIN items[f] \union NewPaths(q)
  BY <1>1 DEF NewKnown
<1>6. CASE q.row = None /\ ~q.new.def
  <2>1. formdef[f] # None /\ q.new.vers = {}
    BY <1>1, <1>2, <1>6 DEF NewKnown, FlushFails
  <2>2. \A p \in q.new.items : Source(q, p) = None
    BY <1>1, <1>6 DEF OpKnown, Source
  <2> QED
    BY <1>6, <2>1, <2>2
<1>7. CASE q.row = None /\ q.new.def
  <2>1. formdef[f] = None
    BY <1>2, <1>7 DEF FlushFails, Stale
  <2> QED
    BY <1>1, <1>3, <1>5, <1>7, <2>1 DEF NewKnown
<1>8. CASE q.row # None
  <2>1. q.new.def /\ q.row = formdef[f]
    BY <1>1, <1>2, <1>8 DEF NewKnown, FlushFails, Stale, RowKnown
  <2>2. /\ NewPaths(q) \subseteq Paths
        /\ \A p \in NewPaths(q) : Before(q.row.cur, p)
    BY <1>1, <1>8, NewPathsAreLater DEF RowParses, RowKnown
  <2>3. q.row.cur \in Paths
    BY <1>1, <1>8 DEF RequestRows, Rows
  <2>4. ASSUME NEW p \in NewPaths(q) PROVE p \notin vers[f]
    <3>1. p \in Paths /\ Before(q.row.cur, p)
      BY <2>2
    <3>2. ~Before(p, q.row.cur) /\ p # q.row.cur
      BY <2>3, <3>1, BeforeIsOrder
    <3> QED
      BY <1>3, <1>8, <2>1, <3>2
  <2> QED
    BY <1>1, <1>4, <1>5, <2>1, <2>4 DEF NewKnown
<1> QED
  BY <1>6, <1>7, <1>8

\* What a commit does to the rows of all forms.
LEMMA CommitEffect ==
  ASSUME FormInv, NEW r \in Requests, Commits(r)
  PROVE  LET q == req[r] f == req[r].form IN
         /\ q \in RequestRows /\ q.at = "valid" /\ f \in Forms
         /\ RowParses(q) /\ RowKnown(q) /\ NewKnown(q) /\ OpKnown(q)
         /\ formdef' = IF ~q.new.def THEN formdef ELSE [formdef EXCEPT ![f] =
              [cur |-> NewCurrent(q), ver |-> IF q.row = None THEN 0 ELSE q.row.ver + 1]]
         /\ vers' = [vers EXCEPT ![f] = @ \union q.new.vers]
         /\ DOMAIN items' = Forms
         /\ \A g \in Forms : DOMAIN items'[g] =
              IF g = f THEN DOMAIN items[f] \union q.new.items ELSE DOMAIN items[g]
         /\ \A g \in Forms : \A p \in DOMAIN items[g] : items'[g][p] = items[g][p]
         /\ \A p \in q.new.items : items'[f][p] = NewItem(q, p)
         /\ \A p \in q.new.items : Source(q, p) \in DOMAIN items[f] \union {None}
         /\ q.new.items \intersect DOMAIN items[f] = {}
         /\ stray' = IF q.new.def THEN stray ELSE [stray EXCEPT ![f] = @ \union q.new.items]
         /\ req' = [req EXCEPT ![r] = [q EXCEPT !.at = "done"]]
<1> DEFINE q == req[r]
           f == q.form
<1>1. /\ q \in RequestRows /\ q.at = "valid" /\ f \in Forms
      /\ RowParses(q) /\ RowKnown(q) /\ NewKnown(q) /\ OpKnown(q)
  BY DEF FormInv, VersionsTypeOK, Commits, RowKnown
<1>2. /\ q.new.items \intersect DOMAIN items[f] = {}
      /\ \A p \in q.new.items : Source(q, p) \in DOMAIN items[f] \union {None}
  BY DEF Commits, FlushFails
<1>3. DOMAIN items = Forms
  BY DEF FormInv, VersionsTypeOK
<1>4. items' = [items EXCEPT ![f] =
         [p \in DOMAIN items[f] \union q.new.items |->
            IF p \in q.new.items THEN NewItem(q, p) ELSE items[f][p]]]
  BY DEF Commits
<1>5. DOMAIN items' = Forms
  BY <1>3, <1>4
<1>6. items'[f] = [p \in DOMAIN items[f] \union q.new.items |->
                     IF p \in q.new.items THEN NewItem(q, p) ELSE items[f][p]]
  BY <1>1, <1>3, <1>4
<1>7. \A g \in Forms : g # f => items'[g] = items[g]
  BY <1>3, <1>4
<1>8. /\ formdef' = IF ~q.new.def THEN formdef ELSE [formdef EXCEPT ![f] =
           [cur |-> NewCurrent(q), ver |-> IF q.row = None THEN 0 ELSE q.row.ver + 1]]
      /\ vers' = [vers EXCEPT ![f] = @ \union q.new.vers]
      /\ stray' = IF q.new.def THEN stray ELSE [stray EXCEPT ![f] = @ \union q.new.items]
      /\ req' = [req EXCEPT ![r] = [q EXCEPT !.at = "done"]]
  BY DEF Commits
<1> HIDE DEF q
<1>9. /\ \A g \in Forms : DOMAIN items'[g] =
           IF g = f THEN DOMAIN items[f] \union q.new.items ELSE DOMAIN items[g]
      /\ \A g \in Forms : \A p \in DOMAIN items[g] : items'[g][p] = items[g][p]
      /\ \A p \in q.new.items : items'[f][p] = NewItem(q, p)
  BY <1>2, <1>6, <1>7
<1> USE DEF q
<1> QED
  BY <1>1, <1>2, <1>5, <1>8, <1>9

LEMMA CommitKeepsTypes ==
  ASSUME FormInv, NEW r \in Requests, Commits(r)
  PROVE  VersionsTypeOK'
<1> DEFINE q == req[r]
           f == q.form
<1>1. /\ q \in RequestRows /\ q.at = "valid" /\ f \in Forms
      /\ RowParses(q) /\ RowKnown(q) /\ NewKnown(q) /\ OpKnown(q)
      /\ formdef' = IF ~q.new.def THEN formdef ELSE [formdef EXCEPT ![f] =
           [cur |-> NewCurrent(q), ver |-> IF q.row = None THEN 0 ELSE q.row.ver + 1]]
      /\ vers' = [vers EXCEPT ![f] = @ \union q.new.vers]
      /\ DOMAIN items' = Forms
      /\ stray' = IF q.new.def THEN stray ELSE [stray EXCEPT ![f] = @ \union q.new.items]
      /\ req' = [req EXCEPT ![r] = [q EXCEPT !.at = "done"]]
  BY CommitEffect
<1>2. VersionsTypeOK
  BY DEF FormInv
<1>3. /\ NewPaths(q) \subseteq Paths /\ NewCurrent(q) \in NewPaths(q)
      /\ Fitting(q) \subseteq Paths
  BY <1>1, NewPathsArePaths DEF Fitting
<1>4. formdef' \in [Forms -> Rows \union {None}]
  <2>1. q.row # None => q.row.ver \in Nat
    BY <1>1 DEF RequestRows, Rows
  <2>2. (IF q.row = None THEN 0 ELSE q.row.ver + 1) \in Nat
    BY <2>1
  <2>3. [cur |-> NewCurrent(q), ver |-> IF q.row = None THEN 0 ELSE q.row.ver + 1] \in Rows
    BY <1>3, <2>2 DEF Rows
  <2> QED
    BY <1>1, <1>2, <2>3 DEF VersionsTypeOK
<1>5. vers' \in [Forms -> SUBSET Paths]
  BY <1>1, <1>2, <1>3 DEF VersionsTypeOK, NewKnown
<1>6. ASSUME NEW g \in Forms
      PROVE  /\ DOMAIN items'[g] \subseteq Paths
             /\ \A p \in DOMAIN items'[g] : items'[g][p] \in ItemRows
  <2>1. /\ DOMAIN items'[g] = IF g = f THEN DOMAIN items[f] \union q.new.items ELSE DOMAIN items[g]
        /\ \A p \in DOMAIN items[g] : items'[g][p] = items[g][p]
    BY CommitEffect
  <2>2. /\ DOMAIN items[g] \subseteq Paths
        /\ \A p \in DOMAIN items[g] : items[g][p] \in ItemRows
    BY <1>2 DEF VersionsTypeOK
  <2>3. DOMAIN items'[g] \subseteq Paths
    BY <1>1, <1>3, <2>1, <2>2 DEF NewKnown
  <2>4. ASSUME NEW p \in q.new.items PROVE NewItem(q, p) \in ItemRows
    <3>1. Source(q, p) \in DOMAIN items[f] \union {None}
      BY CommitEffect
    <3>2. CASE Source(q, p) = None
      <4>1. q.op \in {"save", "publish"}
        <5>1. q.op = "language" => q.row # None /\ Source(q, p) = q.row.cur
          BY <1>1 DEF OpKnown, Source
        <5>2. q.row # None => q.row.cur \in Paths
          BY <1>1 DEF RequestRows, Rows
        <5>3. q.op # "language"
          BY <5>1, <5>2, <3>2, NoneIsNothing
        <5> QED
          BY <1>1, <5>3 DEF RequestRows, OpKnown
      <4> QED
        BY <1>1, <3>2, <4>1 DEF OpKnown, NewItem, ItemRows
    <3>3. CASE Source(q, p) # None
      <4>1. Source(q, p) \in DOMAIN items[f]
        BY <3>1, <3>3
      <4>2. items[f][Source(q, p)].text \in Texts /\ Source(q, p) \in Paths
        BY <1>1, <1>2, <4>1 DEF VersionsTypeOK, ItemRows
      <4> QED
        BY <3>3, <4>2 DEF NewItem, ItemRows
    <3> QED
      BY <3>2, <3>3
  <2>5. ASSUME NEW p \in DOMAIN items'[g] PROVE items'[g][p] \in ItemRows
    <3>1. CASE p \in DOMAIN items[g]
      BY <2>1, <2>2, <3>1
    <3>2. CASE p \notin DOMAIN items[g]
      <4>1. g = f /\ p \in q.new.items
        BY <2>1, <3>2
      <4>2. items'[f][p] = NewItem(q, p)
        BY <4>1, CommitEffect
      <4> QED
        BY <2>4, <4>1, <4>2
    <3> QED
      BY <3>1, <3>2
  <2> QED
    BY <2>3, <2>5
<1>7. req' \in [Requests -> RequestRows]
  <2>1. [q EXCEPT !.at = "done"] \in RequestRows
    BY <1>1 DEF RequestRows
  <2> QED
    BY <1>1, <1>2, <2>1 DEF VersionsTypeOK
<1>8. stray' \in [Forms -> SUBSET Paths]
  BY <1>1, <1>2, <1>3 DEF VersionsTypeOK, NewKnown
<1> QED
  BY <1>1, <1>4, <1>5, <1>6, <1>7, <1>8 DEF VersionsTypeOK

LEMMA CommitKeepsOrder ==
  ASSUME FormInv, NEW r \in Requests, Commits(r)
  PROVE  NothingBehindCurrent' /\ \A f \in Forms : DefSound(f)'
<1> DEFINE q == req[r]
           f == q.form
<1>1. /\ q \in RequestRows /\ q.at = "valid" /\ f \in Forms
      /\ RowParses(q) /\ RowKnown(q) /\ OpKnown(q)
      /\ formdef' = IF ~q.new.def THEN formdef ELSE [formdef EXCEPT ![f] =
           [cur |-> NewCurrent(q), ver |-> IF q.row = None THEN 0 ELSE q.row.ver + 1]]
      /\ vers' = [vers EXCEPT ![f] = @ \union q.new.vers]
      /\ stray' = IF q.new.def THEN stray ELSE [stray EXCEPT ![f] = @ \union q.new.items]
  BY CommitEffect
<1>2. VersionsTypeOK /\ VersionsTypeOK' /\ NothingBehindCurrent /\ \A g \in Forms : DefSound(g)
  BY CommitKeepsTypes DEF FormInv
<1>3. \A g \in Forms : DOMAIN items'[g] =
         IF g = f THEN DOMAIN items[f] \union q.new.items ELSE DOMAIN items[g]
  BY CommitEffect
<1>4. \/ /\ q.row = None /\ ~q.new.def /\ formdef[f] # None
         /\ q.new.vers = {} /\ \A p \in q.new.items : Source(q, p) = None
      \/ /\ q.row = formdef[f] /\ q.new.def /\ q.new.vers = Fitting(q)
         /\ DOMAIN items[f] \union q.new.items = DOMAIN items[f] \union NewPaths(q)
  BY CommitGoesOnOrIsStray
<1>5. ASSUME NEW g \in Forms
      PROVE  /\ stray'[g] \subseteq DOMAIN items'[g]
             /\ \A p \in stray'[g] : items'[g][p].from = None
  <2>1. /\ stray[g] \subseteq DOMAIN items[g]
        /\ \A p \in stray[g] : items[g][p].from = None
        /\ \A p \in DOMAIN items[g] : items'[g][p] = items[g][p]
    BY <1>2, CommitEffect DEF DefSound
  <2>2. stray'[g] = IF g = f /\ ~q.new.def THEN stray[f] \union q.new.items ELSE stray[g]
    BY <1>1, <1>2 DEF VersionsTypeOK
  <2>3. ~q.new.def => \A p \in q.new.items : items'[f][p].from = None
    <3>1. \A p \in q.new.items : items'[f][p] = NewItem(q, p)
      BY CommitEffect
    <3>2. \A p \in q.new.items : NewItem(q, p).from = Source(q, p)
      BY DEF NewItem
    <3> QED
      BY <1>4, <3>1, <3>2
  <2> QED
    BY <1>3, <2>1, <2>2, <2>3
<1>6. ASSUME NEW g \in Forms
      PROVE  /\ formdef'[g] = None => DOMAIN items'[g] = {}
             /\ formdef'[g] # None =>
                  /\ formdef'[g].cur \in DOMAIN items'[g]
                  /\ \A p \in vers'[g] \union (DOMAIN items'[g] \ stray'[g]) :
                       p = formdef'[g].cur \/ Before(p, formdef'[g].cur)
             /\ vers'[g] \subseteq DOMAIN items'[g]
             /\ formdef'[g] # None => formdef'[g].cur[2] # Published
  <2>1. /\ formdef[g] = None => DOMAIN items[g] = {}
        /\ formdef[g] # None =>
             /\ formdef[g].cur \in DOMAIN items[g]
             /\ \A p \in vers[g] \union (DOMAIN items[g] \ stray[g]) :
                  p = formdef[g].cur \/ Before(p, formdef[g].cur)
        /\ vers[g] \subseteq DOMAIN items[g]
        /\ formdef[g] # None => formdef[g].cur[2] # Published
    BY <1>2 DEF NothingBehindCurrent, DefSound
  <2>2. CASE g # f
    <3>1. /\ formdef'[g] = formdef[g] /\ vers'[g] = vers[g] /\ stray'[g] = stray[g]
          /\ DOMAIN items'[g] = DOMAIN items[g]
      BY <1>1, <1>2, <1>3, <2>2 DEF VersionsTypeOK
    <3> QED
      BY <2>1, <3>1
  <2>3. CASE g = f /\ ~q.new.def
    <3>1. /\ formdef'[f] = formdef[f] /\ vers'[f] = vers[f] /\ formdef[f] # None
          /\ stray'[f] = stray[f] \union q.new.items
          /\ DOMAIN items'[f] = DOMAIN items[f] \union q.new.items
      BY <1>1, <1>2, <1>3, <1>4, <2>3 DEF VersionsTypeOK
    <3> QED
      BY <2>1, <2>3, <3>1
  <2>4. CASE g = f /\ q.new.def
    <3>1. /\ q.row = formdef[f] /\ q.new.vers \subseteq NewPaths(q)
          /\ DOMAIN items[f] \union q.new.items = DOMAIN items[f] \union NewPaths(q)
      BY <1>4, <2>4 DEF Fitting
    <3>2. /\ vers'[f] \subseteq vers[f] \union NewPaths(q) /\ stray'[f] = stray[f]
          /\ DOMAIN items'[f] = DOMAIN items[f] \union NewPaths(q)
          /\ formdef'[f] = [cur |-> NewCurrent(q), ver |-> IF q.row = None THEN 0 ELSE q.row.ver + 1]
      BY <1>1, <1>2, <1>3, <2>4, <3>1 DEF VersionsTypeOK
    <3>3. NewPaths(q) \subseteq Paths /\ NewCurrent(q) \in NewPaths(q) /\ NewCurrent(q)[2] # Published
      BY <1>1, NewPathsArePaths
    <3>4. formdef'[f] # None
      <4>1. q.row # None => q.row.ver \in Nat
        BY <1>1 DEF RequestRows, Rows
      <4>2. (IF q.row = None THEN 0 ELSE q.row.ver + 1) \in Nat
        BY <4>1
      <4>3. formdef'[f] \in Rows
        BY <3>2, <3>3, <4>2 DEF Rows
      <4> QED
        BY <4>3, NoneIsNothing
    <3>5. vers'[f] \subseteq DOMAIN items'[f]
      BY <2>1, <2>4, <3>2
    <3>6. CASE q.row = None
      <4>1. NewPaths(q) = {NewCurrent(q)}
        BY <1>1, <3>6, FirstPaths DEF OpKnown
      <4>2. vers[f] = {} /\ DOMAIN items[f] = {}
        BY <2>1, <2>4, <3>1, <3>6
      <4>3. formdef'[f].cur = NewCurrent(q)
        BY <3>2
      <4> QED
        BY <2>4, <3>2, <3>3, <3>4, <3>5, <4>1, <4>2, <4>3
    <3>7. CASE q.row # None
      <4>1. /\ \A p \in NewPaths(q) : Before(q.row.cur, p)
            /\ \A p \in NewPaths(q) : p = NewCurrent(q) \/ Before(p, NewCurrent(q))
        BY <1>1, <3>7, NewPathsAreLater DEF RowParses, RowKnown
      <4>2. /\ q.row.cur \in Paths /\ NewCurrent(q) \in Paths
            /\ vers[f] \subseteq Paths /\ DOMAIN items[f] \subseteq Paths
        BY <1>1, <1>2, <3>3, <3>7 DEF RequestRows, Rows, VersionsTypeOK
      <4>3. ASSUME NEW p \in vers[f] \union (DOMAIN items[f] \ stray[f])
            PROVE  Before(p, NewCurrent(q))
        <5>1. p = q.row.cur \/ Before(p, q.row.cur)
          BY <2>1, <2>4, <3>1, <3>7
        <5>2. Before(q.row.cur, NewCurrent(q))
          BY <3>3, <4>1
        <5>3. p \in Paths
          BY <4>2
        <5> QED
          BY <4>2, <5>1, <5>2, <5>3, BeforeIsOrder
      <4>4. formdef'[f].cur = NewCurrent(q)
        BY <3>2
      <4>5. \A p \in vers'[f] \union (DOMAIN items'[f] \ stray'[f]) :
              p = NewCurrent(q) \/ Before(p, NewCurrent(q))
        BY <3>2, <4>1, <4>3
      <4> QED
        BY <2>4, <3>2, <3>3, <3>4, <3>5, <4>4, <4>5
    <3> QED
      BY <3>6, <3>7
  <2> QED
    BY <2>2, <2>3, <2>4
<1> QED
  BY <1>5, <1>6 DEF NothingBehindCurrent, DefSound

LEMMA CommitKeepsDerivation ==
  ASSUME FormInv, NEW r \in Requests, Commits(r)
  PROVE  DerivedFromLatest'
<1> DEFINE q == req[r]
           f == q.form
<1>1. /\ q \in RequestRows /\ q.at = "valid" /\ f \in Forms
      /\ RowParses(q) /\ RowKnown(q) /\ OpKnown(q) /\ NewKnown(q)
      /\ \A g \in Forms : DOMAIN items'[g] =
           IF g = f THEN DOMAIN items[f] \union q.new.items ELSE DOMAIN items[g]
      /\ \A g \in Forms : \A p \in DOMAIN items[g] : items'[g][p] = items[g][p]
      /\ \A p \in q.new.items : items'[f][p] = NewItem(q, p)
      /\ \A p \in q.new.items : Source(q, p) \in DOMAIN items[f] \union {None}
      /\ stray' = IF q.new.def THEN stray ELSE [stray EXCEPT ![f] = @ \union q.new.items]
  BY CommitEffect
<1>2. /\ VersionsTypeOK /\ VersionsTypeOK' /\ NothingBehindCurrent /\ DerivedFromLatest
      /\ \A g \in Forms : DefSound(g)
  BY CommitKeepsTypes DEF FormInv
<1>3. \/ /\ q.row = None /\ ~q.new.def /\ formdef[f] # None
         /\ q.new.vers = {} /\ \A p \in q.new.items : Source(q, p) = None
      \/ /\ q.row = formdef[f] /\ q.new.def /\ q.new.vers = Fitting(q)
         /\ DOMAIN items[f] \union q.new.items = DOMAIN items[f] \union NewPaths(q)
  BY CommitGoesOnOrIsStray
<1>4. \A g \in Forms :
        stray'[g] = IF g = f /\ ~q.new.def THEN stray[f] \union q.new.items ELSE stray[g]
  BY <1>1, <1>2 DEF VersionsTypeOK
<1> SUFFICES ASSUME NEW g \in Forms, NEW p \in DOMAIN items'[g], items'[g][p].from # None
             PROVE  LET s == items'[g][p].from IN
                    /\ s \in DOMAIN items'[g] /\ items'[g][p].text = items'[g][s].text
                    /\ \/ p = NextDraft(s)
                       \/ p = NextVersion(s) /\ PublishedPath(s) \in DOMAIN items'[g]
                    /\ \A t \in DOMAIN items'[g] \ stray'[g] :
                         Before(s, t) => ~Before(t, p) \/ t = PublishedPath(s)
  BY DEF DerivedFromLatest
<1> DEFINE s == items'[g][p].from
<1>5. CASE p \in DOMAIN items[g]
  <2>1. items'[g][p] = items[g][p]
    BY <1>1, <1>5
  <2>2. /\ s \in DOMAIN items[g] /\ items[g][p].text = items[g][s].text
        /\ \/ p = NextDraft(s)
           \/ p = NextVersion(s) /\ PublishedPath(s) \in DOMAIN items[g]
        /\ \A t \in DOMAIN items[g] \ stray[g] :
             Before(s, t) => ~Before(t, p) \/ t = PublishedPath(s)
    BY <1>2, <1>5, <2>1 DEF DerivedFromLatest
  <2>3. /\ s \in DOMAIN items'[g] /\ items'[g][s] = items[g][s]
        /\ DOMAIN items[g] \subseteq DOMAIN items'[g]
    BY <1>1, <2>2
  <2>4. ASSUME NEW t \in DOMAIN items'[g] \ stray'[g], t \notin DOMAIN items[g] \ stray[g]
        PROVE  ~Before(t, p)
    <3>1. g = f /\ t \in q.new.items /\ q.new.def
      BY <1>1, <1>4, <2>4
    <3>2. q.row = formdef[f] /\ t \in NewPaths(q)
      BY <1>1, <1>3, <3>1 DEF NewKnown
    <3>3. p \in DOMAIN items[f] \ stray[f]
      BY <1>2, <1>5, <2>1, <3>1 DEF DefSound
    <3>4. q.row # None /\ (p = q.row.cur \/ Before(p, q.row.cur))
      BY <1>2, <3>1, <3>2, <3>3 DEF NothingBehindCurrent
    <3>5. t \in Paths /\ Before(q.row.cur, t)
      BY <1>1, <3>2, <3>4, NewPathsAreLater DEF RowParses, RowKnown
    <3>6. p \in Paths /\ q.row.cur \in Paths
      BY <1>1, <1>2, <3>3, <3>4 DEF VersionsTypeOK, RequestRows, Rows
    <3> QED
      BY <3>4, <3>5, <3>6, BeforeIsOrder
  <2> QED
    BY <2>1, <2>2, <2>3, <2>4
<1>6. CASE p \notin DOMAIN items[g]
  <2>1. g = f /\ p \in q.new.items
    BY <1>1, <1>6
  <2>2. /\ items'[f][p].from = Source(q, p)
        /\ Source(q, p) # None => items'[f][p].text = items[f][Source(q, p)].text
    <3>1. items'[f][p] = NewItem(q, p)
      BY <1>1, <2>1
    <3>2. /\ NewItem(q, p).from = Source(q, p)
          /\ Source(q, p) # None => NewItem(q, p).text = items[f][Source(q, p)].text
      BY DEF NewItem
    <3> QED
      BY <3>1, <3>2
  <2>3. s = Source(q, p) /\ s \in DOMAIN items[f]
    BY <1>1, <2>1, <2>2
  <2>4. /\ q.row = formdef[f] /\ q.new.def /\ p \in NewPaths(q)
        /\ DOMAIN items'[f] = DOMAIN items[f] \union NewPaths(q) /\ stray'[f] = stray[f]
    BY <1>1, <1>3, <1>4, <2>1, <2>2 DEF NewKnown
  <2>5. s = q.row.cur /\ (q.op = "language" \/ (q.op = "publish" /\ p[2] # Published))
    BY <2>1, <2>2, <2>3 DEF Source
  <2>6. q.row # None
    BY <1>1, <2>5 DEF OpKnown
  <2>7. items'[g][p].text = items'[g][s].text /\ s \in DOMAIN items'[g]
    BY <1>1, <2>1, <2>2, <2>3
  <2>8. \/ p = NextDraft(s) /\ NewPaths(q) = {NextDraft(s)}
        \/ p = NextVersion(s) /\ NewPaths(q) = {NextVersion(s), PublishedPath(s)}
    BY <2>4, <2>5, <2>6 DEF NewPaths, NewCurrent, PublishedPath
  <2>9. ASSUME NEW t \in DOMAIN items'[g] \ stray'[g], Before(s, t)
        PROVE  ~Before(t, p) \/ t = PublishedPath(s)
    <3>1. t \in Paths /\ p \in Paths /\ s \in Paths
      BY <1>2, <2>1, <2>3 DEF VersionsTypeOK
    <3>2. t \notin DOMAIN items[f]
      <4>1. ASSUME t \in DOMAIN items[f] PROVE FALSE
        <5>1. formdef[f] # None /\ formdef[f].cur = s
          BY <2>4, <2>5, <2>6
        <5>2. t = s \/ Before(t, s)
          BY <1>1, <1>2, <2>1, <2>4, <2>9, <4>1, <5>1 DEF NothingBehindCurrent
        <5> QED
          BY <2>9, <3>1, <5>2, BeforeIsOrder
      <4> QED
        BY <4>1
    <3>3. t \in NewPaths(q)
      BY <2>1, <2>4, <2>9, <3>2
    <3>4. t = p \/ t = PublishedPath(s)
      BY <2>8, <3>3
    <3> QED
      BY <3>1, <3>4, BeforeIsOrder
  <2>10. p = NextDraft(s) \/ (p = NextVersion(s) /\ PublishedPath(s) \in DOMAIN items'[g])
    BY <2>1, <2>4, <2>8
  <2> HIDE DEF s
  <2>11. \A t \in DOMAIN items'[g] \ stray'[g] :
            Before(s, t) => ~Before(t, p) \/ t = PublishedPath(s)
    BY <2>9
  <2> QED
    BY <2>7, <2>10, <2>11 DEF s
<1> QED
  BY <1>5, <1>6

\* Texts that are stored stay, and so does what a request would copy from one.
LEMMA NewItemStays ==
  ASSUME FormInv, NEW r \in Requests, Commits(r), NEW o, o.form \in Forms, NEW p,
         Source(o, p) \in DOMAIN items[o.form] \union {None}
  PROVE  [text |-> IF Source(o, p) = None THEN o.text ELSE items'[o.form][Source(o, p)].text,
          from |-> Source(o, p)] = NewItem(o, p)
<1>1. \A g \in Forms : \A s \in DOMAIN items[g] : items'[g][s] = items[g][s]
  BY CommitEffect
<1> QED
  BY <1>1 DEF NewItem

\* The source of what a request adds is there, once the row was there.
LEMMA SourceIsThere ==
  ASSUME NEW q, RowKnown(q), q.row # None, NEW p
  PROVE  Source(q, p) \in DOMAIN items[q.form] \union {None}
BY DEF RowKnown, Source

LEMMA CommitKeepsAnswers ==
  ASSUME FormInv, NEW r \in Requests, Commits(r)
  PROVE  AnsweredIsStored'
<1> DEFINE q == req[r]
           f == q.form
<1>1. /\ q \in RequestRows /\ q.at = "valid" /\ f \in Forms
      /\ RowParses(q) /\ RowKnown(q) /\ OpKnown(q) /\ NewKnown(q)
      /\ vers' = [vers EXCEPT ![f] = @ \union q.new.vers]
      /\ \A g \in Forms : DOMAIN items'[g] =
           IF g = f THEN DOMAIN items[f] \union q.new.items ELSE DOMAIN items[g]
      /\ \A g \in Forms : \A p \in DOMAIN items[g] : items'[g][p] = items[g][p]
      /\ \A p \in q.new.items : items'[f][p] = NewItem(q, p)
      /\ stray' = IF q.new.def THEN stray ELSE [stray EXCEPT ![f] = @ \union q.new.items]
      /\ req' = [req EXCEPT ![r] = [q EXCEPT !.at = "done"]]
  BY CommitEffect
<1>2. /\ VersionsTypeOK /\ AnsweredIsStored /\ NothingBehindCurrent
      /\ \A g \in Forms : DefSound(g)
  BY DEF FormInv
<1>3. \/ q.row = None /\ ~q.new.def /\ q.new.vers = {}
      \/ /\ q.row = formdef[f] /\ q.new.def /\ q.new.vers = Fitting(q)
         /\ DOMAIN items[f] \union q.new.items = DOMAIN items[f] \union NewPaths(q)
  BY CommitGoesOnOrIsStray
<1>4. \A g \in Forms : /\ vers'[g] = IF g = f THEN vers[f] \union q.new.vers ELSE vers[g]
                       /\ stray[g] \subseteq stray'[g]
  BY <1>1, <1>2 DEF VersionsTypeOK
<1> DEFINE Item(o, p) == [text |-> IF Source(o, p) = None THEN o.text
                                   ELSE items'[o.form][Source(o, p)].text,
                          from |-> Source(o, p)]
<1> SUFFICES ASSUME NEW t \in Requests, NEW o, o = req'[t], o.at = "done", o.row # None,
                    NEW p \in NewPaths(o), p \notin stray'[o.form]
             PROVE  /\ p \in DOMAIN items'[o.form] /\ items'[o.form][p] = Item(o, p)
                    /\ p \in vers'[o.form] <=> Item(o, p).text \notin LongTexts
  BY DEF AnsweredIsStored, NewItem, Fitting
<1>5. /\ o.form \in Forms /\ RowKnown(o)
      /\ o = IF t = r THEN [q EXCEPT !.at = "done"] ELSE req[t]
      /\ o \in RequestRows
  <2>1. o = IF t = r THEN [q EXCEPT !.at = "done"] ELSE req[t]
    BY <1>1, <1>2 DEF VersionsTypeOK
  <2>2. RowKnown(req[t]) /\ req[t] \in RequestRows
    BY <1>2 DEF FormInv, VersionsTypeOK
  <2>3. /\ o.form = req[t].form /\ o.row = req[t].row
        /\ o.at # "idle" /\ req[t].at # "idle" /\ o \in RequestRows
    BY <1>1, <2>1, <2>2 DEF RequestRows
  <2> QED
    BY <2>1, <2>2, <2>3 DEF RowKnown
<1>6. Item(o, p) = NewItem(o, p)
  <2>1. Source(o, p) \in DOMAIN items[o.form] \union {None}
    BY <1>5, SourceIsThere
  <2> QED
    BY <1>5, <2>1, NewItemStays
<1> HIDE DEF Item
<1>7. CASE t # r
  <2>1. /\ p \in DOMAIN items[o.form] \ stray[o.form] /\ items[o.form][p] = NewItem(o, p)
        /\ p \in vers[o.form] <=> p \in Fitting(o)
    BY <1>2, <1>4, <1>5, <1>7 DEF AnsweredIsStored
  <2>2. p \in vers'[o.form] <=> p \in vers[o.form]
    <3>1. ASSUME o.form = f, p \in q.new.vers PROVE FALSE
      <4>1. q.row = formdef[f] /\ p \in NewPaths(q)
        BY <1>3, <3>1 DEF Fitting
      <4>2. q.row # None /\ (p = q.row.cur \/ Before(p, q.row.cur))
        BY <1>1, <1>2, <2>1, <3>1, <4>1 DEF NothingBehindCurrent
      <4>3. p \in Paths /\ Before(q.row.cur, p)
        BY <1>1, <4>1, <4>2, NewPathsAreLater DEF RowParses, RowKnown
      <4>4. q.row.cur \in Paths
        BY <1>1, <4>2 DEF RequestRows, Rows
      <4> QED
        BY <4>2, <4>3, <4>4, BeforeIsOrder
    <3> QED
      BY <1>4, <1>5, <3>1
  <2>3. p \in DOMAIN items'[o.form] /\ items'[o.form][p] = NewItem(o, p)
    BY <1>1, <1>5, <2>1
  <2> QED
    BY <1>6, <2>1, <2>2, <2>3 DEF Fitting
<1>8. CASE t = r
  <2>1. o.form = f /\ o.row = q.row /\ o.op = q.op /\ o.text = q.text /\ o.carried = q.carried
    BY <1>1, <1>5, <1>8 DEF RequestRows
  <2>2. NewPaths(o) = NewPaths(q) /\ Source(o, p) = Source(q, p) /\ NewItem(o, p) = NewItem(q, p)
    BY <2>1 DEF NewPaths, NewCurrent, Source, NewItem
  <2>3. q.row = formdef[f] /\ q.row # None /\ q.new.vers = Fitting(q)
    BY <1>1, <1>3, <2>1 DEF NewKnown
  <2>4. p \in Paths /\ Before(q.row.cur, p)
    BY <1>1, <2>2, <2>3, NewPathsAreLater DEF RowParses, RowKnown
  <2>5. p \notin vers[f] \union (DOMAIN items[f] \ stray[f])
    <3>1. ASSUME p \in vers[f] \union (DOMAIN items[f] \ stray[f]) PROVE FALSE
      <4>1. p = q.row.cur \/ Before(p, q.row.cur)
        BY <1>1, <1>2, <2>3, <3>1 DEF NothingBehindCurrent
      <4>2. q.row.cur \in Paths
        BY <1>1, <2>3 DEF RequestRows, Rows
      <4> QED
        BY <2>4, <4>1, <4>2, BeforeIsOrder
    <3> QED
      BY <3>1
  <2>6. p \in q.new.items
    BY <1>1, <1>3, <1>4, <2>1, <2>2, <2>3, <2>5
  <2>7. p \in DOMAIN items'[f] /\ items'[f][p] = NewItem(q, p)
    BY <1>1, <2>6
  <2>8. p \in vers'[f] <=> p \in Fitting(q)
    BY <1>1, <1>4, <2>3, <2>5
  <2> QED
    BY <1>6, <2>1, <2>2, <2>7, <2>8 DEF Fitting
<1> QED
  BY <1>7, <1>8

LEMMA CommitKeepsRequests ==
  ASSUME FormInv, NEW r \in Requests, Commits(r), NEW t \in Requests
  PROVE  (RowParses(req[t]) /\ RowKnown(req[t]) /\ NewKnown(req[t]) /\ OpKnown(req[t]))'
<1> DEFINE q == req[r]
           f == q.form
           o == req[t]
<1>1. /\ q \in RequestRows /\ q.at = "valid" /\ f \in Forms
      /\ formdef' = IF ~q.new.def THEN formdef ELSE [formdef EXCEPT ![f] =
           [cur |-> NewCurrent(q), ver |-> IF q.row = None THEN 0 ELSE q.row.ver + 1]]
      /\ vers' = [vers EXCEPT ![f] = @ \union q.new.vers]
      /\ \A g \in Forms : DOMAIN items'[g] =
           IF g = f THEN DOMAIN items[f] \union q.new.items ELSE DOMAIN items[g]
      /\ req' = [req EXCEPT ![r] = [q EXCEPT !.at = "done"]]
  BY CommitEffect
<1>2. VersionsTypeOK /\ VersionsTypeOK' /\ NothingBehindCurrent'
  BY CommitKeepsTypes, CommitKeepsOrder DEF FormInv
<1>3. /\ RowParses(o) /\ RowKnown(o) /\ NewKnown(o) /\ OpKnown(o)
      /\ o \in RequestRows
  BY <1>2 DEF FormInv, VersionsTypeOK
<1>4. /\ req'[t].op = o.op /\ req'[t].form = o.form /\ req'[t].text = o.text
      /\ req'[t].row = o.row /\ req'[t].new = o.new /\ req'[t].carried = o.carried
      /\ req'[t].at = IF t = r THEN "done" ELSE o.at
  BY <1>1, <1>2, <1>3 DEF VersionsTypeOK, RequestRows
<1>5. q.new.def => q.row = formdef[f]
  BY CommitGoesOnOrIsStray
\* A row that a request has read stays known: the version only goes up.
<1>6. ASSUME NEW g \in Forms
      PROVE  /\ vers[g] \subseteq vers'[g] /\ DOMAIN items[g] \subseteq DOMAIN items'[g]
             /\ formdef[g] # None => /\ formdef'[g] # None
                                     /\ \/ formdef'[g] = formdef[g]
                                        \/ formdef'[g].ver = formdef[g].ver + 1
  <2>1. vers[g] \subseteq vers'[g] /\ DOMAIN items[g] \subseteq DOMAIN items'[g]
    BY <1>1, <1>2 DEF VersionsTypeOK
  <2>2. formdef[g] # None => formdef[g].cur \in DOMAIN items[g]
    BY DEF FormInv, NothingBehindCurrent
  <2>3. formdef[g] # None => formdef'[g] # None
    BY <1>2, <2>1, <2>2 DEF NothingBehindCurrent
  <2>4. formdef[g] # None => formdef'[g] = formdef[g] \/ formdef'[g].ver = formdef[g].ver + 1
    BY <1>1, <1>2, <1>5 DEF VersionsTypeOK
  <2> QED
    BY <2>1, <2>3, <2>4
<1>7. RowParses(req[t])' /\ OpKnown(req[t])'
  BY <1>1, <1>3, <1>4 DEF RowParses, OpKnown
<1>8. RowKnown(req[t])'
  <2>1. CASE o.row = None
    BY <1>1, <1>3, <1>4, <2>1 DEF RowKnown
  <2>2. CASE o.row # None
    <3>1. /\ o.form \in Forms /\ o.row.cur[2] # Published /\ formdef[o.form] # None
          /\ o.row.cur \in DOMAIN items[o.form]
          /\ o.row.ver <= formdef[o.form].ver
          /\ o.row.ver = formdef[o.form].ver => o.row = formdef[o.form]
      BY <1>3, <2>2 DEF RowKnown
    <3>2. o.row.ver \in Nat /\ formdef[o.form].ver \in Nat
      BY <1>2, <1>3, <2>2, <3>1 DEF RequestRows, Rows, VersionsTypeOK
    <3>3. /\ formdef'[o.form] # None
          /\ formdef'[o.form] = formdef[o.form] \/ formdef'[o.form].ver = formdef[o.form].ver + 1
      BY <1>6, <3>1
    <3>4. /\ o.row.ver <= formdef'[o.form].ver
          /\ o.row.ver = formdef'[o.form].ver => o.row = formdef'[o.form]
      BY <3>1, <3>2, <3>3
    <3>5. o.row.cur \in DOMAIN items'[o.form]
      BY <1>6, <3>1
    <3> QED
      BY <1>4, <2>2, <3>1, <3>3, <3>4, <3>5 DEF RowKnown
  <2> QED
    BY <2>1, <2>2
<1>9. NewKnown(req[t])'
  <2>1. SUFFICES ASSUME t # r, o.at = "valid"
                 PROVE  NewKnown(req[t])'
    BY <1>4 DEF NewKnown
  <2>2. o.form \in Forms
    BY <1>3, <2>1 DEF RowKnown
  <2>3. req'[t] = o
    BY <1>1, <1>2, <2>1 DEF VersionsTypeOK
  <2>4. \A p \in NewPaths(o) : Source(o, p) \in DOMAIN items[o.form] \union {None}
    <3>1. CASE o.row = None
      BY <1>3, <3>1 DEF OpKnown, Source
    <3>2. CASE o.row # None
      BY <1>3, <3>2, SourceIsThere
    <3> QED
      BY <3>1, <3>2
  <2>5. Fitting(o)' = Fitting(o)
    <3> DEFINE Item(p) == [text |-> IF Source(o, p) = None THEN o.text
                                    ELSE items'[o.form][Source(o, p)].text,
                           from |-> Source(o, p)]
    <3>1. \A p \in NewPaths(o) : Item(p) = NewItem(o, p)
      BY <2>2, <2>4, NewItemStays
    <3>2. NewPaths(o)' = NewPaths(o) /\ \A p : Source(o, p)' = Source(o, p)
      BY <2>3 DEF NewPaths, NewCurrent, Source
    <3>3. \A p \in NewPaths(o) : NewItem(o, p)' = Item(p)
      BY <2>3, <3>2 DEF NewItem
    <3> HIDE DEF Item
    <3> QED
      BY <3>1, <3>2, <3>3 DEF Fitting
  <2> QED
    BY <1>3, <1>6, <2>1, <2>2, <2>3, <2>5 DEF NewKnown
<1> QED
  BY <1>7, <1>8, <1>9

LEMMA CommitsKeep ==
  ASSUME FormInv, NEW r \in Requests, Commits(r)
  PROVE  FormInv'
BY CommitKeepsTypes, CommitKeepsOrder, CommitKeepsDerivation, CommitKeepsAnswers,
   CommitKeepsRequests DEF FormInv

LEMMA StepKeepsFormInv == FormInv /\ [FormNext]_formVars => FormInv'
<1> SUFFICES ASSUME FormInv, [FormNext]_formVars PROVE FormInv'
  OBVIOUS
<1>1. ASSUME NEW r \in Requests, FormStep(r) PROVE FormInv'
  <2>1. ASSUME NEW f \in Forms, NEW x \in Texts, NEW c \in Carried \union {None},
               SaveReads(r, f, x, c)
        PROVE  FormInv'
    BY <2>1, ReadsKeep DEF SaveReads
  <2>2. ASSUME NEW f \in Forms, NEW x \in Texts, PublishReads(r, f, x) PROVE FormInv'
    BY <2>2, ReadsKeep DEF PublishReads
  <2>3. ASSUME NEW f \in Forms, LanguageReads(r, f) PROVE FormInv'
    BY <2>3, ReadsKeep DEF LanguageReads
  <2>4. CASE Validates(r)
    BY <2>4, ValidatesKeep
  <2>5. CASE CommitFails(r)
    BY <2>5, CommitFailsKeep
  <2>6. CASE Commits(r)
    BY <2>6, CommitsKeep
  <2> QED
    BY <1>1, <2>1, <2>2, <2>3, <2>4, <2>5, <2>6 DEF FormStep
<1>2. CASE UNCHANGED formVars
  BY <1>2 DEF formVars, FormInv, VersionsTypeOK, NothingBehindCurrent, DerivedFromLatest,
              AnsweredIsStored, NewItem, Fitting, DefSound, RowParses, RowKnown, NewKnown, OpKnown
<1> QED
  BY <1>1, <1>2 DEF FormNext

-----------------------------------------------------------------------------
(* The results.                                                            *)

THEOREM FormInvariance == FormSpec => []FormInv
<1> QED
  BY InitFormInv, StepKeepsFormInv, PTL DEF FormSpec

\* The tables of the form definitions hold what they are declared to hold.
THEOREM VersionsKeepTypes == FormSpec => []VersionsTypeOK
<1>1. FormInv => VersionsTypeOK
  BY DEF FormInv
<1> QED
  BY <1>1, FormInvariance, PTL

\* Overlapping saves, publications and new languages, and version rows that
\* are not valid, leave no version and no text behind the current draft (but
\* for first saves that came second), and no definition without its draft.
THEOREM NothingEndsBehind == FormSpec => []NothingBehindCurrent
<1>1. FormInv => NothingBehindCurrent
  BY DEF FormInv
<1> QED
  BY <1>1, FormInvariance, PTL

\* A draft derived in the database takes over from the latest one there was.
THEOREM DerivedFollowsLatest == FormSpec => []DerivedFromLatest
<1>1. FormInv => DerivedFromLatest
  BY DEF FormInv
<1> QED
  BY <1>1, FormInvariance, PTL

\* What was answered with 201, and found its definition, is stored as an item,
\* and as a version exactly if its metadata fit, unless the item of a first
\* save that came second has its path.
THEOREM AnsweredStaysStored == FormSpec => []AnsweredIsStored
<1>1. FormInv => AnsweredIsStored
  BY DEF FormInv
<1> QED
  BY <1>1, FormInvariance, PTL
=============================================================================
