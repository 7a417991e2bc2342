------------------------------ MODULE FormData ------------------------------
(***************************************************************************)
(* The form data of the forms database (src/postxdb): an instance of a     *)
(* form is its data.xml and its attachments, each a PxdItem.  Clients      *)
(* write them, make the instance read-only, and duplicate it.  An item is  *)
(* read in one step and written in a later one; Hibernate writes the items *)
(* a request has changed, and only those, if each is the one it read.      *)
(***************************************************************************)
EXTENDS Naturals, FiniteSets

CONSTANTS
  NoItem,       \* no item
  Instances,    \* uuids of form instances
  Attachments,  \* names of attachments
  Contents,     \* what a client may write
  Calls,        \* calls at work at one time
  Unfreezes,    \* may ?ro=false be asked for
  MaxWrites     \* bound of the model: items and versions of items made

Xml == "data.xml"

Parts == Instances \X ({Xml} \union Attachments)
InstanceRows == [text : Contents, readOnly : {"null", "true", "false"},
                 origin : Parts \union {NoItem}, ver : Nat]

ASSUME DataAssumptions ==
  /\ NoItem \notin Contents \union Parts \union InstanceRows
  /\ Unfreezes \in BOOLEAN
  /\ MaxWrites \in Nat

VARIABLES
  item,  \* per instance and name: its PxdItem, or NoItem
  call   \* per call: what it is about and how far it has come

dataVars == <<item, call>>

PartsOf(u) == {p \in Parts : p[1] = u}
Stored(u) == {p \in PartsOf(u) : item[p] # NoItem}

\* The column readOnly is null until somebody sets it.
New(x, o) == [text |-> x, readOnly |-> "null", origin |-> o, ver |-> 0]
ReadOnly(row) == row.readOnly = "true"

NoCall == [op |-> "none", at |-> "idle", rows |-> [p \in {} |-> NoItem],
           text |-> NoItem, flag |-> "true", copy |-> NoItem]

Flags == {"true"} \union (IF Unfreezes THEN {"false"} ELSE {})

-----------------------------------------------------------------------------
\* A call has read the items ps and goes on with them.
Starts(c, op, ps, x, flag, copy) ==
  /\ call[c].at = "idle"
  /\ call' = [call EXCEPT ![c] =
       [op |-> op, at |-> "read", rows |-> [p \in ps |-> item[p]],
        text |-> x, flag |-> flag, copy |-> copy]]
  /\ UNCHANGED item

\* createInstanceItem and createInstanceResource: a read-only item gives 403.
WriteReads(c, p, x) ==
  (item[p] # NoItem => ~ReadOnly(item[p])) /\ Starts(c, "write", {p}, x, "true", NoItem)

\* readonlyset looks up all items of the instance; without any it is 404.
SetReadOnlyReads(c, u, flag) ==
  Stored(u) # {} /\ Starts(c, "freeze", Stored(u), NoItem, flag, NoItem)

\* duplicateinstance looks up the data of the source; without it it is 404.
DuplicateReads(c, u, v, flag) ==
  /\ item[<<u, Xml>>] # NoItem
  /\ Starts(c, "duplicate", {<<u, Xml>>}, NoItem, flag, <<v, Xml>>)

\* Mutant: a copy leaves its source alone.
ChangedIfAsked(q, p) ==
  IF q.op = "write"
  THEN IF q.rows[p] = NoItem THEN New(q.text, NoItem) ELSE [q.rows[p] EXCEPT !.text = q.text]
  ELSE IF q.op = "duplicate" THEN q.rows[p]
  ELSE [q.rows[p] EXCEPT !.readOnly = q.flag]

\* What the call makes of an item it has read.
Changed(q, p) ==
  IF q.op = "write"
  THEN IF q.rows[p] = NoItem THEN New(q.text, NoItem) ELSE [q.rows[p] EXCEPT !.text = q.text]
  ELSE [q.rows[p] EXCEPT !.readOnly = q.flag]

\* save() of a new item: when its path has been taken since it was looked
\* for, it is not valid.  A write logs that and answers 201 all the same; a
\* duplicate gives up.
ChecksPath(c) ==
  /\ call[c].at = "read"
  /\ LET q == call[c]
         taken == \E p \in DOMAIN q.rows : q.rows[p] = NoItem /\ item[p] # NoItem
     IN call' = [call EXCEPT ![c] =
          IF taken \/ (q.copy # NoItem /\ item[q.copy] # NoItem) THEN NoCall
          ELSE [q EXCEPT !.at = "valid"]]
  /\ UNCHANGED item

\* Items to be written: one that the call has not changed is not, and its
\* version is not looked at.
Dirty(q) == {p \in DOMAIN q.rows : Changed(q, p) # q.rows[p]}

\* Mutant: no optimistic lock.
OutdatedIfTaken(q) ==
  \E p \in Dirty(q) \union ({q.copy} \ {NoItem}) :
    item[p] # NoItem /\ (p \in DOMAIN q.rows => q.rows[p] = NoItem)

Outdated(q) ==
  \/ \E p \in Dirty(q) : IF q.rows[p] = NoItem THEN item[p] # NoItem
                          ELSE item[p].ver # q.rows[p].ver
  \/ q.copy # NoItem /\ item[q.copy] # NoItem

FlushIsRefused(c) ==
  /\ call[c].at = "valid" /\ Outdated(call[c])
  /\ call' = [call EXCEPT ![c] = NoCall]
  /\ UNCHANGED item

Flushes(c) ==
  /\ call[c].at = "valid" /\ ~Outdated(call[c])
  /\ LET q == call[c] IN
     item' = [p \in Parts |->
       IF p \in Dirty(q)
       THEN IF q.rows[p] = NoItem THEN Changed(q, p)
            ELSE [Changed(q, p) EXCEPT !.ver = q.rows[p].ver + 1]
       ELSE IF p = q.copy
       THEN LET s == CHOOSE s \in DOMAIN q.rows : TRUE IN New(q.rows[s].text, s)
       ELSE item[p]]
  /\ call' = [call EXCEPT ![c] = NoCall]

-----------------------------------------------------------------------------
DataInit == /\ item = [p \in Parts |-> NoItem]
            /\ call = [c \in Calls |-> NoCall]

\* Bound of the model: calls begin while fewer than MaxWrites items and
\* versions of items have been made.
VersionsMade == UNION {{p} \X (0 .. item[p].ver) : p \in {r \in Parts : item[r] # NoItem}}
Begins(c) ==
  /\ Cardinality(VersionsMade) < MaxWrites
  /\ \/ \E p \in Parts, x \in Contents : WriteReads(c, p, x)
     \/ \E u \in Instances, flag \in Flags : SetReadOnlyReads(c, u, flag)
     \/ \E u, v \in Instances, flag \in Flags : u # v /\ DuplicateReads(c, u, v, flag)

DataStep(c) == Begins(c) \/ ChecksPath(c) \/ FlushIsRefused(c) \/ Flushes(c)

DataNext == \E c \in Calls : DataStep(c)

DataSpec == DataInit /\ [][DataNext]_dataVars

-----------------------------------------------------------------------------
CallRows(ps) ==
  [op : {"none", "write", "freeze", "duplicate"}, at : {"idle", "read", "valid"},
   rows : [ps -> InstanceRows \union {NoItem}], text : Contents \union {NoItem},
   flag : {"true", "false"}, copy : Parts \union {NoItem}]
IsCall(q) == \E ps \in SUBSET Parts : q \in CallRows(ps)

\* Type invariant of the form data.
DataTypeOK == /\ item \in [Parts -> InstanceRows \union {NoItem}]
              /\ call = [c \in Calls |-> call[c]]
              /\ \A c \in Calls : IsCall(call[c])

\* An item that is read-only keeps its text and cannot go away, also while a
\* call is under way that found it open to changes.
FrozenStays ==
  [][\A p \in Parts : item[p] # NoItem /\ ReadOnly(item[p]) =>
       item'[p] # NoItem /\ item'[p].text = item[p].text]_dataVars

\* Making a copy freezes what is copied: when the source was open to changes
\* as the request read it, it is read-only and has the text of the copy by
\* the time the copy appears, whatever was done to it in between.
CopyFreezesOrigin ==
  [][\A c \in Calls : Flushes(c) /\ call[c].op = "duplicate" /\ call[c].flag = "true" =>
       \A s \in DOMAIN call[c].rows : ~ReadOnly(call[c].rows[s]) =>
         /\ ReadOnly(item'[s])
         /\ item'[s].text = item'[call[c].copy].text]_dataVars

\* "Sets all items belonging to this instance to the given read-only status."
WholeInstanceIsFrozen ==
  [][\A c \in Calls : Flushes(c) /\ call[c].op = "freeze" /\ call[c].flag = "true" =>
       \A p \in DOMAIN call[c].rows : \A r \in PartsOf(p[1]) :
         item'[r] # NoItem => ReadOnly(item'[r])]_dataVars

\* "By default set the source instance read-only."
OriginIsFrozen ==
  [][\A c \in Calls : Flushes(c) /\ call[c].op = "duplicate" /\ call[c].flag = "true" =>
       \A s \in DOMAIN call[c].rows : ReadOnly(item'[s])]_dataVars

\* "Duplicate a form instance, i.e. all its items."
CopyIsWhole ==
  \A p, r \in Parts : item[p] # NoItem /\ item[p].origin # NoItem =>
    LET s == item[p].origin IN
    r[1] = s[1] /\ item[r] # NoItem => item[<<p[1], r[2]>>] # NoItem
=============================================================================
