---------------------------- MODULE SignedCopies ----------------------------
(***************************************************************************)
(* What DocBox promises about the PDFs it stores, with no word on steps,   *)
(* requests or jobs. A PDF once stored is never changed or removed. A new  *)
(* one is either an original without signatures, or a copy of a stored PDF *)
(* of the same document with one more signature page, which names the PDF  *)
(* it was added to.                                                        *)
(***************************************************************************)
EXTENDS Sequences

CONSTANTS Refs, Sigs

VARIABLE copies   \* docboxRef -> document, origin and signature pages of a PDF

Init == \A r \in DOMAIN copies : copies[r].pages = <<>>

New == DOMAIN copies' \ DOMAIN copies

Keep ==
  /\ DOMAIN copies \subseteq DOMAIN copies'
  /\ \A r \in DOMAIN copies : copies'[r] = copies[r]

\* An original is stored.
Convert ==
  /\ Keep
  /\ \E r \in Refs : New = {r} /\ copies'[r].pages = <<>>

WithPage(copy, s, r) == [copy EXCEPT !.pages = Append(@, [sig |-> s, over |-> r])]

\* Signatures are added to some of the PDFs, each making a copy of its own.
Sign ==
  /\ Keep
  /\ \A r \in New : \E base \in DOMAIN copies, s \in Sigs :
       copies'[r] = WithPage(copies[base], s, base)

Next == Convert \/ Sign

Spec == Init /\ [][Next]_copies

=============================================================================
