---------------------------- MODULE MCSignatrice ----------------------------
(* Instances of Signatrice for TLC. *)
EXTENDS Signatrice, TLC

CONSTANTS d1, d2, r1, r2, u1

\* One document.
OneFirst == d1 :> r1
OneForm == d1 :> u1

\* Two documents made from the same form data.
TwoFirst == d1 :> r1 @@ d2 :> r2
TwoForms == d1 :> u1 @@ d2 :> u1

Symmetry == Permutations((Refs \ {r1, r2})) \cup Permutations(Txs)
            \cup Permutations(Collectors) \cup Permutations(Posters)
=============================================================================
