------------------------------ MODULE MCForms -------------------------------
(* Instances of Forms for TLC. *)
EXTENDS Forms, TLC

\* Pages, users and documents are told apart only by equality.
Symmetry == Permutations(Pages) \cup Permutations(Users) \cup Permutations(Docs)
=============================================================================
