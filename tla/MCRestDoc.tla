----------------------------- MODULE MCRestDoc ------------------------------
(* Instances of RestDoc for TLC. *)
EXTENDS RestDoc, TLC

Symmetry == Permutations(Docs) \cup Permutations(Refs) \cup Permutations(Sigs)
            \cup Permutations(Requests)
=============================================================================
