----------------------------- MODULE MCSignTask -----------------------------
(* Instances of SignTask for TLC. *)
EXTENDS SignTask, TLC

Symmetry == Permutations(Tasks) \cup Permutations(Orders) \cup Permutations(Refs)
            \cup Permutations(Visits)
=============================================================================
