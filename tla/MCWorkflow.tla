----------------------------- MODULE MCWorkflow -----------------------------
(* Instances of Workflow for TLC. *)
EXTENDS Workflow, TLC

CONSTANTS p1, p2, u1, u2

\* A page of one user, two pages of two users, two pages of one user.
OnePage == p1 :> u1
TwoUsers == p1 :> u1 @@ p2 :> u2
TwoTabs == p1 :> u1 @@ p2 :> u1
=============================================================================
