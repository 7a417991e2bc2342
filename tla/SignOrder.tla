----------------------------- MODULE SignOrder -----------------------------
(***************************************************************************)
(* What DocBox promises the engine about orders for signatures, by what     *)
(* docSigRequest and docSigCollect answer: an order is pending until its    *)
(* processing is complete, with success or without. A success stays one.   *)
(* A failure may turn out to be none: the signature of a late run of the    *)
(* collecting job is still added to the document.                           *)
(***************************************************************************)
CONSTANTS
  Orders,  \* transaction ids
  Late     \* whether an order that has failed may go on

VARIABLE outcome

Outcomes == {"none", "pending", "failed", "success"}

OrderInit == outcome = [o \in Orders |-> "none"]

MayEnd == {<<"pending", "failed">>, <<"pending", "success">>}
MayRevive == IF Late THEN {<<"failed", "pending">>, <<"failed", "success">>} ELSE {}
OrderSteps == {<<"none", "pending">>} \cup MayEnd \cup MayRevive

\* One transaction of DocBox may deal with several orders.
OrderNext ==
  /\ outcome' \in [Orders -> Outcomes]
  /\ \A o \in Orders :
       outcome'[o] = outcome[o] \/ <<outcome[o], outcome'[o]>> \in OrderSteps

OrderSpec == OrderInit /\ [][OrderNext]_outcome
=============================================================================
