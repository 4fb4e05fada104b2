----------------------------- MODULE PublicationMC -----------------------------
(***************************************************************************)
(* Small instances of the two components that publish work outside the     *)
(* database: onboarding merge requests at GitLab, and the issues and pull  *)
(* requests of a plan at GitHub.  They share no state and are checked in   *)
(* one run: the first state chooses which of them moves.                   *)
(***************************************************************************)
EXTENDS Onboarding, Delivery

CONSTANTS a1, a2, f1, f2, other, p1, d1, d2

VARIABLE focus

all == <<focus, vars, deliveryVars>>

SumInit == Init /\ DeliveryInit /\ focus \in {"onboarding", "delivery"}

SumNext ==
  /\ UNCHANGED focus
  /\ \/ focus = "onboarding" /\ Next /\ UNCHANGED deliveryVars
     \/ focus = "delivery" /\ DeliveryNext /\ UNCHANGED vars

SumSpec == SumInit /\ [][SumNext]_all /\ Fairness
=============================================================================
