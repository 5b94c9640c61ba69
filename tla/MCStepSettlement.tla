--------------------------- MODULE MCStepSettlement ---------------------------
(* Instances of StepSettlement for TLC: dispatch attempts on two claims, two *)
(* of them on the same one, and a subagent that is not a worker.             *)
EXTENDS StepSettlement, TLC

CONSTANTS c1, c2, a1, a2, a3, a4, x

MCClaimOf == a1 :> c1 @@ a2 :> c1 @@ a3 :> c2 @@ a4 :> c2

MCClaimOfThree == a1 :> c1 @@ a2 :> c1 @@ a3 :> c2

Nothing == {}

Mishaps == {"lost_stop", "bystander", "ledger_refused", "hook_death"}
=============================================================================
