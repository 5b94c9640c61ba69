---------------------------- MODULE MCDispatchTxn ----------------------------
(* Instances of DispatchTxn for TLC: two claims, three dispatches, two of    *)
(* them for the same claim.                                                  *)
EXTENDS DispatchTxn, TLC

CONSTANTS c1, c2, d1, d2, d3

MCClaimOf == d1 :> c1 @@ d2 :> c1 @@ d3 :> c2

NoConditions == {}

UnmarkedCrash == {"unmarked_crash"}

(* Everything at once. *)
Adverse == AllConditions

(* Any two of the three dispatches are made, and no other store face parks   *)
(* or settles a claim meanwhile.                                             *)
TwoChains ==
  /\ \E d \in Dispatches : At(d, "idle")
  /\ \A c \in Claims : register[c].status \in {"OPEN", "IN_PROGRESS"}
=============================================================================
