---------------------------- MODULE MCWaitProtocol ----------------------------
(* Instances of WaitProtocol for TLC: two workers that can be bound to the   *)
(* same claim or to two, and waits of two rounds.                            *)
EXTENDS WaitProtocol, TLC

CONSTANTS c1, c2, w1, w2

OrderlyConditions == {"bystander"}

(* The protocol is orderly, and a register write may be lost. *)
UnlandedConditions == {"bystander", "write_lost"}

Symmetry == Permutations(Claims) \cup Permutations(Workers)
=============================================================================
