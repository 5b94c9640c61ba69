--------------------------- MODULE MCBlindSettlement ---------------------------
(* The instance of BlindSettlement for TLC: two claims, one evidence file.   *)
EXTENDS BlindSettlement

CONSTANTS c1, c2, f1, h1
================================================================================
