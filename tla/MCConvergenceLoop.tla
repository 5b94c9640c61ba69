--------------------------- MODULE MCConvergenceLoop ---------------------------
(* An instance of ConvergenceLoop for TLC: c1 answers the question and has   *)
(* two worker ids, c2 is question-less and has one.                          *)
EXTENDS ConvergenceLoop, TLC

CONSTANTS c1, c2, q, w1, w2, v1

MCClaims == {c1, c2}

MCWorkers == {w1, w2, v1}

OwnClaim == w1 :> c1 @@ w2 :> c1 @@ v1 :> c2

OwnClaimOnly == [w \in MCWorkers |-> {OwnClaim[w]}]

OneQuestion == c1 :> q @@ c2 :> None

OneExternal == c1 :> "internal" @@ c2 :> "external"
================================================================================
