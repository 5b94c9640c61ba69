-------------------------- MODULE MCSessionRecovery ---------------------------
(* Instances of SessionRecovery for TLC: the spans of liveness_policy.py in  *)
(* units of five minutes.                                                    *)
EXTENDS SessionRecovery

CONSTANTS s1, s2, k1, k2

AllConditions ==
  {"workers", "duplicate", "kicker_killed", "spawn_fails", "stillborn",
   "skips_ticks", "drift"}
================================================================================
