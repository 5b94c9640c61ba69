------------------------------ MODULE WorkerPool ------------------------------
(***************************************************************************)
(* What the wait protocol promises of the worker pool: a worker is free,   *)
(* at work on the claim it is assigned to, or waits for the verdict on     *)
(* that work.  A dispatch assigns it in one step.  A verdict on a claim    *)
(* comes when nobody is at work on it any more, and in one step takes      *)
(* everybody who waits for it back to work or out of the pool.             *)
(***************************************************************************)
CONSTANTS Workers, Claims, None

VARIABLES
  status,      \* each claim open, REFUTED or PROVEN
  assignment,  \* the claim a worker was dispatched on last
  mode         \* free, working or waiting

vars == <<status, assignment, mode>>

Init ==
  /\ status = [c \in Claims |-> "open"]
  /\ assignment = [w \in Workers |-> None]
  /\ mode = [w \in Workers |-> "free"]

Assign(w, c) ==
  /\ mode[w] # "working"
  /\ status[c] = "open"
  /\ assignment' = [assignment EXCEPT ![w] = c]
  /\ mode' = [mode EXCEPT ![w] = "working"]
  /\ UNCHANGED status

Deliver(w) ==
  /\ mode[w] = "working"
  /\ mode' = [mode EXCEPT ![w] = "waiting"]
  /\ UNCHANGED <<status, assignment>>

GiveUp(w) ==
  /\ mode[w] = "waiting"
  /\ mode' = [mode EXCEPT ![w] = "free"]
  /\ UNCHANGED <<status, assignment>>

Pool(c) == {w \in Workers : assignment[w] = c /\ mode[w] = "waiting"}

(* The verdict changes the status of the claim; only a refuted one is redone. *)
Judge(c, verdict, redo) ==
  /\ status[c] \notin {"PROVEN", verdict}
  /\ redo => verdict = "REFUTED"
  /\ \A w \in Workers : assignment[w] = c => mode[w] # "working"
  /\ Pool(c) # {}
  /\ status' = [status EXCEPT ![c] = verdict]
  /\ mode' = [w \in Workers |-> IF w \notin Pool(c) THEN mode[w]
                                ELSE IF redo THEN "working" ELSE "free"]
  /\ UNCHANGED assignment

Next ==
  \/ \E w \in Workers :
       (\E c \in Claims : Assign(w, c)) \/ Deliver(w) \/ GiveUp(w)
  \/ \E c \in Claims, verdict \in {"PROVEN", "REFUTED"}, redo \in BOOLEAN :
       Judge(c, verdict, redo)

Spec == Init /\ [][Next]_vars
=============================================================================
