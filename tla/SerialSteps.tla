------------------------------ MODULE SerialSteps ------------------------------
(***************************************************************************)
(* What the settle barrier promises to everything above it: the loop is    *)
(* serial.  A step is opened only when no step is open and no worker works,*)
(* its worker ends once, and it is closed, with its worker, before the     *)
(* next one opens.                                                         *)
(***************************************************************************)
CONSTANT Steps

VARIABLES
  open,     \* the steps that have been launched and not closed
  working   \* the steps whose worker has not ended

vars == <<open, working>>

Init == open = {} /\ working = {}

Open(s) ==
  /\ open = {}
  /\ working = {}
  /\ open' = {s}
  /\ working' = {s}

End(s) ==
  /\ s \in working
  /\ working' = working \ {s}
  /\ UNCHANGED open

Close(s) ==
  /\ s \in open
  /\ open' = open \ {s}
  /\ working' = working \ {s}

Next == \E s \in Steps : Open(s) \/ End(s) \/ Close(s)

Spec == Init /\ [][Next]_vars
=============================================================================
