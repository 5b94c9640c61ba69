--------------------------- MODULE AtomicDispatch ---------------------------
(***************************************************************************)
(* What the dispatch transaction promises, without journal, processes or   *)
(* crashes: a dispatch is granted, and then its anchor row, its launch     *)
(* stash and its register entry all change at once, or it is denied and    *)
(* nothing changes.  Other store faces move claims along the matrix, and a *)
(* worker that stops settles a pending step.                               *)
(***************************************************************************)
EXTENDS Naturals, Sequences

CONSTANTS Claims, Dispatches, ClaimOf, None

VARIABLES
  verdict,    \* pending, granted (its worker runs), finished or denied
  register,   \* status and dispatch_count of each claim
  anchor,     \* the rows of the dispatches granted so far, per claim
  stash       \* the pending step of each claim

vars == <<verdict, register, anchor, stash>>

Init ==
  /\ verdict = [d \in Dispatches |-> "pending"]
  /\ register = [c \in Claims |-> [status |-> "OPEN", count |-> 0]]
  /\ anchor = [c \in Claims |-> <<>>]
  /\ stash = [c \in Claims |-> None]

(* An OPEN claim is flipped and counted; one a verifier is sent to keeps its *)
(* status.  The allow tail of the gate may count the dispatch once more.     *)
Granted(entry, tail) ==
  IF entry.status = "OPEN"
  THEN [status |-> "IN_PROGRESS", count |-> entry.count + 1 + tail]
  ELSE [entry EXCEPT !.count = @ + tail]

Grant(d) ==
  /\ verdict[d] = "pending"
  /\ \A c \in Claims : stash[c] = None
  /\ \E tail \in {0, 1} :
       register' = [register EXCEPT ![ClaimOf[d]] = Granted(@, tail)]
  /\ anchor' = [anchor EXCEPT ![ClaimOf[d]] = Append(@, d)]
  /\ stash' = [stash EXCEPT ![ClaimOf[d]] = d]
  /\ verdict' = [verdict EXCEPT ![d] = "granted"]

Deny(d) ==
  /\ verdict[d] = "pending"
  /\ verdict' = [verdict EXCEPT ![d] = "denied"]
  /\ UNCHANGED <<register, anchor, stash>>

(* The worker stops and its own step is the one that is settled. *)
Stop(d) ==
  /\ verdict[d] = "granted"
  /\ stash[ClaimOf[d]] = d
  /\ stash' = [stash EXCEPT ![ClaimOf[d]] = None]
  /\ verdict' = [verdict EXCEPT ![d] = "finished"]
  /\ UNCHANGED <<register, anchor>>

Apply(c) ==
  /\ \E s \in {"OPEN", "IN_PROGRESS", "PARK", "SETTLED"} :
       register' = [register EXCEPT ![c].status = s]
  /\ register[c].status # "SETTLED"
  /\ UNCHANGED <<verdict, anchor, stash>>

Next ==
  \/ \E d \in Dispatches : Grant(d) \/ Deny(d) \/ Stop(d)
  \/ \E c \in Claims : Apply(c)

Spec == Init /\ [][Next]_vars

-----------------------------------------------------------------------------
(* A step is open while its stash is there; its worker works once granted. *)
Serial == INSTANCE SerialSteps WITH
  Steps <- Dispatches,
  open <- {d \in Dispatches : stash[ClaimOf[d]] = d},
  working <- {d \in Dispatches : verdict[d] = "granted"}

(* ImplementsSerialSteps: dispatches that look for a stash before they take  *)
(* effect as a whole run one after the other.                                *)
ImplementsSerialSteps == Serial!Spec
=============================================================================
