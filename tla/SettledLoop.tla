------------------------------ MODULE SettledLoop ------------------------------
(***************************************************************************)
(* What step settlement promises, without stashes, time stamps or stop     *)
(* hooks: a step starts when every step before it is closed; its worker    *)
(* ends; then it is banked, once, as its own; and only then it is closed.  *)
(***************************************************************************)
CONSTANT Attempts

VARIABLES
  life,    \* idle, working, ended, banked or closed
  ledger   \* the transition rows

vars == <<life, ledger>>

Init ==
  /\ life = [a \in Attempts |-> "idle"]
  /\ ledger = {}

Moves(a, from, to) ==
  /\ life[a] = from
  /\ life' = [life EXCEPT ![a] = to]

Start(a) ==
  /\ \A b \in Attempts : life[b] \in {"idle", "closed"}
  /\ Moves(a, "idle", "working")
  /\ UNCHANGED ledger

End(a) == Moves(a, "working", "ended") /\ UNCHANGED ledger

Bank(a) ==
  /\ Moves(a, "ended", "banked")
  /\ ledger' = ledger \cup {[step |-> a, by |-> a]}

Close(a) == Moves(a, "banked", "closed") /\ UNCHANGED ledger

Next == \E a \in Attempts : Start(a) \/ End(a) \/ Bank(a) \/ Close(a)

Spec == Init /\ [][Next]_vars

=============================================================================
