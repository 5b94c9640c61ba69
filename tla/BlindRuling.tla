------------------------------ MODULE BlindRuling ------------------------------
(***************************************************************************)
(* What the blind settlement wire promises, without files, settlers and    *)
(* stop hooks: a claim's blind input may be parked again until it is ruled *)
(* on; the ruling is over the input that is parked; every credit is over   *)
(* the input that was ruled on; and the register settles a claim only      *)
(* after a credit of that word.                                            *)
(***************************************************************************)
CONSTANTS Claims, Documents, Words, None

VARIABLES
  input,     \* the document parked for each claim, or None
  ruling,    \* the document its settler ruled on, or None
  credited,  \* the credits of each claim: over which document, which word
  status     \* the register

vars == <<input, ruling, credited, status>>

Init ==
  /\ input = [c \in Claims |-> None]
  /\ ruling = [c \in Claims |-> None]
  /\ credited = [c \in Claims |-> {}]
  /\ status = [c \in Claims |-> "OPEN"]

Park(c) ==
  /\ ruling[c] = None
  /\ \E document \in Documents : input' = [input EXCEPT ![c] = document]
  /\ UNCHANGED <<ruling, credited, status>>

Rule(c) ==
  /\ ruling[c] = None
  /\ input[c] # None
  /\ ruling' = [ruling EXCEPT ![c] = input[c]]
  /\ UNCHANGED <<input, credited, status>>

Credit(c) ==
  /\ ruling[c] # None
  /\ \E word \in Words :
       credited' = [credited EXCEPT ![c] = @ \cup {[over |-> ruling[c], word |-> word]}]
  /\ UNCHANGED <<input, ruling, status>>

Start(c) ==
  /\ status[c] = "OPEN"
  /\ status' = [status EXCEPT ![c] = "IN_PROGRESS"]
  /\ UNCHANGED <<input, ruling, credited>>

Settle(c, word, outcome) ==
  /\ status[c] = "IN_PROGRESS"
  /\ \E credit \in credited[c] : credit.word = word
  /\ status' = [status EXCEPT ![c] = outcome]
  /\ UNCHANGED <<input, ruling, credited>>

Next ==
  \E c \in Claims :
    \/ Park(c) \/ Rule(c) \/ Credit(c) \/ Start(c)
    \/ Settle(c, "pass", "PROVEN") \/ Settle(c, "fail", "REFUTED")

Spec == Init /\ [][Next]_vars
================================================================================
