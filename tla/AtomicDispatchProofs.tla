------------------------- MODULE AtomicDispatchProofs -------------------------
(* Proofs about AtomicDispatch: a transaction without halves, behind the     *)
(* settle barrier, makes the loop serial.                                    *)
EXTENDS AtomicDispatch, TLAPS

(* The parameters make sense: every dispatch has its claim, and no dispatch  *)
(* is the absent stash.                                                      *)
Sensible == ClaimOf \in [Dispatches -> Claims] /\ None \notin Dispatches

(* A stash is that of a worker that runs, and a worker that runs has its own. *)
OwnStash ==
  /\ stash \in [Claims -> Dispatches \cup {None}]
  /\ verdict \in [Dispatches -> {"pending", "granted", "finished", "denied"}]
  /\ \A d \in Dispatches : verdict[d] = "granted" <=> stash[ClaimOf[d]] = d
  /\ \A c \in Claims : stash[c] # None => ClaimOf[stash[c]] = c

(* Nothing is granted at the start. *)
LEMMA OwnStashInit == ASSUME Sensible PROVE Init => OwnStash
BY DEF Sensible, Init, OwnStash

(* A grant waits for every stash to go, and a stop takes its own away. *)
LEMMA OwnStashStep == ASSUME Sensible PROVE OwnStash /\ [Next]_vars => OwnStash'
<1> SUFFICES ASSUME OwnStash, [Next]_vars PROVE OwnStash'
  OBVIOUS
<1> USE DEF Sensible, OwnStash
<1>1. ASSUME NEW d \in Dispatches, Grant(d) PROVE OwnStash'
  BY <1>1 DEF Grant
<1>2. ASSUME NEW d \in Dispatches, Deny(d) PROVE OwnStash'
  BY <1>2 DEF Deny
<1>3. ASSUME NEW d \in Dispatches, Stop(d) PROVE OwnStash'
  BY <1>3 DEF Stop
<1>4. ASSUME NEW c \in Claims, Apply(c) PROVE OwnStash'
  BY <1>4 DEF Apply
<1>5. CASE UNCHANGED vars
  BY <1>5 DEF vars
<1> QED BY <1>1, <1>2, <1>3, <1>4, <1>5 DEF Next

(* A grant opens a step, a stop closes it, and nothing else touches one. *)
LEMMA StepIsSerial ==
  ASSUME Sensible, OwnStash, [Next]_vars
  PROVE  [Serial!Next]_(Serial!vars)
<1> DEFINE Open == {d \in Dispatches : stash[ClaimOf[d]] = d}
           Working == {d \in Dispatches : verdict[d] = "granted"}
<1> USE DEF Sensible, OwnStash
<1>1. ASSUME NEW d \in Dispatches, Grant(d) PROVE Serial!Open(d)
  <2>1. Open = {} /\ Working = {}
    BY <1>1 DEF Grant
  <2>2. Open' = {d} /\ Working' = {d}
    BY <1>1, <2>1 DEF Grant
  <2> QED BY <2>1, <2>2 DEF Serial!Open
<1>2. ASSUME NEW d \in Dispatches, Stop(d) PROVE Serial!Close(d)
  <2>1. d \in Open /\ Open' = Open \ {d} /\ Working' = Working \ {d}
    BY <1>2 DEF Stop
  <2> QED BY <2>1 DEF Serial!Close
<1>3. ASSUME UNCHANGED stash, Working' = Working PROVE UNCHANGED Serial!vars
  BY <1>3 DEF Serial!vars
<1>4. ASSUME NEW d \in Dispatches, Deny(d) PROVE UNCHANGED Serial!vars
  BY <1>3, <1>4 DEF Deny
<1>5. ASSUME NEW c \in Claims, Apply(c) PROVE UNCHANGED Serial!vars
  BY <1>3, <1>5 DEF Apply
<1>6. CASE UNCHANGED vars
  BY <1>3, <1>6 DEF vars
<1> QED BY <1>1, <1>2, <1>4, <1>5, <1>6 DEF Next, Serial!Next

(* SerialRefinement: dispatches that take effect as a whole behind the       *)
(* barrier are serial: the transaction gives the layers above it one open    *)
(* step with one worker at a time.                                           *)
THEOREM SerialRefinement == ASSUME Sensible PROVE Spec => ImplementsSerialSteps
<1>1. Init => Serial!Init
  BY DEF Sensible, Init, Serial!Init
<1> QED
  BY <1>1, OwnStashInit, OwnStashStep, StepIsSerial, PTL
  DEF Spec, ImplementsSerialSteps, Serial!Spec
===============================================================================
