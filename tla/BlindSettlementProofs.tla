-------------------------- MODULE BlindSettlementProofs --------------------------
(***************************************************************************)
(* Proofs about BlindSettlement.  Under any conditions: types, and that    *)
(* the register follows the rollout ledger.  Where only the act whose step *)
(* is open stops while it runs, and stop hooks do not overlap: every       *)
(* settlement is over what was blinded, a ruling closes the window of its  *)
(* claim, the wire is a BlindRuling, and acts are serial.                  *)
(***************************************************************************)
EXTENDS BlindSettlement, TLAPS

USE DEF files, ledgers, acts, hooks

-----------------------------------------------------------------------------
(* Types *)

(* A hook that is about to settle has a ruling before it: rulings stay. *)
HasRuling == \A h \in Hooks : at[h] = "settle" => verdict[on[h]] # None

TypeInv == TypeOK /\ HasRuling

(* A document stays one when it lists one more file. *)
LEMMA HashedIsDocument ==
  ASSUME NEW d \in Document, NEW f \in Files, NEW n \in 0 .. MaxWrites
  PROVE  [g \in DOMAIN d \cup {f} |-> IF g = f THEN n ELSE d[g]] \in Document
<1>1. DOMAIN d \subseteq Files /\ \A g \in DOMAIN d : d[g] \in 0 .. MaxWrites
  BY DEF Document
<1>2. DOMAIN d \cup {f} \in SUBSET Files
  BY <1>1
<1>3. [g \in DOMAIN d \cup {f} |-> IF g = f THEN n ELSE d[g]]
        \in [DOMAIN d \cup {f} -> 0 .. MaxWrites]
  BY <1>1
<1> QED
  BY <1>2, <1>3 DEF Document

(* The empty document. *)
LEMMA NothingListed == [f \in {} |-> 0] \in Document
<1>1. [f \in {} |-> 0] \in [{} -> 0 .. MaxWrites] /\ {} \in SUBSET Files
  OBVIOUS
<1> QED
  BY <1>1 DEF Document

LEMMA TypeInit == Init => TypeInv
BY ConstantsAssumption DEF Init, TypeInv, TypeOK, HasRuling, Word, Places

LEMMA TypeTake ==
  ASSUME TypeInv, NEW h \in Hooks, running' \subseteq running, Take(h)
  PROVE  TypeInv'
<1>1. step # None => step.claim \in Claims
  BY DEF TypeInv, TypeOK, Act
<1> QED
  BY <1>1, ConstantsAssumption
  DEF TypeInv, TypeOK, HasRuling, Take, Goto, Places

LEMMA TypeStep == TypeInv /\ [Next]_vars => TypeInv'
<1> SUFFICES ASSUME TypeInv, [Next]_vars PROVE TypeInv'
  OBVIOUS
<1> USE DEF TypeInv, TypeOK, HasRuling
<1>1. ASSUME NEW a \in Act, Launch(a) PROVE TypeInv'
  <2>1. a.claim \in Claims
    BY DEF Act
  <2> QED
    BY <1>1, <2>1, ConstantsAssumption DEF Launch, Act
<1>2. ASSUME NEW f \in Files, Write(f) PROVE TypeInv'
  BY <1>2, ConstantsAssumption DEF Write
<1>3. ASSUME NEW c \in Claims, Verify(c) PROVE TypeInv'
  BY <1>3 DEF Verify
<1>4. ASSUME NEW c \in Claims, ReadInput(c) PROVE TypeInv'
  BY <1>4 DEF ReadInput
<1>5. ASSUME NEW c \in Claims, Rule(c) PROVE TypeInv'
  BY <1>5, ConstantsAssumption DEF Rule
<1>6. ASSUME OracleMoves PROVE TypeInv'
  BY <1>6 DEF OracleMoves
<1>7. ASSUME NEW a \in Act, NEW h \in Hooks, ActStops(a, h) PROVE TypeInv'
  BY <1>7, TypeTake DEF ActStops
<1>8. ASSUME NEW h \in Hooks, OtherStops(h) PROVE TypeInv'
  BY <1>8, TypeTake DEF OtherStops
<1>9. ASSUME NEW h \in Hooks, Park(h) PROVE TypeInv'
  BY <1>9 DEF Park, Hashed, Goto, Places
<1>18. ASSUME NEW h \in Hooks, Close(h) PROVE TypeInv'
  BY <1>18, ConstantsAssumption DEF Close, Goto, Places
<1>19. ASSUME NEW h \in Hooks, Scan(h) PROVE TypeInv'
  BY <1>19, NothingListed DEF Scan, Goto, Places
<1>20. ASSUME NEW h \in Hooks, NEW f \in Files, Hash(h, f) PROVE TypeInv'
  <2> DEFINE d == [g \in DOMAIN doc[h] \cup {f} |-> IF g = f THEN bytes[f] ELSE doc[h][g]]
  <2>1. doc' = [doc EXCEPT ![h] = d]
    BY <1>20 DEF Hash
  <2>2. d \in Document
    <3>1. doc[h] \in Document /\ bytes[f] \in 0 .. MaxWrites
      BY <1>20 DEF Hash
    <3> HIDE DEF TypeInv, TypeOK, HasRuling
    <3> QED
      BY <3>1, HashedIsDocument, Zenon
  <2> HIDE DEF d
  <2> QED
    BY <1>20, <2>1, <2>2 DEF Hash
<1>10. ASSUME NEW h \in Hooks, Replace(h) PROVE TypeInv'
  BY <1>10 DEF Replace, Goto, Places
<1>11. ASSUME NEW h \in Hooks, NEW c \in Claims, Pick(h, c) PROVE TypeInv'
  BY <1>11 DEF Pick, Goto, Places, Ruled
<1>12. ASSUME NEW h \in Hooks, Leave(h) PROVE TypeInv'
  BY <1>12 DEF Leave, Goto, Places
<1>13. ASSUME NEW h \in Hooks, Settle(h) PROVE TypeInv'
  <2> DEFINE c == on[h]
             row == [over |-> verdict[c], word |-> oracle, input |-> doc[h]]
  <2>1. c \in Claims /\ row \in Row
    BY <1>13 DEF Settle, Row
  <2>2. rows' \in [Claims -> SUBSET Row] /\ settlement' \in [Claims -> Row \cup {None}]
    BY <1>13, <2>1 DEF Settle
  <2>3. /\ at' \in [Hooks -> Places]
        /\ \A g \in Hooks : at'[g] # at[g] => g = h /\ at'[g] \in {"prove", "refute", "pick"}
    BY <1>13 DEF Settle, Goto, Mint, Places
  <2> QED
    BY <1>13, <2>1, <2>2, <2>3 DEF Settle
<1>14. ASSUME NEW h \in Hooks, Prove(h) PROVE TypeInv'
  BY <1>14 DEF Prove, Goto, Places, Terminal
<1>15. ASSUME NEW h \in Hooks, Refute(h) PROVE TypeInv'
  BY <1>15 DEF Refute, Goto, Places, Terminal
<1>16. ASSUME NEW h \in Hooks, HookDies(h) PROVE TypeInv'
  BY <1>16, ConstantsAssumption DEF HookDies, Goto, Places
<1>17. CASE UNCHANGED vars
  BY <1>17 DEF vars
<1> QED
  BY <1>1, <1>2, <1>3, <1>4, <1>5, <1>6, <1>7, <1>8, <1>9, <1>10, <1>11, <1>12,
     <1>13, <1>14, <1>15, <1>16, <1>17, <1>18, <1>19, <1>20 DEF Next, HookStep

(* The state of the wire is always of its type, and a hook that settles has  *)
(* a ruling to settle.                                                       *)
THEOREM TypesCorrect == Spec => []TypeOK
<1>1. TypeInv => TypeOK
  BY DEF TypeInv
<1> QED
  BY <1>1, TypeInit, TypeStep, PTL DEF Spec

-----------------------------------------------------------------------------
(* The register follows the ledger *)

(* A hook that is about to mint has appended its settlement. *)
MintsSettled ==
  \A h \in Hooks :
    /\ at[h] = "prove" => \E r \in rows[on[h]] : r.word = "pass"
    /\ at[h] = "refute" => \E r \in rows[on[h]] : r.word = "fail"

LedgerInv == RegisterFollowsLedger /\ MintsSettled

(* Rows are never taken out of a rollout: what follows them goes on doing so *)
(* as long as no claim and no hook moves to where a row is called for.       *)
LEMMA RowsStay ==
  ASSUME TypeInv, TypeInv', LedgerInv,
         \A c \in Claims : rows[c] \subseteq rows'[c],
         \A c \in Claims : status'[c] \in Terminal => status'[c] = status[c],
         \A h \in Hooks : at'[h] \in {"prove", "refute"} =>
                            at'[h] = at[h] /\ on'[h] = on[h]
  PROVE  LedgerInv'
<1>1. RegisterFollowsLedger'
  BY DEF LedgerInv, RegisterFollowsLedger, TypeInv, TypeOK, Terminal
<1>2. MintsSettled'
  <2> SUFFICES ASSUME NEW h \in Hooks, at'[h] \in {"prove", "refute"}
               PROVE  /\ at'[h] = "prove" => \E r \in rows'[on'[h]] : r.word = "pass"
                      /\ at'[h] = "refute" => \E r \in rows'[on'[h]] : r.word = "fail"
    BY DEF MintsSettled
  <2>1. at'[h] = at[h] /\ on'[h] = on[h] /\ on[h] \in Claims
    BY DEF TypeInv, TypeOK
  <2> QED
    BY <2>1 DEF LedgerInv, MintsSettled
<1> QED
  BY <1>1, <1>2 DEF LedgerInv

LEMMA LedgerStep == TypeInv /\ LedgerInv /\ [Next]_vars => LedgerInv'
<1> SUFFICES ASSUME TypeInv, LedgerInv, [Next]_vars PROVE LedgerInv'
  OBVIOUS
<1> TypeInv'
  BY TypeStep
<1> USE DEF Terminal, Goto
<1>1. ASSUME NEW a \in Act, Launch(a) PROVE LedgerInv'
  BY <1>1, RowsStay DEF Launch, TypeInv, TypeOK
<1>2. ASSUME NEW f \in Files, Write(f) PROVE LedgerInv'
  BY <1>2, RowsStay DEF Write
<1>3. ASSUME NEW c \in Claims, Verify(c) \/ ReadInput(c) \/ Rule(c) PROVE LedgerInv'
  BY <1>3, RowsStay DEF Verify, ReadInput, Rule
<1>4. ASSUME OracleMoves PROVE LedgerInv'
  BY <1>4, RowsStay DEF OracleMoves
<1>5. ASSUME NEW h \in Hooks, Take(h) PROVE LedgerInv'
  BY <1>5, RowsStay DEF Take, TypeInv, TypeOK
<1>6. ASSUME NEW h \in Hooks, Park(h) \/ Replace(h) PROVE LedgerInv'
  BY <1>6, RowsStay DEF Park, Hashed, Replace, TypeInv, TypeOK
<1>12. ASSUME NEW h \in Hooks,
              Close(h) \/ Scan(h) \/ \E f \in Files : Hash(h, f)
       PROVE  LedgerInv'
  BY <1>12, RowsStay DEF Close, Scan, Hash, TypeInv, TypeOK
<1>7. ASSUME NEW h \in Hooks, NEW c \in Claims, Pick(h, c) PROVE LedgerInv'
  BY <1>7, RowsStay DEF Pick, TypeInv, TypeOK
<1>8. ASSUME NEW h \in Hooks, Leave(h) \/ HookDies(h) PROVE LedgerInv'
  BY <1>8, RowsStay DEF Leave, HookDies, TypeInv, TypeOK
<1>9. ASSUME NEW h \in Hooks, Settle(h) PROVE LedgerInv'
  <2> DEFINE c == on[h]
             row == [over |-> verdict[c], word |-> oracle, input |-> doc[h]]
             settles == Creditable(h, c) /\ ~Duplicate(c)
  <2>1. c \in Claims
    BY <1>9 DEF Settle, TypeInv, TypeOK
  <2>2. CASE ~settles
    BY <1>9, <2>2, RowsStay DEF Settle, TypeInv, TypeOK
  <2>3. CASE settles
    <3>1. /\ rows' = [rows EXCEPT ![c] = @ \cup {row}]
          /\ at' = [at EXCEPT ![h] = Mint(oracle)]
          /\ on' = on /\ status' = status
      BY <1>9, <2>3 DEF Settle
    <3>2. RegisterFollowsLedger'
      BY <3>1, <2>1 DEF LedgerInv, RegisterFollowsLedger, TypeInv, TypeOK
    <3>3. ASSUME NEW g \in Hooks
          PROVE  /\ at'[g] = "prove" => \E r \in rows'[on'[g]] : r.word = "pass"
                 /\ at'[g] = "refute" => \E r \in rows'[on'[g]] : r.word = "fail"
      <4>1. CASE g = h
        <5>1. row \in rows'[on'[g]] /\ row.word = oracle
          BY <4>1, <3>1, <2>1 DEF TypeInv, TypeOK
        <5>2. at'[g] = Mint(oracle)
          BY <4>1, <3>1 DEF TypeInv, TypeOK
        <5> QED
          BY <5>1, <5>2 DEF Mint
      <4>2. CASE g # h
        <5>1. at'[g] = at[g] /\ on'[g] = on[g]
          BY <4>2, <3>1 DEF TypeInv, TypeOK
        <5>2. at[g] \in {"prove", "refute"} => rows[on[g]] \subseteq rows'[on[g]]
          BY <3>1, <2>1 DEF TypeInv, TypeOK
        <5> QED
          BY <5>1, <5>2 DEF LedgerInv, MintsSettled
      <4> QED
        BY <4>1, <4>2
    <3> QED
      BY <3>2, <3>3 DEF LedgerInv, MintsSettled
  <2> QED
    BY <2>2, <2>3
<1>10. ASSUME NEW h \in Hooks, Prove(h) \/ Refute(h) PROVE LedgerInv'
  <2>1. MintsSettled'
    BY <1>10 DEF Prove, Refute, LedgerInv, MintsSettled, TypeInv, TypeOK
  <2>2. RegisterFollowsLedger'
    BY <1>10 DEF Prove, Refute, LedgerInv, RegisterFollowsLedger, MintsSettled,
                 TypeInv, TypeOK
  <2> QED
    BY <2>1, <2>2 DEF LedgerInv
<1>11. CASE UNCHANGED vars
  BY <1>11, RowsStay DEF vars
<1> QED
  BY <1>1, <1>2, <1>3, <1>4, <1>5, <1>6, <1>7, <1>8, <1>9, <1>10, <1>11, <1>12
  DEF Next, HookStep, ActStops, OtherStops

(* Under any conditions, and with any number of stop hooks that settle at    *)
(* once or die on the way, no claim is PROVEN or REFUTED without a           *)
(* settlement of that word in its rollout.                                   *)
THEOREM MintsAreSettled == Spec => []RegisterFollowsLedger
<1>1. Init => LedgerInv
  BY DEF Init, LedgerInv, RegisterFollowsLedger, MintsSettled
<1>2. LedgerInv => RegisterFollowsLedger
  BY DEF LedgerInv
<1> QED
  BY <1>1, <1>2, TypeInit, TypeStep, LedgerStep, PTL DEF Spec

-----------------------------------------------------------------------------
(* The blind input, one act and one stop hook at a time *)

Calm == ~Met("bystander") /\ ~Met("overlap")

(* A subagent that runs is the one whose step is open, and a stop hook runs  *)
(* by itself: before the next launch, after the stop that started it.        *)
OneAtATime ==
  /\ \A a \in running : a = step
  /\ \A h \in Hooks : at[h] # "idle" => running = {}
  /\ \A g, h \in Hooks : at[g] # "idle" /\ at[h] # "idle" => g = h

(* Whoever has a document of a claim in hand has the one that is parked.     *)
ParkedIsInHand ==
  /\ \A c \in Claims : verdict[c] # None => input[c] = verdict[c]
  /\ \A c \in Claims :
       [kind |-> "settler", claim |-> c] \in running /\ seen[c] # None =>
         seen[c] = input[c]
  /\ \A h \in Hooks : at[h] = "replace" => verdict[on[h]] = None
  /\ \A h \in Hooks : at[h] = "settle" => doc[h] = input[on[h]]

BlindInv == OneAtATime /\ ParkedIsInHand /\ CreditIsBlinded

(* Nobody runs while no step is open, or one whose act has ended. *)
LEMMA NobodyRuns ==
  ASSUME TypeInv, OneAtATime, step \notin running
  PROVE  running = {}
BY DEF OneAtATime

LEMMA AloneStep ==
  ASSUME Calm, TypeInv, OneAtATime, [Next]_vars
  PROVE  OneAtATime'
<1> USE DEF OneAtATime, TypeInv, TypeOK, Goto
<1>1. ASSUME NEW a \in Act, Launch(a) PROVE OneAtATime'
  <2>1. \A h \in Hooks : at[h] = "idle"
    BY <1>1 DEF Launch, Quiet, Calm
  <2>2. running' = {a} /\ step' = a /\ at' = at
    BY <1>1, NobodyRuns, ConstantsAssumption DEF Launch
  <2> QED
    BY <2>1, <2>2
<1>2. ASSUME NEW h \in Hooks, Take(h), running' = {} PROVE OneAtATime'
  <2>1. \A g \in Hooks : at[g] = "idle"
    BY <1>2 DEF Take, Quiet, Calm
  <2>2. \A g \in Hooks : at'[g] # "idle" => g = h
    BY <1>2, <2>1 DEF Take
  <2> QED
    BY <1>2, <2>2
<1>3. ASSUME NEW a \in Act, NEW h \in Hooks, ActStops(a, h) PROVE OneAtATime'
  <2>1. running' = {}
    BY <1>3 DEF ActStops
  <2> QED
    BY <1>2, <1>3, <2>1 DEF ActStops
<1>4. ASSUME NEW h \in Hooks, OtherStops(h) PROVE OneAtATime'
  <2>1. running' = {}
    BY <1>4, NobodyRuns DEF OtherStops, Calm
  <2> QED
    BY <1>2, <1>4, <2>1 DEF OtherStops
<1>5. ASSUME NEW h \in Hooks, HookStep(h) \/ HookDies(h) PROVE OneAtATime'
  <2>1. running = {} /\ running' = running
    BY <1>5 DEF HookStep, Close, Scan, Hash, Park, Hashed, Replace, Pick, Leave, Settle,
                Prove, Refute, HookDies
  <2>2. at[h] # "idle" /\ \A g \in Hooks : g # h => at'[g] = at[g]
    BY <1>5 DEF HookStep, Close, Scan, Hash, Park, Hashed, Replace, Pick, Leave, Settle,
                Prove, Refute, HookDies
  <2> QED
    BY <2>1, <2>2
<1>6. ASSUME UNCHANGED <<running, step, at>> PROVE OneAtATime'
  BY <1>6
<1> QED
  BY <1>1, <1>3, <1>4, <1>5, <1>6
  DEF Next, Write, Verify, ReadInput, Rule, OracleMoves, vars

(* Where nobody writes a ruling, an input or a row, and no hook takes up a   *)
(* document, everything in hand stays as it is.                              *)
LEMMA HandsKeep ==
  ASSUME TypeInv, ParkedIsInHand, CreditIsBlinded,
         UNCHANGED <<input, verdict, rows>>,
         \A c \in Claims : seen'[c] = None \/ seen'[c] = seen[c],
         \A c \in Claims : [kind |-> "settler", claim |-> c] \in running' =>
                            [kind |-> "settler", claim |-> c] \in running \/ seen'[c] = None,
         \A h \in Hooks : at'[h] \in {"replace", "settle"} =>
                            at'[h] = at[h] /\ on'[h] = on[h] /\ doc'[h] = doc[h]
  PROVE  ParkedIsInHand' /\ CreditIsBlinded'
BY DEF ParkedIsInHand, CreditIsBlinded, TypeInv, TypeOK

LEMMA HandStep ==
  ASSUME Calm, TypeInv, BlindInv, [Next]_vars
  PROVE  ParkedIsInHand' /\ CreditIsBlinded'
<1> USE DEF BlindInv, TypeInv, TypeOK, Goto
<1> DEFINE Hand == ParkedIsInHand /\ CreditIsBlinded
<1>1. ASSUME NEW a \in Act, Launch(a) PROVE Hand'
  BY <1>1, HandsKeep, ConstantsAssumption DEF Launch, Act
<1>2. ASSUME NEW f \in Files, Write(f) PROVE Hand'
  BY <1>2, HandsKeep DEF Write
<1>3. ASSUME NEW c \in Claims, Verify(c) PROVE Hand'
  BY <1>3, HandsKeep DEF Verify
<1>4. ASSUME OracleMoves PROVE Hand'
  BY <1>4, HandsKeep DEF OracleMoves
<1>5. ASSUME NEW c \in Claims, ReadInput(c) PROVE Hand'
  BY <1>5 DEF ReadInput, ParkedIsInHand, CreditIsBlinded
<1>6. ASSUME NEW c \in Claims, Rule(c) PROVE Hand'
  <2>1. \A h \in Hooks : at[h] = "idle"
    BY <1>6 DEF Rule, OneAtATime
  <2> QED
    BY <1>6, <2>1 DEF Rule, ParkedIsInHand, CreditIsBlinded
<1>7. ASSUME NEW h \in Hooks, Take(h), running' \subseteq running PROVE Hand'
  BY <1>7, HandsKeep DEF Take
<1>8. ASSUME NEW h \in Hooks, Park(h) PROVE Hand'
  BY <1>8, ConstantsAssumption DEF Park, Hashed, ParkedIsInHand, CreditIsBlinded
<1>14. ASSUME NEW h \in Hooks,
              Close(h) \/ Scan(h) \/ \E f \in Files : Hash(h, f)
       PROVE  Hand'
  BY <1>14, HandsKeep DEF Close, Scan, Hash
<1>9. ASSUME NEW h \in Hooks, Replace(h) PROVE Hand'
  <2>1. running = {} /\ \A g \in Hooks : at'[g] \notin {"replace", "settle"}
    BY <1>9 DEF Replace, OneAtATime
  <2>2. verdict[on[h]] = None
    BY <1>9 DEF Replace, ParkedIsInHand
  <2> QED
    BY <1>9, <2>1, <2>2 DEF Replace, ParkedIsInHand, CreditIsBlinded
<1>10. ASSUME NEW h \in Hooks, NEW c \in Claims, Pick(h, c) PROVE Hand'
  BY <1>10 DEF Pick, ParkedIsInHand, CreditIsBlinded
<1>11. ASSUME NEW h \in Hooks, Leave(h) \/ Prove(h) \/ Refute(h) \/ HookDies(h)
       PROVE  Hand'
  BY <1>11, HandsKeep DEF Leave, Prove, Refute, HookDies
<1>12. ASSUME NEW h \in Hooks, Settle(h) PROVE Hand'
  <2> DEFINE c == on[h]
             row == [over |-> verdict[c], word |-> oracle, input |-> doc[h]]
  <2>1. c \in Claims /\ row.input = row.over
    BY <1>12 DEF Settle, ParkedIsInHand, HasRuling
  <2>2. \A d \in Claims : \A r \in rows'[d] : r \in rows[d] \/ r = row
    BY <1>12, <2>1 DEF Settle
  <2>3. CreditIsBlinded'
    BY <2>1, <2>2 DEF CreditIsBlinded
  <2>4. ParkedIsInHand'
    BY <1>12 DEF Settle, Mint, ParkedIsInHand
  <2> QED
    BY <2>3, <2>4
<1>13. CASE UNCHANGED vars
  BY <1>13, HandsKeep DEF vars
<1> QED
  BY <1>1, <1>2, <1>3, <1>4, <1>5, <1>6, <1>7, <1>8, <1>9, <1>10, <1>11, <1>12,
     <1>13, <1>14 DEF Next, HookStep, ActStops, OtherStops

LEMMA BlindInit == Init => BlindInv
BY DEF Init, BlindInv, OneAtATime, ParkedIsInHand, CreditIsBlinded

LEMMA BlindStep == Calm /\ TypeInv /\ BlindInv /\ [Next]_vars => BlindInv'
BY AloneStep, HandStep DEF BlindInv

(* While every stop that closes a step is that of the act whose step it is,  *)
(* and stop hooks do not overlap, the ledger credits a claim only over the   *)
(* document its settler was shown.                                           *)
THEOREM CreditOverWhatWasBlinded == ASSUME Calm PROVE Spec => []CreditIsBlinded
<1>1. BlindInv => CreditIsBlinded
  BY DEF BlindInv
<1> QED
  BY <1>1, TypeInit, TypeStep, BlindInit, BlindStep, PTL DEF Spec

(* A ruling closes the window of its claim: what is parked once there is a   *)
(* ruling stays parked.                                                      *)
RulingClosesWindow ==
  [][\A c \in Claims : verdict[c] # None => input'[c] = input[c]]_vars

(* Under the same conditions no stop replaces an input that has been ruled   *)
(* on, although park_blind_input looks for the ruling before it writes.      *)
THEOREM WindowClosed == ASSUME Calm PROVE Spec => RulingClosesWindow
<1>1. TypeInv /\ BlindInv /\ TypeInv' /\ BlindInv' /\ [Next]_vars =>
        [\A c \in Claims : verdict[c] # None => input'[c] = input[c]]_vars
  <2> SUFFICES ASSUME BlindInv, BlindInv', TypeInv, [Next]_vars,
                      NEW c \in Claims, verdict[c] # None
               PROVE  input'[c] = input[c]
    OBVIOUS
  <2>1. verdict'[c] # None => input'[c] = verdict'[c]
    BY DEF BlindInv, ParkedIsInHand
  <2>2. input[c] = verdict[c]
    BY DEF BlindInv, ParkedIsInHand
  <2>3. verdict'[c] = verdict[c]
    BY DEF Next, Launch, Write, Verify, ReadInput, Rule, OracleMoves, ActStops,
           OtherStops, Take, HookStep, Close, Scan, Hash, Park, Replace, Pick, Leave, Settle, Prove,
           Refute, HookDies, vars, TypeInv, TypeOK
  <2> QED
    BY <2>1, <2>2, <2>3
<1> QED
  BY <1>1, TypeInit, TypeStep, BlindInit, BlindStep, PTL DEF Spec, RulingClosesWindow

-----------------------------------------------------------------------------
(* The wire implements what it promises *)

RulingStep == [Ruling!Next]_(Ruling!vars)

(* Where no input, ruling, row or status changes, nothing is promised.       *)
LEMMA NothingRuled ==
  ASSUME UNCHANGED <<input, verdict, rows, status>>
  PROVE  RulingStep
BY DEF RulingStep, Ruling!vars, Credited

(* A row adds one credit to its claim.                                       *)
LEMMA RowIsCredit ==
  ASSUME TypeInv, NEW c \in Claims, NEW row \in Row,
         rows' = [rows EXCEPT ![c] = @ \cup {row}]
  PROVE  Credited' =
           [Credited EXCEPT ![c] = @ \cup {[over |-> row.input, word |-> row.word]}]
<1>1. rows'[c] = rows[c] \cup {row} /\ \A d \in Claims \ {c} : rows'[d] = rows[d]
  BY DEF TypeInv, TypeOK
<1>2. Credited'[c] = Credited[c] \cup {[over |-> row.input, word |-> row.word]}
  BY <1>1 DEF Credited
<1>3. \A d \in Claims \ {c} : Credited'[d] = Credited[d]
  BY <1>1 DEF Credited
<1> QED BY <1>2, <1>3 DEF Credited

(* A row is a credit of its word.                                            *)
LEMMA RowShowsCredit ==
  ASSUME NEW c \in Claims, NEW r \in rows[c]
  PROVE  \E credit \in Credited[c] : credit.word = r.word
<1> DEFINE credit == [over |-> r.input, word |-> r.word]
<1>1. credit \in Credited[c]
  BY DEF Credited
<1>2. credit.word = r.word
  OBVIOUS
<1> QED BY <1>1, <1>2

(* Every step of the wire parks, rules, credits, starts or settles as the    *)
(* promise allows, or leaves it alone.                                       *)
LEMMA StepIsRuling ==
  ASSUME Calm, TypeInv, LedgerInv, BlindInv, [Next]_vars
  PROVE  RulingStep
<1> USE DEF Goto
<1>0. \A c \in Claims :
        Ruling!Park(c) \/ Ruling!Rule(c) \/ Ruling!Credit(c) \/ Ruling!Start(c)
        \/ Ruling!Settle(c, "pass", "PROVEN") \/ Ruling!Settle(c, "fail", "REFUTED")
        => RulingStep
  BY DEF RulingStep, Ruling!Next
<1>1. ASSUME NEW a \in Act, Launch(a) PROVE RulingStep
  <2>1. a.claim \in Claims /\ UNCHANGED <<input, verdict, rows>>
    BY <1>1 DEF Act, Launch
  <2>2. CASE a.kind = "worker"
    <3>1. Ruling!Start(a.claim)
      BY <1>1, <2>1, <2>2 DEF Launch, Dispatchable, Ruling!Start, Credited
    <3> QED BY <1>0, <2>1, <3>1
  <2>3. CASE a.kind # "worker"
    <3>1. UNCHANGED status
      BY <1>1, <2>1, <2>3 DEF Launch, TypeInv, TypeOK
    <3> QED BY <2>1, <3>1, NothingRuled
  <2> QED BY <2>2, <2>3
<1>2. ASSUME NEW f \in Files, Write(f) PROVE RulingStep
  BY <1>2, NothingRuled DEF Write
<1>3. ASSUME NEW c \in Claims, Verify(c) \/ ReadInput(c) PROVE RulingStep
  BY <1>3, NothingRuled DEF Verify, ReadInput
<1>4. ASSUME NEW c \in Claims, Rule(c) PROVE RulingStep
  <2>1. seen[c] = input[c]
    BY <1>4 DEF Rule, BlindInv, ParkedIsInHand
  <2>2. Ruling!Rule(c)
    BY <1>4, <2>1 DEF Rule, Ruling!Rule, Credited
  <2> QED BY <1>0, <2>2
<1>5. ASSUME OracleMoves PROVE RulingStep
  BY <1>5, NothingRuled DEF OracleMoves
<1>6. ASSUME NEW h \in Hooks, Take(h) PROVE RulingStep
  BY <1>6, NothingRuled DEF Take
<1>7. ASSUME NEW h \in Hooks, Replace(h) PROVE RulingStep
  <2>1. on[h] \in Claims /\ doc[h] \in Document /\ verdict[on[h]] = None
    BY <1>7 DEF Replace, TypeInv, TypeOK, BlindInv, ParkedIsInHand
  <2>2. Ruling!Park(on[h])
    BY <1>7, <2>1 DEF Replace, Ruling!Park, Credited
  <2> QED BY <1>0, <2>1, <2>2
<1>8. ASSUME NEW h \in Hooks, Settle(h) PROVE RulingStep
  <2> DEFINE c == on[h]
             row == [over |-> verdict[c], word |-> oracle, input |-> doc[h]]
             settles == Creditable(h, c) /\ ~Duplicate(c)
  <2>1. CASE ~settles
    BY <1>8, <2>1, NothingRuled DEF Settle, TypeInv, TypeOK
  <2>2. CASE settles
    <3>1. /\ c \in Claims /\ doc[h] \in Document /\ oracle \in Word
          /\ verdict[c] \in Document
      BY <1>8 DEF Settle, TypeInv, TypeOK, HasRuling
    <3>2. doc[h] = verdict[c] /\ verdict[c] # None
      BY <1>8, <3>1, ConstantsAssumption
      DEF Settle, BlindInv, ParkedIsInHand, TypeInv, HasRuling
    <3>3. row \in Row /\ row.input = verdict[c] /\ row.word = oracle
      BY <3>1, <3>2 DEF Row
    <3>4. rows' = [rows EXCEPT ![c] = @ \cup {row}] /\ UNCHANGED <<input, verdict, status>>
      BY <1>8, <2>2 DEF Settle
    <3>5. Credited' = [Credited EXCEPT ![c] = @ \cup {[over |-> verdict[c], word |-> oracle]}]
      <4> HIDE DEF row, c
      <4> QED BY <3>1, <3>3, <3>4, RowIsCredit
    <3>6. Ruling!Credit(c)
      BY <3>1, <3>2, <3>4, <3>5 DEF Ruling!Credit
    <3> QED BY <1>0, <3>1, <3>6
  <2> QED BY <2>1, <2>2
<1>9. ASSUME NEW h \in Hooks, Prove(h) PROVE RulingStep
  <2> DEFINE c == on[h]
  <2>1. /\ c \in Claims /\ UNCHANGED <<input, verdict, rows>>
        /\ \E r \in rows[c] : r.word = "pass"
    BY <1>9 DEF Prove, TypeInv, TypeOK, LedgerInv, MintsSettled
  <2>2. CASE UNCHANGED status
    BY <2>1, <2>2, NothingRuled
  <2>3. CASE status # status'
    <3>1. status[c] = "IN_PROGRESS" /\ status' = [status EXCEPT ![c] = "PROVEN"]
      BY <1>9, <2>1, <2>3 DEF Prove, TypeInv, TypeOK
    <3>2. \E credit \in Credited[c] : credit.word = "pass"
      BY <2>1, RowShowsCredit
    <3>3. UNCHANGED <<input, verdict, Credited>>
      BY <2>1 DEF Credited
    <3>4. Ruling!Settle(c, "pass", "PROVEN")
      BY <3>1, <3>2, <3>3 DEF Ruling!Settle
    <3> QED BY <1>0, <2>1, <3>4
  <2> QED BY <2>2, <2>3
<1>10. ASSUME NEW h \in Hooks, Refute(h) PROVE RulingStep
  <2> DEFINE c == on[h]
  <2>1. /\ c \in Claims /\ UNCHANGED <<input, verdict, rows>>
        /\ \E r \in rows[c] : r.word = "fail"
    BY <1>10 DEF Refute, TypeInv, TypeOK, LedgerInv, MintsSettled
  <2>2. CASE UNCHANGED status
    BY <2>1, <2>2, NothingRuled
  <2>3. CASE status # status'
    <3>1. status[c] = "IN_PROGRESS" /\ status' = [status EXCEPT ![c] = "REFUTED"]
      BY <1>10, <2>1, <2>3 DEF Refute, TypeInv, TypeOK
    <3>2. \E credit \in Credited[c] : credit.word = "fail"
      BY <2>1, RowShowsCredit
    <3>3. UNCHANGED <<input, verdict, Credited>>
      BY <2>1 DEF Credited
    <3>4. Ruling!Settle(c, "fail", "REFUTED")
      BY <3>1, <3>2, <3>3 DEF Ruling!Settle
    <3> QED BY <1>0, <2>1, <3>4
  <2> QED BY <2>2, <2>3
<1>11. ASSUME NEW h \in Hooks,
              \/ Close(h) \/ Scan(h) \/ \E f \in Files : Hash(h, f)
              \/ Park(h) \/ Leave(h) \/ HookDies(h)
       PROVE  RulingStep
  BY <1>11, NothingRuled DEF Close, Scan, Hash, Park, Leave, HookDies
<1>12. ASSUME NEW h \in Hooks, NEW c \in Claims, Pick(h, c) PROVE RulingStep
  BY <1>12, NothingRuled DEF Pick
<1>13. CASE UNCHANGED vars
  BY <1>13, NothingRuled DEF vars
<1> QED
  BY <1>1, <1>2, <1>3, <1>4, <1>5, <1>6, <1>7, <1>8, <1>9, <1>10, <1>11, <1>12,
     <1>13 DEF Next, HookStep, ActStops, OtherStops

(* RulingRefinement: while stops close their own step and stop hooks do not  *)
(* overlap, parking, ruling, settling and minting by path and hash, with     *)
(* hooks that die on the way, keep the promise as a whole: one document from *)
(* the ruling to the register.                                               *)
THEOREM RulingRefinement == ASSUME Calm PROVE Spec => ImplementsBlindRuling
<1>1. Init => Ruling!Init
  BY DEF Init, Ruling!Init, Credited
<1>2. Init => LedgerInv
  BY DEF Init, LedgerInv, RegisterFollowsLedger, MintsSettled, Terminal
<1>3. TypeInv /\ LedgerInv /\ BlindInv /\ [Next]_vars => [Ruling!Next]_(Ruling!vars)
  BY StepIsRuling DEF RulingStep
<1> QED
  BY <1>1, <1>2, <1>3, TypeInit, TypeStep, LedgerStep, BlindInit, BlindStep, PTL
  DEF Spec, ImplementsBlindRuling, Ruling!Spec

(* Every step opens, ends or closes one act, or leaves them alone.           *)
LEMMA StepIsSerial ==
  ASSUME Calm, TypeInv, OneAtATime, [Next]_vars
  PROVE  [Serial!Next]_(Serial!vars)
<1> DEFINE Open == {step} \ {None}
<1>1. ASSUME NEW a \in Act, Launch(a) PROVE Serial!Open(a)
  <2>1. Open = {} /\ running = {}
    BY <1>1, NobodyRuns, ConstantsAssumption DEF Launch, TypeInv, TypeOK
  <2>2. Open' = {a} /\ running' = {a}
    BY <1>1, <2>1, ConstantsAssumption DEF Launch
  <2> QED BY <2>1, <2>2 DEF Serial!Open
<1>2. ASSUME NEW a \in Act, NEW h \in Hooks, ActStops(a, h) PROVE Serial!End(a)
  BY <1>2 DEF ActStops, Take, Serial!End
<1>3. ASSUME UNCHANGED <<step, running>> PROVE UNCHANGED Serial!vars
  BY <1>3 DEF Serial!vars
<1>4. ASSUME NEW h \in Hooks, OtherStops(h) PROVE UNCHANGED Serial!vars
  BY <1>3, <1>4 DEF OtherStops, Take, Calm
<1>5. ASSUME NEW h \in Hooks, HookStep(h) \/ HookDies(h), ~Close(h)
      PROVE  UNCHANGED Serial!vars
  BY <1>3, <1>5 DEF HookStep, Scan, Hash, Park, Replace, Pick, Leave, Settle, Prove,
                    Refute, HookDies
<1>10. ASSUME NEW h \in Hooks, Close(h) PROVE [Serial!Next]_(Serial!vars)
  <2>1. running = {} /\ running' = {} /\ step' = None
    BY <1>10 DEF Close, OneAtATime
  <2>2. CASE step = None
    BY <1>3, <2>1, <2>2
  <2>3. CASE step # None
    <3>1. step \in Act /\ step \in Open /\ Open' = Open \ {step}
      BY <2>1, <2>3 DEF TypeInv, TypeOK
    <3>2. Serial!Close(step)
      BY <2>1, <3>1 DEF Serial!Close
    <3> QED
      BY <3>1, <3>2 DEF Serial!Next
  <2> QED
    BY <2>2, <2>3
<1>6. ASSUME NEW f \in Files, Write(f) PROVE UNCHANGED Serial!vars
  BY <1>3, <1>6 DEF Write
<1>7. ASSUME NEW c \in Claims, Verify(c) \/ ReadInput(c) \/ Rule(c)
      PROVE  UNCHANGED Serial!vars
  BY <1>3, <1>7 DEF Verify, ReadInput, Rule
<1>8. CASE OracleMoves \/ UNCHANGED vars
  BY <1>3, <1>8 DEF OracleMoves, vars
<1>9. \A a \in Act : Serial!Open(a) \/ Serial!End(a) => Serial!Next
  BY DEF Serial!Next
<1> QED
  BY <1>1, <1>2, <1>4, <1>5, <1>6, <1>7, <1>8, <1>9, <1>10 DEF Next

(* SerialRefinement: the wire keeps what it takes over from the barrier: an  *)
(* act opens when no other is open and none runs.                            *)
THEOREM SerialRefinement == ASSUME Calm PROVE Spec => ImplementsSerialSteps
<1>1. Init => Serial!Init
  BY DEF Init, Serial!Init
<1>2. BlindInv => OneAtATime
  BY DEF BlindInv
<1> QED
  BY <1>1, <1>2, TypeInit, TypeStep, BlindInit, BlindStep, StepIsSerial, PTL
  DEF Spec, ImplementsSerialSteps, Serial!Spec
================================================================================
