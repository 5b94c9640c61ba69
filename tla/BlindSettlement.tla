---------------------------- MODULE BlindSettlement ----------------------------
(***************************************************************************)
(* The blind settlement wire (scripts/rlvr/settlement_wire.py).  The stop  *)
(* of a subagent parks what the pending step wrote, by path and hash, as   *)
(* the blind input of its claim; the settler, a subagent of its own, rules *)
(* on that document alone; every later stop settles each ruling into the   *)
(* rollout ledger and mints the claim's status through claims_store.       *)
(*                                                                         *)
(* Stands on StepSettlement: one step is open at a time, a dispatch waits  *)
(* for it, and a stop closes it, whoever stopped.  Every act on a claim,   *)
(* verifier and settler included, opens a step of that claim.              *)
(*                                                                         *)
(* Conditions:                                                             *)
(*   "bystander"    a subagent that is nobody's act stops while the act of *)
(*                  the open step runs                                     *)
(*   "overlap"      acts are launched, and subagents stop, while a stop    *)
(*                  hook is running                                        *)
(*   "late_record"  the verification record lands after a settlement that  *)
(*                  needed it                                              *)
(*   "lost_mint"    a stop hook dies between ledger row and mint           *)
(*   "trace_credit" a ruling credits so little that a failing oracle takes *)
(*                  nothing off (at most FAIL_CREDIT_CAP, but not 0)       *)
(***************************************************************************)
EXTENDS Naturals, FiniteSets

CONSTANTS
  Claims,      \* claims of the register
  Files,       \* files under evidence/
  Hooks,       \* stop hook processes
  MaxActs,     \* bound: dispatches
  MaxWrites,   \* bound: versions of a file
  MaxDeaths,   \* bound: stop hooks that die
  Conditions,  \* see above
  None         \* no document, no step, no settlement

VARIABLES
  bytes,       \* the version of each evidence file, for its hash
  running,     \* the acts whose subagent runs
  step,        \* the act of the open step, or None
  touched,     \* the files written since that step was launched
  launched,    \* counts to MaxActs
  input,       \* runs/settlement-input-<claim>.json, or None
  seen,        \* the document the settler of a claim has read, or None
  verdict,     \* runs/settlement-verdict-<claim>.json: the document ruled on
  record,      \* the word of each claim's verification record
  oracle,      \* the machine verdict over all oracle cases
  rows,        \* the settlement rows of each claim's rollout
  settlement,  \* the latest of them, or None
  status,      \* the register
  at,          \* where each stop hook stands
  on,          \* the claim it is at
  doc,         \* the document it holds
  left,        \* the claims its settle face has yet to visit
  window,      \* the files of its step: written since the launch, then listed
  deaths       \* counts to MaxDeaths

files == <<bytes, input, seen, verdict, record, oracle>>

ledgers == <<rows, settlement, status>>

acts == <<running, step, touched, launched>>

hooks == <<at, on, doc, left, window>>

vars == <<bytes, running, step, touched, launched, input, seen, verdict,
          record, oracle, rows, settlement, status, at, on, doc, left, window, deaths>>

-----------------------------------------------------------------------------
Act == [kind : {"worker", "verifier", "settler"}, claim : Claims]

(* A document lists artifacts, each with the version its hash stands for. *)
Document == UNION {[S -> 0 .. MaxWrites] : S \in SUBSET Files}

Word == {"none", "pass", "fail"}

(* A settlement: the ruling, the oracle's word, and the input it is over. *)
Row == [over : Document, word : Word, input : Document]

ASSUME ConstantsAssumption ==
  /\ MaxActs \in Nat
  /\ MaxWrites \in Nat
  /\ MaxDeaths \in Nat
  /\ Conditions \subseteq {"bystander", "overlap", "late_record", "lost_mint",
                          "trace_credit"}
  /\ \A S \in {Claims, Act, Document, Row} : None \notin S

Met(condition) == condition \in Conditions

Terminal == {"PROVEN", "REFUTED"}

Places == {"idle", "close", "scan", "hash", "replace", "pick", "settle", "prove",
           "refute"}

TypeOK ==
  /\ bytes \in [Files -> 0 .. MaxWrites]
  /\ running \subseteq Act
  /\ step \in Act \cup {None}
  /\ touched \subseteq Files
  /\ launched \in 0 .. MaxActs
  /\ input \in [Claims -> Document \cup {None}]
  /\ seen \in [Claims -> Document \cup {None}]
  /\ verdict \in [Claims -> Document \cup {None}]
  /\ record \in [Claims -> {"none", "passed", "rejected"}]
  /\ oracle \in Word
  /\ rows \in [Claims -> SUBSET Row]
  /\ settlement \in [Claims -> Row \cup {None}]
  /\ status \in [Claims -> {"OPEN", "IN_PROGRESS"} \cup Terminal]
  /\ at \in [Hooks -> Places]
  /\ on \in [Hooks -> Claims \cup {None}]
  /\ doc \in [Hooks -> Document \cup {None}]
  /\ left \in [Hooks -> SUBSET Claims]
  /\ window \in [Hooks -> SUBSET Files]
  /\ deaths \in 0 .. MaxDeaths
  /\ \A h \in Hooks :
       /\ at[h] \notin {"idle", "close", "pick"} => on[h] \in Claims
       /\ at[h] \in {"hash", "replace", "settle"} => doc[h] \in Document

Init ==
  /\ bytes = [f \in Files |-> 0]
  /\ running = {}
  /\ step = None
  /\ touched = {}
  /\ launched = 0
  /\ input = [c \in Claims |-> None]
  /\ seen = [c \in Claims |-> None]
  /\ verdict = [c \in Claims |-> None]
  /\ record = [c \in Claims |-> "none"]
  /\ oracle = "none"
  /\ rows = [c \in Claims |-> {}]
  /\ settlement = [c \in Claims |-> None]
  /\ status = [c \in Claims |-> "OPEN"]
  /\ at = [h \in Hooks |-> "idle"]
  /\ on = [h \in Hooks |-> None]
  /\ doc = [h \in Hooks |-> None]
  /\ left = [h \in Hooks |-> {}]
  /\ window = [h \in Hooks |-> {}]
  /\ deaths = 0

-----------------------------------------------------------------------------
(* _sha_recheck: every artifact still has the bytes the document lists. *)
Intact(d) == \A f \in DOMAIN d : bytes[f] = d[f]

(* No stop hook is running. *)
Quiet == Met("overlap") \/ \A h \in Hooks : at[h] = "idle"

-----------------------------------------------------------------------------
(* The acts.  A worker is dispatched on an OPEN claim, a verifier on one     *)
(* that is IN_PROGRESS, the settler on a parked input without a ruling       *)
(* (pending_settlements).  Each leaves its launch stash: the step is open.   *)
Dispatchable(a) ==
  \/ a.kind = "worker" /\ status[a.claim] = "OPEN"
  \/ a.kind = "verifier" /\ status[a.claim] = "IN_PROGRESS"
  \/ a.kind = "settler" /\ input[a.claim] # None /\ verdict[a.claim] = None

Launch(a) ==
  /\ launched < MaxActs
  /\ step = None
  /\ Quiet
  /\ a \notin running
  /\ Dispatchable(a)
  /\ launched' = launched + 1
  /\ running' = running \cup {a}
  /\ step' = a
  /\ touched' = {}
  /\ status' = [status EXCEPT ![a.claim] =
                  IF a.kind = "worker" THEN "IN_PROGRESS" ELSE @]
  /\ seen' = [seen EXCEPT ![a.claim] = IF a.kind = "settler" THEN None ELSE @]
  /\ UNCHANGED <<bytes, input, verdict, record, oracle, rows, settlement,
                 hooks, deaths>>

(* A worker or a verifier writes an evidence file, in the window of the open *)
(* step and of every stop hook that has not looked yet.                      *)
Write(f) ==
  /\ \E a \in running : a.kind # "settler"
  /\ bytes[f] < MaxWrites
  /\ bytes' = [bytes EXCEPT ![f] = @ + 1]
  /\ touched' = touched \cup {f}
  /\ window' = [h \in Hooks |->
                  IF at[h] \in {"close", "scan"} THEN window[h] \cup {f} ELSE window[h]]
  /\ UNCHANGED <<running, step, launched, input, seen, verdict, record,
                 oracle, ledgers, at, on, doc, left, deaths>>

(* A verifier writes its record. *)
Verify(c) ==
  /\ [kind |-> "verifier", claim |-> c] \in running
  /\ settlement[c] # None => settlement[c].word # "pass" \/ Met("late_record")
  /\ \E word \in {"passed", "rejected"} : record' = [record EXCEPT ![c] = word]
  /\ UNCHANGED <<bytes, input, seen, verdict, oracle, ledgers, acts, hooks, deaths>>

(* The settler reads its input and hashes the artifacts... *)
ReadInput(c) ==
  /\ [kind |-> "settler", claim |-> c] \in running
  /\ seen[c] = None
  /\ input[c] # None
  /\ Intact(input[c])
  /\ seen' = [seen EXCEPT ![c] = input[c]]
  /\ UNCHANGED <<bytes, input, verdict, record, oracle, ledgers, acts, hooks, deaths>>

(* ...and rules: every action cites an artifact, so there must be one. *)
Rule(c) ==
  /\ [kind |-> "settler", claim |-> c] \in running
  /\ seen[c] # None
  /\ DOMAIN seen[c] # {}
  /\ verdict[c] = None
  /\ verdict' = [verdict EXCEPT ![c] = seen[c]]
  /\ UNCHANGED <<bytes, input, seen, record, oracle, ledgers, acts, hooks, deaths>>

(* An oracle case is run again. *)
OracleMoves ==
  /\ oracle' \in Word \ {oracle}
  /\ UNCHANGED <<bytes, input, seen, verdict, record, ledgers, acts, hooks, deaths>>

-----------------------------------------------------------------------------
(* The stop hook *)

Goto(h, place) == at' = [at EXCEPT ![h] = place]

(* The step that is pending, for the park: its claim, and the files written  *)
(* since its launch.                                                         *)
Take(h) ==
  /\ at[h] = "idle"
  /\ Quiet
  /\ Goto(h, "close")
  /\ on' = [on EXCEPT ![h] = IF step = None THEN None ELSE step.claim]
  /\ window' = [window EXCEPT ![h] = IF step = None THEN {} ELSE touched]
  /\ left' = [left EXCEPT ![h] = Claims]
  /\ UNCHANGED <<doc, step, touched, launched, files, ledgers, deaths>>

ActStops(a, h) ==
  /\ a \in running
  /\ running' = running \ {a}
  /\ Take(h)

OtherStops(h) ==
  /\ step \notin running \/ Met("bystander")
  /\ UNCHANGED running
  /\ Take(h)

(* Fault: the hook parks whether or not a step was pending. *)
ParksAnyway(h) ==
  /\ at[h] = "close"
  /\ step' = None
  /\ Goto(h, "scan")
  /\ UNCHANGED <<running, touched, launched, on, doc, left, window, files, ledgers,
                 deaths>>

(* settle_step closes the step that is pending by now; without one to park,  *)
(* the settle face is next.                                                  *)
Close(h) ==
  /\ at[h] = "close"
  /\ step' = None
  /\ Goto(h, IF on[h] = None THEN "pick" ELSE "scan")
  /\ UNCHANGED <<running, touched, launched, on, doc, left, window, files, ledgers,
                 deaths>>

(* The window ends here, and what was written in it is listed... *)
Scan(h) ==
  /\ at[h] = "scan"
  /\ Goto(h, "hash")
  /\ doc' = [doc EXCEPT ![h] = [f \in {} |-> 0]]
  /\ UNCHANGED <<on, left, window, files, ledgers, acts, deaths>>

(* ...and hashed, file by file, as it is by then. *)
Hash(h, f) ==
  /\ at[h] = "hash"
  /\ f \in window[h] \ DOMAIN doc[h]
  /\ doc' = [doc EXCEPT ![h] = [g \in DOMAIN @ \cup {f} |->
                                  IF g = f THEN bytes[f] ELSE @[g]]]
  /\ UNCHANGED <<at, on, left, window, files, ledgers, acts, deaths>>

Hashed(h) == at[h] = "hash" /\ window[h] \subseteq DOMAIN doc[h]

(* Fault: a ruling does not close the window. *)
ReparksRuled(h) ==
  /\ Hashed(h)
  /\ Goto(h, IF input[on[h]] = doc[h] THEN "pick" ELSE "replace")
  /\ window' = [window EXCEPT ![h] = {}]
  /\ UNCHANGED <<on, doc, left, files, ledgers, acts, deaths>>

(* park_blind_input: nothing to do for the same bytes, refused once there is *)
(* a ruling...                                                               *)
Park(h) ==
  LET c == on[h] IN
  /\ Hashed(h)
  /\ Goto(h, IF input[c] # None /\ (input[c] = doc[h] \/ verdict[c] # None)
             THEN "pick" ELSE "replace")
  /\ window' = [window EXCEPT ![h] = {}]
  /\ UNCHANGED <<on, doc, left, files, ledgers, acts, deaths>>

(* ...and otherwise the document replaces the one that was there. *)
Replace(h) ==
  /\ at[h] = "replace"
  /\ input' = [input EXCEPT ![on[h]] = doc[h]]
  /\ Goto(h, "pick")
  /\ UNCHANGED <<bytes, seen, verdict, record, oracle, on, doc, left, window,
                 ledgers, acts, deaths>>

(* settle_face: the next claim with an input and a ruling; its input. *)
Ruled(c) == input[c] # None /\ verdict[c] # None

Pick(h, c) ==
  /\ at[h] = "pick"
  /\ c \in left[h]
  /\ Ruled(c)
  /\ Goto(h, "settle")
  /\ on' = [on EXCEPT ![h] = c]
  /\ doc' = [doc EXCEPT ![h] = input[c]]
  /\ left' = [left EXCEPT ![h] = @ \ {c}]
  /\ UNCHANGED <<window, files, ledgers, acts, deaths>>

Leave(h) ==
  /\ at[h] = "pick"
  /\ \A c \in left[h] : ~Ruled(c)
  /\ Goto(h, "idle")
  /\ on' = [on EXCEPT ![h] = None]
  /\ doc' = [doc EXCEPT ![h] = None]
  /\ left' = [left EXCEPT ![h] = {}]
  /\ UNCHANGED <<window, files, ledgers, acts, deaths>>

(* Fault: a ruling that has been settled is a duplicate, whatever the oracle *)
(* says by now.                                                              *)
SettledBefore(c) == settlement[c] # None /\ settlement[c].over = verdict[c]

(* oracle_lock: what a settlement shows of the oracle's word is what the     *)
(* word does to the credit.                                                  *)
Priced(w) == IF w = "fail" /\ Met("trace_credit") THEN "none" ELSE w

(* ledger.settle: the settlement the rollout carries already.  The input is  *)
(* no part of it.                                                            *)
Duplicate(c) ==
  /\ settlement[c] # None
  /\ settlement[c].over = verdict[c]
  /\ Priced(settlement[c].word) = Priced(oracle)

(* The walls of settle_parked and settle_blind: the bytes are those that     *)
(* were parked, and every artifact the ruling cites is in the input.         *)
Creditable(h, c) ==
  /\ Intact(doc[h])
  /\ DOMAIN verdict[c] \subseteq DOMAIN doc[h]

(* Where a settlement with the word w goes: the mint, if it is decisive. *)
Mint(w) ==
  IF w = "pass" THEN "prove" ELSE IF w = "fail" THEN "refute" ELSE "pick"

(* Fault: the mint does not ask whether the settlement was refused. *)
MintsRefused(h) ==
  LET c == on[h]
      row == [over |-> verdict[c], word |-> oracle, input |-> doc[h]]
      settles == Creditable(h, c) /\ ~Duplicate(c)
  IN
  /\ at[h] = "settle"
  /\ rows' = [rows EXCEPT ![c] = IF settles THEN @ \cup {row} ELSE @]
  /\ settlement' = [settlement EXCEPT ![c] = IF settles THEN row ELSE @]
  /\ Goto(h, Mint(oracle))
  /\ UNCHANGED <<on, doc, left, window, files, status, acts, deaths>>

(* settle_parked up to the ledger: no row for a refused or known settlement, *)
(* and no mint.                                                              *)
Settle(h) ==
  LET c == on[h]
      row == [over |-> verdict[c], word |-> oracle, input |-> doc[h]]
      settles == Creditable(h, c) /\ ~Duplicate(c)
  IN
  /\ at[h] = "settle"
  /\ rows' = [rows EXCEPT ![c] = IF settles THEN @ \cup {row} ELSE @]
  /\ settlement' = [settlement EXCEPT ![c] = IF settles THEN row ELSE @]
  /\ Goto(h, IF settles THEN Mint(oracle) ELSE "pick")
  /\ UNCHANGED <<on, doc, left, window, files, status, acts, deaths>>

(* _claim_transition: settle_proven wants a record that resolves to PASSED, *)
(* settle_refuted does not.                                                 *)
Prove(h) ==
  LET c == on[h] IN
  /\ at[h] = "prove"
  /\ status' = [status EXCEPT ![c] =
                  IF @ = "IN_PROGRESS" /\ record[c] = "passed" THEN "PROVEN" ELSE @]
  /\ Goto(h, "pick")
  /\ UNCHANGED <<on, doc, left, window, files, rows, settlement, acts, deaths>>

(* Fault: the transition matrix is not asked. *)
RefutesAnyStatus(h) ==
  /\ at[h] = "refute"
  /\ status' = [status EXCEPT ![on[h]] = "REFUTED"]
  /\ Goto(h, "pick")
  /\ UNCHANGED <<on, doc, left, window, files, rows, settlement, acts, deaths>>

Refute(h) ==
  /\ at[h] = "refute"
  /\ status' = [status EXCEPT ![on[h]] = IF @ = "IN_PROGRESS" THEN "REFUTED" ELSE @]
  /\ Goto(h, "pick")
  /\ UNCHANGED <<on, doc, left, window, files, rows, settlement, acts, deaths>>

(* The hook is killed, or its time limit ends it. *)
HookDies(h) ==
  /\ at[h] # "idle"
  /\ Met("lost_mint") \/ at[h] \notin {"prove", "refute"}
  /\ deaths < MaxDeaths
  /\ deaths' = deaths + 1
  /\ Goto(h, "idle")
  /\ on' = [on EXCEPT ![h] = None]
  /\ doc' = [doc EXCEPT ![h] = None]
  /\ left' = [left EXCEPT ![h] = {}]
  /\ window' = [window EXCEPT ![h] = {}]
  /\ UNCHANGED <<files, ledgers, acts>>

-----------------------------------------------------------------------------
HookStep(h) ==
  \/ Close(h) \/ Scan(h)
  \/ \E f \in Files : Hash(h, f)
  \/ Park(h) \/ Replace(h)
  \/ \E c \in Claims : Pick(h, c)
  \/ Leave(h)
  \/ Settle(h) \/ Prove(h) \/ Refute(h)

Next ==
  \/ \E a \in Act : Launch(a)
  \/ \E f \in Files : Write(f)
  \/ \E c \in Claims : Verify(c) \/ ReadInput(c) \/ Rule(c)
  \/ OracleMoves
  \/ \E a \in Act, h \in Hooks : ActStops(a, h)
  \/ \E h \in Hooks : OtherStops(h) \/ HookStep(h) \/ HookDies(h)

Spec == Init /\ [][Next]_vars

(* A hook that is not killed runs to its end, every act comes to its stop,   *)
(* and subagents go on stopping.                                             *)
Fairness ==
  /\ \A h \in Hooks : WF_vars(HookStep(h))
  /\ \A a \in Act : WF_vars(\E h \in Hooks : ActStops(a, h))
  /\ WF_vars(\E h \in Hooks : OtherStops(h))

FairSpec == Spec /\ Fairness

-----------------------------------------------------------------------------
(* "Settle over EXACTLY what was blinded": the input of every settlement is  *)
(* the document its settler ruled on, although the ruling does not name its  *)
(* input and the input can be parked again at every stop.                    *)
CreditIsBlinded ==
  \A c \in Claims : \A r \in rows[c] : r.input = r.over

(* The mint never runs ahead of the ledger: a claim is PROVEN or REFUTED     *)
(* only with a settlement of that word in its rollout (settle_parked).  The  *)
(* run has one hook that does not die between the two writes; the theorem    *)
(* MintsAreSettled has any number of hooks, and they die anywhere.           *)
RegisterFollowsLedger ==
  \A c \in Claims :
    /\ status[c] = "PROVEN" => \E r \in rows[c] : r.word = "pass"
    /\ status[c] = "REFUTED" => \E r \in rows[c] : r.word = "fail"

(* The credits a rollout shows: over what each one was settled. *)
Credited ==
  [c \in Claims |-> {[over |-> r.input, word |-> r.word] : r \in rows[c]}]

Ruling == INSTANCE BlindRuling WITH
  Documents <- Document, Words <- Word, ruling <- verdict, credited <- Credited

(* The wire is a BlindRuling: although a ruling names no input and the input *)
(* can be parked again at every stop, what is ruled on is what is parked, it *)
(* stays parked, it is what is credited, and the register follows.           *)
ImplementsBlindRuling == Ruling!Spec

Serial == INSTANCE SerialSteps WITH
  Steps <- Act,
  open <- {step} \ {None},
  working <- running

(* One act at a time is open, and its subagent is the one that runs: this is *)
(* what the wire takes over from the barrier of StepSettlement.              *)
ImplementsSerialSteps == Serial!Spec

(* The claim has a ruling over artifacts that are still there, and all that  *)
(* its mint asks for.                                                        *)
Mintable(c) ==
  /\ Ruled(c)
  /\ Intact(input[c])
  /\ status[c] = "IN_PROGRESS"
  /\ oracle = "fail" \/ (oracle = "pass" /\ record[c] = "passed")

(* No claim stays mintable: a ruling takes effect in the register, through   *)
(* whichever of the stops that follow is the first to see a decisive oracle. *)
RulingTakesEffect == \A c \in Claims : []<>~Mintable(c)
================================================================================
