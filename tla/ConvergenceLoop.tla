---------------------------- MODULE ConvergenceLoop ----------------------------
(***************************************************************************)
(* The loop around scripts/convergence_check.py: decide() reads the claim  *)
(* register, the facts, the worker status files and the completion gates,  *)
(* and returns the verdict the orchestrator acts on.  Its one write is the *)
(* reopening of the claims of silent workers.                              *)
(*                                                                         *)
(* A decide holds no lock and reads one file after the other: the register *)
(* (ReadRegister), the facts (ReadPartials), the worker files              *)
(* (ReadWorkers); then the machine runs on what was read (Judge), and when *)
(* the verdict is about silent workers the register is read a second time  *)
(* and rewritten (Reopen).  Orchestrator, workers and the stop hook run in *)
(* between.  One decide runs at a time.                                    *)
(*                                                                         *)
(* Conditions:                                                             *)
(*   "unwritten"  the worker files are read, or the worker is lost,        *)
(*                between a launch and the worker's first status line      *)
(*   "leftover"   a claim is dispatched to a new worker while the status   *)
(*                file of a lost one still says in-progress                *)
(*   "overrun"    a step outlives its time to live with its worker at work *)
(*   "meanwhile"  an orchestrator acts while a decide of another session   *)
(*                runs                                                     *)
(***************************************************************************)
EXTENDS Naturals, FiniteSets

CONSTANTS
  Claims,      \* claims of the register
  Workers,     \* worker ids, the stems of runs/worker-status-<id>.md
  ClaimOf,     \* the claim a worker id is made for
  Matches,     \* the claims a stem matches: a prefix either way
  Questions,   \* the primary questions of the task
  Question,    \* answers_question of each claim at the start, or None
  Held,        \* claims held back at the start: "internal" or "external"
  Gates,       \* the completion gates that a delivery can turn red
  Cap,         \* WORKER_CAP
  MaxMishaps,  \* how often a worker is lost, or falls silent at work
  Conditions,  \* see above
  None         \* no question, no step

VARIABLES
  status,    \* the register: the status of each claim
  answers,   \* the register: answers_question of each claim, or None
  hold,      \* what keeps an open claim from being dispatched
  owed,      \* claims with a fact whose verification is owed
  judged,    \* what the latest verification of a claim's fact said
  raised,    \* the completion gates that are red
  token,     \* the last status token of each worker's status file
  quiet,     \* workers whose status file is older than STUCK_MINUTES
  proc,      \* the process behind each worker id
  step,      \* the worker of the open step, or None
  phase,     \* how far the running decide has come, or "idle"
  snap,      \* what it has read
  missed,    \* claims with a fact delivered after it had read the facts
  verdict,   \* the decision of the latest decide
  reported,  \* the silent workers the latest decide has reported
  mishaps    \* counts to MaxMishaps

vars == <<status, answers, hold, owed, judged, raised, token, quiet, proc, step,
          phase, snap, missed, verdict, reported, mishaps>>

register == <<status, answers, hold>>

facts == <<owed, judged, raised>>

files == <<token, quiet>>

decide == <<phase, snap, missed, verdict, reported>>

-----------------------------------------------------------------------------
Terminal == {"PROVEN", "REFUTED"}

Statuses == {"OPEN", "IN_PROGRESS"} \cup Terminal

Holds == {"none", "internal", "external"}

Tokens == {"absent", "in-progress", "done", "failed", "closed"}

Processes == {"gone", "launched", "working", "stopping"}

DrainGates ==
  {"NOTE_LAYER_GAP", "OPEN_HYPOTHESIS_AT_CLOSE", "DISCOVERY_UNCONSUMED",
   "GLOBAL_CONTRADICTION", "ANOMALY_DETECTED", "ORACLE_CASE_RED"}

AllGates == DrainGates \cup {"DEBT_GATE", "CARRIER_DRIFT"}

Phases == {"idle", "partials", "workers", "machine", "reopen"}

Snapshots ==
  [opens : SUBSET Claims, unblocked : SUBSET Claims, orphans : SUBSET Claims,
   unverified : SUBSET Questions, partials : SUBSET Claims,
   active : SUBSET Workers, stuck : SUBSET Workers]

NothingRead ==
  [opens |-> {}, unblocked |-> {}, orphans |-> {}, unverified |-> {},
   partials |-> {}, active |-> {}, stuck |-> {}]

Verdicts ==
  {"CONVERGED", "DISPATCH", "DISPATCH_VERIFIER", "SATURATED", "BLOCKED", "PARK"}

ASSUME ConstantsAssumption ==
  /\ ClaimOf \in [Workers -> Claims]
  /\ Matches \in [Workers -> SUBSET Claims]
  /\ \A w \in Workers : ClaimOf[w] \in Matches[w]
  /\ Question \in [Claims -> Questions \cup {None}]
  /\ Held \in [Claims -> Holds]
  /\ Gates \subseteq AllGates
  /\ Cap \in Nat \ {0}
  /\ MaxMishaps \in Nat
  /\ Conditions \subseteq {"unwritten", "leftover", "overrun", "meanwhile"}
  /\ None \notin Workers \cup Questions

TypeOK ==
  /\ status \in [Claims -> Statuses]
  /\ answers \in [Claims -> Questions \cup {None}]
  /\ hold \in [Claims -> Holds]
  /\ owed \subseteq Claims
  /\ judged \in [Claims -> {"none", "passes", "fails"}]
  /\ raised \subseteq Gates
  /\ token \in [Workers -> Tokens]
  /\ quiet \subseteq Workers
  /\ proc \in [Workers -> Processes]
  /\ step \in Workers \cup {None}
  /\ phase \in Phases
  /\ snap \in Snapshots
  /\ missed \subseteq Claims
  /\ verdict \in Verdicts \cup {"none"}
  /\ reported \subseteq Workers
  /\ mishaps \in 0 .. MaxMishaps

Init ==
  /\ status = [c \in Claims |-> "OPEN"]
  /\ answers = Question
  /\ hold = Held
  /\ owed = {}
  /\ judged = [c \in Claims |-> "none"]
  /\ raised \in SUBSET Gates
  /\ token = [w \in Workers |-> "absent"]
  /\ quiet = {}
  /\ proc = [w \in Workers |-> "gone"]
  /\ step = None
  /\ phase = "idle"
  /\ snap = NothingRead
  /\ missed = {}
  /\ verdict = "none"
  /\ reported = {}
  /\ mishaps = 0

-----------------------------------------------------------------------------
(* What a read of the register and of the files shows.                       *)

(* Fault: claims that are held back are not open work. *)
FaultOpens == {c \in Claims : status[c] = "OPEN" /\ hold[c] = "none"}

Opens == {c \in Claims : status[c] = "OPEN"}

Unblocked == {c \in Opens : hold[c] = "none"}

(* _partial_facts: the facts of terminal claims owe no verification.  It     *)
(* reads the register again; a claim settled between that read and the facts *)
(* only has its fact counted once more.                                      *)
Partials == {c \in owed : status[c] \notin Terminal}

(* scan_active_workers: a file counts until its last token is terminal. *)
Active == {w \in Workers : token[w] = "in-progress"}

Stuck == Active \cap quiet

FreeSlot(active) == Cardinality(active) < Cap

Unanswered ==
  {q \in Questions : \A c \in Claims : answers[c] = q => status[c] # "PROVEN"}

Orphans ==
  {c \in Claims : Questions # {} /\ status[c] \in Terminal /\ answers[c] = None}

-----------------------------------------------------------------------------
(* The machine of decide: per stage the probes in their order, what makes an *)
(* event fire, and the verdict it leads to.  The machine sees the snapshot;  *)
(* the completion gates are asked when their probe is reached.  VERIFY_STALE is one case of     *)
(* PARTIALS_AND_FREE_SLOT with the same verdict; FAILURE_ARTIFACTS_DUE and   *)
(* the two ladder events, all BLOCKED, are ALL_OPEN_BLOCKED.  A malformed    *)
(* task_spec is left out.                                                    *)

(* Fault: DRAIN asks for silent workers only. *)
FaultDrainProbes ==
  <<"ORPHAN_TERMINAL_CLAIM", "PRIMARY_Q_UNVERIFIED", "NOTE_LAYER_GAP",
    "OPEN_HYPOTHESIS_AT_CLOSE", "DISCOVERY_UNCONSUMED", "GLOBAL_CONTRADICTION",
    "ANOMALY_DETECTED", "ORACLE_CASE_RED", "STUCK_WORKERS_PRESENT",
    "DRAIN_CLEAN">>

DrainProbes ==
  <<"ORPHAN_TERMINAL_CLAIM", "PRIMARY_Q_UNVERIFIED", "NOTE_LAYER_GAP",
    "OPEN_HYPOTHESIS_AT_CLOSE", "DISCOVERY_UNCONSUMED", "GLOBAL_CONTRADICTION",
    "ANOMALY_DETECTED", "ORACLE_CASE_RED", "STUCK_WORKERS_PRESENT",
    "ACTIVE_WORKERS_PRESENT", "DRAIN_CLEAN">>

(* Fault: the blocked tail stands before the silent workers. *)
FaultScheduleProbes ==
  <<"DEBT_GATE", "PARTIALS_AND_FREE_SLOT", "WORK_AND_FREE_SLOT",
    "WORK_NO_FREE_SLOT", "ALL_OPEN_BLOCKED", "STUCK_WORKERS_PRESENT",
    "UNEXPECTED_STATE">>

ScheduleProbes ==
  <<"DEBT_GATE", "PARTIALS_AND_FREE_SLOT", "WORK_AND_FREE_SLOT",
    "STUCK_WORKERS_PRESENT", "WORK_NO_FREE_SLOT", "ALL_OPEN_BLOCKED",
    "UNEXPECTED_STATE">>

Probes ==
  IF snap.opens = {} /\ snap.partials = {} THEN DrainProbes ELSE ScheduleProbes

Fires(event) ==
  \/ event \in raised
  \/ event = "ORPHAN_TERMINAL_CLAIM" /\ snap.orphans # {}
  \/ event = "PRIMARY_Q_UNVERIFIED" /\ snap.unverified # {}
  \/ event = "STUCK_WORKERS_PRESENT" /\ snap.stuck # {}
  \/ event = "ACTIVE_WORKERS_PRESENT" /\ snap.active # {}
  \/ /\ event = "PARTIALS_AND_FREE_SLOT"
     /\ snap.partials # {}
     /\ FreeSlot(snap.active)
  \/ /\ event = "WORK_AND_FREE_SLOT"
     /\ snap.unblocked # {}
     /\ FreeSlot(snap.active)
  \/ /\ event = "WORK_NO_FREE_SLOT"
     /\ snap.unblocked # {}
     /\ ~FreeSlot(snap.active)
  \/ event = "ALL_OPEN_BLOCKED" /\ snap.opens # {} /\ snap.unblocked = {}
  \/ event \in {"DRAIN_CLEAN", "UNEXPECTED_STATE"}

(* Fault: a blocked frontier leads to a state that is no verdict. *)
FaultOutcome ==
  [ORPHAN_TERMINAL_CLAIM    |-> "BLOCKED",
   PRIMARY_Q_UNVERIFIED     |-> "SATURATED",
   NOTE_LAYER_GAP           |-> "DISPATCH_VERIFIER",
   OPEN_HYPOTHESIS_AT_CLOSE |-> "BLOCKED",
   DISCOVERY_UNCONSUMED     |-> "DISPATCH",
   GLOBAL_CONTRADICTION     |-> "BLOCKED",
   ANOMALY_DETECTED         |-> "BLOCKED",
   ORACLE_CASE_RED          |-> "BLOCKED",
   STUCK_WORKERS_PRESENT    |-> "BLOCKED",
   ACTIVE_WORKERS_PRESENT   |-> "SATURATED",
   DRAIN_CLEAN              |-> "CONVERGED",
   DEBT_GATE                |-> "DISPATCH_VERIFIER",
   PARTIALS_AND_FREE_SLOT   |-> "DISPATCH_VERIFIER",
   WORK_AND_FREE_SLOT       |-> "DISPATCH",
   WORK_NO_FREE_SLOT        |-> "SATURATED",
   ALL_OPEN_BLOCKED         |-> "SCHEDULE",
   UNEXPECTED_STATE         |-> "SATURATED"]

Outcome ==
  [ORPHAN_TERMINAL_CLAIM    |-> "BLOCKED",
   PRIMARY_Q_UNVERIFIED     |-> "SATURATED",
   NOTE_LAYER_GAP           |-> "DISPATCH_VERIFIER",
   OPEN_HYPOTHESIS_AT_CLOSE |-> "BLOCKED",
   DISCOVERY_UNCONSUMED     |-> "DISPATCH",
   GLOBAL_CONTRADICTION     |-> "BLOCKED",
   ANOMALY_DETECTED         |-> "BLOCKED",
   ORACLE_CASE_RED          |-> "BLOCKED",
   STUCK_WORKERS_PRESENT    |-> "BLOCKED",
   ACTIVE_WORKERS_PRESENT   |-> "SATURATED",
   DRAIN_CLEAN              |-> "CONVERGED",
   DEBT_GATE                |-> "DISPATCH_VERIFIER",
   PARTIALS_AND_FREE_SLOT   |-> "DISPATCH_VERIFIER",
   WORK_AND_FREE_SLOT       |-> "DISPATCH",
   WORK_NO_FREE_SLOT        |-> "SATURATED",
   ALL_OPEN_BLOCKED         |-> "BLOCKED",
   UNEXPECTED_STATE         |-> "SATURATED"]

(* Fault: claims that are not open count as well. *)
FaultParkable ==
  /\ Opens # {}
  /\ \A c \in Claims : hold[c] = "external"
  /\ snap.partials = {}
  /\ snap.active = {}

(* The tail of decide: PARK instead of work nobody can do, after one more    *)
(* look at the register, and no CONVERGED on drifting carriers.              *)
Parkable ==
  /\ Opens # {}
  /\ \A c \in Opens : hold[c] = "external"
  /\ snap.partials = {}
  /\ snap.active = {}

Final(outcome) ==
  IF outcome \in {"BLOCKED", "DISPATCH"} /\ Parkable THEN "PARK"
  ELSE IF outcome = "CONVERGED" /\ "CARRIER_DRIFT" \in raised THEN "DISPATCH"
  ELSE outcome

(* The event of this snapshot: the first of the stage's probes that fires. *)
IsFirst(i) == Fires(Probes[i]) /\ \A j \in 1 .. (i - 1) : ~Fires(Probes[j])

-----------------------------------------------------------------------------
(* decide: three reads, the machine, and what it writes.                     *)

(* The register, with the orphans and the questions seen in it. *)
ReadRegister ==
  /\ phase = "idle"
  /\ phase' = "partials"
  /\ snap' = [snap EXCEPT !.opens = Opens, !.unblocked = Unblocked,
                          !.orphans = Orphans, !.unverified = Unanswered]
  /\ UNCHANGED <<register, facts, files, proc, step, missed, verdict, reported,
                 mishaps>>

ReadPartials ==
  /\ phase = "partials"
  /\ phase' = "workers"
  /\ snap' = [snap EXCEPT !.partials = Partials]
  /\ UNCHANGED <<register, facts, files, proc, step, missed, verdict, reported,
                 mishaps>>

ReadWorkers ==
  /\ phase = "workers"
  /\ "unwritten" \in Conditions \/ \A w \in Workers : proc[w] # "launched"
  /\ phase' = "machine"
  /\ snap' = [snap EXCEPT !.active = Active, !.stuck = Stuck]
  /\ UNCHANGED <<register, facts, files, proc, step, missed, verdict, reported,
                 mishaps>>

(* The verdict is out and what was read is forgotten. *)
Decides(outcome) ==
  /\ verdict' = outcome
  /\ phase' = "idle"
  /\ snap' = NothingRead
  /\ missed' = {}

Judge ==
  /\ phase = "machine"
  /\ \E i \in DOMAIN Probes :
       /\ IsFirst(i)
       /\ IF Probes[i] = "STUCK_WORKERS_PRESENT"
          THEN /\ phase' = "reopen"
               /\ UNCHANGED <<snap, missed, verdict, reported>>
          ELSE Decides(Final(Outcome[Probes[i]])) /\ reported' = {}
  /\ UNCHANGED <<register, facts, files, proc, step, mishaps>>

(* _act_stuck_workers: the report, and _reopen_stuck_claims on a register    *)
(* read afresh.                                                              *)
Freed == {c \in Claims : /\ status[c] = "IN_PROGRESS"
                         /\ \E w \in snap.stuck : c \in Matches[w]}

Reopen ==
  /\ phase = "reopen"
  /\ status' = [c \in Claims |-> IF c \in Freed THEN "OPEN" ELSE status[c]]
  /\ Decides("BLOCKED")
  /\ reported' = snap.stuck
  /\ UNCHANGED <<answers, hold, facts, files, proc, step, mishaps>>

-----------------------------------------------------------------------------
(* The orchestrator acts on the verdict.                                     *)

(* Fault: the dispatch does not look at the step. *)
FaultDispatch(w) ==
  LET c == ClaimOf[w] IN
  /\ verdict = "DISPATCH"
  /\ FreeSlot(Active)
  /\ c \in Unblocked
  /\ proc[w] = "gone"
  /\ "leftover" \in Conditions
     \/ \A v \in Active \ {w} : proc[v] = "gone" => c \notin Matches[v]
  /\ status' = [status EXCEPT ![c] = "IN_PROGRESS"]
  /\ proc' = [proc EXCEPT ![w] = "launched"]
  /\ step' = w
  /\ UNCHANGED <<answers, hold, facts, files, decide, mishaps>>

(* A dispatch passes the step barrier and the worker cap, and finds its      *)
(* claim OPEN.  Without "leftover" the orchestrator has closed the files of  *)
(* lost workers, or launches under the lost worker's own id.                 *)
Dispatch(w) ==
  LET c == ClaimOf[w] IN
  /\ verdict = "DISPATCH"
  /\ step = None
  /\ FreeSlot(Active)
  /\ c \in Unblocked
  /\ proc[w] = "gone"
  /\ "leftover" \in Conditions
     \/ \A v \in Active \ {w} : proc[v] = "gone" => c \notin Matches[v]
  /\ status' = [status EXCEPT ![c] = "IN_PROGRESS"]
  /\ proc' = [proc EXCEPT ![w] = "launched"]
  /\ step' = w
  /\ UNCHANGED <<answers, hold, facts, files, decide, mishaps>>

(* A verifier passes the same barrier and cap.  Its note says passes or      *)
(* fails, and the fact is marked verified or refuted: no verification is     *)
(* owed any more.                                                            *)
Verify(c) ==
  /\ verdict = "DISPATCH_VERIFIER"
  /\ c \in Partials
  /\ step = None
  /\ FreeSlot(Active)
  /\ \E result \in {"passes", "fails"} : judged' = [judged EXCEPT ![c] = result]
  /\ owed' = owed \ {c}
  /\ UNCHANGED <<register, raised, files, proc, step, decide, mishaps>>

(* The orchestrator enters the result in the register.  The store settles a  *)
(* claim from IN_PROGRESS only: a claim reopened meanwhile is refused.       *)
Settle(c) ==
  /\ status[c] = "IN_PROGRESS"
  /\ judged[c] # "none"
  /\ status' = [status EXCEPT
       ![c] = IF judged[c] = "passes" THEN "PROVEN" ELSE "REFUTED"]
  /\ UNCHANGED <<answers, hold, facts, files, proc, step, decide, mishaps>>

(* "link them to a primary_question": the remedy for an orphan. *)
Link(c) ==
  /\ verdict = "BLOCKED"
  /\ c \in Orphans
  /\ \E q \in Questions : answers' = [answers EXCEPT ![c] = q]
  /\ UNCHANGED <<status, hold, facts, files, proc, step, decide, mishaps>>

(* The stuck report asks for it: a lost worker's status file is closed. *)
Close(w) ==
  /\ w \in reported
  /\ proc[w] = "gone"
  /\ token[w] = "in-progress"
  /\ token' = [token EXCEPT ![w] = "closed"]
  /\ quiet' = quiet \ {w}
  /\ UNCHANGED <<register, facts, proc, step, decide, mishaps>>

(* A red gate is answered: the note written, the case fixed, the drift gone. *)
Clear(g) ==
  /\ verdict \in {"BLOCKED", "DISPATCH", "DISPATCH_VERIFIER"}
  /\ g \in raised
  /\ raised' = raised \ {g}
  /\ UNCHANGED <<register, owed, judged, files, proc, step, decide, mishaps>>

(* A blocker is resolved, or a failure analysed. *)
Resolve(c) ==
  /\ verdict = "BLOCKED"
  /\ hold[c] = "internal"
  /\ hold' = [hold EXCEPT ![c] = "none"]
  /\ UNCHANGED <<status, answers, facts, files, proc, step, decide, mishaps>>

(* An external gate opens when it likes. *)
Wake(c) ==
  /\ hold[c] = "external"
  /\ hold' = [hold EXCEPT ![c] = "none"]
  /\ UNCHANGED <<status, answers, facts, files, proc, step, decide, mishaps>>

-----------------------------------------------------------------------------
(* The workers, the stop hook and the clock.                                 *)

(* write_guard makes the status file the first thing a worker writes; any    *)
(* later line renews it.                                                     *)
Write(w) ==
  /\ \/ proc[w] = "launched"
     \/ proc[w] = "working" /\ w \in quiet
  /\ proc' = [proc EXCEPT ![w] = "working"]
  /\ token' = [token EXCEPT ![w] = "in-progress"]
  /\ quiet' = quiet \ {w}
  /\ UNCHANGED <<register, facts, step, decide, mishaps>>

(* The worker says done, with a fact whose verification is owed or without   *)
(* one: an empty delivery is a diagnostic of decide and no more.  What it    *)
(* found can turn a completion gate red.                                     *)
Deliver(w) ==
  /\ proc[w] = "working"
  /\ proc' = [proc EXCEPT ![w] = "stopping"]
  /\ token' = [token EXCEPT ![w] = "done"]
  /\ quiet' = quiet \ {w}
  /\ \E delivered \in {{}, {ClaimOf[w]}} :
       /\ owed' = owed \cup delivered
       /\ missed' = IF phase \in {"workers", "machine"}
                    THEN missed \cup delivered ELSE missed
  /\ raised' \in {raised} \cup {raised \cup {g} : g \in Gates}
  /\ UNCHANGED <<register, judged, step, phase, snap, verdict, reported,
                 mishaps>>

(* Or it ends as failed, blocked or in error: the claim stays IN_PROGRESS. *)
Fail(w) ==
  /\ proc[w] = "working"
  /\ proc' = [proc EXCEPT ![w] = "stopping"]
  /\ token' = [token EXCEPT ![w] = "failed"]
  /\ quiet' = quiet \ {w}
  /\ UNCHANGED <<register, facts, step, decide, mishaps>>

(* SubagentStop settles the step: see StepSettlement for stops that go wrong.*)
Stop(w) ==
  /\ proc[w] = "stopping"
  /\ proc' = [proc EXCEPT ![w] = "gone"]
  /\ step' = IF step = w THEN None ELSE step
  /\ UNCHANGED <<register, facts, files, decide, mishaps>>

Mishap == mishaps < MaxMishaps /\ mishaps' = mishaps + 1

Lose(w) ==
  /\ Mishap
  /\ proc[w] = "working" \/ (proc[w] = "launched" /\ "unwritten" \in Conditions)
  /\ proc' = [proc EXCEPT ![w] = "gone"]
  /\ UNCHANGED <<register, facts, files, step, decide>>

(* STUCK_MINUTES pass without a write: always after a loss, and now and then *)
(* in a long tool call.                                                      *)
FallSilent(w) ==
  /\ w \in Active \ quiet
  /\ IF proc[w] = "gone" THEN UNCHANGED mishaps ELSE Mishap
  /\ quiet' = quiet \cup {w}
  /\ UNCHANGED <<register, facts, token, proc, step, decide>>

(* The step of a lost worker ends by a late stop or by its time to live. *)
StepEnds ==
  /\ step # None
  /\ proc[step] = "gone" \/ "overrun" \in Conditions
  /\ step' = None
  /\ UNCHANGED <<register, facts, files, proc, decide, mishaps>>

-----------------------------------------------------------------------------
Decide == ReadRegister \/ ReadPartials \/ ReadWorkers \/ Judge \/ Reopen

(* The orchestrator runs decide as a command and then acts on what it says.  *)
Orchestrator ==
  /\ phase = "idle" \/ "meanwhile" \in Conditions
  /\ \/ \E w \in Workers : Dispatch(w) \/ Close(w)
     \/ \E c \in Claims : Verify(c) \/ Settle(c) \/ Link(c) \/ Resolve(c)
     \/ \E g \in Gates : Clear(g)

Next ==
  \/ Decide
  \/ Orchestrator
  \/ \E c \in Claims : Wake(c)
  \/ \E w \in Workers : \/ Write(w) \/ Deliver(w) \/ Fail(w) \/ Stop(w)
                        \/ Lose(w) \/ FallSilent(w)
  \/ StepEnds

Spec == Init /\ [][Next]_vars

(* What a worker or, after a loss, the clock does sooner or later. *)
Advance(w) ==
  \/ proc[w] = "launched" /\ Write(w)
  \/ Deliver(w)
  \/ Fail(w)
  \/ Stop(w)
  \/ proc[w] = "gone" /\ FallSilent(w)

(* The heartbeat keeps deciding, the orchestrator acts on what it is told    *)
(* between two decides (hence the strong fairness), a worker ends unless it  *)
(* is lost, a lost worker's file grows old and its step ends.                *)
Fairness ==
  /\ WF_vars(Decide)
  /\ SF_vars(Orchestrator)
  /\ WF_vars(StepEnds)
  /\ \A w \in Workers : WF_vars(Advance(w))

FairSpec == Spec /\ Fairness

-----------------------------------------------------------------------------
AtWork(w) == proc[w] \in {"launched", "working"}

(* Two workers are never at work on one claim, although decide hands out     *)
(* again the claim of a worker that is only slow: the step barrier keeps     *)
(* the second one out.                                                       *)
NoDoubleWork ==
  \A v, w \in Workers :
    v # w /\ AtWork(v) /\ AtWork(w) => ClaimOf[v] # ClaimOf[w]

Serial == INSTANCE SerialSteps WITH
  Steps <- Workers,
  open <- {step} \ {None},
  working <- {w \in Workers : AtWork(w)}

(* The loop is serial, whatever decide hands out: the claim of a worker that *)
(* is only slow is OPEN again, and its second worker starts when the step of *)
(* the first is closed and the first at work no more.                        *)
ImplementsSerialSteps == Serial!Spec

NewlyConverged == verdict # "CONVERGED" /\ verdict' = "CONVERGED"

(* "Delivery over live work is forbidden either way": no CONVERGED while a   *)
(* worker is at work, although it may have stopped or started since its file *)
(* was read.                                                                 *)
NoDeliveryOverWork ==
  [][NewlyConverged => \A w \in Workers : ~AtWork(w)]_vars

(* A worker of the claim has said that it ended. *)
Ended(c) == \E w \in Workers : ClaimOf[w] = c /\ token[w] \in {"done", "failed"}

(* What CONVERGED promises over reads that are not one snapshot: every       *)
(* question has its PROVEN claim; a claim that is not settled is in progress *)
(* and a worker of it has reported its end (done without a fact, failed, or  *)
(* verified and not yet entered in the register); and a fact still to be     *)
(* verified was delivered after this decide had read the facts.              *)
ConvergedIsFinal ==
  [][NewlyConverged =>
       /\ Unanswered = {}
       /\ \A c \in Claims :
            \/ status[c] \in Terminal
            \/ status[c] = "IN_PROGRESS" /\ Ended(c) /\ (c \in owed => c \in missed)
    ]_vars

Lost(w) == proc[w] = "gone" /\ token[w] = "in-progress"

(* Nothing is open or to be verified, and a question has no PROVEN claim:    *)
(* PRIMARY_Q_UNVERIFIED stands before the worker probes of DRAIN, and the    *)
(* verdict is SATURATED for as long as that lasts.                           *)
Unproven == Opens = {} /\ Partials = {} /\ Unanswered # {}

(* #607: no claim of a lost worker stays IN_PROGRESS for good, except behind *)
(* an unproven question with nothing left to do for it.                      *)
LostClaimsAreFreed ==
  []<>(Unproven \/ \A w \in Workers : Lost(w) => status[ClaimOf[w]] # "IN_PROGRESS")

(* The loop comes to an end: what decide says leads, through the action it   *)
(* asks for, to CONVERGED, to the legal idle of PARK, or to polling for a    *)
(* question that has no PROVEN claim and nothing left to do for it.          *)
LoopEnds ==
  <>[](verdict \in {"CONVERGED", "PARK"} \/ (verdict = "SATURATED" /\ Unproven))
=============================================================================
