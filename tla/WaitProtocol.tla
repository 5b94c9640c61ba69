----------------------------- MODULE WaitProtocol -----------------------------
(***************************************************************************)
(* The WAIT/UNWAIT protocol: a worker that has delivered stays alive in    *)
(* scripts/kunglao_wait.py and polls its one-slot signal file.  Two        *)
(* writers put a signal there: dispatch_gate on a dispatch that re-arms    *)
(* the worker, and the settle transaction (scripts/wait_dispose.py), which *)
(* stops the waiting workers bound to a claim that settles terminal, or    *)
(* sends them back to it for a redo.                                       *)
(*                                                                         *)
(* A settlement comes from one of two writers.  ws_yaml writes the         *)
(* register, then disposes of the pool.  write_guard is a PreToolUse hook: *)
(* it disposes of the pool while the write it has let through is still to  *)
(* be made (landing), and that write may never be made.                    *)
(*                                                                         *)
(* The dispatch is two steps, as in DispatchTxn: worker_budget's ledger    *)
(* row (Bind), then the tail of dispatch_gate (Wake).  The step barrier of *)
(* StepSettlement stands in front of it: stepOpen.                         *)
(*                                                                         *)
(* Conditions:                                                             *)
(*   "bystander"         the stop of a subagent that is nobody's worker    *)
(*                       settles the open step                             *)
(*   "poll_race"         a signal is written while the wait tool is        *)
(*                       between two of its file operations                *)
(*   "settle_race"       a dispatch, another settlement or the end of a    *)
(*                       wait meets a disposal that is under way, a        *)
(*                       register write that has not landed or a signal    *)
(*                       nobody has read                                   *)
(*   "write_lost"        the register write that the hook let through is   *)
(*                       refused, fails, or its session ends before it     *)
(*   "early_settle"      a claim settles while a worker is at work on it   *)
(*   "silent_settle"     a claim settles through a writer that does not    *)
(*                       call emit_settlements                             *)
(*   "refuted_again"     the redo of a refuted claim is refuted as well    *)
(*   "unverified_rearm"  a waiting worker is dispatched before the facts   *)
(*                       it delivered are verified                         *)
(*   "unlink_refused"    the signal file cannot be deleted                 *)
(*   "worker_lost"       a waiting worker is killed, or its tool crashes   *)
(***************************************************************************)
EXTENDS Naturals, FiniteSets

CONSTANTS
  Workers,     \* worker ids: the stem of the status and the signal file
  Claims,      \* claims of the register
  Rounds,      \* WAIT_MAX_ROUNDS
  Conditions,  \* see above
  None         \* an absent claim, signal file or process

AllConditions ==
  {"bystander", "poll_race", "settle_race", "write_lost", "early_settle",
   "silent_settle", "refuted_again", "unverified_rearm", "unlink_refused",
   "worker_lost"}

Signal == [type : {"dispatch", "stop"}, claim : Claims]

Dispatch == [worker : Workers, claim : Claims]

Verdicts == {"PROVEN", "REFUTED"}

Verdict == [claim : Claims, verdict : Verdicts]

Disposal ==
  [claim : Claims, verdict : Verdicts, redo : BOOLEAN, left : SUBSET Workers]

ASSUME ConstantsAssumption ==
  /\ Rounds \in Nat \ {0}
  /\ Conditions \subseteq AllConditions
  /\ \A S \in {Claims, Signal, Dispatch, Verdict, Disposal} : None \notin S

Met(condition) == condition \in Conditions

VARIABLES
  status,    \* the register: each claim open, REFUTED, or PROVEN, which also
             \* stands for the other terminal statuses
  phase,     \* what the process behind a worker id is doing
  task,      \* the claim that process works on, or delivered last
  rounds,    \* the rounds of its current wait that found no signal
  held,      \* the signal its wait tool has read and not yet acted on
  box,       \* runs/wait-signal-<id>.json
  bound,     \* the claim of the latest dispatch row that names the worker
  verified,  \* workers whose delivered facts are all verified, or none
  judged,    \* workers whose work on their claim has had its verdict
  gate,      \* the dispatch that has its ledger row and not yet its tail
  settling,  \* the disposal under way: its verdict and the workers it has left
  landing,   \* the verdict the hook has let through and disposed of, whose
             \* register write is still to be made
  denied,    \* history: open claims whose last such verdict was not written
  stepOpen   \* a launch stash is there, and the barrier down

vars == <<status, phase, task, rounds, held, box, bound, verified, judged,
          gate, settling, landing, denied, stepOpen>>

(* The register write of the hook, apart from the status it is of. *)
landings == <<landing, denied>>

-----------------------------------------------------------------------------
(* The phases in which the last status line reads "waiting" and the wait     *)
(* tool runs; a worker that was lost in one of them leaves that line behind. *)
InWait == {"sleeping", "polling", "dropping", "expiring"}

Ended == {"dismissed", "unscheduled", "failed"}

Free == Ended \cup {"new"}

Phases == InWait \cup Free \cup {"working", "delivered", "lost"}

Waiting(w) == phase[w] \in InWait

(* scan_waiting_workers: the last status token is "waiting", however old. *)
ShownWaiting(w) == Waiting(w) \/ phase[w] = "lost"

TypeOK ==
  /\ status \in [Claims -> {"open"} \cup Verdicts]
  /\ phase \in [Workers -> Phases]
  /\ task \in [Workers -> Claims \cup {None}]
  /\ rounds \in [Workers -> 0 .. Rounds]
  /\ held \in [Workers -> Signal \cup {None}]
  /\ box \in [Workers -> Signal \cup {None}]
  /\ bound \in [Workers -> Claims \cup {None}]
  /\ verified \subseteq Workers
  /\ judged \subseteq Workers
  /\ gate \in Dispatch \cup {None}
  /\ settling \in Disposal \cup {None}
  /\ landing \in Verdict \cup {None}
  /\ denied \subseteq Claims
  /\ stepOpen \in BOOLEAN

Init ==
  /\ status = [c \in Claims |-> "open"]
  /\ phase = [w \in Workers |-> "new"]
  /\ task = [w \in Workers |-> None]
  /\ rounds = [w \in Workers |-> 0]
  /\ held = [w \in Workers |-> None]
  /\ box = [w \in Workers |-> None]
  /\ bound = [w \in Workers |-> None]
  /\ verified = {}
  /\ judged = {}
  /\ gate = None
  /\ settling = None
  /\ landing = None
  /\ denied = {}
  /\ stepOpen = FALSE

-----------------------------------------------------------------------------
Become(w, p) == phase' = [phase EXCEPT ![w] = p]

Post(w, type, c) == box' = [box EXCEPT ![w] = [type |-> type, claim |-> c]]

(* The wait tool of w is not between two file operations. *)
Steady(w) == Met("poll_race") \/ phase[w] \notin {"dropping", "expiring"}

(* No signal for w is under way or unread. *)
Unsignalled(w) == settling = None /\ box[w] = None

-----------------------------------------------------------------------------
(* Dispatch: worker_budget, then dispatch_gate *)

(* Past the barrier, the dispatch row: from here on w is bound to c.  Its    *)
(* launch stash brings the barrier down.                                     *)
Bind(w, c) ==
  /\ gate = None
  /\ ~stepOpen
  /\ status[c] = "open"
  /\ phase[w] \in Free \/ ShownWaiting(w)
  /\ Steady(w)
  /\ Met("settle_race") \/ (landing = None /\ (phase[w] \in Free \/ Unsignalled(w)))
  /\ Met("unverified_rearm") \/ phase[w] \in Free \/ w \in verified
  /\ gate' = [worker |-> w, claim |-> c]
  /\ bound' = [bound EXCEPT ![w] = c]
  /\ judged' = judged \ {w}
  /\ stepOpen' = TRUE
  /\ UNCHANGED <<status, phase, task, rounds, held, box, verified, settling,
                 landings>>

(* Fault: only a delivery whose claim is PROVEN counts as verified. *)
WakesProven(w, c) ==
  /\ ShownWaiting(w)
  /\ Steady(w)
  /\ IF status[task[w]] = "PROVEN" THEN Post(w, "dispatch", c) ELSE UNCHANGED box
  /\ UNCHANGED <<phase, task>>

(* _write_wait_signal: a target shown waiting gets a dispatch signal over    *)
(* whatever its file holds, unless its delivery is not verified.             *)
WakeWaiting(w, c) ==
  /\ ShownWaiting(w)
  /\ Steady(w)
  /\ IF w \in verified THEN Post(w, "dispatch", c) ELSE UNCHANGED box
  /\ UNCHANGED <<phase, task>>

(* Otherwise the gate does nothing, and the Agent call goes ahead: it starts *)
(* the worker, unless one of that id is at work.                             *)
StartWorker(w, c) ==
  /\ ~ShownWaiting(w)
  /\ IF phase[w] \in Free
       THEN Become(w, "working") /\ task' = [task EXCEPT ![w] = c]
       ELSE UNCHANGED <<phase, task>>
  /\ UNCHANGED box

Wake ==
  /\ gate # None
  /\ WakeWaiting(gate.worker, gate.claim) \/ StartWorker(gate.worker, gate.claim)
  /\ gate' = None
  /\ UNCHANGED <<status, rounds, held, bound, verified, judged, settling,
                 landings, stepOpen>>

(* The open step is settled by a stop that is not its worker's, or, with no  *)
(* worker left to stop, passes STEP_SETTLE_TTL_MINUTES.                      *)
StepCloses ==
  /\ stepOpen
  /\ gate = None
  /\ Met("bystander") \/ \A w \in Workers : phase[w] \in Free \cup {"lost"}
  /\ stepOpen' = FALSE
  /\ UNCHANGED <<status, phase, task, rounds, held, box, bound, verified,
                 judged, gate, settling, landings>>

-----------------------------------------------------------------------------
(* The worker *)

(* Fault: the round counter of the wait before goes on. *)
KeepsRounds(w) ==
  /\ phase[w] = "working"
  /\ Become(w, "delivered")
  /\ verified' \in {verified \ {w}, verified \cup {w}}
  /\ UNCHANGED <<status, task, rounds, held, box, bound, judged, gate,
                 settling, landings, stepOpen>>

(* The final "done" line; the facts it delivers, if any, are to be verified. *)
Deliver(w) ==
  /\ phase[w] = "working"
  /\ Become(w, "delivered")
  /\ rounds' = [rounds EXCEPT ![w] = 0]
  /\ verified' \in {verified \ {w}, verified \cup {w}}
  /\ UNCHANGED <<status, task, held, box, bound, judged, gate, settling,
                 landings, stepOpen>>

(* A round of run_wait: sleep, then the "waiting" line. *)
Heartbeat(w) ==
  /\ phase[w] \in {"delivered", "sleeping"}
  /\ Become(w, "polling")
  /\ UNCHANGED <<status, task, rounds, held, box, bound, verified, judged,
                 gate, settling, landings, stepOpen>>

(* Fault: the rounds are not counted. *)
WaitsOn(w) ==
  /\ phase[w] = "polling"
  /\ box[w] = None
  /\ Become(w, "sleeping")
  /\ UNCHANGED <<status, task, rounds, held, box, bound, verified, judged,
                 gate, settling, landings, stepOpen>>

(* _consume_signal finds no file. *)
FindNothing(w) ==
  /\ phase[w] = "polling"
  /\ box[w] = None
  /\ Met("settle_race") \/ settling = None
  /\ rounds' = [rounds EXCEPT ![w] = @ + 1]
  /\ Become(w, IF rounds[w] + 1 >= Rounds THEN "expiring" ELSE "sleeping")
  /\ UNCHANGED <<status, task, held, box, bound, verified, judged, gate,
                 settling, landings, stepOpen>>

(* WAIT_MAX_ROUNDS: the "unscheduled" line; the worker TaskStops itself, and *)
(* its SubagentStop settles the open step.                                   *)
SelfKill(w) ==
  /\ phase[w] = "expiring"
  /\ Become(w, "unscheduled")
  /\ stepOpen' = FALSE
  /\ UNCHANGED <<status, task, rounds, held, box, bound, verified, judged,
                 gate, settling, landings>>

(* _consume_signal reads the file... *)
ReadSignal(w) ==
  /\ phase[w] = "polling"
  /\ box[w] # None
  /\ held' = [held EXCEPT ![w] = box[w]]
  /\ Become(w, "dropping")
  /\ UNCHANGED <<status, task, rounds, box, bound, verified, judged, gate,
                 settling, landings, stepOpen>>

(* Fault: a signal is not deleted. *)
KeepsSignal(w) == UNCHANGED box

(* ...deletes whatever is there by now... *)
Consumed(w) ==
  \/ box' = [box EXCEPT ![w] = None]
  \/ Met("unlink_refused") /\ UNCHANGED box

(* ...and the worker is re-armed, or dismissed and stops. *)
Rearm(w) ==
  /\ phase[w] = "dropping"
  /\ held[w].type = "dispatch"
  /\ Consumed(w)
  /\ Become(w, "working")
  /\ task' = [task EXCEPT ![w] = held[w].claim]
  /\ held' = [held EXCEPT ![w] = None]
  /\ judged' = judged \ {w}
  /\ UNCHANGED <<status, rounds, bound, verified, gate, settling, landings,
                 stepOpen>>

Dismiss(w) ==
  /\ phase[w] = "dropping"
  /\ held[w].type = "stop"
  /\ Consumed(w)
  /\ Become(w, "dismissed")
  /\ held' = [held EXCEPT ![w] = None]
  /\ stepOpen' = FALSE
  /\ UNCHANGED <<status, task, rounds, bound, verified, judged, gate, settling,
                 landings>>

(* The tool crashes, the "failed" line is written and the worker stops; or   *)
(* the worker is killed and nothing is written.                              *)
Lose(w) ==
  /\ Met("worker_lost")
  /\ Waiting(w)
  /\ \/ Become(w, "failed") /\ stepOpen' = FALSE
     \/ Become(w, "lost") /\ UNCHANGED stepOpen
  /\ held' = [held EXCEPT ![w] = None]
  /\ UNCHANGED <<status, task, rounds, box, bound, verified, judged, gate,
                 settling, landings>>

-----------------------------------------------------------------------------
(* Verification and settlement *)

(* The facts of a delivery reach a passing verdict. *)
Verify(w) ==
  /\ phase[w] = "delivered" \/ Waiting(w)
  /\ w \notin verified
  /\ verified' = verified \cup {w}
  /\ UNCHANGED <<status, phase, task, rounds, held, box, bound, judged, gate,
                 settling, landings, stepOpen>>

(* Fault: any dispatch row of a worker binds it, not the latest one. *)
EverBound(c) == {w \in Workers : ShownWaiting(w) /\ c \in {bound[w], task[w]}}

(* waiting_workers_for_claim *)
BoundWaiting(c) == {w \in Workers : ShownWaiting(w) /\ bound[w] = c}

(* A verdict on c, of whoever works or waits under its latest dispatch.      *)
Judgeable(c, verdict) ==
  /\ settling = None
  /\ landing = None
  /\ status[c] # "PROVEN"
  /\ verdict = "REFUTED" /\ status[c] = "REFUTED" => Met("refuted_again")
  /\ \E w \in Workers : bound[w] = c /\ phase[w] \notin Free
  /\ Met("settle_race") \/ gate = None
  /\ \A w \in Workers : bound[w] = c =>
       /\ Met("early_settle") \/ phase[w] \notin {"working", "delivered"}
       /\ Met("settle_race") \/ (Unsignalled(w) /\ phase[w] \notin {"dropping", "expiring"})

(* emit_settlements disposes of the waiting pool of a claim whose status     *)
(* changes to a terminal one; a REFUTED claim re-arms its pool if it has a   *)
(* clean diff of its own (redo).                                             *)
DisposalStarts(c, verdict) ==
  /\ verdict # status[c]
  /\ \E redo \in BOOLEAN :
       /\ redo => verdict = "REFUTED"
       /\ settling' = [claim |-> c, verdict |-> verdict, redo |-> redo,
                       left |-> BoundWaiting(c)]

(* ws_yaml: the register is written, then the pool is disposed of. *)
SettleByTool(c, verdict) ==
  /\ DisposalStarts(c, verdict)
  /\ status' = [status EXCEPT ![c] = verdict]
  /\ UNCHANGED landing

(* Fault: the pool is disposed of for a write that the hook then blocks. *)
BlocksWrite(c, verdict) ==
  /\ DisposalStarts(c, verdict)
  /\ UNCHANGED <<status, landing>>

(* write_guard: the pool is disposed of, and the register still to be        *)
(* written.                                                                  *)
SettleByHook(c, verdict) ==
  /\ DisposalStarts(c, verdict)
  /\ landing' = [claim |-> c, verdict |-> verdict]
  /\ UNCHANGED status

(* The verdict is the status already, or its writer emits no settlement. *)
SettleUnnoticed(c, verdict) ==
  /\ verdict = status[c] \/ Met("silent_settle")
  /\ status' = [status EXCEPT ![c] = verdict]
  /\ UNCHANGED <<settling, landing>>

Settle(c, verdict) ==
  /\ Judgeable(c, verdict)
  /\ \/ SettleByTool(c, verdict)
     \/ SettleByHook(c, verdict)
     \/ SettleUnnoticed(c, verdict)
  /\ judged' = judged \cup {w \in Workers : bound[w] = c /\ phase[w] \notin Free}
  /\ denied' = denied \ {c}
  /\ UNCHANGED <<phase, task, rounds, held, box, bound, verified, gate, stepOpen>>

(* Fault: a refuted claim without a diff of its own signals nobody. *)
RedoesOrNothing(w) ==
  /\ settling # None
  /\ w \in settling.left
  /\ Steady(w)
  /\ IF settling.redo THEN Post(w, "dispatch", settling.claim)
     ELSE IF settling.verdict = "PROVEN" THEN Post(w, "stop", settling.claim)
     ELSE UNCHANGED box
  /\ settling' = [settling EXCEPT !.left = @ \ {w}]
  /\ UNCHANGED <<status, phase, task, rounds, held, bound, verified, judged,
                 gate, landings, stepOpen>>

(* Fault: the signal names the claim the worker is bound to by now. *)
SignalsBinding(w) ==
  /\ settling # None
  /\ w \in settling.left
  /\ Steady(w)
  /\ Post(w, IF settling.redo THEN "dispatch" ELSE "stop", bound[w])
  /\ settling' = [settling EXCEPT !.left = @ \ {w}]
  /\ UNCHANGED <<status, phase, task, rounds, held, bound, verified, judged,
                 gate, landings, stepOpen>>

(* dispose_waiting_pool writes the next signal, over whatever the file of    *)
(* the worker holds.                                                         *)
Dispose(w) ==
  /\ settling # None
  /\ w \in settling.left
  /\ Steady(w)
  /\ Post(w, IF settling.redo THEN "dispatch" ELSE "stop", settling.claim)
  /\ settling' = [settling EXCEPT !.left = @ \ {w}]
  /\ UNCHANGED <<status, phase, task, rounds, held, bound, verified, judged,
                 gate, landings, stepOpen>>

(* Then PROVEN promotes the facts that cite the claim, but for those whose   *)
(* standing is a judgement's.                                                *)
DisposalEnds ==
  /\ settling # None
  /\ settling.left = {}
  /\ \E promoted \in SUBSET {w \in Workers : task[w] = settling.claim} :
       /\ settling.verdict # "PROVEN" => promoted = {}
       /\ verified' = verified \cup promoted
  /\ settling' = None
  /\ UNCHANGED <<status, phase, task, rounds, held, box, bound, judged, gate,
                 landings, stepOpen>>

(* The hook has returned, and the write it let through is made... *)
WriteLands ==
  /\ landing # None
  /\ settling = None
  /\ status' = [status EXCEPT ![landing.claim] = landing.verdict]
  /\ landing' = None
  /\ UNCHANGED <<phase, task, rounds, held, box, bound, verified, judged, gate,
                 settling, denied, stepOpen>>

(* ...or it is not, and what the hook has signalled stands. *)
WriteLost ==
  /\ Met("write_lost")
  /\ landing # None
  /\ settling = None
  /\ denied' = denied \cup {c \in {landing.claim} : status[c] = "open"}
  /\ landing' = None
  /\ UNCHANGED <<status, phase, task, rounds, held, box, bound, verified, judged,
                 gate, settling, stepOpen>>

-----------------------------------------------------------------------------
WaitStep(w) ==
  \/ Heartbeat(w) \/ FindNothing(w) \/ SelfKill(w)
  \/ ReadSignal(w) \/ Rearm(w) \/ Dismiss(w)

DisposalStep == DisposalEnds \/ \E w \in Workers : Dispose(w)

Next ==
  \/ Wake \/ StepCloses \/ DisposalEnds \/ WriteLands \/ WriteLost
  \/ \E w \in Workers :
       \/ \E c \in Claims : Bind(w, c)
       \/ Deliver(w) \/ Verify(w) \/ Lose(w) \/ Dispose(w) \/ WaitStep(w)
  \/ \E c \in Claims, verdict \in Verdicts : Settle(c, verdict)

Spec == Init /\ [][Next]_vars

(* The wait tool runs until it ends or is killed, the hooks that write       *)
(* signals run to their end, and a write they let through is made or lost.   *)
FairSpec ==
  /\ Spec
  /\ WF_vars(Wake)
  /\ WF_vars(DisposalStep)
  /\ WF_vars(WriteLands \/ WriteLost)
  /\ \A w \in Workers : WF_vars(WaitStep(w))

-----------------------------------------------------------------------------
(* Properties *)

(* DismissedByOwnClaim: a worker is dismissed only by the claim it is bound  *)
(* to now (waiting_workers_for_claim: "a worker re-dispatched from C-1 to    *)
(* C-2 must NOT be stopped when its older C-1 settles first").               *)
DismissedByOwnClaim ==
  [][\A w \in Workers : Dismiss(w) => held[w].claim = bound[w]]_vars

(* The claim is settled, or its verdict has been signalled and its register  *)
(* write is on its way, or was lost there.                                   *)
Judged(c) ==
  status[c] # "open" \/ c \in denied \/ (landing # None /\ landing.claim = c)

(* DismissedIsSettled: whatever races, is lost or overtakes, a worker is     *)
(* only ever dismissed by a claim that has its verdict, if not in the        *)
(* register then in a write that the hook let through; only a write that is  *)
(* lost afterwards leaves it dismissed by an open claim.                     *)
DismissedIsSettled ==
  [][\A w \in Workers : Dismiss(w) => Judged(held[w].claim)]_vars

(* DismissalStands: a worker that was dismissed has the verdict on its work  *)
(* in the register, once no write is under way ("settlement-confirmed        *)
(* dismissal"; "the write passed every gate and WILL land").                 *)
DismissalStands ==
  \A w \in Workers :
    phase[w] = "dismissed" /\ landing = None => status[task[w]] # "open"

(* WorksOnItsDispatch: the claim a worker is at work on is the one its       *)
(* latest dispatch row names: no stale or repeated signal sets it to work    *)
(* ("a signal must never fire twice").                                       *)
WorksOnItsDispatch ==
  \A w \in Workers : phase[w] = "working" => task[w] = bound[w]

(* UnscheduledWasNotDispatched: a worker that gave up waiting had no         *)
(* dispatch it did not get (the self-kill is "wait window closed, no         *)
(* dispatch").                                                               *)
UnscheduledWasNotDispatched ==
  \A w \in Workers :
    phase[w] = "unscheduled" =>
      task[w] = bound[w] \/ gate = [worker |-> w, claim |-> bound[w]]

(* NoDumbWait: once the verdict on its work is given, a waiting worker has   *)
(* a signal (wait_dispose: "endless waiting is ALWAYS a contract violation"; *)
(* "every waiting worker BOUND to that claim gets a wake signal in the same  *)
(* beat").                                                                   *)
NoDumbWait ==
  \A w \in judged :
    Waiting(w) =>
      \/ box[w] # None \/ held[w] # None
      \/ (settling # None /\ w \in settling.left)

(* WaitEnds: every wait ends, by a signal or by the round cap. *)
WaitEnds == \A w \in Workers : Waiting(w) ~> ~Waiting(w)

(* DispatchReaches: a dispatch that was bound to a worker reaches it, unless *)
(* its claim settles first.                                                  *)
DispatchReaches ==
  \A w \in Workers, c \in Claims :
    bound[w] = c ~> task[w] = c \/ bound[w] # c \/ status[c] # "open"

-----------------------------------------------------------------------------
(* The pool that the workers, their files and the hooks amount to *)

(* A signal of this type is in the file of w, or the disposal will write it. *)
Sent(w, type) ==
  \/ box[w] # None /\ box[w].type = type
  \/ /\ settling # None
     /\ w \in settling.left
     /\ settling.redo <=> type = "dispatch"

(* The dispatch row puts a worker to work, and so does the verdict that has  *)
(* it redo its claim, long before it reads the signal.                       *)
AtWork(w) ==
  \/ phase[w] \in {"working", "delivered"}
  \/ gate # None /\ gate.worker = w
  \/ Waiting(w) /\ Sent(w, "dispatch")

Mode(w) ==
  IF AtWork(w) THEN "working"
  ELSE IF phase[w] \in Free \/ Sent(w, "stop") THEN "free"
  ELSE "waiting"

(* The pool is told of a verdict before the register is. *)
Decided ==
  IF landing = None THEN status
  ELSE [status EXCEPT ![landing.claim] = landing.verdict]

Pool ==
  INSTANCE WorkerPool WITH
    status <- Decided, assignment <- bound, mode <- [w \in Workers |-> Mode(w)]

(* ImplementsWorkerPool: the files that the hooks write one by one and the   *)
(* workers read whenever they poll amount to one step per dispatch and per   *)
(* verdict: no worker gets two answers, the wrong one, or half of the pool   *)
(* none.  The step of a verdict is the start of its disposal, whether the    *)
(* register is written before it or after.                                   *)
ImplementsWorkerPool == Pool!Spec
=============================================================================
