# kunglao-agent: a verification project

kunglao-agent drives a coding agent through a long investigation. The
orchestrating session dispatches one worker subagent after another, each for a
*claim* of `claim-register.yaml`; hooks around every tool call (`hooks/`) keep
the books, and scripts (`scripts/`) keep the register, the ledgers and the
decision to go on or to stop. All state is files in the workspace. There is no
daemon and, with few exceptions, no lock: each hook is an operating-system
process that may be killed between any two file writes.

This project models the six protocols the system's progress and its credit hang
on: the dispatch transaction, the settlement of steps, the wait and wake of
workers, the convergence loop, the recovery of dead sessions, and the blind
settlement of claims.

## 1. Inventory

| part | state | operations | hard because |
|---|---|---|---|
| Dispatch transaction (`scripts/claims_store.py`, `hooks/worker_budget_sinks.py`) | intent journal (one slot), anchor log, launch stash, register entry | begin, commit (anchor, stash, register, a journal mark after each), abort, confirm, recover | crash between any two writes; the verdict falls in another process |
| Gate chain (`worker_budget.py`, then `dispatch_gate.py`) | none of its own | reject, allow (and count), saturate (rc 3), time out | exit codes; two counters for one dispatch |
| Step settlement (`scripts/rlvr/step_grain.py`, `incremental_reward.py`, `hooks/round_closure.py`) | launch stashes, step records, transitions | barrier, record_launch, settle_step, append_transition | lost and foreign SubagentStop events; time to live; append and unlink are two steps |
| Wait and wake (`scripts/kunglao_wait.py`, `wait_dispose.py`, tail of `dispatch_gate.py`) | status files, one-slot signal files, dispatch rows | wait, poll, heartbeat, self-kill; re-arm; dispose of waiting workers | two writers and a reader that reads, then unlinks; round cap |
| Convergence loop (`convergence_check.py`, completion gates) | verdict, reopened claims | scan, decide, reopen stuck claims; the orchestrator's action | order of probes; stale reads; prefix matches |
| Session recovery (`external_kicker.py`, heartbeat scripts, `hook_activation.py`) | heartbeat, activation, kicker lock, status files | tick, lock, look, spawn (over a silent or a drifting session), renew | five spans racing each other; lock with unlink and create |
| Blind settlement wire (`rlvr/settlement_wire.py`, `settlement_scorer.py`, `rlvr/ledger.py`) | parked inputs, rulings, rollout ledger, register | park, re-park, rule, settle, mint | every stop runs the whole face again; two stores, one after the other |
| Claim store (`claims_store.apply`, `status_defs.py`) | status of each claim | 20-odd events of `LEGAL_TRANSITIONS`, verification gate, wake check | other scripts write statuses without it |
| Parking, dead letters, sweeps (`rlvr/parking.py`, `dead_letter.py`, `retract_claim.py`, `claim_expiry.py`, `mission_stall.py`, `infeasible_proposal.py`) | escrow ledger, strikes, statuses | park, unpark, strike, escalate, retract, expire, revive | overwrite any status; register-wide load, change and save |
| Dispatch ledger and rollout audit | dispatch ledger, occurrence counts | audit, escalate once | ids minted twice, latest row only |
| Worker registry, policy statistics, verification ladder, upgrade, evaluation, views | see PROJECT.json | | |

**Interactions.** A dispatch is one Agent tool call. PreToolUse runs
`worker_budget` (battery of gates, the settle barrier first; then
begin_dispatch and commit_dispatch) and, as a second process, `dispatch_gate`,
whose exit code confirms (0) or aborts (2) the intent and whose tail wakes a
waiting worker. The worker runs. At its end SubagentStop runs `round_closure`,
whose first face settles the pending step (the unlink of the stash lifts the
barrier) and whose blind face parks what the step wrote and settles what has
been ruled on. Between dispatches the orchestrator asks `convergence_check`
what to do. The kicker starts a session when all of this falls silent or turns in
place. The register is written by the transaction, the gate's counter, the
reopening of stuck claims, the mint, and every other part of the table.

**Correctness, part by part.** Dispatch: all or nothing, whatever dies; nothing
granted is taken back; nothing rejected uses up budget. Settlement: one worker
and one step at a time, each step banked once, by its own stop, in order, and
never a barrier that stays down. Waiting: a signal reaches the worker and the
work it was meant for, once, and every wait ends. Convergence: no delivery over
live or lost work, and the loop ends. Recovery: an outage is bounded. Blind
settlement: credit only over what was blinded, register and ledger agree, and a
ruling takes effect.

## 2. Plan

Done, each with proofs: `DispatchTxn`; `StepSettlement`; `WaitProtocol`,
`ConvergenceLoop` and `BlindSettlement`, which stand on the barrier of
`StepSettlement` and take a dispatch for granted as a whole; `SessionRecovery`.
What a module promises to those above it is an abstract specification, and the
module is shown to implement it:

| abstract | says | implemented by |
|---|---|---|
| `AtomicDispatch` | a dispatch takes effect when its gate lets it through, as a whole | DispatchTxn |
| `SerialSteps` | a step opens when none is open and nobody works | AtomicDispatch (so DispatchTxn), StepSettlement; ConvergenceLoop and BlindSettlement take it over and keep it |
| `SettledLoop` | a step starts when all before it are closed, and is banked once, as its own, before it closes | StepSettlement |
| `WorkerPool` | one step per dispatch, one per verdict, for all who wait for it | WaitProtocol |
| `BlindRuling` | one document from the ruling through the credit to the register | BlindSettlement |

Each of them has no crash, no file, no signal and no hook, so that what goes
wrong in the detailed module either is invisible in the abstract one or breaks
it.

Left:

1. `ClaimLifecycle`: the matrix of `apply` with its other writers: strikes and
   `mark_dead`, retraction with its dependents, expiry, revival, wake.
2. `RolloutAudit`: committed dispatches against banked settlements; the audit
   raises an alarm for each gap once and then falls silent.
3. The worker registry (`register_worker`, `remove_worker`).

## 3. DispatchTxn

One element of `Dispatches` is one Agent call, and stands for its two processes.
`phase` is the program counter of the chain; `register`, `anchor`, `stash` and
`journal` are the files; `mem` is the journal as the process that runs holds it;
`undo` the steps it has still to invert. One action is one file write.

| action | code |
|---|---|
| Admit | `pre_check` up to the transaction: the settle barrier, the other gates a free choice |
| BeginInFlight, BeginRecovers, OpenIntent | the three ways through `begin_dispatch` |
| LoadIntent, Write*, Mark*, RefuseRegister, Finish | `commit_dispatch`, `_txn_run_step` |
| GateAllows, Confirm, GateRejects, GateUnresolved | `dispatch_gate`: tail count, rc 0, rc 2, any other end |
| Undo*, ClearRecovered, ClearAborted | `_txn_rollback` for `recover` and `abort_dispatch` |
| SubagentStop, StoreApply | a worker ends; another store face moves a claim |
| Crash, HookTimeout, StepFault | the session dies; one hook dies; a write fails |

**Conditions.** The comments of the code promise some circumstances and are
silent on, or wrong about, others. `Conditions` names the others one by one, so
that each run says what it needs: `unmarked_crash`, `overlap`,
`unresolved_gate`, `hook_timeout`, `foreign_write`, `io_fault`, `stale_step`,
`log_full`. With `Conditions = {}` (*calm*) there are still crashes at every
other point, rejections, refused steps, settled and parked claims, and recovery
that is itself interrupted. All modules use conditions in this way.

**Abstractions.** An anchor row is its dispatch (the code compares a time stamp,
a claim and an agent: two dispatches of one second can be confused). Statuses
are four classes. `journal.state`, the provenance and dispatch ledgers and the
evidence tier decide nothing here. The other faces of the store move a claim
along the matrix of `apply`, without its two dispatch edges: those are the
transaction's own writes (`abort_dispatch` is called by the gate's reject alone). The age of an intent is a free choice between
recovering and overwriting it. A process id is not reused. The 32 rows of the
anchor log are `AnchorCap`, and its overflow is the condition `log_full`.

**Properties.** `NoResidue`, `InProgressHasWorker`, `WorkStands`, `BudgetKept`
and `SettledStaysSettled` are what "all or nothing" means file by file;
`ImplementsAtomic` says it at once, through a mapping that hides what the owner
of an open intent has written; `RollbackStaysOnClaim` is what survives
overlapping chains; `ChainEnds` is the liveness of the chain, checked where it
is hardest, under every condition.

**Fairness** (of the adverse run, the one with a liveness property).
`WF(ChainStep(d))`: a hook process that is not killed runs to its
end, since no step of it waits for anything. Nothing is fair about workers,
crashes or other faces.

| run | bounds | shows |
|---|---|---|
| dispatch_calm | 2 claims, 3 dispatches (2 on one claim), cap 2 | the safety properties and the refinement of the calm transaction |
| dispatch_adverse | every condition, any two of the three dispatches (`TwoChains`) | rollbacks stay on their claim, chains end |
| dispatch_unmarked_crash | `unmarked_crash` | finding: residue after recovery |

Three dispatches are enough for an interrupted chain, the one that recovers it,
and one that comes after; two claims for an intent of a foreign claim; a third
chain in flight would only repeat what two do to the single slot, which is why
the adverse run stops at two.

**What other conditions do.** Each of these alone breaks the property (TLC finds
it with one change of `Conditions` in dispatch_calm; no run of its own); the
theorems of section 9 exclude these and no others.

| property | broken by |
|---|---|
| `NoResidue`, one open step | `overlap`, `unmarked_crash`, `hook_timeout`, `stale_step` |
| `InProgressHasWorker` | `overlap`, `unmarked_crash` |
| `BudgetKept` | `overlap`, `unmarked_crash`, `hook_timeout`, `io_fault` |
| `SettledStaysSettled` | `overlap`, `foreign_write` |
| `WorkStands` | `overlap`, `unresolved_gate`, `hook_timeout`, `io_fault`, `stale_step`; `log_full` together with `unmarked_crash` and `foreign_write` |
| `ImplementsAtomic` | every one but `log_full` |

- `unresolved_gate`: a gate that ends with neither 0 nor 2
  (`dispatch_gate.py:2209`) neither confirms nor aborts, and the next dispatch
  rolls the granted work back.
- `foreign_write`: the rollback restores a before-image over a settlement.
- `io_fault`: the gate's tail count of an intent that failed before its register
  step is never taken back.
- `hook_timeout`: `worker_budget` is killed alone, and the gate of the same call
  lets through, or counts, a dispatch that was written in part or not at all.
- One dispatch is counted by two writers, the register step and the gate's tail
  (`dispatch_gate.py:2440`), so a budget of n is spent after fewer dispatches.

## 4. StepSettlement

`agent` is the life of each subagent, `stash` the files, `launchedAt` the order
of their time stamps (ties, which the code breaks by file name, do not occur),
`stale` the pending steps past `STEP_SETTLE_TTL_MINUTES`, `hook` and `pending`
the stop hook of each agent, `recorded` and `banked` the two ledgers, each row
with the step and the agent whose stop wrote it.

| action | code |
|---|---|
| Admit | `check_step_settled`, `barrier_verdict` |
| Launch | `record_launch`, with the rest of the dispatch as one step |
| GoStale | time passes; no worker or hook outlives it unless `slow_worker` |
| WorkerStops, BystanderStops, StopIsLost | SubagentStop, or its absence |
| Resolve, Record, Check, Bank, Unlink | `pending_step`; `record_step_grain`; the guards of `append_transition`; its append; its unlink |
| AppendRefused, HookDies | a ledger refuses; the hook is killed |

The stop hook does not know whose stop it serves: that is in the code, and the
reason for most of the properties. Conditions: `lost_stop`, `slow_worker`,
`bystander`, `parallel_launch`, `ledger_refused`, `hook_death`. Prices,
credits, and the typed stashes of verify acts (to the barrier one more file like
the others) are left out.

**Fairness.** Admitted chains launch (the gate lets them through), workers end,
hooks that are not killed run on, time passes: weak fairness of `Launch`,
`WorkerStops \/ StopIsLost`, `HookStep` and `GoStale`.

| run | bounds | shows |
|---|---|---|
| step_serial | 4 dispatches on 2 claims, no condition | each step banked once and by its own stop; a SettledLoop |
| step_mishaps | 3 dispatches, 1 bystander, all but `slow_worker` and `parallel_launch` | transitions have their record and come in launch order; the barrier lifts |

`ImplementsSettledLoop` maps an agent, its stash and its rows to one life: idle,
working, ended (its hook has yet to bank), banked, closed (the stash is gone).

The serial run is small because the loop is serial, and its properties hang on
deliveries nobody guarantees: any one of the six conditions breaks each of them.
With `lost_stop` a dispatch is admitted against a
fresh open step: `barrier_verdict` (`step_grain.py:209`) asks for the oldest
stash only, and one stale stash waives the barrier for all that come after it,
against the "zero dispatches issued against an open step" of its docstring.
With `slow_worker` the stop of an old worker banks the new launch.

## 5. WaitProtocol

A worker that has delivered stays alive in `kunglao_wait.py` and polls its
one-slot signal file. `phase` is the process behind a worker id, `task` what it
works on, `rounds` the empty rounds of its wait, `box` the signal file, `held`
the signal the tool has read and not yet acted on, `bound` the claim of the
latest dispatch row that names the worker, `gate` a dispatch between its ledger
row and the tail of the gate, `settling` a disposal between two of its writes,
`landing` a verdict that has been disposed of and whose register write is still
to be made.

| action | code |
|---|---|
| Bind, Wake (WakeWaiting, StartWorker) | the dispatch row of `worker_budget`, then the tail of `dispatch_gate` |
| Deliver, Heartbeat, FindNothing, SelfKill | `kunglao_wait`: round by round, to its cap |
| ReadSignal, Rearm, Dismiss | `_consume_signal`: read, unlink, act |
| Verify | the verification of facts |
| Settle (SettleByTool, SettleByHook, SettleUnnoticed) | a verdict: by `ws_yaml`, which writes the register and then calls `emit_settlements`; by an Edit or Write of the register, for which the PreToolUse hook `write_guard` calls it before the tool writes; by a writer that does not call it |
| Dispose, DisposalEnds | `dispose_waiting_pool`, one signal per step; `promote_citing_facts` after it |
| WriteLands, WriteLost | the tool writes what the hook let through, or does not |
| StepCloses, Lose | a stop lifts the barrier; a waiting worker is killed |

Conditions: `bystander`, `poll_race`, `settle_race`, `write_lost`,
`early_settle`, `silent_settle`, `refuted_again`, `unverified_rearm`,
`unlink_refused`, `worker_lost`. Assumed: the Agent call that re-arms a waiting
worker is carried out by that worker; a second agent of the name of a busy
worker does not exist; one verdict at a time is on its way into the register.
Signals without a type or with broken JSON are left out, and a verdict stands
for the dispatch of its verifier.

**Fairness.** `WF` of `Wake`, of `DisposalStep`, of each `WaitStep` and of
`WriteLands \/ WriteLost`: gate tail, disposal and wait tool run on unless
killed, and a tool call that was let through ends. Workers need not deliver.

| run | bounds | shows |
|---|---|---|
| wait_orderly | 2 workers, 2 claims, 2 rounds, `bystander` | a WorkerPool: a worker is dismissed only by its own claim, whose verdict lands, no signal acts twice or late, nobody waits past the verdict on its work; every dispatch reaches its worker |
| wait_mishaps | 1 worker, 2 claims, every condition | only claims with a verdict, landed or not, dismiss; waits end |
| wait_unlanded | the same, `bystander` and `write_lost` | finding: a worker is dismissed and its claim stays open |

Two workers can be bound to one claim or to two; two rounds are one that is not
the last and one that is.

`ImplementsWorkerPool` sees a verdict as one step, although the disposal writes
one signal file after another and each worker reads its own when it polls: a
worker counts as back at work, or as free, from the verdict on (`Sent`: the
signal is in its file, or the disposal has still to write it; `AtWork`, `Mode`),
and a dispatch is a step from its ledger row on. A verdict counts from the start
of its disposal (`Decided`), which for `write_guard` is before the register says
so; that the register follows is `DismissalStands`. With `write_lost` neither
holds: the pool has been told of a verdict that nobody has given. A second
answer, the answer to another claim, a lost one, or a verdict that reaches half
of the pool is then no step of the pool.

**What other conditions do.**

| property | broken by |
|---|---|
| `WorksOnItsDispatch` | `settle_race`, `worker_lost`, `poll_race` |
| `UnscheduledWasNotDispatched` | these and `unverified_rearm` |
| `NoDumbWait` | `settle_race`, `early_settle`, `silent_settle`, `refuted_again` |
| `DismissedByOwnClaim` | `settle_race`, `worker_lost`, `unlink_refused` |
| `DismissalStands` | `write_lost`, and all but `early_settle`, `silent_settle`, `refuted_again` |

- `refuted_again` breaks `NoDumbWait`: the redo of a refuted claim that is
  refuted as well changes no status, so the settle transaction
  (`register_proven_gate.py:632`) disposes of nobody and the worker waits out
  its rounds. `silent_settle` does the same: `claims_store.apply` emits nothing.
- Without `bystander` a re-arming dispatch never gets through: the step of a
  waiting worker stays open, and `pre_check` asks `check_step_settled` first
  (`worker_budget_sinks.py:1168-1173`), for verifiers as well, until the worker
  kills itself.
- `settle_race`: the disposal scans, then writes (`wait_dispose.py:193`); a
  worker re-dispatched in between is dismissed by its former claim.
- `poll_race`: a signal written between the read and the unlink of another is
  lost (`kunglao_wait.py:152`), and one written as the wait expires stays for
  the next wait.
- `worker_lost`: a killed worker's last line says "waiting", and the gate goes
  on waking it.

## 6. ConvergenceLoop

`decide` reads register, facts, status files and completion gates; the
orchestrator does what its verdict says (`heartbeat_loop_prompt.py:68-100`);
workers and the stop hook run in between. `token` is the last token of a status
file, `quiet` the workers whose file is older than `STUCK_MINUTES`, `proc` the
process behind it, `raised` the red gates. A decide takes no lock and its reads
are steps of their own: `phase` is how far it has come, `snap` what it has read,
`missed` the facts delivered behind its back.

| action | code |
|---|---|
| ReadRegister | `_decide_inputs` 1453: what is open, the orphans and the questions without a PROVEN claim |
| ReadPartials, ReadWorkers | the facts (1459), then the status files (1460) |
| Judge | `_run_machine`: the first probe that fires, in DRAIN and SCHEDULE (`Probes`, `Outcome`), over what was read; then PARK, over the register as it is by now, and CARRIER_DRIFT (`Final`) |
| Reopen | `_reopen_stuck_claims`, over a third read of the register |
| Dispatch, Verify, Close, Link, Clear, Resolve, Wake | the action each verdict asks for |
| Settle | the result of a verification entered in the register, a write of its own |
| Write, Deliver, Fail, Stop | a worker's status lines and its stop; done comes with or without a fact |
| Lose, FallSilent | a worker dies; a worker at work writes nothing for too long |

Waiting workers are exempt (they are in WaitProtocol); worker death records are
left out; dead and stuck workers are one (`quiet`); VERIFY_STALE is a case of
PARTIALS_AND_FREE_SLOT; FAILURE_ARTIFACTS_DUE and the ladder events are
ALL_OPEN_BLOCKED; a register that does not parse is left out. `failed` stands
for failed, blocked and error. A verifier is one step, up to the register. A
fact whose verification fails is taken to be marked refuted; marked `fails` only,
it would be handed to a verifier again (`_fact_verification_owed`). One decide
runs at a time. External blockers open when they like.

**Fairness.** `WF` of `Decide` (the cron prompt asks again and again) and of
each worker's own progress, `WF` of `StepEnds` (the step's time to live), `SF`
of `Orchestrator`: it is one session that runs decide and then acts, so its
actions are open only between two decides, and the prompt demands one after
every verdict. External blockers get none: PARK is a legal end.

| run | bounds | shows |
|---|---|---|
| loop | 2 claims (one answers the question, internal blocker; one question-less, external blocker), 3 worker ids, CARRIER_DRIFT, cap 2, 2 mishaps | serial steps, no CONVERGED over work at hand or claims nobody has reported on, claims of lost workers are freed, the loop ends |

Three worker ids are a worker, its successor on the same claim and one on
another. The question-less claim is an orphan once it is settled, and the
question stays unproven when its claim is refuted or its worker fails, so
ORPHAN_TERMINAL_CLAIM and PRIMARY_Q_UNVERIFIED both fire, each before and after
a worker is lost; two lost workers fill the cap.

**What CONVERGED means.** Its message says "all open claims closed, partials
verified" (`convergence_check.py:1804`). With reads that are not one snapshot
that is more than it can know: a worker that delivers after the facts and before
the status files are read leaves its claim IN_PROGRESS, with a fact that owes
its verification, under CONVERGED (`missed`). The same goes for a claim whose
worker said done without a fact, failed, or whose verification has yet to be
entered. `ConvergedIsFinal` says what does hold.

**Where the loop does not end.** PRIMARY_Q_UNVERIFIED stands before the worker
probes of DRAIN (the comment at 2078-2088 wants it so) and its verdict is
SATURATED, poll. When nothing is open or to be verified and a question has no
PROVEN claim (`Unproven`), nothing the loop does changes that: its claim was
refuted, its worker failed, or its worker is lost, and then
STUCK_WORKERS_PRESENT, whose action would free the claim, is never reached.
`LostClaimsAreFreed` and `LoopEnds` except this state, and no other.

**What other conditions do.**

- `overrun` (a step that outlives its time to live) breaks
  `ImplementsSerialSteps`: decide reopens the claim of a worker that is only
  slow, and its second worker starts beside it. Nothing else does: the barrier,
  not decide, keeps workers apart.
- `unwritten` breaks `NoDeliveryOverWork`: a decide between a launch and the
  worker's first status line counts nobody and reads CONVERGED, against
  "delivery over live work is forbidden" (`convergence_check.py:1857`).
- `leftover` breaks `LoopEnds`: the old status file of a lost worker reopens its
  successor's claim at every decide.
- `meanwhile` lets the orchestrator act during a decide, as with two sessions.
  The theorems hold with it; the run is without.
- `Matches` relates stems to claims by prefix, as the code does: a worker of
  C-400 matches C-40. `OneWorkerPerClaim` is proved for any `Matches`;
  `LoopEnds` needs ids that are not prefixes of each other (`OwnClaimOnly`).
- The stuck summary says "Orchestrator intervention required before any further
  dispatch", while WORK_AND_FREE_SLOT stands before STUCK; `--resume` is
  documented read-only and decide writes the register.

## 7. SessionRecovery

Time is counted in units of five minutes, files have ages instead of time
stamps, and ages stop at `Horizon`. `tickAge`, `actAge` and `workerAge` are the
ages of heartbeat tick, activity and youngest status file in progress; `kicker`
the step each kicker is at, `lock` and `lockAge` its lock; `due` the schedule;
`down`, `lost` and `extra` count for the properties. Sessions have names, and a
start that finds every name in use changes nothing that the properties tell
apart.

| action | code |
|---|---|
| Launch, LaunchBesides | the operating system's schedule; a kicker started besides |
| Stat, Unlink, Recreate, Release | `acquire_kick_lock`, `release`: create, judge a stale lock, unlink, create again |
| Look, Spawn, SpawnFails, Killed | `tick`: heartbeat, else the drift of `should_kick` (either answer: the ledger is not followed); workers; the session is started |
| Boot, Touch, Renew | a session's first tool call, its activity, its cron tick |
| WorkerWrites, WorkersEnd, Die | status files; the session dies |
| Pass | five minutes; what is on time is a guard here |

Spans (5 minutes): `TickEvery` 1, `Stale` 2, `Fresh` 4, `Interval` 3, `Ttl` 6,
`BootTime` 1, as in `liveness_policy.py`. Conditions: `workers`, `duplicate`,
`kicker_killed`, `spawn_fails`, `stillborn`, `skips_ticks` (a live session lets
its cron ticks go by, and with both signals silent is taken for dead) and
`drift`. Bounds: one kicker beside the schedule (`MaxExtra`), three rounds lost
per outage (`MaxLost`), which is a killed kicker and a failed start, or three
failed starts (the theorem has any number); `Patience` 17 and `Horizon` 7 are
above anything compared.

**Fairness.** The schedule launches, a kicker that is not killed goes on, time
passes, and a session that is started boots. A live session need not do
anything.

| run | bounds | shows |
|---|---|---|
| recovery | names for 2 sessions, 2 kickers, every condition | outages end, within silence + interval x (1 + rounds lost), though sessions are started over live ones and overlap |
| recovery_silent_window | `workers`, no mishap | finding: the activation expires before the kick |

**Further observations.** Without workers the bound is met with equality
(1 + 2 + 3 = 6), so "with margin" does not hold; `KickComesInTime` is the
condition `validate_interval` does not check. Two kickers on one stale lock can
both own it (the docstring says exactly one wins). A killed kicker's lock may be
judged too young and costs two rounds. Nothing bounds the sessions of a
workspace: the drift kick is repeated every round until a session appends
another row, a session inside one long tool call looks dead, and
design.md:41-47 accepts a second session over a live one. Outside the model:
after CONVERGED and heartbeat_off the missing heartbeat counts as dead; with the
file missing, touch and renew write nothing, and every interval starts another
session; touch and renew each load, change and save `.heartbeat.json`. The
re-registration of hooks and a sleeping machine are not modelled.

## 8. BlindSettlement

The stop of a subagent parks what the pending step wrote, by path and hash, as
the blind input of its claim. The settler, a subagent of its own, rules on that
document alone; every later stop settles each ruling into the rollout ledger and
mints the claim's status. `bytes` are the versions of the evidence files, a
document maps files to versions; `running` and `step` are the acts at work and
the one whose step is open; `input`, `seen` and `verdict` are the parked
document, what the settler has read, and what it has ruled on; `rows` and
`settlement` the claim's rollout and its latest row; `at`, `on`, `doc` and
`left` where each stop hook stands, and `window` the files it will list.

| action | code |
|---|---|
| Launch | a worker, verifier or settler is dispatched (`pending_settlements`, `record_launch`) |
| Write, Verify, ReadInput, Rule, OracleMoves | what acts and the oracle write; the settler's rules (`agents/kunglao-settler.md`) |
| ActStops, OtherStops (Take), Close | SubagentStop: the pending step is read, then closed (`settle_step`) |
| Scan, Hash | what was written in the window is listed, then hashed file by file |
| Park, Replace | `park_blind_input`: same bytes, ruled, or written |
| Pick, Leave | `settle_face`, claim by claim |
| Settle | `settle_parked` up to the ledger: bytes, citations, duplicates |
| Prove, Refute | `_claim_transition`, `claims_store.apply` |
| HookDies | the hook is killed |

Every act on a claim opens a step of that claim, so a verifier's or a settler's
own stop parks the claim again: that is in the code, and the reason for
`CreditIsBlinded`. The ruling does not name its input. `ImplementsBlindRuling`
says the rest: what is ruled on is what is parked, it stays parked, and the
register follows the credits, where a credit (`Credited`) is the input of a row
with its word. `ImplementsSerialSteps` is what the wire takes over from
StepSettlement (acts as steps), proved and not in the run.

**Conditions.** `bystander` (a subagent that is nobody's act stops while the act
of the open step runs), `overlap` (acts and stops while a stop hook runs),
`late_record` (the verification record lands after the settlement that needed
it), `lost_mint` (a hook dies between row and mint), `trace_credit` (a credit
within `FAIL_CREDIT_CAP`).

**Abstractions.** Closing the step is one step (its parts are in
StepSettlement), the walk over `evidence/` another, each hash a third. A
ruling is determined by its document and cites all of it. The identity match,
the exclusion wall, costs, the telemetry row and the opt-in eval mode are left
out; lost stops are in StepSettlement; claims are not reopened; nobody else (the
rollup's reward engine, the ladder) amends the rollout.

**Fairness.** A hook that is not killed runs to its end (`HookStep`), every act
comes to its stop, and subagents go on stopping (SubagentStop also fires for
those that are no workers).

| run | bounds | shows |
|---|---|---|
| blind | 2 claims, 1 evidence file with 2 further versions, 1 hook, 5 acts, 1 death | a BlindRuling; credit only over what was blinded, register behind ledger, rulings take effect |

Five acts are worker, verifier and settler of one claim and the two acts that
reach a ruling on the other, or re-parks in between; one shared file is the
tightest coupling of two claims; one hook is what the calm condition allows, and
the theorem on the ledger is for any number.

**What the conditions do.**

- `trace_credit` breaks `RulingTakesEffect`. With a credit in (0, 0.05],
  `oracle_lock` (`scalar.py:1273`) gives a failing oracle and no oracle the same
  reward, tier and flags. A ruling settled before the oracle is measured, and
  again after it fails, is the "same settlement" to `ledger.settle`: "duplicate:
  already settled", `settled` is false, and the refutation is never minted.
- `lost_mint` and `late_record` break it too: the row is appended before the
  mint is tried, every later stop is a duplicate, and a mint that was refused or
  lost is not tried again, against "A decisive blind settlement SHALL flip the
  claim through claims_store.apply" (issue-802 spec).
- `bystander` breaks `CreditIsBlinded`: a foreign stop takes the settler's step
  while an orphaned worker writes, the input is parked again before the ruling
  is on disk, and the ruling is then settled over bytes the settler never saw,
  against "A blind settlement settles exactly what was blinded".
- `overlap` breaks it as well (2 files, 3 acts): the hook of one step closes it
  and is slow, the next act writes, and the files the two documents list have
  the same bytes, since the slow hook scans and hashes after that write
  (`round_closure.py:186-193`, behind the unlink at 330). The settler reads the
  smaller document, the slow hook replaces it by the larger one before the
  ruling is on disk, and the ruling is settled over a file nobody was shown.
  `ImplementsBlindRuling` goes with it.
- In the calm model as well: a verifier's stop, or that of a settler that did
  not rule, parks the claim with its own, mostly empty window and overwrites the
  document nobody has ruled on. A changed re-park after the ruling is refused,
  and neither file is ever removed, so a claim whose evidence has drifted can
  never be blindly settled again.
- Outside the model: `_wire_row_seen` hashes the row with its time stamp, so an
  unchanged re-run one second later is not a duplicate ("Content-hash dedupe,
  never a clock compare"); `pending_settlements` has no caller outside tests;
  the oracle's word is the workspace's, not the claim's; the mint passes no
  `verification_ts`, so the check on the record's time never applies.

## 9. Proofs

Each theorem names the conditions it excludes. The tables above say which of
them, set alone in the configuration of the run, makes TLC find a violation.

`DispatchTxnProofs`. Under any conditions: types; an intent, on disk or in any
process, names only an anchor row of its own claim. Where chains do not overlap:
the safety properties of the transaction, each under its own conditions. Their
base is `SerialInv`: at most one chain is in flight, a chain that has opened its
intent finds it in the slot, and a process goes by what is in the slot. On it
stand `StatusOwed` and `CountOwed` (a claim nobody was let through for is in
progress, or has a count, only under the open intent that did it and until its
register step is undone), `BarrierInv` (no chain passes the barrier over a
pending step whose chain lives; a pending step has a worker or can still be
taken back), `RowsOwned` (so has an anchor row) and `StandsInv` (the open intent
is of nobody let through and names no row but its own).

`DispatchTxnCalmProofs` (`Conditions = {}`): the refinement of `AtomicDispatch`,
for any number of claims and dispatches and any cap. `CalmInv` says, phase by
phase, what is on disk, in the journal and in memory: an open intent's applied
steps are exactly what is on disk of its dispatch, give or take the step whose
mark is due, and what it would restore is what was there. Each step then maps to
a grant, a denial, a stop, an apply or a stutter. `AtomicDispatchProofs` shows
that atomic dispatches behind the settle barrier are `SerialSteps`, and
`ChainsAreSerial` puts the two refinements together.

`StepSettlementProofs`, first half (any conditions): types; a banked step was
recorded by the same settlement; no step is banked while an older one is
pending, from an invariant on ranks (a launch gets a rank above all others, a
hook past its resolution holds a step no pending step precedes, no stash comes
back). Second half (`Calm`): one step is open at a time, from launch to unlink,
its worker runs or its own hook does; so the oldest stash is always the stopping
worker's own, and no step is banked before its worker is gone. The same
invariant gives the refinements of `SettledLoop` and of `SerialSteps`.

`WaitProtocolProofs`, under any conditions: types, and that only a claim with a
verdict dismisses, if not with one in the register then with one on its way or
lost on the way. Then each safety property from an invariant of its own:
`StopsOwn` (a stop names the claim its worker is bound to), `DispatchFresh` (a
dispatch signal is of the latest dispatch, and its worker will read it),
`GateReady` (a dispatch between row and tail finds its worker free, or waiting,
verified and with no signal to read), `VerdictComing` (who waits after its
verdict has a signal or has it coming). The refinement of `WorkerPool` and
`DismissalStands` (no condition but `bystander`) take all of them, and that a
file holds a signal only while its worker waits.

`ConvergenceLoopProofs`: every probe leads to a verdict; `OwnsStep` (whoever is
at work on a claim owns the open step) gives `OneWorkerPerClaim` and the
refinement of `SerialSteps`, without `overrun`, for any way stems match claims.
The two theorems on CONVERGED, without `unwritten`, rest on `AccountInv` (every
claim in progress has a status file that shows its worker at work or ended, and
the silent workers reported are free) and on what each read still means when the
machine runs: nothing opens behind a decide (`NothingReopened`), what is PROVEN
stays (`StillAnswered`), a fact not seen is one missed (`FactsSeen`), and nobody
starts where nothing is open (`NobodyWorks`).

`SessionRecoveryProofs`, for any spans that satisfy the assumption:
`RecoveryInv` is types, the lock (who holds it and how old it can be), the
silence, and a debt: how long the workspace has been down is paid for by the
schedule and the rounds lost so far, or a kicker is on its way to start a
session. `RenewedInv` gives `KickComesInTime`, the condition under which the
finding cannot happen.

`BlindSettlementProofs`, any conditions: types; `MintsAreSettled`, since a hook
on its way to the mint has its row and rows are never taken out. Without
`bystander` and `overlap`: `OneAtATime` (a stop hook runs alone, and nobody works
while it does) and `ParkedIsInHand` (whoever holds a document of a claim, as
settler, as ruling or as hook, holds the one that is parked) give
`CreditOverWhatWasBlinded`, `WindowClosed` (what has been ruled on is never
replaced), the refinement of `BlindRuling` and that of `SerialSteps`. With either
condition the first and the third are false (section 8).

All assumptions on constants are in the models, named, and evaluated by the
runs. Only model-checked: liveness (`ChainEnds`, `BarrierLifts`, `WaitEnds`,
`DispatchReaches`, `LostClaimsAreFreed`, `LoopEnds`, `SessionReplaced`,
`RulingTakesEffect`), which is beyond the prover, and the violations.

## 10. Faults

Operators introduced by a comment "Fault" are no part of any specification. Each
is a definition with one plausible bug (a dropped guard, a mark that is not
saved, a barrier without a time to live). Put in the place of the definition
that follows it, it breaks the property PROJECT.json lists it for: that is how
the properties are known to say something about the code.

## 11. Not modelled, and why

Parts without a module are in PROJECT.json with the reason. Statistics
(Q-cells, posteriors, prices) are real-valued and out of TLC's reach; lints,
views, reports, evaluation, upgrade and installation are most of the repository
and keep no shared protocol state. Security of the ledgers (seals) is not a
subject here. `ClaimLifecycle`, `RolloutAudit` and the worker registry are
planned. Parking would not be a module of its own: only tests call it, so there
is no schedule of the program to check it under. What reading it shows: a
`park_claim` refused after the status write is recorded, on a retry, with prior
status PARKED; `unpark_claim` appends its release row before it restores the
status; `mark_dead` and retraction overwrite PARKED, and a later unpark revives
the claim; retraction skips dependents that are IN_PROGRESS; and the list of
terminal statuses in `infeasible_proposal` omits RETRACTED, so a proposal with a
wake can reopen a retracted claim.
