---------------------------- MODULE StepSettlement ----------------------------
(***************************************************************************)
(* The settle -> update -> decide loop of scripts/rlvr/step_grain.py: the  *)
(* barrier in front of a dispatch, the launch stash it leaves, and the     *)
(* SubagentStop hook (hooks/round_closure.py) that settles a pending step: *)
(* it resolves the oldest stash, records the step, banks the transition    *)
(* and unlinks the stash, one file operation per step.                     *)
(*                                                                         *)
(* The dispatch itself is DispatchTxn seen through AtomicDispatch: a chain *)
(* that passed the barrier (admitted) and then takes effect as a whole.    *)
(*                                                                         *)
(* Conditions:                                                             *)
(*   "lost_stop"        a worker ends and its SubagentStop never fires     *)
(*   "slow_worker"      a worker outlives STEP_SETTLE_TTL_MINUTES          *)
(*   "bystander"        a subagent that is not a worker stops              *)
(*   "parallel_launch"  a second chain passes the barrier before the first *)
(*                      one has left its stash                             *)
(*   "ledger_refused"   an append to a ledger is refused                   *)
(*   "hook_death"       a stop hook is killed between two of its steps     *)
(***************************************************************************)
EXTENDS Naturals, FiniteSets

CONSTANTS
  Claims,       \* claims of the register
  Attempts,     \* dispatch attempts (attempt_id); also the workers they start
  Bystanders,   \* subagents that are nobody's dispatch
  ClaimOf,      \* the claim of an attempt
  Conditions,   \* see above
  None          \* no stash, no pending step

AllConditions ==
  {"lost_stop", "slow_worker", "bystander", "parallel_launch",
   "ledger_refused", "hook_death"}

ASSUME ConstantsAssumption ==
  /\ ClaimOf \in [Attempts -> Claims]
  /\ IsFiniteSet(Attempts)
  /\ Conditions \subseteq AllConditions
  /\ None \notin Attempts
  /\ Attempts \cap Bystanders = {}

Met(condition) == condition \in Conditions

Agents == Attempts \cup Bystanders

VARIABLES
  agent,       \* each subagent: idle, admitted, running or gone
  stash,       \* runs/dispatch-launch-<claim>.json: the attempt it carries
  launchedAt,  \* the ts of an attempt's stash, as a rank; 0: not launched
  stale,       \* steps that were pending for STEP_SETTLE_TTL_MINUTES
  hook,        \* where the stop hook of each agent stands
  pending,     \* the step that hook resolved
  recorded,    \* step-record/2 rows: the step and the agent that settled it
  banked       \* transition rows of the experience ledger, likewise

vars == <<agent, stash, launchedAt, stale, hook, pending, recorded, banked>>

-----------------------------------------------------------------------------
(* A row: the step, and the agent whose stop wrote it. *)
Row == [step : Attempts, by : Agents]

BusyHook == {"resolve", "record", "check", "bank", "unlink"}

TypeOK ==
  /\ agent \in [Agents -> {"idle", "admitted", "running", "gone"}]
  /\ stash \in [Claims -> Attempts \cup {None}]
  /\ launchedAt \in [Attempts -> Nat]
  /\ stale \subseteq Attempts
  /\ hook \in [Agents -> BusyHook \cup {"none"}]
  /\ pending \in [Agents -> Attempts \cup {None}]
  /\ recorded \subseteq Row
  /\ banked \subseteq Row

Init ==
  /\ agent = [p \in Agents |-> IF p \in Attempts THEN "idle" ELSE "running"]
  /\ stash = [c \in Claims |-> None]
  /\ launchedAt = [a \in Attempts |-> 0]
  /\ stale = {}
  /\ hook = [p \in Agents |-> "none"]
  /\ pending = [p \in Agents |-> None]
  /\ recorded = {}
  /\ banked = {}

-----------------------------------------------------------------------------
(* The steps whose stash is there. *)
Pending == {a \in Attempts : stash[ClaimOf[a]] = a}

(* Fault (see the README): the newest pending step. *)
PicksNewest(a) ==
  a \in Pending /\ \A b \in Pending : launchedAt[b] <= launchedAt[a]

(* pending_step: the pending step with the oldest ts. *)
Oldest(a) ==
  a \in Pending /\ \A b \in Pending : launchedAt[a] <= launchedAt[b]

(* Fault: a barrier without a time to live. *)
BarsForever == Pending = {}

(* Fault: a barrier that takes a recorded step for a settled one. *)
AdmitsOnRecord ==
  \A a \in Pending : Oldest(a) => a \in stale \/ \E r \in recorded : r.step = a

(* barrier_verdict looks at the oldest pending step only. *)
BarrierAdmits == \A a \in Pending : Oldest(a) => a \in stale

Launched == {a \in Attempts : launchedAt[a] # 0}

Goto(p, h) == hook' = [hook EXCEPT ![p] = h]

(* The hook process ends: what it resolved was its own. *)
Leave(p) == Goto(p, "none") /\ pending' = [pending EXCEPT ![p] = None]

NoHookBusy == \A p \in Agents : hook[p] \notin BusyHook

-----------------------------------------------------------------------------
(* Dispatch *)

(* Fault: a chain that does not ask the barrier. *)
AdmitsUnsettled(a) ==
  /\ agent[a] = "idle"
  /\ agent' = [agent EXCEPT ![a] = "admitted"]
  /\ UNCHANGED <<stash, launchedAt, stale, hook, pending, recorded, banked>>

(* The chain of a dispatch the gate will let through passes the barrier. *)
Admit(a) ==
  /\ agent[a] = "idle"
  /\ BarrierAdmits
  /\ Met("parallel_launch") \/ \A b \in Attempts : agent[b] # "admitted"
  /\ agent' = [agent EXCEPT ![a] = "admitted"]
  /\ UNCHANGED <<stash, launchedAt, stale, hook, pending, recorded, banked>>

(* record_launch writes the stash of the claim, whatever it holds; a chain   *)
(* the gate lets through starts its worker.                                  *)
Launch(a) ==
  /\ agent[a] = "admitted"
  /\ stash' = [stash EXCEPT ![ClaimOf[a]] = a]
  /\ launchedAt' = [launchedAt EXCEPT ![a] = Cardinality(Launched) + 1]
  /\ agent' = [agent EXCEPT ![a] = "running"]
  /\ UNCHANGED <<stale, hook, pending, recorded, banked>>

(* STEP_SETTLE_TTL_MINUTES go by: the oldest pending step goes stale first.  *)
(* A worker, or a stop hook, is not about that long unless "slow_worker".    *)
GoStale(a) ==
  /\ a \in Pending \ stale
  /\ \A b \in Pending \ stale : launchedAt[a] <= launchedAt[b]
  /\ \/ Met("slow_worker")
     \/ /\ NoHookBusy
        /\ \A b \in Attempts : agent[b] # "running"
  /\ stale' = stale \cup {a}
  /\ UNCHANGED <<agent, stash, launchedAt, hook, pending, recorded, banked>>

-----------------------------------------------------------------------------
(* SubagentStop: round_closure, settle_step, append_transition *)

(* A worker ends, and its SubagentStop fires. *)
WorkerStops(a) ==
  /\ agent[a] = "running"
  /\ agent' = [agent EXCEPT ![a] = "gone"]
  /\ Goto(a, "resolve")
  /\ UNCHANGED <<stash, launchedAt, stale, pending, recorded, banked>>

(* A worker ends, and no SubagentStop fires. *)
StopIsLost(a) ==
  /\ Met("lost_stop")
  /\ agent[a] = "running"
  /\ agent' = [agent EXCEPT ![a] = "gone"]
  /\ UNCHANGED <<stash, launchedAt, stale, hook, pending, recorded, banked>>

(* SubagentStop also fires for non-worker subagents. *)
BystanderStops(p) ==
  /\ Met("bystander")
  /\ p \in Bystanders
  /\ agent[p] = "running"
  /\ agent' = [agent EXCEPT ![p] = "gone"]
  /\ Goto(p, "resolve")
  /\ UNCHANGED <<stash, launchedAt, stale, pending, recorded, banked>>

(* Fault: no test for the absence of a pending step. *)
SettlesNothing(p) ==
  /\ hook[p] = "resolve"
  /\ pending' = [pending EXCEPT ![p] =
       IF Pending = {} THEN None ELSE CHOOSE a \in Pending : Oldest(a)]
  /\ Goto(p, "record")
  /\ UNCHANGED <<agent, stash, launchedAt, stale, recorded, banked>>

(* pending_step: no pending step, nothing to settle.  The hook does not know *)
(* whose stop it serves; attempt_id is the one it reads from the stash.      *)
Resolve(p) ==
  /\ hook[p] = "resolve"
  /\ \/ Pending = {} /\ Leave(p)
     \/ \E a \in Pending :
          /\ Oldest(a)
          /\ pending' = [pending EXCEPT ![p] = a]
          /\ Goto(p, "record")
  /\ UNCHANGED <<agent, stash, launchedAt, stale, recorded, banked>>

(* record_step_grain *)
Record(p) ==
  /\ hook[p] = "record"
  /\ recorded' = recorded \cup {[step |-> pending[p], by |-> p]}
  /\ Goto(p, "check")
  /\ UNCHANGED <<agent, stash, launchedAt, stale, pending, banked>>

(* append_transition: a missing stash, or one with another attempt_id, is    *)
(* refused.                                                                  *)
Check(p) ==
  /\ hook[p] = "check"
  /\ IF pending[p] \in Pending THEN Goto(p, "bank") /\ UNCHANGED pending ELSE Leave(p)
  /\ UNCHANGED <<agent, stash, launchedAt, stale, recorded, banked>>

(* The transition row, from what Check read. *)
Bank(p) ==
  /\ hook[p] = "bank"
  /\ banked' = banked \cup {[step |-> pending[p], by |-> p]}
  /\ Goto(p, "unlink")
  /\ UNCHANGED <<agent, stash, launchedAt, stale, pending, recorded>>

(* Fault: the stash is left behind. *)
LeavesStash(p) ==
  /\ hook[p] = "unlink"
  /\ Leave(p)
  /\ UNCHANGED <<agent, stash, launchedAt, stale, recorded, banked>>

(* The stash file is unlinked, whatever it holds by now. *)
Unlink(p) ==
  /\ hook[p] = "unlink"
  /\ stash' = [stash EXCEPT ![ClaimOf[pending[p]]] = None]
  /\ Leave(p)
  /\ UNCHANGED <<agent, launchedAt, stale, recorded, banked>>

(* Fault: settle_step goes on when record_step_grain was refused. *)
GoesOnUnrecorded(p) ==
  /\ Met("ledger_refused")
  /\ hook[p] = "record"
  /\ Goto(p, "check")
  /\ UNCHANGED <<agent, stash, launchedAt, stale, pending, recorded, banked>>

(* A ledger refuses a row: settle_step and append_transition return, the     *)
(* step stays open.                                                          *)
AppendRefused(p) ==
  /\ Met("ledger_refused")
  /\ hook[p] \in {"record", "bank"}
  /\ Leave(p)
  /\ UNCHANGED <<agent, stash, launchedAt, stale, recorded, banked>>

(* The hook process is killed. *)
HookDies(p) ==
  /\ Met("hook_death")
  /\ hook[p] \in BusyHook
  /\ Leave(p)
  /\ UNCHANGED <<agent, stash, launchedAt, stale, recorded, banked>>

-----------------------------------------------------------------------------
HookStep(p) == Resolve(p) \/ Record(p) \/ Check(p) \/ Bank(p) \/ Unlink(p)

Next ==
  \/ \E a \in Attempts :
       Admit(a) \/ Launch(a) \/ GoStale(a) \/ WorkerStops(a) \/ StopIsLost(a)
  \/ \E p \in Agents :
       BystanderStops(p) \/ HookStep(p) \/ AppendRefused(p) \/ HookDies(p)

Spec == Init /\ [][Next]_vars

(* A chain that was admitted launches, a worker ends, a stop hook that is    *)
(* not killed runs to its end, and the clock goes on.                        *)
FairSpec ==
  /\ Spec
  /\ \A a \in Attempts :
       /\ WF_vars(Launch(a))
       /\ WF_vars(GoStale(a))
       /\ WF_vars(WorkerStops(a) \/ StopIsLost(a))
  /\ \A p \in Agents : WF_vars(HookStep(p))

-----------------------------------------------------------------------------
(* Properties *)

(* OneWorkerAtATime: the barrier makes the loop serial (settle -> update ->  *)
(* decide): no worker runs beside another one.  Only without the conditions. *)
OneWorkerAtATime ==
  \A a, b \in Attempts : agent[a] = "running" /\ agent[b] = "running" => a = b

(* SettledAfterItsWorker: a transition is banked only for a step whose       *)
(* worker is gone: settle_step never prices a step still being made.         *)
SettledAfterItsWorker == \A r \in banked : agent[r.step] = "gone"

(* BankedOnce: a step is banked by one stop at most: append_transition       *)
(* appends, then unlinks, and only the stash tells a banked step from an     *)
(* open one.                                                                 *)
BankedOnce == \A r, s \in banked : r.step = s.step => r = s

(* SettlesOwnStep: the stop of a worker banks the step of that worker        *)
(* (record_launch: a settle that outlived a re-dispatch "is refused instead  *)
(* of banking the newer launch's state").                                    *)
SettlesOwnStep == \A r \in banked : r.by = r.step

(* BankedInLaunchOrder: no step is banked while a step launched before it    *)
(* is pending: settlements follow launches, whoever settles (pending_step    *)
(* takes the oldest stash, and no stash comes back).                         *)
BankedInLaunchOrder ==
  \A r \in banked, a \in Pending : launchedAt[r.step] <= launchedAt[a]

(* BankedWasRecorded: every transition has the step-record/2 row of the same *)
(* settlement (settle_step returns when record_step_grain is refused),       *)
(* whoever stops, dies, overtakes or is refused.                             *)
BankedWasRecorded == banked \subseteq recorded

(* Where a step stands, from what is on disk and whether its worker runs. *)
Life ==
  [a \in Attempts |->
     IF launchedAt[a] = 0 THEN "idle"
     ELSE IF agent[a] = "running" THEN "working"
     ELSE IF a \notin Pending THEN "closed"
     ELSE IF \E r \in banked : r.step = a THEN "banked" ELSE "ended"]

Settled == INSTANCE SettledLoop WITH life <- Life, ledger <- banked

(* ImplementsSettledLoop: stashes, hooks and ledgers, without the            *)
(* conditions, are a SettledLoop: no step starts before the last one is      *)
(* closed, none is closed that is not banked, and none is banked twice, in   *)
(* flight or by another's stop.                                              *)
ImplementsSettledLoop == Settled!Spec

Serial == INSTANCE SerialSteps WITH
  Steps <- Attempts,
  open <- Pending,
  working <- {a \in Attempts : agent[a] = "running"}

(* ImplementsSerialSteps: without the conditions a stash and a worker stand  *)
(* for the one step that is open, which is what the modules above this one   *)
(* take for granted.                                                         *)
ImplementsSerialSteps == Serial!Spec

(* BarrierLifts: a barrier that is down lifts, by settlement or by the time  *)
(* to live (barrier_verdict: "a crash must not deadlock the loop").          *)
BarrierLifts == ~BarrierAdmits ~> BarrierAdmits
=============================================================================
