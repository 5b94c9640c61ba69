--------------------------- MODULE SessionRecovery ----------------------------
(***************************************************************************)
(* Recovery of a workspace whose session has died.  The operating system   *)
(* starts scripts/external_kicker.py on a schedule; a kicker that gets its *)
(* lock and finds the heartbeat and the worker status files silent starts  *)
(* a new session, and it does so too over a live session whose ledger is   *)
(* frozen.  A live session keeps the heartbeat and the hook activation     *)
(* fresh as long as it answers its ticks; the activation that nobody       *)
(* renews expires, and the dispatch gates sleep with it.                   *)
(*                                                                         *)
(* Time is counted in units of five minutes, the cadence of the cron tick  *)
(* of a session.  A file has an age instead of a time stamp; ages grow     *)
(* with Pass and stop at Horizon.  A kicker takes no time.                 *)
(*                                                                         *)
(* Conditions:                                                             *)
(*   "workers"        sessions have workers, whose status files are in     *)
(*                    progress when the session dies                       *)
(*   "duplicate"      a second kicker is started beside the schedule       *)
(*   "kicker_killed"  a kicker dies between two of its steps               *)
(*   "spawn_fails"    the new session cannot be started                    *)
(*   "stillborn"      a session dies before its first renewal              *)
(*   "skips_ticks"    a live session lets ticks go by: it is busy, its     *)
(*                    hooks were dropped, or nobody is there to prompt it  *)
(*   "drift"          the ledger may be frozen: sessions round after round *)
(*                    append the same signature                            *)
(***************************************************************************)
EXTENDS Naturals

CONSTANTS
  Sessions,    \* names for sessions; a dead session's name is used again, and
               \* sessions beyond the names are not told apart from the named
  Kickers,     \* processes that may run external_kicker.py
  TickEvery,   \* interval_min of the cron tick
  Stale,       \* DEFAULT_STALE_MINUTES
  Fresh,       \* FRESH_WORKER_MINUTES
  Interval,    \* DEFAULT_TICK_INTERVAL_MIN, the schedule of the kicker
  Ttl,         \* ACTIVATION_TTL_MINUTES
  BootTime,    \* a new session has made its first tool call by then
  Horizon,     \* ages beyond it look alike
  MaxExtra,    \* bound: kickers started beside the schedule
  MaxLost,     \* bound: rounds lost to mishaps in one outage
  Patience,    \* bound: down is counted that far
  Conditions   \* see above

(* validate_interval refuses Interval >= Ttl. *)
ASSUME ConstantsAssumption ==
  /\ {TickEvery, Stale, Fresh, Interval, Ttl, BootTime, Horizon, MaxExtra, MaxLost,
      Patience} \subseteq Nat
  /\ Sessions # {}
  /\ 0 < TickEvery /\ TickEvery <= Stale
  /\ 0 < Interval /\ Interval < Ttl
  /\ BootTime < Interval
  /\ \A span \in {Stale, Fresh, Interval, Ttl} : span < Horizon
  /\ \A span \in {Stale, Fresh} : span + Interval * (1 + MaxLost) < Patience
  /\ Conditions \subseteq
       {"workers", "duplicate", "kicker_killed", "spawn_fails", "stillborn",
        "skips_ticks", "drift"}

Met(condition) == condition \in Conditions

VARIABLES
  session,    \* each session: none, starting or alive
  bootAge,    \* how long a starting session has existed; 0 for the others
  tickAge,    \* age of last_tick_ts, and of the renewal of the activation
  actAge,     \* age of activity_ts
  workerAge,  \* age of the youngest status file in progress; Horizon: none
  kicker,     \* each kicker: the step it is at
  lock,       \* runs/.kicker.lock exists
  lockAge,    \* its age; 0 without a lock
  due,        \* time until the schedule starts the next kicker
  down,       \* how long the workspace has had no session
  lost,       \* rounds of the schedule that mishaps of this outage may cost
  extra       \* kickers started beside the schedule so far

signs == <<tickAge, actAge, workerAge>>

people == <<session, bootAge, down>>

count == <<lost, extra>>

vars == <<signs, people, kicker, lock, lockAge, due, count>>

-----------------------------------------------------------------------------
Steps == {"idle", "found", "stale", "retry", "owner", "kicking", "leaving"}

Age == 0 .. Horizon

TypeOK ==
  /\ session \in [Sessions -> {"none", "starting", "alive"}]
  /\ bootAge \in [Sessions -> 0 .. BootTime]
  /\ tickAge \in Age
  /\ actAge \in Age
  /\ workerAge \in Age
  /\ kicker \in [Kickers -> Steps]
  /\ lock \in BOOLEAN
  /\ lockAge \in Age
  /\ due \in 0 .. Interval
  /\ down \in 0 .. Patience
  /\ lost \in 0 .. MaxLost
  /\ extra \in 0 .. MaxExtra

Present == {s \in Sessions : session[s] # "none"}

Alive == {s \in Sessions : session[s] = "alive"}

(* The activation is refused once now > expires_at. *)
Expired == tickAge > Ttl

(* The user's session has registered the heartbeat and the kicker is wired. *)
Init ==
  /\ \E s \in Sessions :
       session = [x \in Sessions |-> IF x = s THEN "alive" ELSE "none"]
  /\ bootAge = [s \in Sessions |-> 0]
  /\ tickAge = 0
  /\ actAge = 0
  /\ workerAge = Horizon
  /\ kicker = [k \in Kickers |-> "idle"]
  /\ lock = FALSE
  /\ lockAge = 0
  /\ due = Interval
  /\ down = 0
  /\ lost = 0
  /\ extra = 0

-----------------------------------------------------------------------------
(* The kicker.                                                              *)

Becomes(k, step) == kicker' = [kicker EXCEPT ![k] = step]

NoLock == lock' = FALSE /\ lockAge' = 0

(* _create: O_EXCL. *)
Create(k, otherwise) ==
  IF lock THEN /\ Becomes(k, otherwise)
               /\ UNCHANGED <<lock, lockAge>>
          ELSE /\ Becomes(k, "owner")
               /\ lock' = TRUE
               /\ lockAge' = 0

Launch(k) ==
  /\ kicker[k] = "idle"
  /\ due = 0
  /\ due' = Interval
  /\ Create(k, "found")
  /\ UNCHANGED <<signs, people, count>>

LaunchBesides(k) ==
  /\ Met("duplicate")
  /\ extra < MaxExtra
  /\ kicker[k] = "idle"
  /\ Create(k, "found")
  /\ extra' = extra + 1
  /\ UNCHANGED <<signs, people, due, lost>>

(* Fault: a lock is never too old. *)
FaultyStat(k) ==
  /\ kicker[k] = "found"
  /\ Becomes(k, "idle")
  /\ UNCHANGED <<signs, people, lock, lockAge, due, count>>

(* The lock of a killed kicker and the next round are one interval apart, and *)
(* the jitter of the two starts decides whether the lock is old enough.       *)
Stat(k) ==
  /\ kicker[k] = "found"
  /\ \/ /\ ~lock \/ lockAge <= Interval
        /\ Becomes(k, "idle")
     \/ /\ lock /\ lockAge >= Interval
        /\ Becomes(k, "stale")
  /\ UNCHANGED <<signs, people, lock, lockAge, due, count>>

(* The unlink removes whatever lock is there by now. *)
Unlink(k) ==
  /\ kicker[k] = "stale"
  /\ Becomes(k, IF lock THEN "retry" ELSE "idle")
  /\ NoLock
  /\ UNCHANGED <<signs, people, due, count>>

Recreate(k) ==
  /\ kicker[k] = "retry"
  /\ Create(k, "idle")
  /\ UNCHANGED <<signs, people, due, count>>

SessionIsDead == tickAge > Stale /\ actAge > Stale

HasFreshWorkers == workerAge <= Fresh

(* should_kick, for what the model does not follow: the trailing run of one   *)
(* signature in the ledger is long enough, and no worker has made progress.   *)
ShouldKick == IF Met("drift") THEN BOOLEAN ELSE {FALSE}

(* The heartbeat first, the drift only if the heartbeat is not silent, and    *)
(* then the workers, whichever of the two it was.                             *)
Look(k) ==
  /\ kicker[k] = "owner"
  /\ \E drift \in ShouldKick :
       Becomes(k, IF (SessionIsDead \/ drift) /\ ~HasFreshWorkers
                  THEN "kicking" ELSE "leaving")
  /\ UNCHANGED <<signs, people, lock, lockAge, due, count>>

Spawn(k) ==
  /\ kicker[k] = "kicking"
  /\ \/ \E s \in Sessions \ Present :
          session' = [session EXCEPT ![s] = "starting"]
     \/ Present = Sessions /\ UNCHANGED session
  /\ Becomes(k, "leaving")
  /\ down' = 0
  /\ lost' = 0
  /\ UNCHANGED <<bootAge, signs, lock, lockAge, due, extra>>

SpawnFails(k) ==
  /\ Met("spawn_fails")
  /\ lost < MaxLost
  /\ kicker[k] = "kicking"
  /\ Becomes(k, "leaving")
  /\ lost' = lost + 1
  /\ UNCHANGED <<signs, people, lock, lockAge, due, extra>>

(* Fault: a tick that only looks leaves its lock behind. *)
FaultyRelease(k) ==
  /\ kicker[k] = "leaving"
  /\ Becomes(k, "idle")
  /\ UNCHANGED <<signs, people, lock, lockAge, due, count>>

Release(k) ==
  /\ kicker[k] = "leaving"
  /\ Becomes(k, "idle")
  /\ NoLock
  /\ UNCHANGED <<signs, people, due, count>>

(* The finally of the tick does not run, and the lock stays.  A kill costs  *)
(* the round, and the next one may find the lock too young.                 *)
Killed(k) ==
  /\ Met("kicker_killed")
  /\ lost + 1 < MaxLost
  /\ kicker[k] # "idle"
  /\ Becomes(k, "idle")
  /\ lost' = lost + 2
  /\ UNCHANGED <<signs, people, lock, lockAge, due, extra>>

KickerStep(k) ==
  Stat(k) \/ Unlink(k) \/ Recreate(k) \/ Look(k) \/ Spawn(k) \/ Release(k)

-----------------------------------------------------------------------------
(* Sessions.                                                                *)

(* The first tool call of a new session runs heartbeat_touch. *)
Boot(s) ==
  /\ session[s] = "starting"
  /\ session' = [session EXCEPT ![s] = "alive"]
  /\ bootAge' = [bootAge EXCEPT ![s] = 0]
  /\ actAge' = 0
  /\ UNCHANGED <<down, tickAge, workerAge, kicker, lock, lockAge, due, count>>

Touch ==
  /\ Alive # {}
  /\ actAge' = 0
  /\ UNCHANGED <<people, tickAge, workerAge, kicker, lock, lockAge, due, count>>

(* A cron tick or a dispatch: expires_at and last_tick_ts, expired or not. *)
Renew ==
  /\ Alive # {}
  /\ tickAge' = 0
  /\ UNCHANGED <<people, actAge, workerAge, kicker, lock, lockAge, due, count>>

WorkerWrites ==
  /\ Met("workers")
  /\ Alive # {}
  /\ workerAge' = 0
  /\ UNCHANGED <<people, tickAge, actAge, kicker, lock, lockAge, due, count>>

WorkersEnd ==
  /\ Alive # {}
  /\ workerAge' = Horizon
  /\ UNCHANGED <<people, tickAge, actAge, kicker, lock, lockAge, due, count>>

Die(s) ==
  /\ session[s] # "none"
  /\ \/ Met("stillborn")
     \/ session[s] = "alive" /\ (tickAge <= TickEvery \/ Met("skips_ticks"))
  /\ session' = [session EXCEPT ![s] = "none"]
  /\ bootAge' = [bootAge EXCEPT ![s] = 0]
  /\ UNCHANGED <<down, signs, kicker, lock, lockAge, due, count>>

-----------------------------------------------------------------------------
(* Fault: an age without its cap. *)
Ageing(age) == age + 1

Older(age) == IF age < Horizon THEN age + 1 ELSE age

(* Time.  Kickers are done within the unit, a round starts when it is due, a *)
(* new session comes up on time, and a live one answers its cron ticks,      *)
(* unless it skips them.                                                     *)
Pass ==
  /\ \A k \in Kickers : kicker[k] = "idle"
  /\ due > 0
  /\ Alive # {} => tickAge < TickEvery \/ Met("skips_ticks")
  /\ \A s \in Sessions : session[s] = "starting" => bootAge[s] < BootTime
  /\ bootAge' = [s \in Sessions |->
                   IF session[s] = "starting" THEN bootAge[s] + 1 ELSE bootAge[s]]
  /\ tickAge' = Older(tickAge)
  /\ actAge' = Older(actAge)
  /\ workerAge' = Older(workerAge)
  /\ lockAge' = IF lock THEN Older(lockAge) ELSE lockAge
  /\ due' = due - 1
  /\ down' = IF Present = {} /\ down < Patience THEN down + 1 ELSE down
  /\ UNCHANGED <<session, kicker, lock, count>>

Kick == \E k \in Kickers :
  Launch(k) \/ LaunchBesides(k) \/ KickerStep(k) \/ SpawnFails(k) \/ Killed(k)

Live ==
  \/ \E s \in Sessions : Boot(s) \/ Die(s)
  \/ Touch \/ Renew \/ WorkerWrites \/ WorkersEnd

Next == Kick \/ Live \/ Pass

Spec == Init /\ [][Next]_vars

(* The schedule and the processes run on; a session need not answer. *)
Fairness ==
  /\ WF_vars(\E k \in Kickers : Launch(k))
  /\ \A k \in Kickers : WF_vars(KickerStep(k))
  /\ WF_vars(Pass)
  /\ \A s \in Sessions : WF_vars(Boot(s))

FairSpec == Spec /\ Fairness

-----------------------------------------------------------------------------
(* The silence a kicker waits for. *)
Silence == IF Met("workers") /\ Stale < Fresh THEN Fresh ELSE Stale

(* A workspace is without a session for at most the silence and one round,   *)
(* and a round for each failed start of the outage and two for each killed   *)
(* kicker: neither a lock that stays behind nor two kickers at odds over it  *)
(* cost more (external_kicker.tick, acquire_kick_lock).                      *)
RecoveredInTime ==
  Present = {} => down <= Silence + Interval * (1 + lost)

(* An outage ends, and time does not stop in one (external_kicker.tick). *)
SessionReplaced == Present = {} ~> Present # {}

(* "there is never a moment where hooks sleep with no session to re-activate *)
(* them" (design.md of external-kicker; liveness_policy, DEFAULT_STALE): the *)
(* kick comes before the activation of the dead session expires.             *)
NoSilentWindow == Present = {} => ~Expired

=============================================================================
