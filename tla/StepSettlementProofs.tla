------------------------- MODULE StepSettlementProofs -------------------------
(* Proofs about StepSettlement: what holds whatever goes wrong (types, the   *)
(* step record behind a transition, the order of settlements), and, in the   *)
(* second half, the serial loop when nothing does.                           *)
EXTENDS StepSettlement, FiniteSetTheorems, TLAPS

USE ConstantsAssumption

-----------------------------------------------------------------------------
(* Whatever goes wrong *)

(* A hook past its resolution holds a step. *)
HoldsStep ==
  \A p \in Agents :
    hook[p] \in {"record", "check", "bank", "unlink"} => pending[p] \in Attempts

TypeInv == TypeOK /\ HoldsStep

(* The initial states are well typed, and no hook runs. *)
LEMMA TypeInvInit == Init => TypeInv
  BY DEF Init, TypeInv, TypeOK, HoldsStep, Agents, BusyHook

(* Every action of StepSettlement keeps the types. *)
LEMMA TypeInvStep == TypeInv /\ [Next]_vars => TypeInv'
<1> SUFFICES ASSUME TypeInv, [Next]_vars PROVE TypeInv'
  OBVIOUS
<1> USE DEF TypeInv, TypeOK, HoldsStep, Agents, BusyHook, Row
<1>1. ASSUME NEW a \in Attempts, Admit(a) PROVE TypeInv'
  BY <1>1 DEF Admit
<1>2. ASSUME NEW a \in Attempts, Launch(a) PROVE TypeInv'
  <2>1. Cardinality(Launched) \in Nat
    BY FS_Subset, FS_CardinalityType DEF Launched
  <2> QED BY <1>2, <2>1 DEF Launch
<1>3. ASSUME NEW a \in Attempts, GoStale(a) PROVE TypeInv'
  BY <1>3 DEF GoStale
<1>4. ASSUME NEW a \in Attempts, WorkerStops(a) PROVE TypeInv'
  BY <1>4 DEF WorkerStops, Goto
<1>5. ASSUME NEW a \in Attempts, StopIsLost(a) PROVE TypeInv'
  BY <1>5 DEF StopIsLost
<1>6. ASSUME NEW p \in Agents, BystanderStops(p) PROVE TypeInv'
  BY <1>6 DEF BystanderStops, Goto
<1>7. ASSUME NEW p \in Agents, Resolve(p) PROVE TypeInv'
  BY <1>7 DEF Resolve, Goto, Leave, Pending
<1>8. ASSUME NEW p \in Agents, Record(p) PROVE TypeInv'
  BY <1>8 DEF Record, Goto
<1>9. ASSUME NEW p \in Agents, Check(p) PROVE TypeInv'
  BY <1>9 DEF Check, Goto, Leave
<1>10. ASSUME NEW p \in Agents, Bank(p) PROVE TypeInv'
  BY <1>10 DEF Bank, Goto
<1>11. ASSUME NEW p \in Agents, Unlink(p) PROVE TypeInv'
  BY <1>11 DEF Unlink, Goto, Leave
<1>12. ASSUME NEW p \in Agents, AppendRefused(p) PROVE TypeInv'
  BY <1>12 DEF AppendRefused, Goto, Leave
<1>13. ASSUME NEW p \in Agents, HookDies(p) PROVE TypeInv'
  BY <1>13 DEF HookDies, Goto, Leave
<1>14. CASE UNCHANGED vars
  BY <1>14 DEF vars
<1> QED
  BY <1>1, <1>2, <1>3, <1>4, <1>5, <1>6, <1>7, <1>8, <1>9, <1>10, <1>11,
     <1>12, <1>13, <1>14 DEF Next, HookStep

(* TypeCorrect: the variables keep their types under any conditions: no hook *)
(* records or banks a step it has not resolved.                              *)
THEOREM TypeCorrect == Spec => []TypeOK
<1>1. TypeInv => TypeOK
  BY DEF TypeInv
<1> QED BY TypeInvInit, TypeInvStep, <1>1, PTL DEF Spec

(* A hook past Record has its own row in the step record. *)
RecordedFirst ==
  /\ BankedWasRecorded
  /\ \A p \in Agents : hook[p] \in {"check", "bank", "unlink"} =>
       [step |-> pending[p], by |-> p] \in recorded

(* Every action keeps the rows of the step record, and none goes past Record *)
(* without one.                                                              *)
LEMMA RecordedFirstStep == TypeInv /\ RecordedFirst /\ [Next]_vars => RecordedFirst'
<1> SUFFICES ASSUME TypeInv, RecordedFirst, [Next]_vars PROVE RecordedFirst'
  OBVIOUS
<1> USE DEF TypeInv, TypeOK, RecordedFirst, BankedWasRecorded
<1>1. ASSUME NEW a \in Attempts, Admit(a) \/ Launch(a) \/ GoStale(a) \/ StopIsLost(a)
      PROVE RecordedFirst'
  BY <1>1 DEF Admit, Launch, GoStale, StopIsLost
<1>2. ASSUME NEW a \in Attempts, WorkerStops(a) PROVE RecordedFirst'
  BY <1>2 DEF WorkerStops, Goto, Agents
<1>3. ASSUME NEW p \in Agents, BystanderStops(p) PROVE RecordedFirst'
  BY <1>3 DEF BystanderStops, Goto
<1>4. ASSUME NEW p \in Agents, Resolve(p) PROVE RecordedFirst'
  BY <1>4 DEF Resolve, Goto, Leave
<1>5. ASSUME NEW p \in Agents, Record(p) PROVE RecordedFirst'
  BY <1>5 DEF Record, Goto
<1>6. ASSUME NEW p \in Agents, Check(p) PROVE RecordedFirst'
  BY <1>6 DEF Check, Goto, Leave
<1>7. ASSUME NEW p \in Agents, Bank(p) PROVE RecordedFirst'
  BY <1>7 DEF Bank, Goto
<1>8. ASSUME NEW p \in Agents, Unlink(p) \/ AppendRefused(p) \/ HookDies(p)
      PROVE RecordedFirst'
  BY <1>8 DEF Unlink, AppendRefused, HookDies, Goto, Leave
<1>9. CASE UNCHANGED vars
  BY <1>9 DEF vars
<1> QED
  BY <1>1, <1>2, <1>3, <1>4, <1>5, <1>6, <1>7, <1>8, <1>9 DEF Next, HookStep

(* NoTransitionUnrecorded: under any conditions a transition row has the     *)
(* step-record/2 row of the same settlement.                                 *)
THEOREM NoTransitionUnrecorded == Spec => []BankedWasRecorded
<1>1. Init => RecordedFirst
  BY DEF Init, RecordedFirst, BankedWasRecorded
<1>2. RecordedFirst => BankedWasRecorded
  BY DEF RecordedFirst
<1> QED BY TypeInvInit, TypeInvStep, RecordedFirstStep, <1>1, <1>2, PTL DEF Spec

-----------------------------------------------------------------------------
(* The order of settlements *)

(* A dispatch that has not launched has no rank yet; ranks are given in      *)
(* turn; a stash is the stash of a launched step.                            *)
RanksInTurn ==
  /\ \A a \in Attempts : agent[a] \in {"idle", "admitted"} => launchedAt[a] = 0
  /\ \A a \in Attempts : launchedAt[a] <= Cardinality(Launched)
  /\ Pending \subseteq Launched

(* The step a hook settles is launched, and no older one is pending.         *)
HookSettlesOldest ==
  \A p \in Agents : hook[p] \in {"record", "check", "bank", "unlink"} =>
    /\ pending[p] \in Launched
    /\ \A a \in Pending : launchedAt[pending[p]] <= launchedAt[a]

(* A banked step is launched.                                                *)
BankedLaunched == \A r \in banked : r.step \in Launched

OrderInv == RanksInTurn /\ HookSettlesOldest /\ BankedLaunched /\ BankedInLaunchOrder

(* A launch gives its step the highest rank, and leaves the others.          *)
LEMMA LaunchRanks ==
  ASSUME TypeInv, OrderInv, NEW a \in Attempts, Launch(a)
  PROVE  /\ launchedAt[a] = 0
         /\ launchedAt'[a] = Cardinality(Launched) + 1
         /\ Cardinality(Launched) \in Nat
         /\ Cardinality(Launched') = Cardinality(Launched) + 1
         /\ Launched' = Launched \cup {a}
         /\ \A b \in Attempts \ {a} : launchedAt'[b] = launchedAt[b]
         /\ Pending' \subseteq Pending \cup {a}
<1> USE DEF TypeInv, TypeOK
<1>1. launchedAt[a] = 0
  BY DEF OrderInv, RanksInTurn, Launch
<1>2. IsFiniteSet(Launched) /\ Cardinality(Launched) \in Nat
  BY FS_Subset, FS_CardinalityType DEF Launched
<1>3. launchedAt' = [launchedAt EXCEPT ![a] = Cardinality(Launched) + 1]
  BY DEF Launch
<1>4. Launched' = Launched \cup {a}
  <2>1. \A b \in Attempts : launchedAt'[b] # 0 <=> b = a \/ launchedAt[b] # 0
    BY <1>2, <1>3
  <2> QED BY <2>1 DEF Launched
<1>5. a \notin Launched
  BY <1>1 DEF Launched
<1>6. Cardinality(Launched') = Cardinality(Launched) + 1
  BY <1>2, <1>4, <1>5, FS_AddElement
<1>7. Pending' \subseteq Pending \cup {a}
  BY DEF Pending, Launch
<1> QED BY <1>1, <1>2, <1>3, <1>4, <1>6, <1>7

(* A launch keeps the order.                                                 *)
LEMMA LaunchKeepsOrder ==
  ASSUME TypeInv, OrderInv, NEW a \in Attempts, Launch(a)
  PROVE  OrderInv'
<1> DEFINE top == Cardinality(Launched)
<1>1. /\ launchedAt[a] = 0
      /\ launchedAt'[a] = top + 1
      /\ top \in Nat
      /\ top' = top + 1
      /\ Launched' = Launched \cup {a}
      /\ \A b \in Attempts \ {a} : launchedAt'[b] = launchedAt[b]
      /\ Pending' \subseteq Pending \cup {a}
  BY LaunchRanks
<1>2. launchedAt \in [Attempts -> Nat] /\ agent \in [Agents -> {"idle", "admitted", "running", "gone"}]
  BY DEF TypeInv, TypeOK
<1>3. a \notin Launched /\ Launched \subseteq Attempts /\ Pending \subseteq Attempts
  BY <1>1 DEF Launched, Pending
<1>4. \A b \in Attempts : launchedAt[b] <= top
  BY DEF OrderInv, RanksInTurn
<1>5. UNCHANGED <<hook, pending, banked>> /\ agent' = [agent EXCEPT ![a] = "running"]
  BY DEF Launch
<1> HIDE DEF top
<1>6. \A b \in Launched, e \in Pending' :
        (e \in Pending => launchedAt[b] <= launchedAt[e]) => launchedAt'[b] <= launchedAt'[e]
  BY <1>1, <1>2, <1>3, <1>4
<1>7. RanksInTurn'
  <2>1. \A b \in Attempts : agent'[b] \in {"idle", "admitted"} => launchedAt'[b] = 0
    BY <1>1, <1>2, <1>5 DEF OrderInv, RanksInTurn, Agents
  <2>2. \A b \in Attempts : launchedAt'[b] <= top'
    BY <1>1, <1>2, <1>4
  <2>3. Pending' \subseteq Launched'
    BY <1>1 DEF OrderInv, RanksInTurn
  <2> QED BY <2>1, <2>2, <2>3 DEF RanksInTurn, top
<1>8. HookSettlesOldest'
  <2> SUFFICES ASSUME NEW p \in Agents,
                      hook[p] \in {"record", "check", "bank", "unlink"}
               PROVE  /\ pending[p] \in Launched'
                      /\ \A e \in Pending' : launchedAt'[pending[p]] <= launchedAt'[e]
    BY <1>5 DEF HookSettlesOldest
  <2>1. /\ pending[p] \in Launched
        /\ \A e \in Pending : launchedAt[pending[p]] <= launchedAt[e]
    BY DEF OrderInv, HookSettlesOldest
  <2> QED BY <2>1, <1>1, <1>6
<1>9. BankedLaunched'
  BY <1>1, <1>5 DEF OrderInv, BankedLaunched
<1>10. BankedInLaunchOrder'
  <2> SUFFICES ASSUME NEW r \in banked, NEW e \in Pending'
               PROVE  launchedAt'[r.step] <= launchedAt'[e]
    BY <1>5 DEF BankedInLaunchOrder
  <2>1. r.step \in Launched /\ \A f \in Pending : launchedAt[r.step] <= launchedAt[f]
    BY DEF OrderInv, BankedLaunched, BankedInLaunchOrder
  <2> QED BY <2>1, <1>6
<1> QED BY <1>7, <1>8, <1>9, <1>10 DEF OrderInv

(* A step that launches nothing and leaves no new stash keeps the ranks.     *)
LEMMA RanksKept ==
  ASSUME OrderInv, UNCHANGED launchedAt, Pending' \subseteq Pending,
         \A a \in Attempts :
           agent'[a] \in {"idle", "admitted"} => agent[a] \in {"idle", "admitted"}
  PROVE  RanksInTurn'
<1>1. Launched' = Launched
  BY DEF Launched
<1> QED BY <1>1 DEF OrderInv, RanksInTurn

(* Every action keeps the order.                                             *)
LEMMA OrderStep == TypeInv /\ OrderInv /\ [Next]_vars => OrderInv'
<1> SUFFICES ASSUME TypeInv, OrderInv, [Next]_vars PROVE OrderInv'
  OBVIOUS
<1> DEFINE Holding == {"record", "check", "bank", "unlink"}
<1>1. ASSUME UNCHANGED <<launchedAt, banked>>, Pending' \subseteq Pending,
             \A a \in Attempts :
               agent'[a] \in {"idle", "admitted"} => agent[a] \in {"idle", "admitted"},
             \A p \in Agents : hook'[p] \in Holding =>
               hook[p] \in Holding /\ pending'[p] = pending[p]
      PROVE  OrderInv'
  <2>1. RanksInTurn'
    BY <1>1, RanksKept
  <2>2. Launched' = Launched
    BY <1>1 DEF Launched
  <2> QED
    BY <1>1, <2>1, <2>2
       DEF OrderInv, HookSettlesOldest, BankedLaunched, BankedInLaunchOrder
<1>2. ASSUME NEW a \in Attempts,
             Admit(a) \/ GoStale(a) \/ WorkerStops(a) \/ StopIsLost(a)
      PROVE  OrderInv'
  BY <1>1, <1>2
     DEF Admit, GoStale, WorkerStops, StopIsLost, Goto, Pending, Agents, TypeInv, TypeOK
<1>3. ASSUME NEW a \in Attempts, Launch(a) PROVE OrderInv'
  BY <1>3, LaunchKeepsOrder
<1>4. ASSUME NEW p \in Agents,
             BystanderStops(p) \/ AppendRefused(p) \/ HookDies(p) \/ Check(p) \/ Record(p)
      PROVE  OrderInv'
  <2>1. CASE BystanderStops(p)
    BY <1>1, <2>1 DEF BystanderStops, Goto, Pending, TypeInv, TypeOK
  <2>2. CASE AppendRefused(p) \/ HookDies(p)
    BY <1>1, <2>2 DEF AppendRefused, HookDies, Goto, Leave, Pending, TypeInv, TypeOK
  <2>3. CASE Check(p)
    BY <1>1, <2>3 DEF Check, Goto, Leave, Pending, TypeInv, TypeOK
  <2>4. CASE Record(p)
    BY <1>1, <2>4 DEF Record, Goto, Pending, TypeInv, TypeOK
  <2> QED BY <1>4, <2>1, <2>2, <2>3, <2>4
<1>5. ASSUME NEW p \in Agents, Unlink(p) PROVE OrderInv'
  <2>1. Pending' \subseteq Pending
    BY <1>5 DEF Unlink, Pending, TypeInv, TypeOK
  <2> QED BY <2>1, <1>1, <1>5 DEF Unlink, Goto, Leave, TypeInv, TypeOK
<1>6. ASSUME NEW p \in Agents, Resolve(p) PROVE OrderInv'
  <2>1. UNCHANGED <<agent, stash, launchedAt, stale, recorded, banked>>
    BY <1>6 DEF Resolve
  <2>2. CASE Pending = {} /\ Leave(p)
    BY <2>1, <2>2, <1>1 DEF Leave, Goto, Pending, TypeInv, TypeOK
  <2>3. ASSUME NEW a \in Pending, Oldest(a),
               pending' = [pending EXCEPT ![p] = a], Goto(p, "record")
        PROVE  OrderInv'
    <3>1. Pending' = Pending /\ Launched' = Launched
      BY <2>1 DEF Pending, Launched
    <3>2. RanksInTurn' /\ BankedLaunched' /\ BankedInLaunchOrder'
      BY <2>1, <3>1, RanksKept DEF OrderInv, BankedLaunched, BankedInLaunchOrder
    <3>3. HookSettlesOldest'
      BY <2>1, <2>3, <3>1
         DEF OrderInv, RanksInTurn, HookSettlesOldest, Oldest, Goto, TypeInv, TypeOK
    <3> QED BY <3>2, <3>3 DEF OrderInv
  <2> QED BY <1>6, <2>2, <2>3 DEF Resolve
<1>7. ASSUME NEW p \in Agents, Bank(p) PROVE OrderInv'
  <2>1. UNCHANGED <<agent, stash, launchedAt, stale, pending, recorded>>
    BY <1>7 DEF Bank
  <2>2. Pending' = Pending /\ Launched' = Launched
    BY <2>1 DEF Pending, Launched
  <2>3. RanksInTurn'
    BY <2>1, <2>2, RanksKept
  <2>4. HookSettlesOldest'
    BY <1>7, <2>1, <2>2 DEF OrderInv, HookSettlesOldest, Bank, Goto, TypeInv, TypeOK
  <2>5. BankedLaunched' /\ BankedInLaunchOrder'
    BY <1>7, <2>1, <2>2
       DEF OrderInv, HookSettlesOldest, BankedLaunched, BankedInLaunchOrder, Bank
  <2> QED BY <2>3, <2>4, <2>5 DEF OrderInv
<1>8. CASE UNCHANGED vars
  BY <1>8, <1>1 DEF vars, Pending
<1> QED BY <1>2, <1>3, <1>4, <1>5, <1>6, <1>7, <1>8 DEF Next, HookStep

(* Nothing is launched at the start.                                         *)
LEMMA OrderInit == Init => OrderInv
<1> SUFFICES ASSUME Init PROVE OrderInv
  OBVIOUS
<1>1. Launched = {} /\ Pending = {}
  BY DEF Init, Launched, Pending
<1>2. Cardinality(Launched) = 0
  BY <1>1, FS_EmptySet
<1> QED
  BY <1>1, <1>2 DEF Init, OrderInv, RanksInTurn, HookSettlesOldest, BankedLaunched,
                    BankedInLaunchOrder

(* SettlementsFollowLaunches: under any conditions, and for any number of    *)
(* dispatches, no step is banked while an older one is pending.              *)
THEOREM SettlementsFollowLaunches == Spec => []BankedInLaunchOrder
<1>1. OrderInv => BankedInLaunchOrder
  BY DEF OrderInv
<1> QED BY TypeInvInit, TypeInvStep, OrderInit, OrderStep, <1>1, PTL DEF Spec

-----------------------------------------------------------------------------
(* The serial loop, when nothing goes wrong *)

Calm == Conditions = {}

(* One dispatch at a time is between its barrier and the end of its worker.  *)
OneUnderWay ==
  /\ \A a, b \in Attempts :
       agent[a] \in {"admitted", "running"} /\ agent[b] \in {"admitted", "running"} => a = b
  /\ \A a \in Attempts : agent[a] = "admitted" => Pending = {}

(* One step at a time is open, from its launch to the unlink of its stash,   *)
(* and none goes stale.                                                      *)
OneStepOpen ==
  /\ \A a, b \in Pending : a = b
  /\ \A a \in Pending : agent[a] = "running" \/ hook[a] \in BusyHook
  /\ \A a \in Attempts : agent[a] = "running" => a \in Pending
  /\ stale = {}

(* The stop hook that runs is the one of the open step, and settles it.      *)
HookSettlesItsOwn ==
  \A p \in Agents : hook[p] \in BusyHook =>
    /\ p \in Pending
    /\ agent[p] = "gone"
    /\ hook[p] # "resolve" => pending[p] = p

(* A banked step has been settled by its own stop.                           *)
BankedByItsOwn == \A r \in banked : r.by = r.step /\ agent[r.step] = "gone"

SerialInv == OneUnderWay /\ OneStepOpen /\ HookSettlesItsOwn /\ BankedByItsOwn

(* With one step open and none stale, the barrier admits when no step is open. *)
LEMMA BarrierMeansSettled ==
  ASSUME TypeInv, OneStepOpen, BarrierAdmits
  PROVE  Pending = {}
<1> SUFFICES ASSUME NEW a \in Pending PROVE FALSE
  OBVIOUS
<1>1. \A b \in Pending : b = a
  BY DEF OneStepOpen
<1>2. a \in Attempts /\ launchedAt[a] \in Nat
  BY DEF Pending, TypeInv, TypeOK
<1>3. Oldest(a)
  BY <1>1, <1>2 DEF Oldest
<1> QED BY <1>2, <1>3 DEF BarrierAdmits, OneStepOpen

(* An open step: its worker runs, or its hook does; the clock waits.         *)
LEMMA NothingGoesStale ==
  ASSUME Calm, TypeInv, SerialInv, NEW a \in Attempts
  PROVE  ~ GoStale(a)
BY DEF Calm, Met, SerialInv, OneStepOpen, GoStale, NoHookBusy, Agents, Pending

(* Every action keeps the loop serial.                                       *)
LEMMA SerialStep ==
  ASSUME Calm
  PROVE  TypeInv /\ SerialInv /\ [Next]_vars => SerialInv'
<1> SUFFICES ASSUME TypeInv, SerialInv, [Next]_vars PROVE SerialInv'
  OBVIOUS
<1> USE DEF SerialInv, OneUnderWay, OneStepOpen, HookSettlesItsOwn, BankedByItsOwn
<1>0. \A c \in AllConditions : ~ Met(c)
  BY DEF Calm, Met
<1>1. ASSUME NEW a \in Attempts, Admit(a) PROVE SerialInv'
  <2>1. Pending = {} /\ Pending' = Pending
    BY <1>1, BarrierMeansSettled DEF Admit, Pending
  <2>2. \A b \in Attempts : agent[b] \notin {"admitted", "running"}
    BY <1>0, <1>1, <2>1 DEF Admit, AllConditions
  <2>3. agent' = [agent EXCEPT ![a] = "admitted"] /\ UNCHANGED <<hook, pending, stale, banked>>
    BY <1>1 DEF Admit
  <2> QED BY <1>1, <2>1, <2>2, <2>3 DEF Admit, TypeInv, TypeOK, Agents
<1>2. ASSUME NEW a \in Attempts, Launch(a) PROVE SerialInv'
  <2>1. /\ agent[a] = "admitted" /\ Pending = {}
        /\ agent' = [agent EXCEPT ![a] = "running"]
        /\ stash' = [stash EXCEPT ![ClaimOf[a]] = a]
        /\ UNCHANGED <<stale, hook, pending, banked>>
    BY <1>2 DEF Launch
  <2>2. Pending' = {a}
    BY <2>1 DEF Pending, TypeInv, TypeOK
  <2>3. \A p \in Agents : hook[p] \notin BusyHook
    BY <2>1
  <2>4. \A b \in Attempts \ {a} : agent[b] \notin {"admitted", "running"}
    BY <2>1
  <2> QED BY <2>1, <2>2, <2>3, <2>4 DEF TypeInv, TypeOK, Agents
<1>3. ASSUME NEW a \in Attempts, GoStale(a) PROVE SerialInv'
  BY <1>3, NothingGoesStale
<1>4. ASSUME NEW a \in Attempts, WorkerStops(a) PROVE SerialInv'
  <2>1. /\ agent[a] = "running" /\ a \in Pending
        /\ agent' = [agent EXCEPT ![a] = "gone"]
        /\ hook' = [hook EXCEPT ![a] = "resolve"]
        /\ UNCHANGED <<stash, stale, pending, banked>>
    BY <1>4 DEF WorkerStops, Goto
  <2>2. Pending' = Pending
    BY <2>1 DEF Pending
  <2> QED BY <2>1, <2>2 DEF TypeInv, TypeOK, Agents, BusyHook
<1>5. ASSUME NEW a \in Attempts, StopIsLost(a) PROVE SerialInv'
  BY <1>0, <1>5 DEF StopIsLost, AllConditions
<1>6. ASSUME NEW p \in Agents, BystanderStops(p) \/ AppendRefused(p) \/ HookDies(p)
      PROVE  SerialInv'
  BY <1>0, <1>6 DEF BystanderStops, AppendRefused, HookDies, AllConditions
<1>7. ASSUME NEW p \in Agents, Resolve(p) PROVE SerialInv'
  <2>1. p \in Pending /\ agent[p] = "gone"
    BY <1>7 DEF Resolve, BusyHook
  <2>2. /\ pending' = [pending EXCEPT ![p] = p]
        /\ hook' = [hook EXCEPT ![p] = "record"]
        /\ UNCHANGED <<agent, stash, stale, banked>>
    BY <1>7, <2>1 DEF Resolve, Goto
  <2>3. Pending' = Pending
    BY <2>2 DEF Pending
  <2> QED BY <2>1, <2>2, <2>3 DEF TypeInv, TypeOK, Agents, BusyHook
<1>8. ASSUME NEW p \in Agents, Record(p) \/ Check(p) PROVE SerialInv'
  <2>1. p \in Pending /\ agent[p] = "gone" /\ pending[p] = p
    BY <1>8 DEF Record, Check, BusyHook
  <2>2. /\ \E h \in BusyHook : h # "resolve" /\ hook' = [hook EXCEPT ![p] = h]
        /\ UNCHANGED <<agent, stash, stale, banked, pending>>
    BY <1>8, <2>1 DEF Record, Check, Goto, BusyHook
  <2>3. Pending' = Pending
    BY <2>2 DEF Pending
  <2> QED BY <2>1, <2>2, <2>3 DEF TypeInv, TypeOK, Agents
<1>9. ASSUME NEW p \in Agents, Bank(p) PROVE SerialInv'
  <2>1. p \in Pending /\ agent[p] = "gone" /\ pending[p] = p
    BY <1>9 DEF Bank, BusyHook
  <2>2. /\ hook' = [hook EXCEPT ![p] = "unlink"]
        /\ banked' = banked \cup {[step |-> p, by |-> p]}
        /\ UNCHANGED <<agent, stash, stale, pending>>
    BY <1>9, <2>1 DEF Bank, Goto
  <2>3. Pending' = Pending
    BY <2>2 DEF Pending
  <2> QED BY <2>1, <2>2, <2>3 DEF TypeInv, TypeOK, Agents, BusyHook
<1>10. ASSUME NEW p \in Agents, Unlink(p) PROVE SerialInv'
  <2>1. p \in Pending /\ agent[p] = "gone" /\ pending[p] = p
    BY <1>10 DEF Unlink, BusyHook
  <2>2. /\ hook' = [hook EXCEPT ![p] = "none"]
        /\ pending' = [pending EXCEPT ![p] = None]
        /\ stash' = [stash EXCEPT ![ClaimOf[p]] = None]
        /\ UNCHANGED <<agent, stale, banked>>
    BY <1>10, <2>1 DEF Unlink, Goto, Leave
  <2>3. Pending' = {} /\ Pending = {p}
    BY <2>1, <2>2 DEF Pending, TypeInv, TypeOK
  <2> QED BY <2>1, <2>2, <2>3 DEF TypeInv, TypeOK, Agents, BusyHook
<1>11. CASE UNCHANGED vars
  BY <1>11 DEF vars, Pending
<1> QED
  BY <1>1, <1>2, <1>3, <1>4, <1>5, <1>6, <1>7, <1>8, <1>9, <1>10, <1>11
     DEF Next, HookStep

(* Nothing is open at the start.                                             *)
LEMMA SerialInit == Init => SerialInv
BY DEF Init, SerialInv, OneUnderWay, OneStepOpen, HookSettlesItsOwn, BankedByItsOwn,
       Pending, BusyHook, Agents

(* LoopIsSerial: when no stop is lost or refused and no chain overlaps       *)
(* another, the barrier alone keeps workers from running side by side.       *)
THEOREM LoopIsSerial == ASSUME Calm PROVE Spec => []OneWorkerAtATime
<1>1. SerialInv => OneWorkerAtATime
  BY DEF SerialInv, OneUnderWay, OneWorkerAtATime
<1> QED BY TypeInvInit, TypeInvStep, SerialInit, SerialStep, <1>1, PTL DEF Spec

(* NothingPricedInFlight: in the serial loop no transition is banked for a   *)
(* step whose worker still runs.                                             *)
THEOREM NothingPricedInFlight == ASSUME Calm PROVE Spec => []SettledAfterItsWorker
<1>1. SerialInv => SettledAfterItsWorker
  BY DEF SerialInv, BankedByItsOwn, SettledAfterItsWorker
<1> QED BY TypeInvInit, TypeInvStep, SerialInit, SerialStep, <1>1, PTL DEF Spec

(* EachStopSettlesItsOwn: in the serial loop the stash that the stop of a    *)
(* worker finds is the one of that worker, although nothing names it.        *)
THEOREM EachStopSettlesItsOwn == ASSUME Calm PROVE Spec => []SettlesOwnStep
<1>1. SerialInv => SettlesOwnStep
  BY DEF SerialInv, BankedByItsOwn, SettlesOwnStep
<1> QED BY TypeInvInit, TypeInvStep, SerialInit, SerialStep, <1>1, PTL DEF Spec

(* NoDoubleBanking: in the serial loop no step is banked by two stops.       *)
THEOREM NoDoubleBanking == ASSUME Calm PROVE Spec => []BankedOnce
<1>1. TypeInv /\ SerialInv => BankedOnce
  BY DEF SerialInv, BankedByItsOwn, BankedOnce, TypeInv, TypeOK, Row
<1> QED BY TypeInvInit, TypeInvStep, SerialInit, SerialStep, <1>1, PTL DEF Spec
-----------------------------------------------------------------------------
(* The serial loop implements its abstractions                               *)

(* The row of the open step is written by the Bank of its hook: not before,  *)
(* and before the hook comes to Unlink.                                      *)
BankedBeforeUnlink ==
  \A p \in Agents : hook[p] \in BusyHook =>
    (hook[p] = "unlink" <=> \E r \in banked : r.step = p)

(* A step that is launched and no longer pending has been banked.            *)
ClosedIsBanked ==
  \A a \in Launched \ Pending : \E r \in banked : r.step = a

LoopInv ==
  TypeInv /\ OrderInv /\ SerialInv /\ BankedBeforeUnlink /\ ClosedIsBanked

(* Outside Launch, Bank and Unlink, and but for the hook that starts, the    *)
(* rows and the pending steps stay as they are.                              *)
LEMMA RowsStay ==
  ASSUME LoopInv, UNCHANGED <<stash, launchedAt, banked>>,
         \A p \in Agents : hook'[p] \in BusyHook =>
           \/ hook[p] \in BusyHook /\ (hook'[p] = "unlink" <=> hook[p] = "unlink")
           \/ hook'[p] = "resolve" /\ p \in Attempts /\ agent[p] # "gone"
  PROVE  BankedBeforeUnlink' /\ ClosedIsBanked'
<1>1. Pending' = Pending /\ Launched' = Launched
  BY DEF Pending, Launched
<1>2. \A p \in Attempts : agent[p] # "gone" => ~ \E r \in banked : r.step = p
  BY DEF LoopInv, SerialInv, BankedByItsOwn
<1> QED
  BY <1>1, <1>2 DEF LoopInv, BankedBeforeUnlink, ClosedIsBanked

(* Every action keeps what is closed banked, and banks what it closes.       *)
LEMMA LoopStep ==
  ASSUME Calm
  PROVE  LoopInv /\ [Next]_vars => LoopInv'
<1> SUFFICES ASSUME LoopInv, [Next]_vars PROVE BankedBeforeUnlink' /\ ClosedIsBanked'
  BY TypeInvStep, OrderStep, SerialStep DEF LoopInv
<1> DEFINE Rows == BankedBeforeUnlink /\ ClosedIsBanked
<1>0. \A c \in AllConditions : ~ Met(c)
  BY DEF Calm, Met
<1>00. TypeInv /\ OrderInv /\ SerialInv
  BY DEF LoopInv
<1>1. ASSUME NEW a \in Attempts, Admit(a) \/ GoStale(a) PROVE Rows'
  BY <1>1, RowsStay DEF Admit, GoStale
<1>2. ASSUME NEW a \in Attempts, Launch(a) PROVE Rows'
  <2>1. UNCHANGED <<hook, banked>> /\ Pending = {}
    BY <1>2, <1>00 DEF Launch, SerialInv, OneUnderWay
  <2>2. Launched' = Launched \cup {a}
    BY <1>2, <1>00, LaunchRanks
  <2>3. a \in Pending'
    BY <1>2, <1>00 DEF Launch, Pending, TypeInv, TypeOK
  <2> QED BY <2>1, <2>2, <2>3 DEF LoopInv, BankedBeforeUnlink, ClosedIsBanked
<1>3. ASSUME NEW a \in Attempts, WorkerStops(a) PROVE Rows'
  BY <1>3, <1>00, RowsStay DEF WorkerStops, Goto, TypeInv, TypeOK
<1>4. ASSUME NEW a \in Attempts, StopIsLost(a) PROVE Rows'
  BY <1>0, <1>4 DEF StopIsLost, AllConditions
<1>5. ASSUME NEW p \in Agents, BystanderStops(p) \/ AppendRefused(p) \/ HookDies(p)
      PROVE  Rows'
  BY <1>0, <1>5 DEF BystanderStops, AppendRefused, HookDies, AllConditions
<1>6. ASSUME NEW p \in Agents, Resolve(p) \/ Record(p) \/ Check(p) PROVE Rows'
  BY <1>6, <1>00, RowsStay
     DEF Resolve, Record, Check, Goto, Leave, BusyHook, TypeInv, TypeOK
<1>7. ASSUME NEW p \in Agents, Bank(p) PROVE Rows'
  <2>1. p \in Pending /\ pending[p] = p /\ \A q \in Agents : hook[q] \in BusyHook => q = p
    BY <1>7, <1>00 DEF Bank, BusyHook, SerialInv, HookSettlesItsOwn, OneStepOpen
  <2>2. /\ hook' = [hook EXCEPT ![p] = "unlink"]
        /\ banked' = banked \cup {[step |-> p, by |-> p]}
        /\ UNCHANGED <<stash, launchedAt>>
    BY <1>7, <2>1 DEF Bank, Goto
  <2>3. Pending' = Pending /\ Launched' = Launched
    BY <2>2 DEF Pending, Launched
  <2>4. \A q \in Agents : (\E r \in banked' : r.step = q)
                            <=> q = p \/ \E r \in banked : r.step = q
    <3> DEFINE row == [step |-> p, by |-> p]
    <3>1. row.step = p
      OBVIOUS
    <3>2. banked' = banked \cup {row}
      BY <2>2
    <3> HIDE DEF row
    <3> QED BY <3>1, <3>2
  <2>5. \A q \in Agents : hook'[q] \in BusyHook => q = p
    BY <2>1, <2>2, <1>00 DEF TypeInv, TypeOK
  <2>6. hook'[p] = "unlink"
    BY <1>7, <2>2, <1>00 DEF TypeInv, TypeOK
  <2>7. BankedBeforeUnlink'
    BY <2>4, <2>5, <2>6 DEF BankedBeforeUnlink
  <2>8. ClosedIsBanked'
    BY <2>2, <2>3 DEF LoopInv, ClosedIsBanked
  <2> QED BY <2>7, <2>8
<1>8. ASSUME NEW p \in Agents, Unlink(p) PROVE Rows'
  <2>1. p \in Pending /\ pending[p] = p /\ \E r \in banked : r.step = p
    BY <1>8, <1>00
       DEF Unlink, BusyHook, SerialInv, HookSettlesItsOwn, LoopInv, BankedBeforeUnlink
  <2>2. /\ hook' = [hook EXCEPT ![p] = "none"]
        /\ stash' = [stash EXCEPT ![ClaimOf[p]] = None]
        /\ UNCHANGED <<banked, launchedAt>>
    BY <1>8, <2>1 DEF Unlink, Goto, Leave
  <2>3. Pending \ {p} \subseteq Pending' /\ Launched' = Launched
    BY <2>1, <2>2, <1>00
       DEF Pending, Launched, TypeInv, TypeOK, SerialInv, OneStepOpen
  <2> QED
    BY <2>1, <2>2, <2>3, <1>00
       DEF LoopInv, BankedBeforeUnlink, ClosedIsBanked, BusyHook, TypeInv, TypeOK
<1>9. CASE UNCHANGED vars
  BY <1>9, RowsStay DEF vars
<1> QED
  BY <1>1, <1>2, <1>3, <1>4, <1>5, <1>6, <1>7, <1>8, <1>9 DEF Next, HookStep

(* At the start nothing is launched, banked or pending.                      *)
LEMMA LoopInit == Init => LoopInv
<1> SUFFICES ASSUME Init PROVE LoopInv
  OBVIOUS
<1>1. Launched = {}
  BY DEF Init, Launched
<1>2. BankedBeforeUnlink /\ ClosedIsBanked
  BY <1>1 DEF Init, BankedBeforeUnlink, ClosedIsBanked, BusyHook
<1> QED BY <1>2, TypeInvInit, OrderInit, SerialInit DEF LoopInv

SettledStep == [Settled!Next]_(Settled!vars)

(* A step of which neither the life of an attempt nor a row changes.         *)
LEMMA LifeStays ==
  ASSUME UNCHANGED <<stash, launchedAt, banked>>,
         \A a \in Attempts : agent'[a] = "running" <=> agent[a] = "running"
  PROVE  SettledStep
BY DEF Life, Pending, SettledStep, Settled!vars

(* Every step of the serial loop is a step of the settled loop, or none.     *)
LEMMA StepIsSettled ==
  ASSUME Calm, LoopInv, LoopInv', [Next]_vars
  PROVE  SettledStep
<1>0. \A c \in AllConditions : ~ Met(c)
  BY DEF Calm, Met
<1>00. TypeInv /\ OrderInv /\ SerialInv /\ ClosedIsBanked /\ BankedBeforeUnlink
  BY DEF LoopInv
<1>1. ASSUME NEW a \in Attempts, Admit(a) PROVE SettledStep
  BY <1>1, <1>00, LifeStays DEF Admit, TypeInv, TypeOK
<1>2. ASSUME NEW a \in Attempts, Launch(a) PROVE SettledStep
  <2>1. /\ agent[a] = "admitted" /\ Pending = {}
        /\ \A b \in Attempts : agent[b] # "running"
        /\ agent' = [agent EXCEPT ![a] = "running"]
        /\ UNCHANGED banked
    BY <1>2, <1>00 DEF Launch, SerialInv, OneUnderWay
  <2>2. /\ launchedAt[a] = 0 /\ launchedAt'[a] # 0
        /\ \A b \in Attempts \ {a} : launchedAt'[b] = launchedAt[b]
        /\ Pending' \subseteq {a}
    BY <1>2, <2>1, <1>00, LaunchRanks
  <2>3. \A b \in Attempts : Life[b] = IF launchedAt[b] = 0 THEN "idle" ELSE "closed"
    BY <2>1 DEF Life
  <2>4. \A b \in Attempts \ {a} : Life'[b] = Life[b]
    BY <2>1, <2>2, <2>3, <1>00 DEF Life, TypeInv, TypeOK, Agents
  <2>5. Life[a] = "idle" /\ Life'[a] = "working"
    BY <2>1, <2>2, <2>3, <1>00 DEF Life, TypeInv, TypeOK, Agents
  <2>6. Life' = [Life EXCEPT ![a] = "working"]
    BY <2>4, <2>5 DEF Life
  <2>7. Settled!Start(a)
    BY <2>1, <2>3, <2>5, <2>6 DEF Settled!Start, Settled!Moves
  <2> QED BY <2>7 DEF SettledStep, Settled!Next
<1>3. ASSUME NEW a \in Attempts, GoStale(a) PROVE SettledStep
  BY <1>3, <1>00, NothingGoesStale
<1>4. ASSUME NEW a \in Attempts, WorkerStops(a) PROVE SettledStep
  <2>1. /\ agent[a] = "running" /\ a \in Pending /\ launchedAt[a] # 0
        /\ ~ \E r \in banked : r.step = a
    BY <1>4, <1>00 DEF WorkerStops, SerialInv, OneStepOpen, BankedByItsOwn,
                       OrderInv, RanksInTurn, Launched
  <2>2. /\ agent' = [agent EXCEPT ![a] = "gone"]
        /\ UNCHANGED <<stash, launchedAt, banked>> /\ Pending' = Pending
    BY <1>4 DEF WorkerStops, Pending
  <2>3. \A b \in Attempts \ {a} : Life'[b] = Life[b]
    BY <2>1, <2>2, <1>00 DEF Life, TypeInv, TypeOK, Agents
  <2>4. Life[a] = "working" /\ Life'[a] = "ended"
    BY <2>1, <2>2, <1>00 DEF Life, TypeInv, TypeOK, Agents
  <2>5. Life' = [Life EXCEPT ![a] = "ended"]
    BY <2>3, <2>4 DEF Life
  <2> QED
    BY <2>2, <2>4, <2>5 DEF SettledStep, Settled!Next, Settled!End, Settled!Moves
<1>5. ASSUME NEW a \in Attempts, StopIsLost(a) PROVE SettledStep
  BY <1>0, <1>5 DEF StopIsLost, AllConditions
<1>6. ASSUME NEW p \in Agents, BystanderStops(p) \/ AppendRefused(p) \/ HookDies(p)
      PROVE  SettledStep
  BY <1>0, <1>6 DEF BystanderStops, AppendRefused, HookDies, AllConditions
<1>7. ASSUME NEW p \in Agents, Resolve(p) \/ Record(p) \/ Check(p) PROVE SettledStep
  BY <1>7, LifeStays DEF Resolve, Record, Check
<1>8. ASSUME NEW p \in Agents, Bank(p) PROVE SettledStep
  <2>1. /\ p \in Pending /\ pending[p] = p /\ agent[p] = "gone" /\ launchedAt[p] # 0
        /\ ~ \E r \in banked : r.step = p
    BY <1>8, <1>00
       DEF Bank, BusyHook, SerialInv, HookSettlesItsOwn, OrderInv, RanksInTurn,
           Launched, BankedBeforeUnlink
  <2>2. /\ banked' = banked \cup {[step |-> p, by |-> p]}
        /\ UNCHANGED <<agent, stash, launchedAt>> /\ Pending' = Pending
    BY <1>8, <2>1 DEF Bank, Pending
  <2>3. p \in Attempts
    BY <2>1 DEF Pending
  <2>4. \A a \in Attempts : (\E r \in banked' : r.step = a)
                            <=> a = p \/ \E r \in banked : r.step = a
    <3> DEFINE row == [step |-> p, by |-> p]
    <3>1. row.step = p
      OBVIOUS
    <3>2. banked' = banked \cup {row}
      BY <2>2
    <3> HIDE DEF row
    <3> QED BY <3>1, <3>2
  <2>5. Life[p] = "ended" /\ Life' = [Life EXCEPT ![p] = "banked"]
    BY <2>1, <2>2, <2>3, <2>4 DEF Life
  <2> QED
    BY <2>2, <2>3, <2>5 DEF SettledStep, Settled!Next, Settled!Bank, Settled!Moves
<1>9. ASSUME NEW p \in Agents, Unlink(p) PROVE SettledStep
  <2>1. /\ p \in Pending /\ pending[p] = p /\ agent[p] = "gone" /\ launchedAt[p] # 0
        /\ \E r \in banked : r.step = p
    BY <1>9, <1>00
       DEF Unlink, BusyHook, SerialInv, HookSettlesItsOwn, OrderInv, RanksInTurn,
           Launched, BankedBeforeUnlink
  <2>2. /\ stash' = [stash EXCEPT ![ClaimOf[p]] = None]
        /\ UNCHANGED <<agent, launchedAt, banked>>
    BY <1>9, <2>1 DEF Unlink
  <2>3. p \in Attempts /\ Pending = {p} /\ Pending' = {}
    BY <2>1, <2>2, <1>00 DEF Pending, TypeInv, TypeOK, SerialInv, OneStepOpen
  <2>4. Life[p] = "banked" /\ Life' = [Life EXCEPT ![p] = "closed"]
    BY <2>1, <2>2, <2>3 DEF Life
  <2> QED
    BY <2>2, <2>3, <2>4 DEF SettledStep, Settled!Next, Settled!Close, Settled!Moves
<1>10. CASE UNCHANGED vars
  BY <1>10, LifeStays DEF vars
<1> QED
  BY <1>1, <1>2, <1>3, <1>4, <1>5, <1>6, <1>7, <1>8, <1>9, <1>10 DEF Next, HookStep

(* SettledRefinement: in the serial loop every attempt goes through the life *)
(* of a SettledLoop, stash by stash and row by row.                          *)
THEOREM SettledRefinement == ASSUME Calm PROVE Spec => ImplementsSettledLoop
<1>1. Init => Settled!Init
  BY DEF Init, Settled!Init, Life
<1>2. LoopInv /\ LoopInv' /\ [Next]_vars => [Settled!Next]_(Settled!vars)
  BY StepIsSettled DEF SettledStep
<1> QED
  BY LoopInit, LoopStep, <1>1, <1>2, PTL
  DEF Spec, ImplementsSettledLoop, Settled!Spec

SerialStepTaken == [Serial!Next]_(Serial!vars)

(* Every step of the serial loop opens, ends or closes one step, or none.    *)
LEMMA StepIsSerial ==
  ASSUME Calm, TypeInv, SerialInv, [Next]_vars
  PROVE  SerialStepTaken
<1> DEFINE Running == {a \in Attempts : agent[a] = "running"}
<1>0. \A c \in AllConditions : ~ Met(c)
  BY DEF Calm, Met
<1>1. ASSUME UNCHANGED stash,
             \A a \in Attempts : agent'[a] = "running" <=> agent[a] = "running"
      PROVE  SerialStepTaken
  BY <1>1 DEF Pending, SerialStepTaken, Serial!vars
<1>2. ASSUME NEW a \in Attempts, Launch(a) PROVE SerialStepTaken
  <2>1. Pending = {} /\ Running = {}
    BY <1>2 DEF Launch, SerialInv, OneUnderWay
  <2>2. Pending' = {a} /\ Running' = {a}
    BY <1>2, <2>1 DEF Launch, Pending, TypeInv, TypeOK, Agents
  <2> QED BY <2>1, <2>2 DEF SerialStepTaken, Serial!Next, Serial!Open
<1>3. ASSUME NEW a \in Attempts, WorkerStops(a) PROVE SerialStepTaken
  <2>1. a \in Running /\ Running' = Running \ {a} /\ Pending' = Pending
    BY <1>3 DEF WorkerStops, Pending, TypeInv, TypeOK, Agents
  <2> QED BY <2>1 DEF SerialStepTaken, Serial!Next, Serial!End
<1>4. ASSUME NEW p \in Agents, Unlink(p) PROVE SerialStepTaken
  <2>1. /\ p \in Pending /\ pending[p] = p /\ agent[p] = "gone"
        /\ \A a, b \in Pending : a = b
    BY <1>4 DEF Unlink, BusyHook, SerialInv, HookSettlesItsOwn, OneStepOpen
  <2>2. /\ stash' = [stash EXCEPT ![ClaimOf[p]] = None]
        /\ UNCHANGED agent
    BY <1>4, <2>1 DEF Unlink
  <2>3. p \in Attempts /\ Pending' = Pending \ {p} /\ Running' = Running \ {p}
    BY <2>1, <2>2 DEF Pending, TypeInv, TypeOK
  <2> QED BY <2>1, <2>3 DEF SerialStepTaken, Serial!Next, Serial!Close
<1>5. ASSUME NEW a \in Attempts, Admit(a) \/ GoStale(a) PROVE SerialStepTaken
  BY <1>1, <1>5 DEF Admit, GoStale, TypeInv, TypeOK, Agents
<1>6. ASSUME NEW p \in Agents, Resolve(p) \/ Record(p) \/ Check(p) \/ Bank(p)
      PROVE  SerialStepTaken
  BY <1>1, <1>6 DEF Resolve, Record, Check, Bank
<1>7. ASSUME NEW p \in Agents, BystanderStops(p) \/ AppendRefused(p) \/ HookDies(p)
      PROVE  SerialStepTaken
  BY <1>0, <1>7 DEF BystanderStops, AppendRefused, HookDies, AllConditions
<1>8. ASSUME NEW a \in Attempts, StopIsLost(a) PROVE SerialStepTaken
  BY <1>0, <1>8 DEF StopIsLost, AllConditions
<1>9. CASE UNCHANGED vars
  BY <1>1, <1>9 DEF vars
<1> QED
  BY <1>2, <1>3, <1>4, <1>5, <1>6, <1>7, <1>8, <1>9 DEF Next, HookStep

(* SerialRefinement: what the modules above the barrier take for granted,    *)
(* one open step with its worker, is what the barrier and the stop hook give *)
(* them.                                                                     *)
THEOREM SerialRefinement == ASSUME Calm PROVE Spec => ImplementsSerialSteps
<1>1. Init => Serial!Init
  BY DEF Init, Serial!Init, Pending, Agents
<1>2. TypeInv /\ SerialInv /\ [Next]_vars => [Serial!Next]_(Serial!vars)
  BY StepIsSerial DEF SerialStepTaken
<1> QED
  BY TypeInvInit, TypeInvStep, SerialInit, SerialStep, <1>1, <1>2, PTL
  DEF Spec, ImplementsSerialSteps, Serial!Spec
=============================================================================
