------------------------ MODULE SessionRecoveryProofs -------------------------
(***************************************************************************)
(* Proofs about SessionRecovery, for every set of sessions and kickers and *)
(* every choice of the spans that ConstantsAssumption allows.              *)
(*                                                                         *)
(* The argument for RecoveredInTime is a debt argument.  While the         *)
(* workspace has no session, either the time down, the time to the next    *)
(* round and the rounds that a lock may still cost are paid for by the     *)
(* silence, one round and the mishaps so far (Paid), or a kicker is under  *)
(* way that nothing but a mishap can stop from starting a session (Hope).  *)
(***************************************************************************)
EXTENDS SessionRecovery, TLAPS

-----------------------------------------------------------------------------
AtStep(steps) == \E k \in Kickers : kicker[k] \in steps

Committed == AtStep({"owner", "kicking"})

Holding == AtStep({"owner", "kicking", "leaving"})

Allowance(n) == Interval * (1 + n)

Bound == Silence + Allowance(lost)

(* What the lock may still cost: a kicker that only has to release it blocks *)
(* the round that is due now; a lock that nobody holds blocks every round    *)
(* that comes before it is older than the interval.                          *)
Charge ==
  IF ~lock \/ Committed THEN 0
  ELSE IF Holding THEN IF due = 0 THEN Interval ELSE 0
  ELSE IF due + lockAge > Interval THEN 0
  ELSE IF due + lockAge = 0 THEN Interval + Interval
  ELSE Interval

Paid == down + due + Charge <= Bound

Retrying == AtStep({"retry"})

Contending == AtStep({"found", "stale"})

WillOwn == IF lock THEN Contending /\ lockAge > Interval ELSE Retrying

Hope == down <= Bound /\ (Committed \/ WillOwn)

(* A held lock was made in this round; one that nobody holds was left by a   *)
(* killed kicker.                                                            *)
LockInv ==
  /\ lock /\ Holding => lockAge = 0
  /\ lock /\ ~Holding => lost >= 2

(* Without a session no sign of life gets younger. *)
SilenceInv ==
  /\ Present # {} => down = 0
  /\ Present = {} => \A age \in {tickAge, actAge} : down <= age \/ age = Horizon
  /\ Met("workers") /\ Present = {} => down <= workerAge \/ workerAge = Horizon
  /\ ~Met("workers") => workerAge = Horizon

DebtInv == Present = {} => Paid \/ Hope

RecoveryInv == TypeOK /\ LockInv /\ SilenceInv /\ DebtInv

-----------------------------------------------------------------------------
(* The spans are numbers, in the order validate_interval and the policy ask. *)
LEMMA Spans ==
  /\ TickEvery \in Nat /\ Stale \in Nat /\ Fresh \in Nat /\ Interval \in Nat
  /\ Ttl \in Nat /\ BootTime \in Nat /\ Horizon \in Nat /\ MaxExtra \in Nat
  /\ MaxLost \in Nat /\ Patience \in Nat
  /\ 0 < TickEvery /\ TickEvery <= Stale
  /\ 0 < Interval /\ Interval < Ttl /\ BootTime < Interval
  /\ Stale < Horizon /\ Fresh < Horizon /\ Interval < Horizon /\ Ttl < Horizon
  /\ Stale + Interval * (1 + MaxLost) < Patience
  /\ Fresh + Interval * (1 + MaxLost) < Patience
<1>1. {TickEvery, Stale, Fresh, Interval, Ttl, BootTime, Horizon, MaxExtra, MaxLost,
       Patience} \subseteq Nat
  BY ConstantsAssumption
<1>2. \A span \in {Stale, Fresh, Interval, Ttl} : span < Horizon
  BY ConstantsAssumption
<1>3. \A span \in {Stale, Fresh} : span + Interval * (1 + MaxLost) < Patience
  BY ConstantsAssumption
<1> QED
  BY <1>1, <1>2, <1>3, ConstantsAssumption

(* The silence is one of the two thresholds. *)
LEMMA SilenceSpan ==
  /\ Silence \in Nat /\ Stale <= Silence /\ Silence < Horizon
  /\ (Met("workers") => Fresh <= Silence)
  /\ Silence + Allowance(MaxLost) < Patience
BY Spans DEF Silence, Allowance

(* A mishap buys the rounds it may cost. *)
LEMMA AllowanceGrows ==
  ASSUME NEW n \in Nat
  PROVE  /\ Allowance(n) \in Nat
         /\ Interval <= Allowance(n)
         /\ Allowance(n + 1) = Allowance(n) + Interval
         /\ Allowance(n + 2) = Allowance(n) + Interval + Interval
<1>1. Interval * n \in Nat
  BY Spans
<1>2. /\ Allowance(n) = Interval + Interval * n
      /\ Allowance(n + 1) = Interval + Interval + Interval * n
      /\ Allowance(n + 2) = Interval + Interval + Interval + Interval * n
  BY Spans DEF Allowance
<1> QED
  BY <1>1, <1>2, Spans

(* Two lost rounds pay for two more intervals. *)
LEMMA TwoLost ==
  ASSUME NEW n \in Nat, n >= 2
  PROVE  Allowance(n) >= Interval + Interval + Interval
<1>1. PICK m \in Nat : n = m + 2
  <2>1. n - 2 \in Nat /\ n = (n - 2) + 2
    OBVIOUS
  <2> QED
    BY <2>1
<1>2. /\ Allowance(m) \in Nat /\ Interval <= Allowance(m)
      /\ Allowance(m + 2) = Allowance(m) + Interval + Interval
  BY AllowanceGrows
<1> QED
  BY <1>1, <1>2, Spans

-----------------------------------------------------------------------------
(* Types *)

LEMMA StepTypes ==
  ASSUME TypeOK, Next
  PROVE  TypeOK'
<1> USE DEF TypeOK, Age, Steps, signs, people, count
<1>1. ASSUME NEW k \in Kickers, NEW step \in Steps, Becomes(k, step)
      PROVE  kicker' \in [Kickers -> Steps]
  BY <1>1 DEF Becomes
<1>2. ASSUME NEW k \in Kickers, NEW step \in Steps, Create(k, step)
      PROVE  /\ kicker' \in [Kickers -> Steps]
             /\ lock' \in BOOLEAN
             /\ lockAge' \in Age
  <2>1. CASE lock
    BY <1>2, <2>1 DEF Create, Becomes
  <2>2. CASE ~lock
    BY <1>2, <2>2, Spans DEF Create, Becomes
  <2> QED
    BY <2>1, <2>2
<1>3. ASSUME NEW k \in Kickers, Launch(k)
      PROVE  TypeOK'
  BY <1>2, <1>3, Spans DEF Launch
<1>4. ASSUME NEW k \in Kickers, LaunchBesides(k)
      PROVE  TypeOK'
  BY <1>2, <1>4, Spans DEF LaunchBesides
<1>5. ASSUME NEW k \in Kickers, Stat(k)
      PROVE  TypeOK'
  BY <1>1, <1>5 DEF Stat
<1>6. ASSUME NEW k \in Kickers, Unlink(k)
      PROVE  TypeOK'
  <2>1. kicker' \in [Kickers -> Steps]
    <3>1. (IF lock THEN "retry" ELSE "idle") \in Steps
      OBVIOUS
    <3> QED
      BY <1>1, <1>6, <3>1 DEF Unlink
  <2>2. lock' \in BOOLEAN
    BY <1>6 DEF Unlink, NoLock
  <2>3. lockAge' \in Age
    BY <1>6, Spans DEF Unlink, NoLock
  <2> QED
    BY <1>6, <2>1, <2>2, <2>3 DEF Unlink
<1>7. ASSUME NEW k \in Kickers, Recreate(k)
      PROVE  TypeOK'
  BY <1>2, <1>7 DEF Recreate
<1>8. ASSUME NEW k \in Kickers, Look(k)
      PROVE  TypeOK'
  BY <1>1, <1>8 DEF Look
<1>9. ASSUME NEW k \in Kickers, Spawn(k)
      PROVE  TypeOK'
  BY <1>1, <1>9, Spans DEF Spawn
<1>10. ASSUME NEW k \in Kickers, SpawnFails(k)
       PROVE  TypeOK'
  BY <1>1, <1>10, Spans DEF SpawnFails
<1>11. ASSUME NEW k \in Kickers, Release(k)
       PROVE  TypeOK'
  <2>1. kicker' \in [Kickers -> Steps]
    BY <1>1, <1>11 DEF Release
  <2>2. lock' \in BOOLEAN
    BY <1>11 DEF Release, NoLock
  <2>3. lockAge' \in Age
    BY <1>11, Spans DEF Release, NoLock
  <2> QED
    BY <1>11, <2>1, <2>2, <2>3 DEF Release
<1>12. ASSUME NEW k \in Kickers, Killed(k)
       PROVE  TypeOK'
  BY <1>1, <1>12, Spans DEF Killed
<1>13. ASSUME NEW s \in Sessions, Boot(s) \/ Die(s)
       PROVE  TypeOK'
  BY <1>13, Spans DEF Boot, Die
<1>14. CASE Touch \/ Renew \/ WorkerWrites \/ WorkersEnd
  BY <1>14, Spans DEF Touch, Renew, WorkerWrites, WorkersEnd
<1>15. CASE Pass
  <2>1. \A age \in Age : Older(age) \in Age
    BY Spans DEF Older
  <2>2. /\ tickAge' \in Age
        /\ actAge' \in Age
        /\ workerAge' \in Age
        /\ lockAge' \in Age
    BY <1>15, <2>1 DEF Pass
  <2>3. bootAge' \in [Sessions -> 0 .. BootTime]
    BY <1>15, Spans DEF Pass
  <2>4. due' \in 0 .. Interval /\ down' \in 0 .. Patience
    BY <1>15, Spans DEF Pass
  <2> QED
    BY <1>15, <2>2, <2>3, <2>4 DEF Pass
<1> QED
  BY <1>3, <1>4, <1>5, <1>6, <1>7, <1>8, <1>9, <1>10, <1>11, <1>12, <1>13, <1>14,
     <1>15 DEF Next, Kick, KickerStep, Live

LEMMA InitTypes == Init => TypeOK
<1> SUFFICES ASSUME Init
             PROVE  TypeOK
  OBVIOUS
<1>1. session \in [Sessions -> {"none", "starting", "alive"}]
  BY DEF Init
<1>2. lock \in BOOLEAN
  BY DEF Init
<1>3. bootAge \in [Sessions -> 0 .. BootTime] /\ kicker \in [Kickers -> Steps]
  BY Spans DEF Init, Steps
<1>4. /\ tickAge \in Age /\ actAge \in Age /\ workerAge \in Age /\ lockAge \in Age
      /\ due \in 0 .. Interval /\ down \in 0 .. Patience
      /\ lost \in 0 .. MaxLost /\ extra \in 0 .. MaxExtra
  BY Spans DEF Init, Age
<1> QED
  BY <1>1, <1>2, <1>3, <1>4 DEF TypeOK

(* Every variable keeps its type: no age passes the horizon and no step of a *)
(* kicker leaves the steps of acquire_kick_lock and tick.                    *)
THEOREM TypesCorrect == Spec => []TypeOK
<1>1. TypeOK /\ [Next]_vars => TypeOK'
  BY StepTypes DEF TypeOK, vars, signs, people, count
<1> QED
  BY InitTypes, <1>1, PTL DEF Spec

-----------------------------------------------------------------------------
(* What a state and a step are made of *)

NumbersHold ==
  /\ down \in Nat /\ due \in Nat /\ lockAge \in Nat /\ lost \in Nat
  /\ due <= Interval /\ lock \in BOOLEAN
  /\ Bound \in Nat /\ Silence + Interval <= Bound
  /\ lost >= 2 => Silence + Interval + Interval + Interval <= Bound
  /\ Charge \in Nat /\ due + Charge <= Interval + Interval

LEMMA Numbers == TypeOK => NumbersHold
<1> SUFFICES ASSUME TypeOK
             PROVE  NumbersHold
  OBVIOUS
<1>1. /\ down \in Nat /\ due \in Nat /\ lockAge \in Nat /\ lost \in Nat
      /\ due <= Interval /\ lock \in BOOLEAN
  BY Spans DEF TypeOK, Age
<1>2. Bound \in Nat /\ Silence + Interval <= Bound
  BY <1>1, SilenceSpan, AllowanceGrows, Spans DEF Bound
<1>3. lost >= 2 => Silence + Interval + Interval + Interval <= Bound
  BY <1>1, SilenceSpan, AllowanceGrows, TwoLost, Spans DEF Bound
<1>4. Charge \in Nat /\ due + Charge <= Interval + Interval
  BY <1>1, Spans DEF Charge
<1> QED
  BY <1>1, <1>2, <1>3, <1>4 DEF NumbersHold

(* They hold after a step as well. *)
LEMMA NumbersNext == TypeOK' => NumbersHold'
<1>1. TypeOK => NumbersHold
  BY Numbers
<1> QED
  BY <1>1, PTL

(* Within the silence nothing is owed yet. *)
LEMMA EarlyPaid == TypeOK /\ LockInv /\ down <= Silence => Paid
<1> SUFFICES ASSUME TypeOK, LockInv, down <= Silence
             PROVE  Paid
  OBVIOUS
<1> NumbersHold
  BY Numbers
<1> USE DEF NumbersHold
<1>1. CASE lock /\ ~Holding
  BY <1>1, SilenceSpan, Spans DEF LockInv, Paid
<1>2. CASE ~lock \/ Holding
  BY <1>2, SilenceSpan, Spans DEF Paid, Charge
<1> QED
  BY <1>1, <1>2

(* Who is at a set of steps after one kicker has moved. *)
LEMMA Moves ==
  ASSUME TypeOK, NEW k \in Kickers, NEW step \in Steps, Becomes(k, step), NEW steps
  PROVE  /\ step \in steps => AtStep(steps)'
         /\ kicker[k] \in steps => AtStep(steps)
         /\ step \notin steps /\ AtStep(steps)' => AtStep(steps)
         /\ kicker[k] \notin steps /\ AtStep(steps) => AtStep(steps)'
<1> USE DEF TypeOK, Becomes, AtStep
<1>1. \A j \in Kickers : kicker'[j] = IF j = k THEN step ELSE kicker[j]
  OBVIOUS
<1> QED
  BY <1>1

(* The same for the sets of steps the invariants speak of. *)
LEMMA MovesAt ==
  ASSUME TypeOK, NEW k \in Kickers, NEW step \in Steps, Becomes(k, step)
  PROVE  /\ step \in {"owner", "kicking"} => Committed'
         /\ kicker[k] \in {"owner", "kicking"} => Committed
         /\ step \notin {"owner", "kicking"} /\ Committed' => Committed
         /\ kicker[k] \notin {"owner", "kicking"} /\ Committed => Committed'
         /\ step \in {"owner", "kicking", "leaving"} => Holding'
         /\ kicker[k] \in {"owner", "kicking", "leaving"} => Holding
         /\ step \notin {"owner", "kicking", "leaving"} /\ Holding' => Holding
         /\ kicker[k] \notin {"owner", "kicking", "leaving"} /\ Holding => Holding'
         /\ step = "retry" => Retrying'
         /\ kicker[k] # "retry" /\ Retrying => Retrying'
         /\ step \in {"found", "stale"} => Contending'
         /\ kicker[k] \notin {"found", "stale"} /\ Contending => Contending'
<1>1. /\ step \in {"owner", "kicking"} => Committed'
      /\ kicker[k] \in {"owner", "kicking"} => Committed
      /\ step \notin {"owner", "kicking"} /\ Committed' => Committed
      /\ kicker[k] \notin {"owner", "kicking"} /\ Committed => Committed'
  BY Moves DEF Committed
<1>2. /\ step \in {"owner", "kicking", "leaving"} => Holding'
      /\ kicker[k] \in {"owner", "kicking", "leaving"} => Holding
      /\ step \notin {"owner", "kicking", "leaving"} /\ Holding' => Holding
      /\ kicker[k] \notin {"owner", "kicking", "leaving"} /\ Holding => Holding'
  BY Moves DEF Holding
<1>3. /\ step = "retry" => Retrying'
      /\ kicker[k] # "retry" /\ Retrying => Retrying'
  BY Moves DEF Retrying
<1>4. /\ step \in {"found", "stale"} => Contending'
      /\ kicker[k] \notin {"found", "stale"} /\ Contending => Contending'
  BY Moves DEF Contending
<1> QED
  BY <1>1, <1>2, <1>3, <1>4

LEMMA CreateMoves ==
  ASSUME TypeOK, NEW k \in Kickers, NEW otherwise \in {"found", "idle"},
         Create(k, otherwise)
  PROVE  \/ lock /\ Becomes(k, otherwise) /\ UNCHANGED <<lock, lockAge>>
         \/ ~lock /\ Becomes(k, "owner") /\ lock' /\ lockAge' = 0
BY DEF Create

-----------------------------------------------------------------------------
(* The lock *)

LEMMA StepLock ==
  ASSUME TypeOK, LockInv, Next
  PROVE  LockInv'
<1> USE DEF LockInv, signs, people, count
<1>1. ASSUME NEW k \in Kickers, NEW otherwise \in {"found", "idle"},
             kicker[k] \in {"idle", "retry"}, Create(k, otherwise), lost' = lost
      PROVE  LockInv'
  <2>1. otherwise \in Steps /\ "owner" \in Steps
    BY DEF Steps
  <2>2. CASE lock /\ Becomes(k, otherwise) /\ UNCHANGED <<lock, lockAge>>
    BY <1>1, <2>1, <2>2, MovesAt
  <2>3. CASE ~lock /\ Becomes(k, "owner") /\ lock' /\ lockAge' = 0
    BY <1>1, <2>1, <2>3, MovesAt
  <2> QED
    BY <1>1, <2>2, <2>3, CreateMoves
<1>2. ASSUME NEW k \in Kickers, Launch(k) \/ LaunchBesides(k) \/ Recreate(k)
      PROVE  LockInv'
  BY <1>1, <1>2 DEF Launch, LaunchBesides, Recreate
<1>3. ASSUME NEW k \in Kickers, Stat(k)
      PROVE  LockInv'
  <2>1. \E step \in {"idle", "stale"} : Becomes(k, step) /\ step \in Steps
    BY <1>3 DEF Stat, Steps
  <2> QED
    BY <1>3, <2>1, MovesAt DEF Stat
<1>4. ASSUME NEW k \in Kickers, Unlink(k) \/ Release(k)
      PROVE  LockInv'
  BY <1>4 DEF Unlink, Release, NoLock
<1>5. ASSUME NEW k \in Kickers, Look(k)
      PROVE  LockInv'
  <2>1. \E step \in {"kicking", "leaving"} : Becomes(k, step) /\ step \in Steps
    BY <1>5 DEF Look, Steps
  <2> QED
    BY <1>5, <2>1, MovesAt DEF Look
<1>6. ASSUME NEW k \in Kickers, Spawn(k) \/ SpawnFails(k)
      PROVE  LockInv'
  <2>1. Becomes(k, "leaving") /\ "leaving" \in Steps
    BY <1>6 DEF Spawn, SpawnFails, Steps
  <2> QED
    BY <1>6, <2>1, MovesAt DEF Spawn, SpawnFails
<1>7. ASSUME NEW k \in Kickers, Killed(k)
      PROVE  LockInv'
  <2>1. Becomes(k, "idle") /\ "idle" \in Steps
    BY <1>7 DEF Killed, Steps
  <2>2. lost' >= 2
    BY <1>7, Numbers DEF Killed, NumbersHold
  <2> QED
    BY <1>7, <2>1, <2>2, MovesAt DEF Killed
<1>8. CASE Live
  BY <1>8 DEF Live, Boot, Die, Touch, Renew, WorkerWrites, WorkersEnd, Holding, AtStep
<1>9. CASE Pass
  BY <1>9 DEF Pass, Holding, AtStep
<1> QED
  BY <1>2, <1>3, <1>4, <1>5, <1>6, <1>7, <1>8, <1>9 DEF Next, Kick, KickerStep

-----------------------------------------------------------------------------
(* The silence *)

(* A start leaves a session, a new one or all that have names. *)
LEMMA SpawnStarts ==
  ASSUME TypeOK, NEW k \in Kickers, Spawn(k)
  PROVE  Present' # {}
<1>1. CASE Present = Sessions /\ UNCHANGED session
  BY <1>1, ConstantsAssumption DEF Present
<1>2. ASSUME NEW s \in Sessions, session' = [session EXCEPT ![s] = "starting"]
      PROVE  Present' # {}
  BY <1>2 DEF Present, TypeOK
<1> QED
  BY <1>1, <1>2 DEF Spawn

LEMMA StepSilence ==
  ASSUME TypeOK, SilenceInv, Next
  PROVE  SilenceInv'
<1> USE DEF SilenceInv, signs, people, count
<1>1. ASSUME UNCHANGED <<signs, people>>
      PROVE  SilenceInv'
  BY <1>1 DEF Present
<1>2. ASSUME NEW k \in Kickers, Spawn(k)
      PROVE  SilenceInv'
  <2>1. down' = 0 /\ Present' # {}
    BY <1>2, SpawnStarts DEF Spawn
  <2> QED
    BY <1>2, <2>1 DEF Spawn
<1>3. ASSUME NEW k \in Kickers,
             Launch(k) \/ LaunchBesides(k) \/ Stat(k) \/ Unlink(k) \/ Recreate(k)
             \/ Look(k) \/ SpawnFails(k) \/ Release(k) \/ Killed(k)
      PROVE  SilenceInv'
  <2>1. UNCHANGED <<signs, people>>
    BY <1>3 DEF Launch, LaunchBesides, Stat, Unlink, Recreate, Look, SpawnFails,
                Release, Killed
  <2> QED
    BY <2>1, <1>1
<1>4. ASSUME NEW s \in Sessions, Boot(s) \/ Die(s)
      PROVE  SilenceInv'
  <2>1. Present # {} /\ down' = 0 /\ tickAge' \in Nat /\ workerAge' \in Nat /\ actAge' \in Nat
    BY <1>4, Spans DEF Boot, Die, Present, TypeOK, Age
  <2>2. UNCHANGED workerAge
    BY <1>4 DEF Boot, Die
  <2> QED
    BY <2>1, <2>2
<1>5. CASE Touch \/ Renew \/ WorkerWrites \/ WorkersEnd
  <2>1. Present # {} /\ Present' = Present /\ down' = down
    BY <1>5 DEF Touch, Renew, WorkerWrites, WorkersEnd, Present, Alive
  <2>2. ~Met("workers") => workerAge' = Horizon
    BY <1>5 DEF Touch, Renew, WorkerWrites, WorkersEnd
  <2> QED
    BY <2>1, <2>2
<1>6. CASE Pass
  <2>1. Present' = Present
    BY <1>6 DEF Pass, Present
  <2>2. Present # {} => down' = 0
    BY <1>6 DEF Pass
  <2>3. down \in Nat /\ (down' = down + 1 \/ down' = down)
    BY <1>6, Spans DEF Pass, TypeOK
  <2>4. ASSUME NEW age \in Age, down <= age \/ age = Horizon
        PROVE  down' <= Older(age) \/ Older(age) = Horizon
    BY <2>3, <2>4, Spans DEF Older, Age
  <2>5. ~Met("workers") => workerAge' = Horizon
    BY <1>6, Spans DEF Pass, Older
  <2>6. /\ tickAge \in Age /\ tickAge' = Older(tickAge)
        /\ actAge \in Age /\ actAge' = Older(actAge)
        /\ workerAge \in Age /\ workerAge' = Older(workerAge)
    BY <1>6 DEF Pass, TypeOK
  <2>7. Present = {} => \A age \in {tickAge', actAge'} : down' <= age \/ age = Horizon
    BY <2>4, <2>6
  <2>8. Met("workers") /\ Present = {} => down' <= workerAge' \/ workerAge' = Horizon
    BY <2>4, <2>6
  <2> QED
    BY <2>1, <2>2, <2>5, <2>7, <2>8
<1> QED
  BY <1>2, <1>3, <1>4, <1>5, <1>6 DEF Next, Kick, KickerStep, Live

(* A kicker that looks when the silence is over starts a session. *)
LEMMA LooksDead ==
  ASSUME TypeOK, SilenceInv, Present = {}, down > Silence
  PROVE  SessionIsDead /\ ~HasFreshWorkers
<1>1. down \in Nat /\ tickAge \in Nat /\ actAge \in Nat /\ workerAge \in Nat
  BY Spans DEF TypeOK, Age
<1>2. SessionIsDead
  BY <1>1, SilenceSpan, Spans DEF SilenceInv, SessionIsDead
<1>3. ~HasFreshWorkers
  BY <1>1, SilenceSpan, Spans DEF SilenceInv, HasFreshWorkers
<1> QED
  BY <1>2, <1>3

-----------------------------------------------------------------------------
(* The debt *)

LEMMA EarlyPaidNext == TypeOK' /\ LockInv' /\ down' <= Silence => Paid'
<1>1. TypeOK /\ LockInv /\ down <= Silence => Paid
  BY EarlyPaid
<1>2. (TypeOK /\ LockInv /\ down <= Silence => Paid)'
  BY <1>1, PTL
<1> QED
  BY <1>2 DEF Silence

LEMMA Sums ==
  ASSUME NEW d \in Nat, NEW u \in Nat, NEW c \in Nat, NEW v \in Nat, NEW e \in Nat,
         NEW b \in Nat, d + u + c <= b, v + e <= u + c
  PROVE  d + v + e <= b
OBVIOUS

(* A debt that does not grow stays paid. *)
LEMMA StillPaid ==
  ASSUME NumbersHold, NumbersHold', Paid, down' = down, Bound' = Bound,
         due' + Charge' <= due + Charge
  PROVE  Paid'
<1>1. /\ down \in Nat /\ due \in Nat /\ Charge \in Nat /\ Bound \in Nat
      /\ due' \in Nat /\ Charge' \in Nat
  BY DEF NumbersHold
<1>2. down + due + Charge <= Bound
  BY DEF Paid
<1>3. down + due' + Charge' <= Bound
  BY <1>1, <1>2, Sums
<1> QED
  BY <1>3 DEF Paid

(* What a mishap buys pays for what it costs. *)
LEMMA NewlyPaid ==
  ASSUME NumbersHold, NumbersHold', down <= Bound, down' = down,
         NEW gain \in Nat, Bound' = Bound + gain, due' + Charge' <= gain
  PROVE  Paid'
<1>1. /\ down \in Nat /\ Bound \in Nat /\ due' \in Nat /\ Charge' \in Nat
  BY DEF NumbersHold
<1>2. down + due' + Charge' <= Bound + gain
  <2>1. \A d, b, u, c \in Nat : d <= b /\ u + c <= gain => d + u + c <= b + gain
    OBVIOUS
  <2> QED
    BY <1>1, <2>1
<1> QED
  BY <1>2 DEF Paid

(* While time passes the next round comes nearer. *)
LEMMA PaidOverTime ==
  ASSUME NumbersHold, NumbersHold', Paid, due > 0, due' = due - 1, down' <= down + 1,
         Charge' <= Charge, Bound' = Bound
  PROVE  Paid'
<1>1. /\ down \in Nat /\ due \in Nat /\ Charge \in Nat /\ Bound \in Nat
      /\ down' \in Nat /\ due' \in Nat /\ Charge' \in Nat
  BY DEF NumbersHold
<1>2. down + due + Charge <= Bound
  BY DEF Paid
<1>3. \A d, u, c, b, dd, cc \in Nat :
        /\ u > 0 /\ d + u + c <= b /\ dd <= d + 1 /\ cc <= c
        => dd + (u - 1) + cc <= b
  OBVIOUS
<1>4. down' + (due - 1) + Charge' <= Bound
  BY <1>1, <1>2, <1>3
<1> QED
  BY <1>4 DEF Paid

LEMMA CommittedHold == Committed => Holding
BY DEF Committed, Holding, AtStep

(* Each step of a kicker, in an outage that has outlasted the silence. *)
LEMMA KickerKeepsDebt ==
  ASSUME TypeOK, LockInv, SilenceInv, DebtInv, TypeOK',
         Present = {}, Present' = {}, down > Silence, down' = down,
         NEW k \in Kickers,
         Launch(k) \/ LaunchBesides(k) \/ KickerStep(k) \/ SpawnFails(k) \/ Killed(k)
  PROVE  Paid' \/ Hope'
<1> USE DEF signs, people, count
<1>1. /\ NumbersHold
      /\ NumbersHold'
      /\ Interval \in Nat /\ Interval > 0
      /\ Paid \/ Hope
  BY Numbers, NumbersNext, Spans DEF DebtInv
<1>2. down <= Bound
  BY <1>1 DEF Paid, Hope, NumbersHold
<1>3. lost' = lost => Bound' = Bound
  BY DEF Bound, Silence, Allowance
<1>4. ASSUME lost' = lost, Committed' \/ WillOwn'
      PROVE  Hope'
  BY <1>2, <1>3, <1>4 DEF Hope
<1>5. ASSUME Paid, lost' = lost, due' + Charge' <= due + Charge
      PROVE  Paid'
  BY <1>1, <1>3, <1>5, StillPaid
<1>6. ASSUME due' = due, UNCHANGED <<lock, lockAge>>, Committed' = Committed, Holding' = Holding
      PROVE  due' + Charge' <= due + Charge
  BY <1>1, <1>6 DEF Charge, NumbersHold
<1>7. {"idle", "found", "stale", "retry", "owner", "kicking", "leaving"} = Steps
  BY DEF Steps
<1>8. CASE Launch(k)
  <2>1. kicker[k] = "idle" /\ due = 0 /\ due' = Interval /\ lost' = lost
    BY <1>8 DEF Launch
  <2>2. CASE ~lock /\ Becomes(k, "owner") /\ lock' /\ lockAge' = 0
    BY <1>4, <1>7, <2>1, <2>2, MovesAt
  <2>3. CASE lock /\ Becomes(k, "found") /\ UNCHANGED <<lock, lockAge>>
    <3>1. /\ Committed' = Committed /\ Holding' = Holding /\ Contending'
      BY <1>7, <2>1, <2>3, MovesAt DEF Committed, Holding, AtStep
    <3>2. CASE Committed
      BY <1>4, <2>1, <3>1, <3>2
    <3>3. CASE ~Committed /\ lockAge > Interval
      BY <1>4, <2>1, <2>3, <3>1, <3>3 DEF WillOwn
    <3>4. CASE ~Committed /\ ~(lockAge > Interval)
      <4>1. Paid
        BY <1>1, <2>3, <3>4 DEF Hope, WillOwn
      <4>2. due' + Charge' <= due + Charge
        BY <1>1, <2>1, <2>3, <3>1, <3>4 DEF Charge, NumbersHold
      <4> QED
        BY <1>5, <2>1, <4>1, <4>2
    <3> QED
      BY <3>2, <3>3, <3>4
  <2> QED
    BY <1>8, <2>2, <2>3, CreateMoves DEF Launch
<1>9. CASE LaunchBesides(k) \/ Recreate(k)
  <2>1. PICK otherwise \in {"found", "idle"} :
          /\ Create(k, otherwise)
          /\ kicker[k] \in {"idle", "retry"}
          /\ due' = due /\ lost' = lost
    BY <1>9 DEF LaunchBesides, Recreate
  <2>2. CASE ~lock /\ Becomes(k, "owner") /\ lock' /\ lockAge' = 0
    BY <1>4, <1>7, <2>1, <2>2, MovesAt
  <2>3. CASE lock /\ Becomes(k, otherwise) /\ UNCHANGED <<lock, lockAge>>
    <3>1. /\ Committed => Committed'
          /\ Contending => Contending'
      BY <1>7, <2>1, <2>3, MovesAt
    <3>2. Committed' = Committed /\ Holding' = Holding
      BY <2>1, <2>3 DEF Committed, Holding, AtStep, Becomes, TypeOK
    <3> QED
      BY <1>1, <1>4, <1>5, <1>6, <2>1, <2>3, <3>1, <3>2 DEF Hope, WillOwn
  <2> QED
    BY <2>1, <2>2, <2>3, CreateMoves
<1>10. ASSUME lock' = FALSE, due' = due, lost' = lost, Paid
       PROVE  Paid'
  <2>1. Charge' = 0
    BY <1>10 DEF Charge
  <2>2. due' + Charge' <= due + Charge
    BY <1>1, <1>10, <2>1 DEF NumbersHold
  <2> QED
    BY <1>5, <1>10, <2>2
<1>11. CASE Stat(k)
  <2>1. kicker[k] = "found" /\ UNCHANGED <<lock, lockAge, due, lost>>
    BY <1>11 DEF Stat
  <2>2. Committed' = Committed /\ Holding' = Holding
    BY <1>11 DEF Stat, Committed, Holding, AtStep, Becomes, TypeOK
  <2>3. CASE Becomes(k, "idle") /\ (~lock \/ lockAge <= Interval)
    <3>1. Retrying => Retrying'
      BY <1>7, <2>1, <2>3, MovesAt
    <3>2. ~(lock /\ lockAge > Interval)
      BY <1>1, <2>3 DEF NumbersHold
    <3>3. WillOwn => WillOwn'
      BY <2>1, <3>1, <3>2 DEF WillOwn
    <3> QED
      BY <1>1, <1>4, <1>5, <1>6, <2>1, <2>2, <3>3 DEF Hope
  <2>4. CASE Becomes(k, "stale") /\ lock
    <3>1. Contending'
      BY <1>7, <2>1, <2>4, MovesAt
    <3>2. WillOwn => WillOwn'
      BY <2>1, <2>4, <3>1 DEF WillOwn
    <3> QED
      BY <1>1, <1>4, <1>5, <1>6, <2>1, <2>2, <3>2 DEF Hope
  <2> QED
    BY <1>11, <2>3, <2>4 DEF Stat
<1>12. CASE Unlink(k)
  <2>1. kicker[k] = "stale" /\ lock' = FALSE /\ due' = due /\ lost' = lost
    BY <1>12 DEF Unlink, NoLock
  <2>2. CASE Becomes(k, "retry")
    <3>1. Retrying'
      BY <1>7, <2>2, MovesAt
    <3> QED
      BY <1>4, <2>1, <3>1 DEF WillOwn
  <2>3. CASE Becomes(k, "idle") /\ ~lock
    <3>1. (Committed => Committed') /\ (Retrying => Retrying')
      BY <1>7, <2>1, <2>3, MovesAt
    <3> QED
      BY <1>1, <1>4, <1>10, <2>1, <2>3, <3>1 DEF Hope, WillOwn
  <2> QED
    BY <1>12, <2>2, <2>3 DEF Unlink
<1>13. CASE Look(k)
  <2>1. Becomes(k, "kicking") /\ lost' = lost
    BY <1>13, LooksDead DEF Look
  <2>2. Committed'
    BY <1>7, <2>1, MovesAt
  <2> QED
    BY <1>4, <2>1, <2>2
<1>14. CASE Spawn(k)
  BY <1>14, SpawnStarts
<1>15. CASE SpawnFails(k)
  <2>1. Becomes(k, "leaving") /\ due' = due /\ lost' = lost + 1
    BY <1>15 DEF SpawnFails
  <2>2. Holding'
    BY <1>7, <2>1, MovesAt
  <2>3. due' + Charge' <= Interval
    <3>1. Charge' = 0 \/ (due' = 0 /\ Charge' = Interval)
      BY <2>2 DEF Charge
    <3>2. due' \in Nat /\ due' <= Interval
      BY <1>1 DEF NumbersHold
    <3> QED
      BY <1>1, <3>1, <3>2
  <2>4. Bound' = Bound + Interval
    BY <1>1, <2>1, AllowanceGrows, SilenceSpan DEF Bound, NumbersHold, Silence
  <2> QED
    BY <1>1, <1>2, <2>3, <2>4, NewlyPaid DEF NumbersHold
<1>16. CASE Killed(k)
  <2>1. lost' = lost + 2
    BY <1>16 DEF Killed
  <2>2. due' + Charge' <= Interval + Interval
    BY <1>1 DEF NumbersHold
  <2>3. Bound' = Bound + (Interval + Interval)
    BY <1>1, <2>1, AllowanceGrows, SilenceSpan DEF Bound, NumbersHold, Silence
  <2>4. Interval + Interval \in Nat /\ down' = down
    BY <1>1
  <2> QED
    BY <1>1, <1>2, <2>2, <2>3, <2>4, NewlyPaid
<1>17. CASE Release(k)
  <2>1. kicker[k] = "leaving" /\ Becomes(k, "idle") /\ due' = due /\ lost' = lost
    BY <1>17 DEF Release
  <2>2. lock' = FALSE
    BY <1>17 DEF Release, NoLock
  <2>3. Holding /\ (Committed => Committed') /\ (Retrying => Retrying')
    BY <1>7, <2>1, MovesAt
  <2>4. WillOwn => WillOwn'
    BY <1>1, <2>2, <2>3 DEF WillOwn, LockInv, NumbersHold
  <2> QED
    BY <1>1, <1>4, <1>10, <2>1, <2>2, <2>3, <2>4 DEF Hope
<1> QED
  BY <1>8, <1>9, <1>11, <1>12, <1>13, <1>14, <1>15, <1>16, <1>17 DEF KickerStep

LEMMA StepDebt ==
  ASSUME RecoveryInv, Next, TypeOK', LockInv', SilenceInv'
  PROVE  DebtInv'
<1> SUFFICES ASSUME Present' = {}, ~(down' <= Silence)
             PROVE  Paid' \/ Hope'
  BY EarlyPaidNext DEF DebtInv
<1> USE DEF RecoveryInv
<1>1. /\ down \in Nat /\ down' \in Nat /\ Silence \in Nat
      /\ NumbersHold /\ NumbersHold'
      /\ Interval \in Nat /\ Horizon \in Nat /\ Interval < Horizon
  BY Numbers, NumbersNext, SilenceSpan, Spans DEF NumbersHold
<1>2. ASSUME down' = down
      PROVE  Present = {} /\ down > Silence
  BY <1>1, <1>2 DEF SilenceInv
<1>3. ASSUME NEW k \in Kickers,
             Launch(k) \/ LaunchBesides(k) \/ KickerStep(k) \/ SpawnFails(k) \/ Killed(k)
      PROVE  Paid' \/ Hope'
  <2>1. down' = down \/ Spawn(k)
    BY <1>3 DEF Launch, LaunchBesides, KickerStep, SpawnFails, Killed, Stat, Unlink,
                Recreate, Look, Release, people
  <2>2. ~Spawn(k)
    BY <1>1 DEF Spawn
  <2> QED
    BY <1>2, <1>3, <2>1, <2>2, KickerKeepsDebt
<1>4. CASE Live
  <2>1. down' = down
    BY <1>4 DEF Live, Boot, Die, Touch, Renew, WorkerWrites, WorkersEnd, people
  <2>2. Present # {}
    BY <1>4 DEF Live, Boot, Die, Touch, Renew, WorkerWrites, WorkersEnd, Present, Alive
  <2> QED
    BY <1>2, <2>1, <2>2
<1>5. CASE Pass
  <2>1. Present = {}
    BY <1>5 DEF Pass, Present
  <2>2. ~Committed /\ ~Holding /\ ~Retrying /\ ~Contending
    BY <1>5 DEF Pass, Committed, Holding, Retrying, Contending, AtStep
  <2>3. ~Committed' /\ ~Holding'
    BY <1>5 DEF Pass, Committed, Holding, AtStep
  <2>4. Paid
    BY <2>1, <2>2 DEF DebtInv, Hope, WillOwn
  <2>5. /\ due > 0 /\ due' = due - 1 /\ lock' = lock /\ lost' = lost
        /\ lock => lockAge' = Older(lockAge)
        /\ down' <= down + 1
    BY <1>1, <1>5 DEF Pass, count
  <2>6. Charge' <= Charge
    <3>1. CASE ~lock
      BY <1>1, <2>5, <3>1 DEF Charge, NumbersHold
    <3>2. CASE lock /\ lockAge < Horizon
      BY <1>1, <2>2, <2>3, <2>5, <3>2 DEF Charge, NumbersHold, Older
    <3>3. CASE lock /\ ~(lockAge < Horizon)
      BY <1>1, <2>2, <2>3, <2>5, <3>3 DEF Charge, NumbersHold, Older
    <3> QED
      BY <3>1, <3>2, <3>3
  <2>7. Bound' = Bound
    BY <2>5 DEF Bound, Silence, Allowance
  <2> QED
    BY <1>1, <2>4, <2>5, <2>6, <2>7, PaidOverTime
<1> QED
  BY <1>3, <1>4, <1>5 DEF Next, Kick

-----------------------------------------------------------------------------
(* The theorems *)

LEMMA InitRecovery == Init => RecoveryInv
<1> SUFFICES ASSUME Init
             PROVE  RecoveryInv
  OBVIOUS
<1>1. TypeOK
  BY InitTypes
<1>2. LockInv
  BY DEF Init, LockInv
<1>3. Present # {} /\ down = 0 /\ workerAge = Horizon
  BY DEF Init, Present
<1> QED
  BY <1>1, <1>2, <1>3 DEF RecoveryInv, SilenceInv, DebtInv

LEMMA StepRecovery == RecoveryInv /\ [Next]_vars => RecoveryInv'
<1> SUFFICES ASSUME RecoveryInv, [Next]_vars
             PROVE  RecoveryInv'
  OBVIOUS
<1> USE DEF RecoveryInv
<1>1. CASE Next
  BY <1>1, StepTypes, StepLock, StepSilence, StepDebt
<1>2. CASE UNCHANGED vars
  <2> USE DEF vars, signs, people, count
  <2>1. TypeOK'
    BY <1>2 DEF TypeOK
  <2>2. Committed' = Committed /\ Holding' = Holding /\ Present' = Present
    BY <1>2 DEF Committed, Holding, AtStep, Present
  <2>3. LockInv' /\ SilenceInv'
    BY <1>2, <2>2 DEF LockInv, SilenceInv
  <2>4. Retrying' = Retrying /\ Contending' = Contending
    BY <1>2 DEF Retrying, Contending, AtStep
  <2>5. Charge' = Charge /\ Bound' = Bound /\ WillOwn' = WillOwn
    BY <1>2, <2>2, <2>4 DEF Charge, Bound, Silence, Allowance, WillOwn
  <2>6. DebtInv'
    BY <1>2, <2>2, <2>5 DEF DebtInv, Paid, Hope
  <2> QED
    BY <2>1, <2>3, <2>6
<1> QED
  BY <1>1, <1>2

LEMMA RecoveryInvariant == Spec => []RecoveryInv
BY InitRecovery, StepRecovery, PTL DEF Spec

LEMMA DebtBoundsOutage == RecoveryInv => RecoveredInTime
<1> SUFFICES ASSUME RecoveryInv, Present = {}
             PROVE  down <= Bound
  BY DEF RecoveredInTime, Bound, Allowance
<1>1. NumbersHold
  BY Numbers DEF RecoveryInv
<1> QED
  BY <1>1 DEF RecoveryInv, DebtInv, Paid, Hope, NumbersHold

(* For any spans, any number of kickers and any interleaving of their lock   *)
(* steps, an outage lasts at most the silence, one round, and the rounds     *)
(* that failed starts and killed kickers cost.                               *)
THEOREM OutageIsBounded == Spec => []RecoveredInTime
BY RecoveryInvariant, DebtBoundsOutage, PTL

-----------------------------------------------------------------------------
(* The activation *)

Punctual ==
  Conditions \cap {"kicker_killed", "spawn_fails", "stillborn", "skips_ticks"} = {}

(* A session that dies has renewed within a tick. *)
RenewedInv ==
  /\ lost = 0
  /\ Present = {} => tickAge <= TickEvery + down

LEMMA StepRenewed ==
  ASSUME Punctual, RecoveryInv, RenewedInv, Next
  PROVE  RenewedInv'
<1> USE DEF RenewedInv, signs, people, count
<1>1. ~Met("kicker_killed") /\ ~Met("spawn_fails") /\ ~Met("stillborn")
      /\ ~Met("skips_ticks")
  BY DEF Punctual, Met
<1>2. TypeOK /\ SilenceInv
  BY DEF RecoveryInv
<1>3. CASE Kick
  <2>1. PICK k \in Kickers : Launch(k) \/ LaunchBesides(k) \/ KickerStep(k)
    BY <1>1, <1>3 DEF Kick, SpawnFails, Killed
  <2>2. CASE Spawn(k)
    <3>1. Present' # {}
      BY <1>2, <2>2, SpawnStarts
    <3> QED
      BY <2>2, <3>1 DEF Spawn
  <2>3. CASE ~Spawn(k)
    <3>1. UNCHANGED <<signs, people, lost>>
      BY <2>1, <2>3 DEF Launch, LaunchBesides, KickerStep, Stat, Unlink, Recreate, Look,
                        Release
    <3> QED
      BY <3>1 DEF Present
  <2> QED
    BY <2>2, <2>3
<1>4. CASE Live
  <2>1. lost' = lost
    BY <1>4 DEF Live, Boot, Die, Touch, Renew, WorkerWrites, WorkersEnd
  <2>2. ASSUME NEW s \in Sessions, Boot(s)
        PROVE  Present' # {}
    BY <1>2, <2>2 DEF Boot, Present, TypeOK
  <2>3. ASSUME Touch \/ Renew \/ WorkerWrites \/ WorkersEnd
        PROVE  Present' # {}
    BY <2>3 DEF Touch, Renew, WorkerWrites, WorkersEnd, Present, Alive
  <2>4. ASSUME NEW s \in Sessions, Die(s)
        PROVE  tickAge' <= TickEvery + down'
    <3>1. Present # {} /\ tickAge' = tickAge /\ down' = down /\ tickAge <= TickEvery
      BY <1>1, <2>4 DEF Die, Present
    <3> QED
      BY <1>2, <3>1, Spans DEF SilenceInv, TypeOK, Age
  <2> QED
    BY <1>4, <2>1, <2>2, <2>3, <2>4 DEF Live
<1>5. CASE Pass
  <2>1. lost' = lost /\ Present' = Present /\ tickAge' = Older(tickAge)
    BY <1>5 DEF Pass, Present
  <2>2. ASSUME Present = {}
        PROVE  tickAge' <= TickEvery + down'
    <3>1. tickAge \in Nat /\ down \in Nat /\ TickEvery \in Nat
      BY <1>2, Spans DEF TypeOK, Age
    <3>2. tickAge' <= tickAge + 1
      BY <2>1, <3>1, Spans DEF Older
    <3>3. down < Patience
      <4>1. down <= Silence + Interval
        BY <2>2, DebtBoundsOutage, Spans DEF RecoveredInTime
      <4>2. Interval <= Allowance(MaxLost) /\ Allowance(MaxLost) \in Nat
        BY AllowanceGrows, Spans
      <4> QED
        BY <3>1, <4>1, <4>2, SilenceSpan, Spans
    <3>4. down' = down + 1
      BY <1>5, <2>2, <3>3 DEF Pass
    <3>5. tickAge' \in Nat
      BY <2>1, <3>1, Spans DEF Older
    <3> QED
      BY <2>2, <3>1, <3>2, <3>4, <3>5
  <2> QED
    BY <2>1, <2>2
<1> QED
  BY <1>3, <1>4, <1>5 DEF Next

(* What "15+10 = worst-case detection" of liveness_policy leaves out: the    *)
(* kick comes before the activation expires if one tick, the silence of the  *)
(* heartbeat AND of the workers, and one interval fit into the TTL, sessions *)
(* answer their ticks, and kickers and new sessions do not fail.             *)
THEOREM KickComesInTime ==
  ASSUME Punctual, TickEvery + Silence + Interval <= Ttl
  PROVE  Spec => []NoSilentWindow
<1>1. Init => RenewedInv
  <2>1. Init => Present # {} /\ lost = 0
    BY DEF Init, Present
  <2> QED
    BY <2>1 DEF RenewedInv
<1>2. RecoveryInv /\ RenewedInv /\ [Next]_vars => RenewedInv'
  <2>1. UNCHANGED vars /\ RenewedInv => RenewedInv'
    BY DEF vars, signs, people, count, RenewedInv, Present
  <2> QED
    BY <2>1, StepRenewed
<1>3. RecoveryInv /\ RenewedInv => NoSilentWindow
  <2> SUFFICES ASSUME RecoveryInv, RenewedInv, Present = {}
               PROVE  tickAge <= Ttl
    BY Spans DEF NoSilentWindow, Expired, RecoveryInv, TypeOK, Age
  <2>1. tickAge \in Nat /\ down \in Nat
    BY Spans DEF RecoveryInv, TypeOK, Age
  <2>2. down <= Silence + Interval
    BY DebtBoundsOutage, Spans DEF RecoveredInTime, RenewedInv
  <2>3. tickAge <= TickEvery + down
    BY DEF RenewedInv
  <2> QED
    BY <2>1, <2>2, <2>3, SilenceSpan, Spans
<1> QED
  BY <1>1, <1>2, <1>3, RecoveryInvariant, PTL DEF Spec

===============================================================================
