------------------------ MODULE ConvergenceLoopProofs ------------------------
(* Proofs about ConvergenceLoop for every register, set of workers, cap and  *)
(* number of mishaps: its types, that the barrier keeps the second worker    *)
(* off a claim, and what CONVERGED promises.                                 *)
EXTENDS ConvergenceLoop, TLAPS

LEMMA ConstantsFacts ==
  /\ ClaimOf \in [Workers -> Claims]
  /\ \A w \in Workers : ClaimOf[w] \in Matches[w]
  /\ Held \in [Claims -> Holds]
  /\ MaxMishaps \in Nat
  /\ None \notin Workers /\ None \notin Questions
  /\ Question \in [Claims -> Questions \cup {None}]
BY ConstantsAssumption DEF ConstantsAssumption

-----------------------------------------------------------------------------
(* The tables of the machine *)

(* Every probe of either stage leads to a verdict. *)
LEMMA OutcomeIsVerdict ==
  ASSUME NEW i \in DOMAIN Probes
  PROVE  Final(Outcome[Probes[i]]) \in Verdicts
<1>1. CASE Probes = DrainProbes
  <2>1. i \in 1 .. 11
    BY <1>1 DEF DrainProbes
  <2>2. Outcome[DrainProbes[i]] \in Verdicts
    BY <2>1 DEF DrainProbes, Outcome, Verdicts
  <2> QED BY <1>1, <2>2 DEF Final, Verdicts
<1>2. CASE Probes = ScheduleProbes
  <2>1. i \in 1 .. 7
    BY <1>2 DEF ScheduleProbes
  <2>2. Outcome[ScheduleProbes[i]] \in Verdicts
    BY <2>1 DEF ScheduleProbes, Outcome, Verdicts
  <2> QED BY <1>2, <2>2 DEF Final, Verdicts
<1> QED BY <1>1, <1>2 DEF Probes

(* Only DRAIN_CLEAN, after every other probe of DRAIN, leads to CONVERGED. *)
LEMMA CleanIsQuiet ==
  ASSUME NEW i \in DOMAIN Probes, IsFirst(i),
         Final(Outcome[Probes[i]]) = "CONVERGED"
  PROVE  /\ snap.opens = {} /\ snap.partials = {}
         /\ snap.active = {} /\ snap.unverified = {}
<1>1. Outcome[Probes[i]] = "CONVERGED"
  BY DEF Final
<1>2. CASE Probes = ScheduleProbes
  <2>1. i \in 1 .. 7
    BY <1>2 DEF ScheduleProbes
  <2> QED BY <1>1, <1>2, <2>1 DEF ScheduleProbes, Outcome
<1>3. CASE Probes = DrainProbes /\ snap.opens = {} /\ snap.partials = {}
  <2>1. i \in 1 .. 11
    BY <1>3 DEF DrainProbes
  <2>2. i = 11
    BY <1>1, <1>3, <2>1 DEF DrainProbes, Outcome
  <2>3. /\ Probes[10] = "ACTIVE_WORKERS_PRESENT"
        /\ Probes[2] = "PRIMARY_Q_UNVERIFIED"
    BY <1>3 DEF DrainProbes
  <2>4. ~Fires("ACTIVE_WORKERS_PRESENT") /\ ~Fires("PRIMARY_Q_UNVERIFIED")
    BY <2>2, <2>3 DEF IsFirst
  <2> QED BY <1>3, <2>4 DEF Fires
<1> QED BY <1>2, <1>3 DEF Probes

-----------------------------------------------------------------------------
(* Types *)

(* The initial states are well typed. *)
LEMMA TypeInit == Init => TypeOK
BY ConstantsFacts
   DEF Init, TypeOK, Statuses, Terminal, Tokens, Processes, Phases, Snapshots,
       NothingRead

(* What decide reads are sets of claims, questions and workers. *)
LEMMA ReadsAreTyped ==
  ASSUME TypeOK
  PROVE  /\ Opens \subseteq Claims /\ Unblocked \subseteq Claims
         /\ Orphans \subseteq Claims /\ Partials \subseteq Claims
         /\ Unanswered \subseteq Questions
         /\ Active \subseteq Workers /\ Stuck \subseteq Workers
BY DEF TypeOK, Opens, Unblocked, Orphans, Partials, Unanswered, Active, Stuck

(* Every step of decide keeps the types. *)
LEMMA DecideTypes == TypeOK /\ Decide => TypeOK'
<1> SUFFICES ASSUME TypeOK, Decide PROVE TypeOK'
  OBVIOUS
<1> USE DEF TypeOK, Phases, register, facts, files
<1>1. CASE ReadRegister
  <2>1. snap' \in Snapshots
    BY <1>1, ReadsAreTyped DEF ReadRegister, Snapshots
  <2> QED BY <1>1, <2>1 DEF ReadRegister
<1>2. CASE ReadPartials
  <2>1. snap' \in Snapshots
    BY <1>2, ReadsAreTyped DEF ReadPartials, Snapshots
  <2> QED BY <1>2, <2>1 DEF ReadPartials
<1>3. CASE ReadWorkers
  <2>1. snap' \in Snapshots
    BY <1>3, ReadsAreTyped DEF ReadWorkers, Snapshots
  <2> QED BY <1>3, <2>1 DEF ReadWorkers
<1>4. NothingRead \in Snapshots
  BY DEF NothingRead, Snapshots
<1>5. CASE Judge
  <2>1. PICK i \in DOMAIN Probes :
          IF Probes[i] = "STUCK_WORKERS_PRESENT"
          THEN phase' = "reopen" /\ UNCHANGED <<snap, missed, verdict, reported>>
          ELSE Decides(Final(Outcome[Probes[i]])) /\ reported' = {}
    BY <1>5 DEF Judge
  <2>2. Final(Outcome[Probes[i]]) \in Verdicts
    BY OutcomeIsVerdict
  <2> QED BY <1>4, <1>5, <2>1, <2>2 DEF Judge, Decides
<1>6. CASE Reopen
  <2>1. status' \in [Claims -> Statuses]
    BY <1>6 DEF Reopen, Statuses
  <2>2. snap.stuck \subseteq Workers
    BY DEF Snapshots
  <2> QED BY <1>4, <1>6, <2>1, <2>2 DEF Reopen, Decides, Verdicts
<1> QED BY <1>1, <1>2, <1>3, <1>5, <1>6 DEF Decide

(* Every step keeps the types. *)
LEMMA TypeStep == TypeOK /\ [Next]_vars => TypeOK'
<1> SUFFICES ASSUME TypeOK, [Next]_vars PROVE TypeOK'
  OBVIOUS
<1> USE ConstantsFacts
<1> USE DEF TypeOK, Statuses, Holds, Tokens, Processes, Terminal, register,
            facts, files, decide
<1>1. CASE Decide
  BY <1>1, DecideTypes
<1>2. ASSUME NEW w \in Workers, Dispatch(w) PROVE TypeOK'
  BY <1>2 DEF Dispatch
<1>3. ASSUME NEW w \in Workers, Close(w) PROVE TypeOK'
  BY <1>3 DEF Close
<1>4. ASSUME NEW c \in Claims, Verify(c) PROVE TypeOK'
  BY <1>4 DEF Verify
<1>5. ASSUME NEW c \in Claims, Settle(c) PROVE TypeOK'
  BY <1>5 DEF Settle
<1>6. ASSUME NEW c \in Claims, Link(c) PROVE TypeOK'
  BY <1>6 DEF Link
<1>7. ASSUME NEW c \in Claims, Resolve(c) \/ Wake(c) PROVE TypeOK'
  BY <1>7 DEF Resolve, Wake
<1>8. ASSUME NEW g \in Gates, Clear(g) PROVE TypeOK'
  BY <1>8 DEF Clear
<1>9. ASSUME NEW w \in Workers, Write(w) PROVE TypeOK'
  BY <1>9 DEF Write
<1>10. ASSUME NEW w \in Workers, Deliver(w) PROVE TypeOK'
  <2>1. owed' \subseteq Claims /\ missed' \subseteq Claims
    BY <1>10 DEF Deliver
  <2>2. raised' \subseteq Gates
    BY <1>10 DEF Deliver
  <2> QED BY <1>10, <2>1, <2>2 DEF Deliver
<1>11. ASSUME NEW w \in Workers, Fail(w) PROVE TypeOK'
  BY <1>11 DEF Fail
<1>12. ASSUME NEW w \in Workers, Stop(w) PROVE TypeOK'
  BY <1>12 DEF Stop
<1>13. ASSUME NEW w \in Workers, Lose(w) PROVE TypeOK'
  BY <1>13 DEF Lose, Mishap
<1>14. ASSUME NEW w \in Workers, FallSilent(w) PROVE TypeOK'
  BY <1>14 DEF FallSilent, Mishap
<1>15. CASE StepEnds
  BY <1>15 DEF StepEnds
<1>16. CASE UNCHANGED vars
  BY <1>16 DEF vars
<1> HIDE DEF TypeOK
<1> QED BY <1>1, <1>2, <1>3, <1>4, <1>5, <1>6, <1>7, <1>8, <1>9, <1>10, <1>11,
           <1>12, <1>13, <1>14, <1>15, <1>16 DEF Next, Orchestrator

(* Every variable keeps its type. *)
THEOREM TypesCorrect == Spec => []TypeOK
<1>1. Init => TypeOK
  BY TypeInit
<1>2. TypeOK /\ [Next]_vars => TypeOK'
  BY TypeStep
<1> QED BY <1>1, <1>2, PTL DEF Spec

-----------------------------------------------------------------------------
(* The barrier *)

(* A process that has not stopped owns the open step. *)
OwnsStep == \A w \in Workers : proc[w] # "gone" => step = w

BarrierInv == TypeOK /\ OwnsStep

(* While no step outlives its time to live, the process of every worker that *)
(* is not gone owns the step, so there is one of them at most.               *)
LEMMA BarrierStep ==
  ASSUME "overrun" \notin Conditions
  PROVE  BarrierInv /\ [Next]_vars => BarrierInv'
<1> SUFFICES ASSUME BarrierInv, [Next]_vars PROVE OwnsStep'
  BY TypeStep DEF BarrierInv
<1> USE ConstantsFacts
<1> USE DEF BarrierInv, OwnsStep, TypeOK, Processes, register, facts, files, decide
<1>1. CASE Decide
  BY <1>1 DEF Decide, ReadRegister, ReadPartials, ReadWorkers, Judge, Reopen
<1>2. ASSUME NEW w \in Workers, Dispatch(w) PROVE OwnsStep'
  BY <1>2 DEF Dispatch
<1>3. ASSUME NEW w \in Workers, Close(w) PROVE OwnsStep'
  BY <1>3 DEF Close
<1>4. ASSUME NEW c \in Claims, Verify(c) \/ Settle(c) \/ Link(c)
      PROVE  OwnsStep'
  BY <1>4 DEF Verify, Settle, Link
<1>5. ASSUME NEW c \in Claims, Resolve(c) \/ Wake(c) PROVE OwnsStep'
  BY <1>5 DEF Resolve, Wake
<1>6. ASSUME NEW g \in Gates, Clear(g) PROVE OwnsStep'
  BY <1>6 DEF Clear
<1>7. ASSUME NEW w \in Workers, Write(w) \/ Deliver(w) \/ Fail(w)
      PROVE  OwnsStep'
  BY <1>7 DEF Write, Deliver, Fail
<1>8. ASSUME NEW w \in Workers, Stop(w) PROVE OwnsStep'
  BY <1>8 DEF Stop
<1>9. ASSUME NEW w \in Workers, Lose(w) \/ FallSilent(w) PROVE OwnsStep'
  BY <1>9 DEF Lose, FallSilent
<1>10. CASE StepEnds
  BY <1>10 DEF StepEnds
<1>11. CASE UNCHANGED vars
  BY <1>11 DEF vars
<1> HIDE DEF OwnsStep
<1> QED BY <1>1, <1>2, <1>3, <1>4, <1>5, <1>6, <1>7, <1>8, <1>9, <1>10, <1>11
        DEF Next, Orchestrator

(* No two workers are at work on one claim, whatever decide reopens. *)
THEOREM OneWorkerPerClaim ==
  ASSUME "overrun" \notin Conditions
  PROVE  Spec => []NoDoubleWork
<1>1. Init => BarrierInv
  BY TypeInit DEF Init, BarrierInv, OwnsStep
<1>2. BarrierInv /\ [Next]_vars => BarrierInv'
  BY BarrierStep
<1>3. BarrierInv => NoDoubleWork
  BY DEF BarrierInv, OwnsStep, NoDoubleWork, AtWork
<1> QED BY <1>1, <1>2, <1>3, PTL DEF Spec

(* Every step opens, ends or closes one step of the serial loop, or none.    *)
LEMMA StepIsSerial ==
  ASSUME "overrun" \notin Conditions, BarrierInv, [Next]_vars
  PROVE  [Serial!Next]_(Serial!vars)
<1> DEFINE Open == {step} \ {None}
           Working == {w \in Workers : AtWork(w)}
<1> USE ConstantsFacts
<1> USE DEF BarrierInv, OwnsStep, TypeOK, Processes, register, facts, files,
            decide, AtWork
<1>1. ASSUME UNCHANGED step, Working' = Working PROVE UNCHANGED Serial!vars
  BY <1>1 DEF Serial!vars
<1>2. CASE Decide
  <2>1. UNCHANGED <<step, proc>>
    BY <1>2 DEF Decide, ReadRegister, ReadPartials, ReadWorkers, Judge, Reopen
  <2> QED BY <1>1, <2>1
<1>3. ASSUME NEW w \in Workers, Dispatch(w) PROVE Serial!Open(w)
  <2>1. Open = {} /\ Working = {}
    BY <1>3 DEF Dispatch
  <2>2. Open' = {w} /\ Working' = {w}
    BY <1>3, <2>1 DEF Dispatch
  <2> QED BY <2>1, <2>2 DEF Serial!Open
<1>4. ASSUME NEW w \in Workers, Close(w) PROVE UNCHANGED Serial!vars
  BY <1>1, <1>4 DEF Close
<1>5. ASSUME NEW c \in Claims,
             Verify(c) \/ Settle(c) \/ Link(c) \/ Resolve(c) \/ Wake(c)
      PROVE  UNCHANGED Serial!vars
  <2>1. UNCHANGED <<step, proc>>
    BY <1>5 DEF Verify, Settle, Link, Resolve, Wake
  <2> QED BY <1>1, <2>1
<1>6. ASSUME NEW g \in Gates, Clear(g) PROVE UNCHANGED Serial!vars
  BY <1>1, <1>6 DEF Clear
<1>7. ASSUME NEW w \in Workers, Write(w) \/ FallSilent(w)
      PROVE  UNCHANGED Serial!vars
  <2>1. Working' = Working /\ UNCHANGED step
    BY <1>7 DEF Write, FallSilent
  <2> QED BY <1>1, <2>1
<1>8. ASSUME NEW w \in Workers, Deliver(w) \/ Fail(w) \/ Lose(w) PROVE Serial!End(w)
  <2>1. w \in Working /\ Working' = Working \ {w} /\ UNCHANGED step
    BY <1>8 DEF Deliver, Fail, Lose
  <2> QED BY <2>1 DEF Serial!End
<1>9. ASSUME NEW w \in Workers, Stop(w) PROVE Serial!Close(w)
  <2>1. w \in Open /\ Open' = Open \ {w} /\ Working' = Working \ {w}
    BY <1>9 DEF Stop
  <2> QED BY <2>1 DEF Serial!Close
<1>10. ASSUME StepEnds PROVE step \in Workers /\ Serial!Close(step)
  <2>1. step \in Workers /\ Open' = Open \ {step} /\ Working' = Working \ {step}
    BY <1>10 DEF StepEnds
  <2> QED BY <2>1 DEF Serial!Close
<1>11. CASE UNCHANGED vars
  BY <1>1, <1>11 DEF vars
<1>12. \A w \in Workers :
         Serial!Open(w) \/ Serial!End(w) \/ Serial!Close(w) => Serial!Next
  BY DEF Serial!Next
<1> HIDE DEF BarrierInv, OwnsStep, TypeOK, Processes, register, facts, files,
             decide, AtWork
<1> QED
  BY <1>2, <1>3, <1>4, <1>5, <1>6, <1>7, <1>8, <1>9, <1>10, <1>11, <1>12
  DEF Next, Orchestrator

(* While no step outlives its time to live, the loop is serial, whatever     *)
(* decide reopens and whichever worker is lost.                              *)
THEOREM SerialRefinement ==
  ASSUME "overrun" \notin Conditions
  PROVE  Spec => ImplementsSerialSteps
<1>1. Init => BarrierInv /\ Serial!Init
  BY TypeInit DEF Init, BarrierInv, OwnsStep, Serial!Init, AtWork
<1>2. BarrierInv /\ [Next]_vars => BarrierInv'
  BY BarrierStep
<1>3. BarrierInv /\ [Next]_vars => [Serial!Next]_(Serial!vars)
  BY StepIsSerial
<1> QED
  BY <1>1, <1>2, <1>3, PTL DEF Spec, ImplementsSerialSteps, Serial!Spec

-----------------------------------------------------------------------------
(* What CONVERGED promises: the claims *)

(* A worker that writes is shown at work. *)
ShownAtWork == \A w \in Workers : proc[w] = "working" => token[w] = "in-progress"

(* The claims of the workers the latest decide reported are free, and stay   *)
(* so until a later decide reports none and asks for a dispatch.             *)
ReportedAreFree ==
  /\ reported # {} => verdict = "BLOCKED"
  /\ \A w \in reported : status[ClaimOf[w]] # "IN_PROGRESS"

(* A claim in progress has a worker that starts, works, is lost or has ended.*)
Accounted ==
  \A c \in Claims : status[c] = "IN_PROGRESS" =>
    \E w \in Workers :
      /\ ClaimOf[w] = c
      /\ proc[w] = "launched" \/ token[w] \in {"in-progress", "done", "failed"}

AccountInv == TypeOK /\ ShownAtWork /\ ReportedAreFree /\ Accounted

(* While every loss and every look at the worker files comes after the first *)
(* status line, no claim in progress is forgotten: reopening frees what the  *)
(* report lists before a file is closed.                                     *)
LEMMA AccountStep ==
  ASSUME "unwritten" \notin Conditions
  PROVE  AccountInv /\ [Next]_vars => AccountInv'
<1> SUFFICES ASSUME AccountInv, [Next]_vars
             PROVE  ShownAtWork' /\ ReportedAreFree' /\ Accounted'
  BY TypeStep DEF AccountInv
<1> DEFINE Goal == ShownAtWork' /\ ReportedAreFree' /\ Accounted'
<1> USE ConstantsFacts
<1> USE DEF AccountInv, TypeOK, ShownAtWork, ReportedAreFree, Accounted, register,
            facts, files, decide, Processes, Tokens, Statuses, Terminal
<1>1. CASE ReadRegister \/ ReadPartials \/ ReadWorkers
  BY <1>1 DEF ReadRegister, ReadPartials, ReadWorkers
<1>2. CASE Judge
  <2>1. UNCHANGED <<status, proc, token>>
    BY <1>2 DEF Judge
  <2>2. reported' = {} \/ UNCHANGED <<reported, verdict>>
    BY <1>2 DEF Judge
  <2> QED BY <2>1, <2>2
<1>3. CASE Reopen
  <2>1. \A c \in Claims : status'[c] = "IN_PROGRESS" => status[c] = "IN_PROGRESS"
    BY <1>3 DEF Reopen
  <2>2. snap.stuck \subseteq Workers
    BY DEF Snapshots
  <2>3. \A w \in snap.stuck : status'[ClaimOf[w]] # "IN_PROGRESS"
    BY <1>3, <2>2 DEF Reopen, Freed
  <2>4. UNCHANGED <<proc, token>> /\ verdict' = "BLOCKED" /\ reported' = snap.stuck
    BY <1>3 DEF Reopen, Decides
  <2> QED BY <2>1, <2>3, <2>4
<1>4. ASSUME NEW w \in Workers, Dispatch(w) PROVE Goal
  <2>1. ShownAtWork' /\ ReportedAreFree'
    BY <1>4 DEF Dispatch
  <2>2. ASSUME NEW c \in Claims, status'[c] = "IN_PROGRESS", c = ClaimOf[w]
        PROVE  proc'[w] = "launched"
    BY <1>4 DEF Dispatch
  <2>3. ASSUME NEW c \in Claims, status'[c] = "IN_PROGRESS", c # ClaimOf[w]
        PROVE  /\ status[c] = "IN_PROGRESS"
               /\ UNCHANGED token
               /\ \A v \in Workers : ClaimOf[v] = c => proc'[v] = proc[v]
    BY <1>4, <2>3 DEF Dispatch
  <2> QED BY <2>1, <2>2, <2>3
<1>5. ASSUME NEW w \in Workers, Close(w) PROVE Goal
  BY <1>5 DEF Close
<1>6. ASSUME NEW c \in Claims, Verify(c) \/ Settle(c) \/ Link(c) PROVE Goal
  <2>1. \A d \in Claims : status'[d] = "IN_PROGRESS" => status[d] = "IN_PROGRESS"
    BY <1>6 DEF Verify, Settle, Link
  <2>2. UNCHANGED <<proc, token, verdict, reported>>
    BY <1>6 DEF Verify, Settle, Link
  <2> QED BY <2>1, <2>2
<1>7. ASSUME NEW c \in Claims, Resolve(c) \/ Wake(c) PROVE Goal
  BY <1>7 DEF Resolve, Wake
<1>8. ASSUME NEW g \in Gates, Clear(g) PROVE Goal
  BY <1>8 DEF Clear
<1>9. ASSUME NEW w \in Workers, Write(w) PROVE Goal
  BY <1>9 DEF Write
<1>10. ASSUME NEW w \in Workers, Deliver(w) PROVE Goal
  BY <1>10 DEF Deliver
<1>11. ASSUME NEW w \in Workers, Fail(w) PROVE Goal
  BY <1>11 DEF Fail
<1>12. ASSUME NEW w \in Workers, Stop(w) PROVE Goal
  BY <1>12 DEF Stop
<1>13. ASSUME NEW w \in Workers, Lose(w) PROVE Goal
  BY <1>13 DEF Lose
<1>14. ASSUME NEW w \in Workers, FallSilent(w) PROVE Goal
  BY <1>14 DEF FallSilent
<1>15. CASE StepEnds
  BY <1>15 DEF StepEnds
<1>16. CASE UNCHANGED vars
  BY <1>16 DEF vars
<1> HIDE DEF ShownAtWork, ReportedAreFree, Accounted
<1> QED BY <1>1, <1>2, <1>3, <1>4, <1>5, <1>6, <1>7, <1>8, <1>9, <1>10, <1>11,
           <1>12, <1>13, <1>14, <1>15, <1>16 DEF Next, Decide, Orchestrator

(* Nothing is forgotten at the start. *)
LEMMA AccountInit == Init => AccountInv
BY TypeInit DEF Init, AccountInv, ShownAtWork, ReportedAreFree, Accounted

-----------------------------------------------------------------------------
(* What CONVERGED promises: the reads *)

(* What an empty read still means when the machine runs.  Nothing becomes    *)
(* open behind a decide, for it is decide alone that reopens a claim; what   *)
(* is PROVEN stays so; a fact it has not seen is one it missed; and nobody   *)
(* starts to work where nothing is open.                                     *)
NothingReopened ==
  phase \in {"partials", "workers", "machine"} /\ snap.opens = {} => Opens = {}

StillAnswered ==
  phase \in {"partials", "workers", "machine"} /\ snap.unverified = {}
    => Unanswered = {}

FactsSeen ==
  phase \in {"workers", "machine"} /\ snap.partials = {} => Partials \subseteq missed

NobodyWorks ==
  phase = "machine" /\ snap.opens = {} /\ snap.active = {} =>
    Active = {} /\ \A w \in Workers : ~AtWork(w)

ReadsInv ==
  AccountInv /\ NothingReopened /\ StillAnswered /\ FactsSeen /\ NobodyWorks

(* No step of decide breaks what its earlier reads mean. *)
LEMMA DecideKeepsReads ==
  ASSUME "unwritten" \notin Conditions, ReadsInv, Decide
  PROVE  NothingReopened' /\ StillAnswered' /\ FactsSeen' /\ NobodyWorks'
<1> USE DEF ReadsInv, AccountInv, TypeOK, NothingReopened, StillAnswered,
            FactsSeen, NobodyWorks, register, facts, files
<1>1. CASE ReadRegister
  <2>1. /\ phase' = "partials" /\ snap'.opens = Opens
        /\ snap'.unverified = Unanswered
    BY <1>1 DEF ReadRegister, Snapshots
  <2>2. Opens' = Opens /\ Unanswered' = Unanswered
    BY <1>1 DEF ReadRegister, Opens, Unanswered
  <2> QED BY <2>1, <2>2
<1>2. CASE ReadPartials
  <2>1. /\ phase = "partials" /\ phase' = "workers"
        /\ snap'.opens = snap.opens
        /\ snap'.unverified = snap.unverified /\ snap'.partials = Partials
    BY <1>2 DEF ReadPartials, Snapshots
  <2>2. Opens' = Opens /\ Unanswered' = Unanswered /\ Partials' = Partials
    BY <1>2 DEF ReadPartials, Opens, Unanswered, Partials
  <2> QED BY <2>1, <2>2
<1>3. CASE ReadWorkers
  <2>1. /\ phase = "workers" /\ phase' = "machine"
        /\ snap'.opens = snap.opens
        /\ snap'.unverified = snap.unverified /\ snap'.partials = snap.partials
        /\ snap'.active = Active
    BY <1>3 DEF ReadWorkers, Snapshots
  <2>2. Opens' = Opens /\ Unanswered' = Unanswered /\ Partials' = Partials
    BY <1>3 DEF ReadWorkers, Opens, Unanswered, Partials
  <2>3. Active' = Active /\ UNCHANGED <<proc, missed>>
    BY <1>3 DEF ReadWorkers, Active
  <2>4. \A w \in Workers : proc[w] # "launched"
    BY <1>3 DEF ReadWorkers
  <2>5. Active = {} => \A w \in Workers : ~AtWork(w)
    BY <2>4 DEF AtWork, ShownAtWork, Active
  <2>6. \A w \in Workers : AtWork(w)' = AtWork(w)
    BY <2>3 DEF AtWork
  <2> QED BY <2>1, <2>2, <2>3, <2>5, <2>6
<1>4. CASE Judge \/ Reopen
  <2>1. phase' \in {"idle", "reopen"}
    BY <1>4 DEF Judge, Reopen, Decides
  <2> QED BY <2>1
<1> QED BY <1>1, <1>2, <1>3, <1>4 DEF Decide

(* Nor does anybody else's step, if nothing opens, nothing PROVEN is taken   *)
(* back, and a new fact is one that decide has missed.                       *)
LEMMA OthersKeepReads ==
  ASSUME ReadsInv, UNCHANGED <<phase, snap>>,
         Opens' \subseteq Opens,
         Unanswered' \subseteq Unanswered,
         phase \in {"workers", "machine"} => Partials' \subseteq Partials \cup missed',
         missed \subseteq missed',
         Opens = {} /\ Active = {} /\ (\A w \in Workers : ~AtWork(w)) =>
           Active' = {} /\ \A w \in Workers : ~AtWork(w)'
  PROVE  NothingReopened' /\ StillAnswered' /\ FactsSeen' /\ NobodyWorks'
<1>1. NothingReopened'
  BY DEF ReadsInv, NothingReopened
<1>2. StillAnswered'
  BY DEF ReadsInv, StillAnswered
<1>3. FactsSeen'
  BY DEF ReadsInv, FactsSeen
<1>4. NobodyWorks'
  BY DEF ReadsInv, NobodyWorks, NothingReopened
<1> QED BY <1>1, <1>2, <1>3, <1>4

(* The orchestrator, the workers and the clock.                              *)
LEMMA ReadsStep ==
  ASSUME "unwritten" \notin Conditions
  PROVE  ReadsInv /\ [Next]_vars => ReadsInv'
<1> SUFFICES ASSUME ReadsInv, [Next]_vars PROVE ReadsInv'
  OBVIOUS
<1>0. AccountInv' /\ TypeOK /\ TypeOK' /\ ShownAtWork
  BY AccountStep DEF ReadsInv, AccountInv
<1> DEFINE Goal == NothingReopened' /\ StillAnswered' /\ FactsSeen' /\ NobodyWorks'
           Reads == UNCHANGED <<phase, snap>> /\ missed \subseteq missed'
           Shrinks == /\ Opens' \subseteq Opens
                      /\ Unanswered' \subseteq Unanswered
                      /\ phase \in {"workers", "machine"} =>
                           Partials' \subseteq Partials \cup missed'
           Rests == Opens = {} /\ Active = {} /\ (\A w \in Workers : ~AtWork(w)) =>
                      Active' = {} /\ \A w \in Workers : ~AtWork(w)'
<1>1. Reads /\ Shrinks /\ Rests => Goal
  BY OthersKeepReads
<1>2. ASSUME UNCHANGED <<status, answers, owed>> PROVE Shrinks
  BY <1>2 DEF Opens, Unanswered, Partials
<1>3. ASSUME UNCHANGED <<proc, token>> PROVE Rests
  BY <1>3 DEF Active, AtWork
<1> HIDE DEF Shrinks, Rests
<1> USE ConstantsFacts
<1> USE DEF register, facts, files, decide
<1>4. ASSUME Decide PROVE Goal
  BY <1>4, DecideKeepsReads
<1>5. ASSUME NEW w \in Workers, Dispatch(w) PROVE Goal
  <2>1. Reads /\ ClaimOf[w] \in Opens
    BY <1>5 DEF Dispatch, Unblocked
  <2>2. Opens' \subseteq Opens
    BY <1>5 DEF Dispatch, Opens, TypeOK
  <2>3. Unanswered' \subseteq Unanswered
    BY <1>0, <1>5, <2>1 DEF Dispatch, Unanswered, Opens, TypeOK
  <2>4. Partials' \subseteq Partials
    BY <1>0, <1>5, <2>1 DEF Dispatch, Partials, Opens, Terminal, TypeOK
  <2>5. Rests
    BY <2>1 DEF Rests
  <2> QED BY <1>1, <2>1, <2>2, <2>3, <2>4, <2>5 DEF Shrinks
<1>6. ASSUME NEW c \in Claims, Settle(c) PROVE Goal
  <2>1. Reads /\ Rests
    BY <1>3, <1>6 DEF Settle
  <2>2. Opens' \subseteq Opens /\ Partials' \subseteq Partials
    BY <1>0, <1>6 DEF Settle, Opens, Partials, Terminal, TypeOK
  <2>3. Unanswered' \subseteq Unanswered
    BY <1>0, <1>6 DEF Settle, Unanswered, TypeOK
  <2> QED BY <1>1, <2>1, <2>2, <2>3 DEF Shrinks
<1>7. ASSUME NEW c \in Claims, Link(c) PROVE Goal
  <2>1. Reads /\ Rests
    BY <1>3, <1>7 DEF Link
  <2>2. Opens' = Opens /\ Partials' = Partials
    BY <1>7 DEF Link, Opens, Partials
  <2>3. PICK q \in Questions : answers' = [answers EXCEPT ![c] = q]
    BY <1>7 DEF Link
  <2>4. answers[c] = None
    BY <1>7 DEF Link, Orphans
  <2>5. \A d \in Claims, p \in Questions : answers[d] = p => answers'[d] = p
    BY <1>0, <2>3, <2>4 DEF TypeOK
  <2>6. Unanswered' \subseteq Unanswered
    BY <1>7, <2>5 DEF Link, Unanswered
  <2> QED BY <1>1, <2>1, <2>2, <2>6 DEF Shrinks
<1>8. ASSUME NEW c \in Claims, Verify(c) PROVE Goal
  <2>1. Reads /\ Rests
    BY <1>3, <1>8 DEF Verify
  <2>2. Opens' = Opens /\ Unanswered' = Unanswered /\ Partials' \subseteq Partials
    BY <1>8 DEF Verify, Opens, Unanswered, Partials
  <2> QED BY <1>1, <2>1, <2>2 DEF Shrinks
<1>9. ASSUME NEW c \in Claims, Resolve(c) \/ Wake(c) PROVE Goal
  BY <1>1, <1>2, <1>3, <1>9 DEF Resolve, Wake
<1>10. ASSUME NEW g \in Gates, Clear(g) PROVE Goal
  BY <1>1, <1>2, <1>3, <1>10 DEF Clear
<1>11. ASSUME NEW w \in Workers, Close(w) PROVE Goal
  <2>1. Reads /\ Shrinks
    BY <1>2, <1>11 DEF Close
  <2>2. Rests
    BY <1>0, <1>11 DEF Rests, Close, Active, AtWork, TypeOK
  <2> QED BY <1>1, <2>1, <2>2
<1>12. ASSUME NEW w \in Workers, Write(w) PROVE Goal
  <2>1. Reads /\ Shrinks
    BY <1>2, <1>12 DEF Write
  <2>2. Rests
    BY <1>12 DEF Rests, Write, AtWork
  <2> QED BY <1>1, <2>1, <2>2
<1>13. ASSUME NEW w \in Workers, Deliver(w) PROVE Goal
  <2>1. Reads
    BY <1>13 DEF Deliver
  <2>2. Opens' = Opens /\ Unanswered' = Unanswered
    BY <1>13 DEF Deliver, Opens, Unanswered
  <2>3. phase \in {"workers", "machine"} => Partials' \subseteq Partials \cup missed'
    BY <1>13 DEF Deliver, Partials
  <2>4. Rests
    BY <1>13 DEF Rests, Deliver, AtWork
  <2> QED BY <1>1, <2>1, <2>2, <2>3, <2>4 DEF Shrinks
<1>14. ASSUME NEW w \in Workers, Fail(w) PROVE Goal
  <2>1. Reads /\ Shrinks
    BY <1>2, <1>14 DEF Fail
  <2>2. Rests
    BY <1>14 DEF Rests, Fail, AtWork
  <2> QED BY <1>1, <2>1, <2>2
<1>15. ASSUME NEW w \in Workers, Stop(w) \/ Lose(w) \/ FallSilent(w) PROVE Goal
  <2>1. Reads /\ Shrinks
    BY <1>2, <1>15 DEF Stop, Lose, FallSilent
  <2>2. Rests
    BY <1>0, <1>15 DEF Rests, Stop, Lose, FallSilent, Active, AtWork, TypeOK
  <2> QED BY <1>1, <2>1, <2>2
<1>16. ASSUME StepEnds PROVE Goal
  BY <1>1, <1>2, <1>3, <1>16 DEF StepEnds
<1>17. ASSUME UNCHANGED vars PROVE Goal
  BY <1>1, <1>2, <1>3, <1>17 DEF vars
<1>18. Goal
  <2> HIDE DEF Goal
  <2> QED BY <1>4, <1>5, <1>6, <1>7, <1>8, <1>9, <1>10, <1>11, <1>12, <1>13,
             <1>14, <1>15, <1>16, <1>17 DEF Next, Orchestrator
<1> QED BY <1>0, <1>18 DEF ReadsInv

(* Nothing has been read at the start. *)
LEMMA ReadsInit == Init => ReadsInv
BY AccountInit DEF Init, ReadsInv, NothingReopened, StillAnswered, FactsSeen,
                   NobodyWorks

(* A step to CONVERGED is a machine over reads that show nothing open, owed  *)
(* or in progress, and every question answered.                              *)
LEMMA ConvergedIsQuiet ==
  ASSUME [Next]_vars, NewlyConverged
  PROVE  /\ phase = "machine"
         /\ snap.opens = {} /\ snap.partials = {}
         /\ snap.active = {} /\ snap.unverified = {}
<1>1. Judge
  <2> USE DEF NewlyConverged, decide
  <2>1. ~ReadRegister /\ ~ReadPartials /\ ~ReadWorkers
    BY DEF ReadRegister, ReadPartials, ReadWorkers
  <2>2. ~Reopen
    BY DEF Reopen, Decides
  <2>3. ~Orchestrator
    BY DEF Orchestrator, Dispatch, Close, Verify, Settle, Link, Resolve, Clear
  <2>4. \A c \in Claims : ~Wake(c)
    BY DEF Wake
  <2>5. \A w \in Workers : ~Write(w) /\ ~Deliver(w) /\ ~Fail(w) /\ ~Stop(w)
    BY DEF Write, Deliver, Fail, Stop
  <2>6. \A w \in Workers : ~Lose(w) /\ ~FallSilent(w)
    BY DEF Lose, FallSilent
  <2>7. ~StepEnds /\ ~(UNCHANGED vars)
    BY DEF StepEnds, vars
  <2> QED BY <2>1, <2>2, <2>3, <2>4, <2>5, <2>6, <2>7 DEF Next, Decide
<1>2. PICK i \in DOMAIN Probes :
        /\ IsFirst(i)
        /\ IF Probes[i] = "STUCK_WORKERS_PRESENT"
           THEN UNCHANGED <<snap, missed, verdict, reported>>
           ELSE verdict' = Final(Outcome[Probes[i]])
  BY <1>1 DEF Judge, Decides
<1>3. Final(Outcome[Probes[i]]) = "CONVERGED"
  BY <1>2 DEF NewlyConverged
<1> QED BY <1>1, <1>2, <1>3, CleanIsQuiet DEF Judge

(* No CONVERGED while a worker is at work, provided no decide looks at the   *)
(* worker files between a launch and the first status line.                  *)
THEOREM NothingDeliveredOverWork ==
  ASSUME "unwritten" \notin Conditions
  PROVE  Spec => NoDeliveryOverWork
<1>1. Init => ReadsInv
  BY ReadsInit
<1>2. ReadsInv /\ [Next]_vars => ReadsInv'
  BY ReadsStep
<1>3. ReadsInv /\ [Next]_vars =>
        [NewlyConverged => \A w \in Workers : ~AtWork(w)]_vars
  BY ConvergedIsQuiet DEF ReadsInv, NobodyWorks
<1> QED BY <1>1, <1>2, <1>3, PTL DEF Spec, NoDeliveryOverWork

(* Under the same condition, CONVERGED finds every question answered, and    *)
(* every claim settled or in progress with a worker that has reported its    *)
(* end, and owes no verification but of facts that came after decide had     *)
(* read the facts.                                                           *)
THEOREM ConvergedIsComplete ==
  ASSUME "unwritten" \notin Conditions
  PROVE  Spec => ConvergedIsFinal
<1> DEFINE Finished ==
      /\ Unanswered = {}
      /\ \A c \in Claims :
           \/ status[c] \in Terminal
           \/ status[c] = "IN_PROGRESS" /\ Ended(c) /\ (c \in owed => c \in missed)
<1>1. Init => ReadsInv
  BY ReadsInit
<1>2. ReadsInv /\ [Next]_vars => ReadsInv'
  BY ReadsStep
<1>3. ReadsInv /\ [Next]_vars => [NewlyConverged => Finished]_vars
  <2> SUFFICES ASSUME ReadsInv, [Next]_vars, NewlyConverged PROVE Finished
    OBVIOUS
  <2>1. /\ Unanswered = {} /\ Opens = {} /\ Partials \subseteq missed
        /\ Active = {} /\ \A w \in Workers : ~AtWork(w)
    BY ConvergedIsQuiet
    DEF ReadsInv, StillAnswered, NothingReopened, FactsSeen, NobodyWorks
  <2>2. ASSUME NEW c \in Claims, status[c] \notin Terminal
        PROVE  status[c] = "IN_PROGRESS" /\ Ended(c) /\ (c \in owed => c \in missed)
    <3>1. status[c] = "IN_PROGRESS"
      BY <2>1, <2>2 DEF Opens, ReadsInv, AccountInv, TypeOK, Statuses
    <3>2. PICK w \in Workers :
            /\ ClaimOf[w] = c
            /\ proc[w] = "launched" \/ token[w] \in {"in-progress", "done", "failed"}
      BY <3>1 DEF ReadsInv, AccountInv, Accounted
    <3>3. token[w] \in {"done", "failed"}
      BY <2>1, <3>2 DEF Active, AtWork
    <3>4. c \in owed => c \in missed
      BY <2>1, <2>2 DEF Partials
    <3> QED BY <3>1, <3>2, <3>3, <3>4 DEF Ended
  <2> QED BY <2>1, <2>2
<1> QED BY <1>1, <1>2, <1>3, PTL DEF Spec, ConvergedIsFinal
=============================================================================
