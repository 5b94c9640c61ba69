-------------------------- MODULE WaitProtocolProofs --------------------------
(***************************************************************************)
(* Proofs about WaitProtocol.  Types and DismissedIsSettled hold under any *)
(* conditions.  Each other property is proved from the absence of exactly  *)
(* those conditions that break it by themselves; when none of these is met *)
(* all invariants hold, and the protocol implements WorkerPool.            *)
(***************************************************************************)
EXTENDS WaitProtocol, TLAPS

LEMMA ConstantsFacts ==
  /\ Rounds \in Nat /\ Rounds # 0
  /\ None \notin Claims /\ None \notin Signal
  /\ None \notin Dispatch /\ None \notin Verdict /\ None \notin Disposal
BY ConstantsAssumption DEF ConstantsAssumption

-----------------------------------------------------------------------------
(* Types *)

(* A worker that is about to poll has a round left. *)
RoundLeft ==
  \A w \in Workers :
    phase[w] \in {"delivered", "sleeping", "polling"} => rounds[w] < Rounds

(* A worker that acts on a signal has one. *)
HasSignal == \A w \in Workers : phase[w] = "dropping" => held[w] # None

TypeInv == TypeOK /\ RoundLeft /\ HasSignal

(* The initial states are well typed, and nobody waits. *)
LEMMA TypeInvInit == Init => TypeInv
<1> SUFFICES ASSUME Init PROVE TypeInv
  OBVIOUS
<1> USE ConstantsFacts
<1>1. rounds \in [Workers -> 0 .. Rounds]
  BY DEF Init
<1>2. phase \in [Workers -> Phases]
  BY DEF Init, Phases, Free
<1>3. TypeOK
  BY <1>1, <1>2 DEF Init, TypeOK
<1> QED BY <1>3 DEF Init, TypeInv, RoundLeft, HasSignal

(* Every step keeps the types, and no wait counts past the cap. *)
LEMMA TypeInvStep == TypeInv /\ [Next]_vars => TypeInv'
<1> SUFFICES ASSUME TypeInv, [Next]_vars PROVE TypeInv'
  OBVIOUS
<1> USE ConstantsFacts
<1> USE DEF TypeInv, TypeOK, landings, RoundLeft, HasSignal, Phases, InWait, Free, Ended, Verdicts, Become
<1>1. ASSUME NEW w \in Workers, NEW c \in Claims, Bind(w, c) PROVE TypeInv'
  BY <1>1 DEF Bind, Dispatch
<1>2. CASE Wake
  <2>1. gate \in Dispatch
    BY <1>2 DEF Wake
  <2>2. gate.worker \in Workers /\ gate.claim \in Claims
    BY <2>1 DEF Dispatch
  <2>3. CASE WakeWaiting(gate.worker, gate.claim)
    BY <1>2, <2>2, <2>3 DEF Wake, WakeWaiting, Post, Signal
  <2>4. CASE StartWorker(gate.worker, gate.claim)
    BY <1>2, <2>2, <2>4 DEF Wake, StartWorker
  <2> QED BY <1>2, <2>3, <2>4 DEF Wake
<1>3. CASE StepCloses
  BY <1>3 DEF StepCloses
<1>4. ASSUME NEW w \in Workers, Deliver(w) PROVE TypeInv'
  BY <1>4 DEF Deliver
<1>5. ASSUME NEW w \in Workers, Heartbeat(w) PROVE TypeInv'
  BY <1>5 DEF Heartbeat
<1>6. ASSUME NEW w \in Workers, FindNothing(w) PROVE TypeInv'
  BY <1>6 DEF FindNothing
<1>7. ASSUME NEW w \in Workers, SelfKill(w) PROVE TypeInv'
  BY <1>7 DEF SelfKill
<1>8. ASSUME NEW w \in Workers, ReadSignal(w) PROVE TypeInv'
  BY <1>8 DEF ReadSignal
<1>9. ASSUME NEW w \in Workers, Rearm(w) PROVE TypeInv'
  BY <1>9 DEF Rearm, Consumed, Signal
<1>10. ASSUME NEW w \in Workers, Dismiss(w) PROVE TypeInv'
  BY <1>10 DEF Dismiss, Consumed
<1>11. ASSUME NEW w \in Workers, Lose(w) PROVE TypeInv'
  BY <1>11 DEF Lose
<1>12. ASSUME NEW w \in Workers, Verify(w) PROVE TypeInv'
  BY <1>12 DEF Verify
<1>13. ASSUME NEW c \in Claims, NEW v \in Verdicts, Settle(c, v) PROVE TypeInv'
  <2>1. BoundWaiting(c) \subseteq Workers
    BY DEF BoundWaiting
  <2>2. settling' \in Disposal \cup {None}
    BY <1>13, <2>1 DEF Settle, Judgeable, DisposalStarts, SettleByTool, SettleByHook, SettleUnnoticed, Disposal
  <2>3. landing' \in Verdict \cup {None}
    BY <1>13 DEF Settle, SettleByTool, SettleByHook, SettleUnnoticed, Verdict
  <2> QED BY <1>13, <2>2, <2>3 DEF Settle, Judgeable, DisposalStarts, SettleByTool, SettleByHook, SettleUnnoticed
<1>14. ASSUME NEW w \in Workers, Dispose(w) PROVE TypeInv'
  BY <1>14 DEF Dispose, Disposal, Post, Signal
<1>15. CASE DisposalEnds
  BY <1>15 DEF DisposalEnds
<1>17. CASE WriteLands
  BY <1>17 DEF WriteLands, Verdict
<1>18. CASE WriteLost
  BY <1>18 DEF WriteLost, Verdict
<1>16. CASE UNCHANGED vars
  BY <1>16 DEF vars
<1> QED BY <1>1, <1>2, <1>3, <1>4, <1>5, <1>6, <1>7, <1>8, <1>9, <1>10, <1>11,
          <1>12, <1>13, <1>14, <1>15, <1>16, <1>17, <1>18 DEF Next, WaitStep

(* TypeOK holds for every number of workers, claims and rounds, whatever     *)
(* goes wrong; in it, that no wait outlives WAIT_MAX_ROUNDS.                 *)
THEOREM TypesCorrect == Spec => []TypeOK
<1>1. TypeInv => TypeOK
  BY DEF TypeInv
<1> QED BY <1>1, TypeInvInit, TypeInvStep, PTL DEF Spec

-----------------------------------------------------------------------------
(* Dismissal *)

(* A stop signal, wherever it is, names a claim that has its verdict. *)
StopsAreJudged ==
  /\ \A w \in Workers :
       /\ box[w] # None /\ box[w].type = "stop" => Judged(box[w].claim)
       /\ held[w] # None /\ held[w].type = "stop" => Judged(held[w].claim)
  /\ settling # None => Judged(settling.claim)

DismissalInv == TypeInv /\ StopsAreJudged

(* A verdict that a claim has is not taken back: it lands, or is lost, or    *)
(* makes way for another.                                                    *)
LEMMA JudgedStays ==
  ASSUME TypeInv, [Next]_vars, NEW c \in Claims, Judged(c)
  PROVE  Judged(c)'
<1> USE ConstantsFacts DEF Judged, TypeInv, TypeOK, landings
<1>1. ASSUME NEW d \in Claims, NEW v \in Verdicts, Settle(d, v) PROVE Judged(c)'
  <2>1. landing = None /\ v # "open" /\ denied' = denied \ {d}
    BY <1>1 DEF Settle, Judgeable, Verdicts
  <2>2. CASE SettleByHook(d, v)
    <3>1. landing' = [claim |-> d, verdict |-> v] /\ UNCHANGED status
      BY <2>2 DEF SettleByHook
    <3>2. landing' # None /\ landing'.claim = d
      BY <3>1 DEF Verdict
    <3> QED BY <2>1, <3>1, <3>2
  <2>3. CASE status' = [status EXCEPT ![d] = v] /\ UNCHANGED landing
    BY <2>1, <2>3
  <2> QED BY <1>1, <2>2, <2>3 DEF Settle, SettleByTool, SettleUnnoticed
<1>2. CASE WriteLands
  BY <1>2 DEF WriteLands, Verdict, Verdicts
<1>3. CASE WriteLost
  BY <1>3 DEF WriteLost, Verdict
<1>4. CASE UNCHANGED <<status, landing, denied>>
  BY <1>4
<1> QED BY <1>1, <1>2, <1>3, <1>4
        DEF Next, WaitStep, Bind, Wake, StepCloses, Deliver, Heartbeat, FindNothing, SelfKill,
            ReadSignal, Rearm, Dismiss, Lose, Verify, Dispose, DisposalEnds, vars

LEMMA DismissalInvInit == Init => DismissalInv
BY TypeInvInit DEF Init, DismissalInv, StopsAreJudged

(* Every step keeps it: only Dispose writes a stop. *)
LEMMA DismissalInvStep == DismissalInv /\ [Next]_vars => DismissalInv'
<1> SUFFICES ASSUME DismissalInv, [Next]_vars
             PROVE StopsAreJudged'
  BY TypeInvStep DEF DismissalInv
<1> USE ConstantsFacts
<1>0. /\ \A w \in Workers :
           /\ box[w] # None => box[w] \in Signal /\ box[w].claim \in Claims
           /\ held[w] # None => held[w] \in Signal /\ held[w].claim \in Claims
      /\ settling # None => settling.claim \in Claims /\ settling.left \subseteq Workers
  BY DEF DismissalInv, TypeInv, TypeOK, Signal, Disposal
<1>s. \A c \in Claims : Judged(c) => Judged(c)'
  BY JudgedStays DEF DismissalInv
<1> USE DEF DismissalInv, StopsAreJudged, HasSignal, TypeInv, TypeOK
<1>c. ASSUME UNCHANGED settling,
             \A w \in Workers :
               /\ box'[w] # None /\ box'[w].type = "stop" => box'[w] = box[w]
               /\ held'[w] # None /\ held'[w].type = "stop" => held'[w] \in {held[w], box[w]}
      PROVE  StopsAreJudged'
  BY <1>0, <1>s, <1>c
<1>1. ASSUME NEW c \in Claims, NEW v \in Verdicts, Settle(c, v)
      PROVE  StopsAreJudged'
  <2>1. UNCHANGED <<box, held>>
    BY <1>1 DEF Settle
  <2>2. CASE UNCHANGED settling
    BY <1>c, <2>1, <2>2
  <2>3. CASE DisposalStarts(c, v)
    <3>1. settling'.claim = c
      BY <2>3 DEF DisposalStarts
    <3>2. Judged(c)'
      <4>1. CASE SettleByTool(c, v)
        BY <4>1 DEF SettleByTool, Judged, Verdicts
      <4>2. CASE SettleByHook(c, v)
        <5>1. landing' = [claim |-> c, verdict |-> v] /\ landing' # None
          BY <4>2 DEF SettleByHook, Verdict
        <5> QED BY <5>1 DEF Judged
      <4>3. CASE SettleUnnoticed(c, v)
        BY <4>3 DEF SettleUnnoticed, Judged, Verdicts
      <4> QED BY <1>1, <4>1, <4>2, <4>3 DEF Settle
    <3> QED BY <1>0, <1>s, <2>1, <3>1, <3>2
  <2> QED BY <1>1, <2>2, <2>3 DEF Settle, SettleByTool, SettleByHook, SettleUnnoticed
<1>2. ASSUME NEW w \in Workers, Dispose(w) PROVE StopsAreJudged'
  <2>1. /\ settling # None /\ Judged(settling.claim)
        /\ settling' = [settling EXCEPT !.left = @ \ {w}]
        /\ box' = [box EXCEPT ![w] = [type |-> IF settling.redo THEN "dispatch" ELSE "stop",
                                      claim |-> settling.claim]]
        /\ UNCHANGED held
    BY <1>2 DEF Dispose, Post
  <2>2. settling'.claim = settling.claim
    BY <2>1 DEF Disposal
  <2> QED BY <1>0, <1>s, <2>1, <2>2
<1>3. CASE DisposalEnds
  BY <1>0, <1>s, <1>3 DEF DisposalEnds
<1>4. CASE Wake
  <2>1. gate \in Dispatch /\ gate.worker \in Workers
    BY <1>4 DEF Wake, Dispatch
  <2>2. CASE WakeWaiting(gate.worker, gate.claim)
    BY <1>4, <2>1, <2>2, <1>c DEF Wake, WakeWaiting, Post
  <2>3. CASE StartWorker(gate.worker, gate.claim)
    BY <1>4, <2>1, <2>3, <1>c DEF Wake, StartWorker
  <2> QED BY <1>4, <2>2, <2>3 DEF Wake
<1>5. ASSUME NEW w \in Workers, ReadSignal(w) PROVE StopsAreJudged'
  BY <1>5, <1>c DEF ReadSignal
<1>6. ASSUME NEW w \in Workers, Rearm(w) PROVE StopsAreJudged'
  BY <1>6, <1>c DEF Rearm, Consumed
<1>7. ASSUME NEW w \in Workers, Dismiss(w) PROVE StopsAreJudged'
  BY <1>7, <1>c DEF Dismiss, Consumed
<1>8. ASSUME NEW w \in Workers, Lose(w) PROVE StopsAreJudged'
  BY <1>8, <1>c DEF Lose
<1>9. CASE UNCHANGED <<box, held, settling>>
  BY <1>9, <1>c
<1> QED BY <1>1, <1>2, <1>3, <1>4, <1>5, <1>6, <1>7, <1>8, <1>9
        DEF Next, WaitStep, Bind, StepCloses, Deliver, Heartbeat, FindNothing, SelfKill,
            Verify, WriteLands, WriteLost, vars

(* DismissedIsSettled: no race between the two signal writers, the wait tool *)
(* and the register dismisses a worker by a claim without a verdict; one     *)
(* whose verdict is not in the register is being written, or was lost.       *)
THEOREM DismissalConfirmed == Spec => DismissedIsSettled
<1>1. DismissalInv /\ [Next]_vars =>
        [\A w \in Workers : Dismiss(w) => Judged(held[w].claim)]_vars
  BY DEF DismissalInv, TypeInv, StopsAreJudged, HasSignal, Dismiss
<1> QED BY <1>1, DismissalInvInit, DismissalInvStep, PTL DEF Spec, DismissedIsSettled
-----------------------------------------------------------------------------
(* A record is not None. *)
LEMMA NewSignal ==
  \A c \in Claims :
    /\ \A w \in Workers : [worker |-> w, claim |-> c] # None
    /\ \A t \in {"dispatch", "stop"} : [type |-> t, claim |-> c] # None
BY ConstantsFacts DEF Signal, Dispatch

-----------------------------------------------------------------------------
(* Disposals and dispatches that keep out of each other's way *)

Unhindered == ~Met("settle_race") /\ ~Met("worker_lost")

(* A dispatch between its row and its tail is the latest of its worker. *)
GateNames == gate # None => bound[gate.worker] = gate.claim

(* A disposal has left the workers that are bound to its claim, wait, have   *)
(* no signal yet and no dispatch under way.                                  *)
DisposalAlone ==
  settling # None =>
    /\ \A w \in settling.left :
         /\ bound[w] = settling.claim
         /\ box[w] = None
         /\ phase[w] \in {"sleeping", "polling"}
    /\ gate # None => gate.worker \notin settling.left

(* Every worker that is shown waiting does wait. *)
NoneLost == \A w \in Workers : phase[w] # "lost"

DisposalInv == GateNames /\ DisposalAlone /\ NoneLost

LEMMA DisposalInvInit == Init => DisposalInv
BY DEF Init, DisposalInv, GateNames, DisposalAlone, NoneLost, Free

(* Every step keeps a disposal and a dispatch apart. *)
LEMMA DisposalInvStep ==
  ASSUME Unhindered, TypeInv, DisposalInv, [Next]_vars
  PROVE  DisposalInv'
<1>m. ~Met("settle_race") /\ ~Met("worker_lost")
  BY DEF Unhindered
<1>t. /\ gate # None => gate.worker \in Workers /\ gate.claim \in Claims
      /\ settling # None => settling.left \subseteq Workers
  BY DEF TypeInv, TypeOK, landings, Dispatch, Disposal
<1> USE ConstantsFacts, NewSignal, <1>m, <1>t
<1> USE DEF DisposalInv, GateNames, DisposalAlone, NoneLost,
            TypeInv, TypeOK, landings, HasSignal, Become, Free, Ended, InWait, Phases
<1>1. ASSUME NEW w \in Workers, NEW c \in Claims, Bind(w, c) PROVE DisposalInv'
  BY <1>1 DEF Bind, ShownWaiting, Waiting, Steady, Unsignalled, Dispatch
<1>2. CASE Wake
  <2>1. CASE WakeWaiting(gate.worker, gate.claim)
    BY <1>2, <2>1 DEF Wake, WakeWaiting, ShownWaiting, Waiting, Steady, Post
  <2>2. CASE StartWorker(gate.worker, gate.claim)
    BY <1>2, <2>2 DEF Wake, StartWorker, ShownWaiting, Waiting
  <2> QED BY <1>2, <2>1, <2>2 DEF Wake
<1>3. CASE StepCloses
  BY <1>3 DEF StepCloses
<1>4. ASSUME NEW w \in Workers, Deliver(w) PROVE DisposalInv'
  BY <1>4 DEF Deliver
<1>5. ASSUME NEW w \in Workers, Heartbeat(w) PROVE DisposalInv'
  BY <1>5 DEF Heartbeat
<1>6. ASSUME NEW w \in Workers, FindNothing(w) PROVE DisposalInv'
  BY <1>6 DEF FindNothing
<1>7. ASSUME NEW w \in Workers, SelfKill(w) PROVE DisposalInv'
  BY <1>7 DEF SelfKill
<1>8. ASSUME NEW w \in Workers, ReadSignal(w) PROVE DisposalInv'
  BY <1>8 DEF ReadSignal
<1>9. ASSUME NEW w \in Workers, Rearm(w) PROVE DisposalInv'
  BY <1>9 DEF Rearm, Consumed
<1>10. ASSUME NEW w \in Workers, Dismiss(w) PROVE DisposalInv'
  BY <1>10 DEF Dismiss, Consumed
<1>11. ASSUME NEW w \in Workers, Lose(w) PROVE DisposalInv'
  BY <1>11 DEF Lose
<1>12. ASSUME NEW w \in Workers, Verify(w) PROVE DisposalInv'
  BY <1>12 DEF Verify
<1>13. ASSUME NEW c \in Claims, NEW v \in Verdicts, Settle(c, v)
      PROVE  DisposalInv'
  BY <1>13 DEF Settle, Judgeable, DisposalStarts, SettleByTool, SettleByHook, SettleUnnoticed, BoundWaiting, ShownWaiting, Waiting, Unsignalled
<1>14. ASSUME NEW w \in Workers, Dispose(w) PROVE DisposalInv'
  BY <1>14 DEF Dispose, Disposal, Post, Steady
<1>15. CASE DisposalEnds
  BY <1>15 DEF DisposalEnds
<1>17. CASE WriteLands
  BY <1>17 DEF WriteLands, Verdict
<1>18. CASE WriteLost
  BY <1>18 DEF WriteLost, Verdict
<1>16. CASE UNCHANGED vars
  BY <1>16 DEF vars
<1> QED BY <1>1, <1>2, <1>3, <1>4, <1>5, <1>6, <1>7, <1>8, <1>9, <1>10, <1>11,
          <1>12, <1>13, <1>14, <1>15, <1>16, <1>17, <1>18 DEF Next, WaitStep

-----------------------------------------------------------------------------
(* Stops *)

StopsKept == Unhindered /\ ~Met("unlink_refused")

(* A stop names the claim its worker is bound to; the file of a signal that  *)
(* has been read is still there, so that no dispatch binds its worker.       *)
StopsOwn ==
  \A w \in Workers :
    /\ box[w] # None /\ box[w].type = "stop" =>
         box[w].claim = bound[w] /\ phase[w] \in {"sleeping", "polling", "dropping"}
    /\ held[w] # None =>
         /\ phase[w] = "dropping"
         /\ box[w] # None
         /\ held[w].type = "stop" => held[w].claim = bound[w]

LEMMA StopsOwnInit == Init => StopsOwn
BY DEF Init, StopsOwn, Free

(* Every step keeps a stop with its worker. *)
LEMMA StopsOwnStep ==
  ASSUME StopsKept, TypeInv, DisposalInv, StopsOwn, [Next]_vars
  PROVE  StopsOwn'
<1>m. ~Met("settle_race") /\ ~Met("worker_lost") /\ ~Met("unlink_refused")
  BY DEF StopsKept, Unhindered
<1>t. /\ gate # None => gate.worker \in Workers /\ gate.claim \in Claims
      /\ settling # None => settling.left \subseteq Workers
  BY DEF TypeInv, TypeOK, landings, Dispatch, Disposal
<1> USE ConstantsFacts, NewSignal, <1>m, <1>t
<1> USE DEF StopsOwn, DisposalInv, GateNames, DisposalAlone, NoneLost,
            TypeInv, TypeOK, landings, HasSignal, Become, Free, Ended, InWait, Phases
<1>1. ASSUME NEW w \in Workers, NEW c \in Claims, Bind(w, c) PROVE StopsOwn'
  BY <1>1 DEF Bind, ShownWaiting, Waiting, Steady, Unsignalled, Dispatch
<1>2. CASE Wake
  <2>1. CASE WakeWaiting(gate.worker, gate.claim)
    BY <1>2, <2>1 DEF Wake, WakeWaiting, ShownWaiting, Waiting, Steady, Post
  <2>2. CASE StartWorker(gate.worker, gate.claim)
    BY <1>2, <2>2 DEF Wake, StartWorker, ShownWaiting, Waiting
  <2> QED BY <1>2, <2>1, <2>2 DEF Wake
<1>3. CASE StepCloses
  BY <1>3 DEF StepCloses
<1>4. ASSUME NEW w \in Workers, Deliver(w) PROVE StopsOwn'
  BY <1>4 DEF Deliver
<1>5. ASSUME NEW w \in Workers, Heartbeat(w) PROVE StopsOwn'
  BY <1>5 DEF Heartbeat
<1>6. ASSUME NEW w \in Workers, FindNothing(w) PROVE StopsOwn'
  BY <1>6 DEF FindNothing
<1>7. ASSUME NEW w \in Workers, SelfKill(w) PROVE StopsOwn'
  BY <1>7 DEF SelfKill
<1>8. ASSUME NEW w \in Workers, ReadSignal(w) PROVE StopsOwn'
  BY <1>8 DEF ReadSignal
<1>9. ASSUME NEW w \in Workers, Rearm(w) PROVE StopsOwn'
  BY <1>9 DEF Rearm, Consumed
<1>10. ASSUME NEW w \in Workers, Dismiss(w) PROVE StopsOwn'
  BY <1>10 DEF Dismiss, Consumed
<1>11. ASSUME NEW w \in Workers, Lose(w) PROVE StopsOwn'
  BY <1>11 DEF Lose
<1>12. ASSUME NEW w \in Workers, Verify(w) PROVE StopsOwn'
  BY <1>12 DEF Verify
<1>13. ASSUME NEW c \in Claims, NEW v \in Verdicts, Settle(c, v)
      PROVE  StopsOwn'
  BY <1>13 DEF Settle, Judgeable, DisposalStarts, SettleByTool, SettleByHook, SettleUnnoticed, BoundWaiting, ShownWaiting, Waiting, Unsignalled
<1>14. ASSUME NEW w \in Workers, Dispose(w) PROVE StopsOwn'
  BY <1>14 DEF Dispose, Disposal, Post, Steady
<1>15. CASE DisposalEnds
  BY <1>15 DEF DisposalEnds
<1>17. CASE WriteLands
  BY <1>17 DEF WriteLands, Verdict
<1>18. CASE WriteLost
  BY <1>18 DEF WriteLost, Verdict
<1>16. CASE UNCHANGED vars
  BY <1>16 DEF vars
<1> QED BY <1>1, <1>2, <1>3, <1>4, <1>5, <1>6, <1>7, <1>8, <1>9, <1>10, <1>11,
          <1>12, <1>13, <1>14, <1>15, <1>16, <1>17, <1>18 DEF Next, WaitStep

(* DismissedByOwnClaim: as long as no settlement or dispatch meets a         *)
(* disposal, signal files can be deleted and no worker is lost, the          *)
(* settlement of an older claim never stops a worker that was re-dispatched. *)
THEOREM DismissalIsOwn == ASSUME StopsKept PROVE Spec => DismissedByOwnClaim
<1>1. TypeInv /\ DisposalInv /\ StopsOwn /\ [Next]_vars
        => TypeInv' /\ DisposalInv' /\ StopsOwn'
  BY TypeInvStep, DisposalInvStep, StopsOwnStep DEF StopsKept
<1>2. TypeInv /\ StopsOwn /\ [Next]_vars =>
        [\A w \in Workers : Dismiss(w) => held[w].claim = bound[w]]_vars
  BY DEF TypeInv, HasSignal, StopsOwn, Dismiss
<1> QED BY <1>1, <1>2, TypeInvInit, DisposalInvInit, StopsOwnInit, PTL
        DEF Spec, DismissedByOwnClaim

-----------------------------------------------------------------------------
(* Dispatches *)

DispatchesKept == Unhindered /\ ~Met("poll_race")

(* A dispatch signal is of the latest dispatch, and its worker will read it; *)
(* a signal that has been read is the one in the file.                       *)
DispatchFresh ==
  \A w \in Workers :
    /\ box[w] # None /\ box[w].type = "dispatch" =>
         /\ box[w].claim = bound[w]
         /\ phase[w] \in {"sleeping", "polling", "dropping", "working", "delivered"}
    /\ held[w] # None => phase[w] = "dropping" /\ held[w] = box[w]

DispatchInv == DispatchFresh /\ WorksOnItsDispatch

LEMMA DispatchInvInit == Init => DispatchInv
BY DEF Init, DispatchInv, DispatchFresh, WorksOnItsDispatch, Free

(* Every step keeps a dispatch signal fresh. *)
LEMMA DispatchInvStep ==
  ASSUME DispatchesKept, TypeInv, DisposalInv, DispatchInv, [Next]_vars
  PROVE  DispatchInv'
<1>m. ~Met("settle_race") /\ ~Met("worker_lost") /\ ~Met("poll_race")
  BY DEF DispatchesKept, Unhindered
<1>t. /\ gate # None => gate.worker \in Workers /\ gate.claim \in Claims
      /\ settling # None => settling.left \subseteq Workers
  BY DEF TypeInv, TypeOK, landings, Dispatch, Disposal
<1> USE ConstantsFacts, NewSignal, <1>m, <1>t
<1> USE DEF DispatchInv, DispatchFresh, WorksOnItsDispatch, DisposalInv, GateNames, DisposalAlone, NoneLost,
            TypeInv, TypeOK, landings, HasSignal, Become, Free, Ended, InWait, Phases
<1>1. ASSUME NEW w \in Workers, NEW c \in Claims, Bind(w, c) PROVE DispatchInv'
  BY <1>1 DEF Bind, ShownWaiting, Waiting, Steady, Unsignalled, Dispatch
<1>2. CASE Wake
  <2>1. CASE WakeWaiting(gate.worker, gate.claim)
    BY <1>2, <2>1 DEF Wake, WakeWaiting, ShownWaiting, Waiting, Steady, Post
  <2>2. CASE StartWorker(gate.worker, gate.claim)
    BY <1>2, <2>2 DEF Wake, StartWorker, ShownWaiting, Waiting
  <2> QED BY <1>2, <2>1, <2>2 DEF Wake
<1>3. CASE StepCloses
  BY <1>3 DEF StepCloses
<1>4. ASSUME NEW w \in Workers, Deliver(w) PROVE DispatchInv'
  BY <1>4 DEF Deliver
<1>5. ASSUME NEW w \in Workers, Heartbeat(w) PROVE DispatchInv'
  BY <1>5 DEF Heartbeat
<1>6. ASSUME NEW w \in Workers, FindNothing(w) PROVE DispatchInv'
  BY <1>6 DEF FindNothing
<1>7. ASSUME NEW w \in Workers, SelfKill(w) PROVE DispatchInv'
  BY <1>7 DEF SelfKill
<1>8. ASSUME NEW w \in Workers, ReadSignal(w) PROVE DispatchInv'
  BY <1>8 DEF ReadSignal
<1>9. ASSUME NEW w \in Workers, Rearm(w) PROVE DispatchInv'
  BY <1>9 DEF Rearm, Consumed
<1>10. ASSUME NEW w \in Workers, Dismiss(w) PROVE DispatchInv'
  BY <1>10 DEF Dismiss, Consumed
<1>11. ASSUME NEW w \in Workers, Lose(w) PROVE DispatchInv'
  BY <1>11 DEF Lose
<1>12. ASSUME NEW w \in Workers, Verify(w) PROVE DispatchInv'
  BY <1>12 DEF Verify
<1>13. ASSUME NEW c \in Claims, NEW v \in Verdicts, Settle(c, v)
      PROVE  DispatchInv'
  BY <1>13 DEF Settle, Judgeable, DisposalStarts, SettleByTool, SettleByHook, SettleUnnoticed, BoundWaiting, ShownWaiting, Waiting, Unsignalled
<1>14. ASSUME NEW w \in Workers, Dispose(w) PROVE DispatchInv'
  BY <1>14 DEF Dispose, Disposal, Post, Steady
<1>15. CASE DisposalEnds
  BY <1>15 DEF DisposalEnds
<1>17. CASE WriteLands
  BY <1>17 DEF WriteLands, Verdict
<1>18. CASE WriteLost
  BY <1>18 DEF WriteLost, Verdict
<1>16. CASE UNCHANGED vars
  BY <1>16 DEF vars
<1> QED BY <1>1, <1>2, <1>3, <1>4, <1>5, <1>6, <1>7, <1>8, <1>9, <1>10, <1>11,
          <1>12, <1>13, <1>14, <1>15, <1>16, <1>17, <1>18 DEF Next, WaitStep

(* WorksOnItsDispatch: as long as no settlement or dispatch meets a          *)
(* disposal, no signal is written in the middle of a poll and no worker is   *)
(* lost, no stale or repeated signal sets a worker to work, not even one     *)
(* whose file could not be deleted.                                          *)
THEOREM WorkIsDispatched == ASSUME DispatchesKept PROVE Spec => []WorksOnItsDispatch
<1>1. TypeInv /\ DisposalInv /\ DispatchInv /\ [Next]_vars
        => TypeInv' /\ DisposalInv' /\ DispatchInv'
  BY TypeInvStep, DisposalInvStep, DispatchInvStep DEF DispatchesKept
<1>2. DispatchInv => WorksOnItsDispatch
  BY DEF DispatchInv
<1> QED BY <1>1, <1>2, TypeInvInit, DisposalInvInit, DispatchInvInit, PTL DEF Spec

VerifiedKept == DispatchesKept /\ ~Met("unverified_rearm")

(* Between its row and its tail a dispatch finds its worker free or waiting, *)
(* with its facts verified and no signal to read.                            *)
GateReady ==
  gate # None =>
    \/ phase[gate.worker] \in Free
    \/ /\ phase[gate.worker] \in {"sleeping", "polling", "expiring"}
       /\ gate.worker \in verified
       /\ box[gate.worker] = None

(* A worker bound to another claim than its own has the dispatch coming. *)
DispatchComing ==
  \A w \in Workers :
    task[w] # bound[w] =>
      \/ phase[w] \in {"new", "dismissed", "failed"}
      \/ gate # None /\ gate.worker = w
      \/ /\ phase[w] \in {"sleeping", "polling", "dropping"}
         /\ box[w] # None
         /\ box[w].type = "dispatch"

ComingInv == GateReady /\ DispatchComing

LEMMA ComingInvInit == Init => ComingInv
BY DEF Init, ComingInv, GateReady, DispatchComing, Free

(* Every step keeps a dispatch coming. *)
LEMMA ComingInvStep ==
  ASSUME VerifiedKept, TypeInv, DisposalInv, DispatchInv, ComingInv, [Next]_vars
  PROVE  ComingInv'
<1>m. /\ ~Met("settle_race") /\ ~Met("worker_lost")
      /\ ~Met("poll_race") /\ ~Met("unverified_rearm")
  BY DEF VerifiedKept, DispatchesKept, Unhindered
<1>t. /\ gate # None => gate.worker \in Workers /\ gate.claim \in Claims
      /\ settling # None => settling.left \subseteq Workers
  BY DEF TypeInv, TypeOK, landings, Dispatch, Disposal
<1> USE ConstantsFacts, NewSignal, <1>m, <1>t
<1> USE DEF ComingInv, GateReady, DispatchComing, DispatchInv, DispatchFresh, WorksOnItsDispatch,
            DisposalInv, GateNames, DisposalAlone, NoneLost,
            TypeInv, TypeOK, landings, HasSignal, Become, Free, Ended, InWait, Phases
<1>1. ASSUME NEW w \in Workers, NEW c \in Claims, Bind(w, c) PROVE ComingInv'
  BY <1>1 DEF Bind, ShownWaiting, Waiting, Steady, Unsignalled, Dispatch
<1>2. CASE Wake
  <2>1. CASE WakeWaiting(gate.worker, gate.claim)
    BY <1>2, <2>1 DEF Wake, WakeWaiting, ShownWaiting, Waiting, Steady, Post
  <2>2. CASE StartWorker(gate.worker, gate.claim)
    BY <1>2, <2>2 DEF Wake, StartWorker, ShownWaiting, Waiting
  <2> QED BY <1>2, <2>1, <2>2 DEF Wake
<1>3. CASE StepCloses
  BY <1>3 DEF StepCloses
<1>4. ASSUME NEW w \in Workers, Deliver(w) PROVE ComingInv'
  BY <1>4 DEF Deliver
<1>5. ASSUME NEW w \in Workers, Heartbeat(w) PROVE ComingInv'
  BY <1>5 DEF Heartbeat
<1>6. ASSUME NEW w \in Workers, FindNothing(w) PROVE ComingInv'
  BY <1>6 DEF FindNothing
<1>7. ASSUME NEW w \in Workers, SelfKill(w) PROVE ComingInv'
  BY <1>7 DEF SelfKill
<1>8. ASSUME NEW w \in Workers, ReadSignal(w) PROVE ComingInv'
  BY <1>8 DEF ReadSignal
<1>9. ASSUME NEW w \in Workers, Rearm(w) PROVE ComingInv'
  BY <1>9 DEF Rearm, Consumed
<1>10. ASSUME NEW w \in Workers, Dismiss(w) PROVE ComingInv'
  BY <1>10 DEF Dismiss, Consumed
<1>11. ASSUME NEW w \in Workers, Lose(w) PROVE ComingInv'
  BY <1>11 DEF Lose
<1>12. ASSUME NEW w \in Workers, Verify(w) PROVE ComingInv'
  BY <1>12 DEF Verify
<1>13. ASSUME NEW c \in Claims, NEW v \in Verdicts, Settle(c, v)
      PROVE  ComingInv'
  BY <1>13 DEF Settle, Judgeable, DisposalStarts, SettleByTool, SettleByHook, SettleUnnoticed, BoundWaiting, ShownWaiting, Waiting, Unsignalled
<1>14. ASSUME NEW w \in Workers, Dispose(w) PROVE ComingInv'
  BY <1>14 DEF Dispose, Disposal, Post, Steady
<1>15. CASE DisposalEnds
  BY <1>15 DEF DisposalEnds
<1>17. CASE WriteLands
  BY <1>17 DEF WriteLands, Verdict
<1>18. CASE WriteLost
  BY <1>18 DEF WriteLost, Verdict
<1>16. CASE UNCHANGED vars
  BY <1>16 DEF vars
<1> QED BY <1>1, <1>2, <1>3, <1>4, <1>5, <1>6, <1>7, <1>8, <1>9, <1>10, <1>11,
          <1>12, <1>13, <1>14, <1>15, <1>16, <1>17, <1>18 DEF Next, WaitStep

(* UnscheduledWasNotDispatched: if in addition only verified deliveries are  *)
(* dispatched again, a dispatch to a waiting worker is never lost to the     *)
(* round cap.                                                                *)
THEOREM NoDispatchExpires == ASSUME VerifiedKept PROVE Spec => []UnscheduledWasNotDispatched
<1>1. TypeInv /\ DisposalInv /\ DispatchInv /\ ComingInv /\ [Next]_vars
        => TypeInv' /\ DisposalInv' /\ DispatchInv' /\ ComingInv'
  BY TypeInvStep, DisposalInvStep, DispatchInvStep, ComingInvStep
  DEF VerifiedKept, DispatchesKept
<1>2. TypeInv /\ DisposalInv /\ ComingInv => UnscheduledWasNotDispatched
  <2> SUFFICES ASSUME TypeInv, DisposalInv, ComingInv, NEW w \in Workers,
                      phase[w] = "unscheduled", task[w] # bound[w]
               PROVE  gate = [worker |-> w, claim |-> bound[w]]
    BY DEF UnscheduledWasNotDispatched
  <2>1. gate # None /\ gate.worker = w
    BY DEF ComingInv, DispatchComing
  <2>2. gate \in Dispatch /\ gate.claim = bound[w]
    BY <2>1 DEF TypeInv, TypeOK, landings, DisposalInv, GateNames
  <2> QED BY <2>1, <2>2 DEF Dispatch
<1> QED BY <1>1, <1>2, TypeInvInit, DisposalInvInit, DispatchInvInit, ComingInvInit,
           PTL DEF Spec

-----------------------------------------------------------------------------
(* Verdicts *)

Answered ==
  /\ ~Met("settle_race") /\ ~Met("early_settle")
  /\ ~Met("silent_settle") /\ ~Met("refuted_again")

(* A worker whose work has its verdict is not at work, no dispatch is on its *)
(* way to it, and while it waits it has a signal, or has it coming.          *)
VerdictComing ==
  /\ gate # None => gate.worker \notin judged
  /\ \A w \in Workers : held[w] # None => phase[w] = "dropping"
  /\ \A w \in judged :
       /\ phase[w] \notin {"working", "delivered"}
       /\ Waiting(w) =>
            \/ box[w] # None
            \/ held[w] # None
            \/ settling # None /\ w \in settling.left

LEMMA VerdictComingInit == Init => VerdictComing
BY DEF Init, VerdictComing, Waiting, Free

(* Every step keeps a verdict coming. *)
LEMMA VerdictComingStep ==
  ASSUME Answered, TypeInv, VerdictComing, [Next]_vars
  PROVE  VerdictComing'
<1>m. /\ ~Met("settle_race") /\ ~Met("early_settle")
      /\ ~Met("silent_settle") /\ ~Met("refuted_again")
  BY DEF Answered
<1>t. /\ gate # None => gate.worker \in Workers /\ gate.claim \in Claims
      /\ settling # None => settling.left \subseteq Workers
  BY DEF TypeInv, TypeOK, landings, Dispatch, Disposal
<1> USE ConstantsFacts, NewSignal, <1>m, <1>t
<1> USE DEF VerdictComing, Waiting,
            TypeInv, TypeOK, landings, HasSignal, Become, Free, Ended, InWait, Phases
<1>1. ASSUME NEW w \in Workers, NEW c \in Claims, Bind(w, c)
      PROVE  VerdictComing'
  BY <1>1 DEF Bind, ShownWaiting, Waiting, Steady, Unsignalled, Dispatch
<1>2. CASE Wake
  <2>1. CASE WakeWaiting(gate.worker, gate.claim)
    BY <1>2, <2>1 DEF Wake, WakeWaiting, ShownWaiting, Waiting, Steady, Post
  <2>2. CASE StartWorker(gate.worker, gate.claim)
    BY <1>2, <2>2 DEF Wake, StartWorker, ShownWaiting, Waiting
  <2> QED BY <1>2, <2>1, <2>2 DEF Wake
<1>3. CASE StepCloses
  BY <1>3 DEF StepCloses
<1>4. ASSUME NEW w \in Workers, Deliver(w) PROVE VerdictComing'
  BY <1>4 DEF Deliver
<1>5. ASSUME NEW w \in Workers, Heartbeat(w) PROVE VerdictComing'
  BY <1>5 DEF Heartbeat
<1>6. ASSUME NEW w \in Workers, FindNothing(w) PROVE VerdictComing'
  BY <1>6 DEF FindNothing
<1>7. ASSUME NEW w \in Workers, SelfKill(w) PROVE VerdictComing'
  BY <1>7 DEF SelfKill
<1>8. ASSUME NEW w \in Workers, ReadSignal(w) PROVE VerdictComing'
  BY <1>8 DEF ReadSignal
<1>9. ASSUME NEW w \in Workers, Rearm(w) PROVE VerdictComing'
  BY <1>9 DEF Rearm, Consumed
<1>10. ASSUME NEW w \in Workers, Dismiss(w) PROVE VerdictComing'
  BY <1>10 DEF Dismiss, Consumed
<1>11. ASSUME NEW w \in Workers, Lose(w) PROVE VerdictComing'
  BY <1>11 DEF Lose
<1>12. ASSUME NEW w \in Workers, Verify(w) PROVE VerdictComing'
  BY <1>12 DEF Verify
<1>13. ASSUME NEW c \in Claims, NEW v \in Verdicts, Settle(c, v)
      PROVE  VerdictComing'
  <2>1. BoundWaiting(c) \subseteq Workers
    BY DEF BoundWaiting
  <2>2. v # status[c]
    BY <1>13 DEF Settle, Judgeable, DisposalStarts, SettleByTool, SettleByHook, SettleUnnoticed, Verdicts
  <2>3. PICK redo \in BOOLEAN :
          settling' = [claim |-> c, verdict |-> v, redo |-> redo, left |-> BoundWaiting(c)]
    BY <1>13, <2>2 DEF Settle, Judgeable, DisposalStarts, SettleByTool, SettleByHook, SettleUnnoticed
  <2>4. settling' # None /\ settling'.left = BoundWaiting(c)
    BY <2>1, <2>3 DEF Disposal
  <2>5. gate = None /\ settling = None /\ UNCHANGED <<gate, phase, box, held>>
    BY <1>13 DEF Settle, Judgeable, DisposalStarts, SettleByTool, SettleByHook, SettleUnnoticed
  <2>6. judged' = judged \cup {w \in Workers : bound[w] = c /\ phase[w] \notin Free}
    BY <1>13 DEF Settle, Judgeable, DisposalStarts, SettleByTool, SettleByHook, SettleUnnoticed
  <2>7. \A w \in Workers : bound[w] = c => phase[w] \notin {"working", "delivered"}
    BY <1>13 DEF Settle, Judgeable, DisposalStarts, SettleByTool, SettleByHook, SettleUnnoticed
  <2>8. \A w \in Workers : bound[w] = c /\ Waiting(w) => w \in BoundWaiting(c)
    BY DEF BoundWaiting, ShownWaiting
  <2> QED BY <2>4, <2>5, <2>6, <2>7, <2>8 DEF Waiting
<1>14. ASSUME NEW w \in Workers, Dispose(w) PROVE VerdictComing'
  BY <1>14 DEF Dispose, Disposal, Post, Steady
<1>15. CASE DisposalEnds
  BY <1>15 DEF DisposalEnds
<1>17. CASE WriteLands
  BY <1>17 DEF WriteLands, Verdict
<1>18. CASE WriteLost
  BY <1>18 DEF WriteLost, Verdict
<1>16. CASE UNCHANGED vars
  BY <1>16 DEF vars
<1> QED BY <1>1, <1>2, <1>3, <1>4, <1>5, <1>6, <1>7, <1>8, <1>9, <1>10, <1>11,
          <1>12, <1>13, <1>14, <1>15, <1>16, <1>17, <1>18 DEF Next, WaitStep

(* NoDumbWait: as long as every claim settles after the work on it, through  *)
(* a writer that disposes of its pool, to a status it did not have, and no   *)
(* dispatch meets a disposal, a waiting worker whose work has had its        *)
(* verdict has its signal, whatever is lost or overtakes.                    *)
THEOREM NobodyWaitsDumb == ASSUME Answered PROVE Spec => []NoDumbWait
<1>1. TypeInv /\ VerdictComing /\ [Next]_vars => TypeInv' /\ VerdictComing'
  BY TypeInvStep, VerdictComingStep
<1>2. VerdictComing => NoDumbWait
  BY DEF VerdictComing, NoDumbWait
<1> QED BY <1>1, <1>2, TypeInvInit, VerdictComingInit, PTL DEF Spec

-----------------------------------------------------------------------------
(* The worker pool *)

(* None of the conditions but a stop of nobody's worker, which the pool does *)
(* not see.                                                                  *)
Orderly == Conditions \subseteq {"bystander"}

(* A file holds a signal only while its worker waits and will read it. *)
SignalsRead ==
  \A w \in Workers : box[w] # None => phase[w] \in {"sleeping", "polling", "dropping"}

OrderlyInv ==
  /\ TypeInv
  /\ DisposalInv
  /\ StopsOwn
  /\ DispatchInv
  /\ ComingInv
  /\ SignalsRead

LEMMA OrderlyInvInit == Init => OrderlyInv
BY TypeInvInit, DisposalInvInit, StopsOwnInit, DispatchInvInit, ComingInvInit
   DEF Init, OrderlyInv, SignalsRead

LEMMA OrderlyMeets ==
  ASSUME Orderly
  PROVE  /\ StopsKept /\ VerifiedKept /\ Answered
         /\ ~Met("poll_race") /\ ~Met("settle_race") /\ ~Met("write_lost")
         /\ ~Met("early_settle")
         /\ ~Met("silent_settle") /\ ~Met("refuted_again")
         /\ ~Met("unverified_rearm") /\ ~Met("unlink_refused") /\ ~Met("worker_lost")
BY DEF Orderly, Met, StopsKept, VerifiedKept, Answered, DispatchesKept, Unhindered

(* Every step of the orderly protocol keeps all its invariants. *)
LEMMA OrderlyInvStep ==
  ASSUME Orderly, OrderlyInv, [Next]_vars
  PROVE  OrderlyInv'
<1>1. TypeInv' /\ DisposalInv' /\ StopsOwn' /\ DispatchInv' /\ ComingInv'
  BY OrderlyMeets, TypeInvStep, DisposalInvStep, StopsOwnStep, DispatchInvStep,
     ComingInvStep
  DEF OrderlyInv, StopsKept, VerifiedKept, DispatchesKept
<1>2. SignalsRead'
  <2>t. /\ gate # None => gate.worker \in Workers /\ gate.claim \in Claims
        /\ settling # None => settling.left \subseteq Workers
    BY DEF OrderlyInv, TypeInv, TypeOK, landings, Dispatch, Disposal
  <2> USE ConstantsFacts, NewSignal, OrderlyMeets, <2>t
  <2> USE DEF OrderlyInv, SignalsRead, GateReady, ComingInv, DisposalInv, DisposalAlone,
              NoneLost, TypeInv, TypeOK, landings, Become, Free, Ended, InWait, Phases
  <2>1. ASSUME NEW w \in Workers, NEW c \in Claims, Bind(w, c) PROVE SignalsRead'
    BY <2>1 DEF Bind, ShownWaiting, Waiting, Steady, Unsignalled, Dispatch
  <2>2. CASE Wake
    <3>1. CASE WakeWaiting(gate.worker, gate.claim)
      BY <2>2, <3>1 DEF Wake, WakeWaiting, ShownWaiting, Waiting, Steady, Post
    <3>2. CASE StartWorker(gate.worker, gate.claim)
      BY <2>2, <3>2 DEF Wake, StartWorker, ShownWaiting, Waiting
    <3> QED BY <2>2, <3>1, <3>2 DEF Wake
  <2>3. CASE StepCloses
    BY <2>3 DEF StepCloses
  <2>4. ASSUME NEW w \in Workers, Deliver(w) PROVE SignalsRead'
    BY <2>4 DEF Deliver
  <2>5. ASSUME NEW w \in Workers, Heartbeat(w) PROVE SignalsRead'
    BY <2>5 DEF Heartbeat
  <2>6. ASSUME NEW w \in Workers, FindNothing(w) PROVE SignalsRead'
    BY <2>6 DEF FindNothing
  <2>7. ASSUME NEW w \in Workers, SelfKill(w) PROVE SignalsRead'
    BY <2>7 DEF SelfKill
  <2>8. ASSUME NEW w \in Workers, ReadSignal(w) PROVE SignalsRead'
    BY <2>8 DEF ReadSignal
  <2>9. ASSUME NEW w \in Workers, Rearm(w) PROVE SignalsRead'
    BY <2>9 DEF Rearm, Consumed
  <2>10. ASSUME NEW w \in Workers, Dismiss(w) PROVE SignalsRead'
    BY <2>10 DEF Dismiss, Consumed
  <2>11. ASSUME NEW w \in Workers, Lose(w) PROVE SignalsRead'
    BY <2>11 DEF Lose
  <2>12. ASSUME NEW w \in Workers, Verify(w) PROVE SignalsRead'
    BY <2>12 DEF Verify
  <2>13. ASSUME NEW c \in Claims, NEW v \in Verdicts, Settle(c, v)
        PROVE  SignalsRead'
    BY <2>13 DEF Settle, Judgeable, DisposalStarts, SettleByTool, SettleByHook, SettleUnnoticed, BoundWaiting, ShownWaiting, Waiting, Unsignalled
  <2>14. ASSUME NEW w \in Workers, Dispose(w) PROVE SignalsRead'
    BY <2>14 DEF Dispose, Disposal, Post, Steady
  <2>15. CASE DisposalEnds
    BY <2>15 DEF DisposalEnds
  <2>17. CASE WriteLands
    BY <2>17 DEF WriteLands, Verdict
  <2>18. CASE WriteLost
    BY <2>18 DEF WriteLost, Verdict
  <2>16. CASE UNCHANGED vars
    BY <2>16 DEF vars
  <2> QED BY <2>1, <2>2, <2>3, <2>4, <2>5, <2>6, <2>7, <2>8, <2>9, <2>10, <2>11,
            <2>12, <2>13, <2>14, <2>15, <2>16, <2>17, <2>18 DEF Next, WaitStep
<1> QED BY <1>1, <1>2 DEF OrderlyInv

(* The step of the pool that a step of the protocol is, if any. *)
PoolStep == [Pool!Next]_(Pool!vars)

LEMMA PoolInit == Init => Pool!Init
BY DEF Init, Pool!Init, Decided, Mode, AtWork, Sent, Waiting, InWait, Free, Ended

(* Most steps change neither a verdict, nor a binding, nor any mode. *)
LEMMA PoolStays ==
  ASSUME UNCHANGED <<Decided, bound>>, \A u \in Workers : Mode(u)' = Mode(u)
  PROVE  PoolStep
<1>1. [u \in Workers |-> Mode(u)]' = [u \in Workers |-> Mode(u)]
  OBVIOUS
<1> QED BY <1>1 DEF PoolStep, Pool!vars

(* A write that lands is of a verdict the pool has had. *)
LEMMA WriteLandsUnseen == WriteLands => PoolStep
<1> SUFFICES ASSUME WriteLands PROVE PoolStep
  OBVIOUS
<1>1. UNCHANGED <<Decided, bound>>
  BY DEF WriteLands, Decided
<1>2. \A u \in Workers : Mode(u)' = Mode(u)
  BY DEF WriteLands, Mode, AtWork, Sent, Waiting
<1> QED BY <1>1, <1>2, PoolStays

(* The others, but for a verdict, move one worker. *)
LEMMA OneMoves ==
  ASSUME NEW w \in Workers, NEW m, Mode(w)' = m,
         \A u \in Workers \ {w} : Mode(u)' = Mode(u)
  PROVE  [u \in Workers |-> Mode(u)]' = [[u \in Workers |-> Mode(u)] EXCEPT ![w] = m]
OBVIOUS

(* A dispatch row assigns its worker, which is not at work. *)
LEMMA BindAssigns ==
  ASSUME Orderly, OrderlyInv, NEW w \in Workers, NEW c \in Claims, Bind(w, c)
  PROVE  PoolStep
<1> USE ConstantsFacts, NewSignal, OrderlyMeets
<1> USE DEF Mode, AtWork, Sent, Waiting, InWait, Free, Ended
<1>1. Mode(w) # "working"
  BY DEF Bind, OrderlyInv, DisposalInv, GateNames, DisposalAlone, NoneLost, DispatchInv, DispatchFresh, ComingInv, GateReady, StopsOwn, SignalsRead, TypeInv, TypeOK, landings, ShownWaiting, Steady, Unsignalled
<1>2. Mode(w)' = "working"
  BY DEF Bind, Dispatch
<1>3. \A u \in Workers \ {w} : Mode(u)' = Mode(u)
  BY DEF Bind, Dispatch
<1>4. [u \in Workers |-> Mode(u)]' = [[u \in Workers |-> Mode(u)] EXCEPT ![w] = "working"]
  BY <1>2, <1>3, OneMoves
<1>5. /\ Decided[c] = "open" /\ UNCHANGED Decided
      /\ bound' = [bound EXCEPT ![w] = c]
  BY DEF Bind, Decided, landings
<1> HIDE DEF Mode
<1>6. Pool!Assign(w, c)
  BY <1>1, <1>4, <1>5 DEF Pool!Assign
<1> QED BY <1>6 DEF PoolStep, Pool!Next

(* The first waiting line of a worker is its delivery. *)
LEMMA HeartbeatDelivers ==
  ASSUME Orderly, OrderlyInv, NEW w \in Workers, Heartbeat(w)
  PROVE  PoolStep
<1> USE DEF Mode, AtWork, Sent, Waiting, InWait, Free, Ended, Heartbeat, Become
<1>1. phase \in [Workers -> Phases]
  BY DEF OrderlyInv, TypeInv, TypeOK
<1>2. \A u \in Workers \ {w} : Mode(u)' = Mode(u)
  BY <1>1
<1>3. UNCHANGED <<Decided, bound>>
  BY DEF Decided, landings
<1>4. CASE phase[w] = "sleeping"
  <2>1. Mode(w)' = Mode(w)
    BY <1>1, <1>4
  <2> QED BY <1>2, <1>3, <2>1, PoolStays
<1>5. CASE phase[w] = "delivered"
  <2>1. box[w] = None /\ (gate # None => gate.worker # w)
    BY <1>5 DEF OrderlyInv, SignalsRead, ComingInv, GateReady
  <2>2. settling # None => w \notin settling.left
    BY <1>5 DEF OrderlyInv, DisposalInv, DisposalAlone
  <2>3. Mode(w) = "working" /\ Mode(w)' = "waiting"
    BY <1>1, <1>5, <2>1, <2>2
  <2>4. [u \in Workers |-> Mode(u)]' = [[u \in Workers |-> Mode(u)] EXCEPT ![w] = "waiting"]
    BY <1>2, <2>3, OneMoves
  <2> HIDE DEF Mode, Heartbeat
  <2>5. Pool!Deliver(w)
    BY <1>3, <2>3, <2>4 DEF Pool!Deliver
  <2> QED BY <2>5 DEF PoolStep, Pool!Next
<1> QED BY <1>4, <1>5

(* The round cap frees a worker, unless a dispatch has been bound to it.     *)
LEMMA SelfKillGivesUp ==
  ASSUME Orderly, OrderlyInv, NEW w \in Workers, SelfKill(w)
  PROVE  PoolStep
<1> USE DEF Mode, AtWork, Sent, Waiting, InWait, Free, Ended, SelfKill, Become
<1>1. phase \in [Workers -> Phases]
  BY DEF OrderlyInv, TypeInv, TypeOK
<1>2. \A u \in Workers \ {w} : Mode(u)' = Mode(u)
  BY <1>1
<1>3. UNCHANGED <<Decided, bound>>
  BY DEF Decided, landings
<1>4. CASE gate # None /\ gate.worker = w
  <2>1. Mode(w)' = Mode(w)
    BY <1>1, <1>4
  <2> QED BY <1>2, <1>3, <2>1, PoolStays
<1>5. CASE ~(gate # None /\ gate.worker = w)
  <2>1. box[w] = None
    BY DEF OrderlyInv, SignalsRead
  <2>2. settling # None => w \notin settling.left
    BY DEF OrderlyInv, DisposalInv, DisposalAlone
  <2>3. Mode(w) = "waiting" /\ Mode(w)' = "free"
    BY <1>1, <1>5, <2>1, <2>2
  <2>4. [u \in Workers |-> Mode(u)]' = [[u \in Workers |-> Mode(u)] EXCEPT ![w] = "free"]
    BY <1>2, <2>3, OneMoves
  <2> HIDE DEF Mode, SelfKill
  <2>5. Pool!GiveUp(w)
    BY <1>3, <2>3, <2>4 DEF Pool!GiveUp
  <2> QED BY <2>5 DEF PoolStep, Pool!Next
<1> QED BY <1>4, <1>5

(* A settlement answers everybody who waits for its claim, in one step.      *)
LEMMA SettleJudges ==
  ASSUME Orderly, OrderlyInv, NEW c \in Claims, NEW v \in Verdicts, Settle(c, v)
  PROVE  PoolStep
<1> DEFINE pool == {u \in Workers : bound[u] = c /\ Mode(u) = "waiting"}
<1>1. /\ settling = None /\ landing = None /\ gate = None /\ status[c] # "PROVEN"
      /\ UNCHANGED <<phase, box, bound, gate>>
  BY OrderlyMeets DEF Settle, Judgeable, DisposalStarts, SettleByTool, SettleByHook, SettleUnnoticed
<1>2. v # status[c]
  BY OrderlyMeets DEF Settle, Judgeable, DisposalStarts, SettleByTool, SettleByHook, SettleUnnoticed, Verdicts
<1>d. Decided = status /\ Decided' = [status EXCEPT ![c] = v]
  <2>1. CASE SettleByTool(c, v)
    BY <1>1, <2>1 DEF SettleByTool, Decided
  <2>2. CASE SettleByHook(c, v)
    <3>1. landing' = [claim |-> c, verdict |-> v] /\ UNCHANGED status
      BY <2>2 DEF SettleByHook
    <3>2. landing' # None /\ landing'.claim = c /\ landing'.verdict = v
      BY <3>1, ConstantsFacts DEF Verdict
    <3> QED BY <1>1, <3>1, <3>2 DEF Decided
  <2>3. ~SettleUnnoticed(c, v)
    BY <1>2, OrderlyMeets DEF SettleUnnoticed
  <2> QED BY <2>1, <2>2, <2>3 DEF Settle
<1>3. PICK redo \in BOOLEAN :
        /\ redo => v = "REFUTED"
        /\ settling' = [claim |-> c, verdict |-> v, redo |-> redo, left |-> BoundWaiting(c)]
  BY <1>2, OrderlyMeets DEF Settle, Judgeable, DisposalStarts, SettleByTool, SettleByHook, SettleUnnoticed
<1>4. /\ settling' # None /\ settling'.left = BoundWaiting(c)
      /\ settling'.redo = redo
  <2>1. BoundWaiting(c) \subseteq Workers
    BY DEF BoundWaiting
  <2> QED BY <1>3, <2>1, ConstantsFacts DEF Disposal
<1>5. phase \in [Workers -> Phases]
  BY DEF OrderlyInv, TypeInv, TypeOK
<1>6. ASSUME NEW u \in Workers, bound[u] = c, phase[u] \notin Free
      PROVE  phase[u] \in {"sleeping", "polling"} /\ box[u] = None
  BY <1>5, <1>6, OrderlyMeets
  DEF Settle, Judgeable, DisposalStarts, SettleByTool, SettleByHook, SettleUnnoticed, Unsignalled, OrderlyInv, DisposalInv, NoneLost, ComingInv, Phases, InWait
<1>7. \A u \in Workers :
        Mode(u) =
          IF \/ phase[u] \in {"working", "delivered"}
             \/ (Waiting(u) /\ box[u] # None /\ box[u].type = "dispatch")
            THEN "working"
          ELSE IF phase[u] \in Free \/ (box[u] # None /\ box[u].type = "stop")
            THEN "free"
          ELSE "waiting"
  BY <1>1 DEF Mode, AtWork, Sent
<1>8. \A u \in Workers : bound[u] = c => Mode(u) # "working"
  BY <1>6, <1>7 DEF Free, Ended, Waiting, InWait
<1>9. BoundWaiting(c) = pool
  <2>1. \A u \in Workers : bound[u] = c => (ShownWaiting(u) <=> Mode(u) = "waiting")
    BY <1>6, <1>7 DEF Free, Ended, Waiting, InWait, ShownWaiting
  <2> QED BY <2>1 DEF BoundWaiting
<1>10. pool # {}
  <2>1. PICK u \in Workers : bound[u] = c /\ phase[u] \notin Free
    BY DEF Settle, Judgeable, DisposalStarts, SettleByTool, SettleByHook, SettleUnnoticed
  <2>2. ShownWaiting(u)
    BY <1>6, <2>1 DEF ShownWaiting, Waiting, InWait
  <2> QED BY <1>9, <2>1, <2>2 DEF BoundWaiting
<1>11. ASSUME NEW u \in Workers
       PROVE  Mode(u)' = IF u \notin pool THEN Mode(u)
                         ELSE IF redo THEN "working" ELSE "free"
  <2>1. CASE u \in pool
    <3>1. Waiting(u) /\ phase[u] \notin Free \cup {"working", "delivered"} /\ box[u] = None
      BY <1>6, <1>7, <2>1 DEF Waiting, InWait, Free, Ended
    <3>2. u \in settling'.left
      BY <1>4, <1>9, <2>1
    <3> QED BY <1>1, <1>4, <2>1, <3>1, <3>2 DEF Mode, AtWork, Sent, Waiting
  <2>2. CASE u \notin pool
    <3>1. u \notin settling'.left
      BY <1>4, <1>9, <2>2
    <3>2. (\A t : Sent(u, t)' = Sent(u, t)) /\ Waiting(u)' = Waiting(u)
      BY <1>1, <3>1 DEF Sent, Waiting
    <3>3. AtWork(u)' = AtWork(u)
      BY <1>1, <3>2 DEF AtWork
    <3> QED BY <1>1, <2>2, <3>2, <3>3 DEF Mode
  <2> QED BY <2>1, <2>2
<1> HIDE DEF pool
<1>12. [u \in Workers |-> Mode(u)]' =
         [u \in Workers |-> IF u \notin pool THEN Mode(u)
                            ELSE IF redo THEN "working" ELSE "free"]
  BY <1>11
<1>13. Pool!Pool(c) = pool
  BY DEF Pool!Pool, pool
<1>14. Pool!Judge(c, v, redo)
  BY <1>1, <1>2, <1>d, <1>3, <1>8, <1>10, <1>12, <1>13 DEF Pool!Judge
<1> QED BY <1>14 DEF PoolStep, Pool!Next, Verdicts

(* Every step of the orderly protocol is a step of the pool, or none.        *)
LEMMA StepIsPool ==
  ASSUME Orderly, OrderlyInv, [Next]_vars
  PROVE  PoolStep
<1>t. /\ gate # None => gate.worker \in Workers /\ gate.claim \in Claims
      /\ settling # None => settling.left \subseteq Workers
  BY DEF OrderlyInv, TypeInv, TypeOK, landings, Dispatch, Disposal
<1> USE ConstantsFacts, NewSignal, OrderlyMeets, <1>t
<1> USE DEF OrderlyInv, SignalsRead, GateReady, ComingInv, DisposalInv, DisposalAlone,
            NoneLost, DispatchInv, DispatchFresh, HasSignal, TypeInv, TypeOK, landings, Become,
            Free, Ended, InWait, Phases, Mode, AtWork, Sent, Waiting
<1>1. ASSUME NEW w \in Workers, NEW c \in Claims, Bind(w, c) PROVE PoolStep
  BY <1>1, BindAssigns
<1>2. CASE Wake
  <2>1. CASE WakeWaiting(gate.worker, gate.claim)
    <3>1. \A u \in Workers : Mode(u)' = Mode(u)
      BY <1>2, <2>1 DEF Wake, WakeWaiting, ShownWaiting, Steady, Post
    <3> QED BY <1>2, <3>1, PoolStays DEF Wake, Decided
  <2>2. CASE StartWorker(gate.worker, gate.claim)
    <3>1. \A u \in Workers : Mode(u)' = Mode(u)
      BY <1>2, <2>2 DEF Wake, StartWorker, ShownWaiting
    <3> QED BY <1>2, <3>1, PoolStays DEF Wake, Decided
  <2> QED BY <1>2, <2>1, <2>2 DEF Wake
<1>3. CASE StepCloses
  <2>1. \A u \in Workers : Mode(u)' = Mode(u)
    BY <1>3 DEF StepCloses
  <2> QED BY <1>3, <2>1, PoolStays DEF StepCloses, Decided
<1>4. ASSUME NEW w \in Workers, Deliver(w) PROVE PoolStep
  <2>1. \A u \in Workers : Mode(u)' = Mode(u)
    BY <1>4 DEF Deliver
  <2> QED BY <1>4, <2>1, PoolStays DEF Deliver, Decided
<1>5. ASSUME NEW w \in Workers, Heartbeat(w) PROVE PoolStep
  BY <1>5, HeartbeatDelivers
<1>6. ASSUME NEW w \in Workers, FindNothing(w) PROVE PoolStep
  <2>1. \A u \in Workers : Mode(u)' = Mode(u)
    BY <1>6 DEF FindNothing
  <2> QED BY <1>6, <2>1, PoolStays DEF FindNothing, Decided
<1>7. ASSUME NEW w \in Workers, SelfKill(w) PROVE PoolStep
  BY <1>7, SelfKillGivesUp
<1>8. ASSUME NEW w \in Workers, ReadSignal(w) PROVE PoolStep
  <2>1. \A u \in Workers : Mode(u)' = Mode(u)
    BY <1>8 DEF ReadSignal
  <2> QED BY <1>8, <2>1, PoolStays DEF ReadSignal, Decided
<1>9. ASSUME NEW w \in Workers, Rearm(w) PROVE PoolStep
  <2>1. \A u \in Workers : Mode(u)' = Mode(u)
    BY <1>9 DEF Rearm, Consumed
  <2> QED BY <1>9, <2>1, PoolStays DEF Rearm, Decided
<1>10. ASSUME NEW w \in Workers, Dismiss(w) PROVE PoolStep
  <2>1. \A u \in Workers : Mode(u)' = Mode(u)
    BY <1>10 DEF Dismiss, Consumed
  <2> QED BY <1>10, <2>1, PoolStays DEF Dismiss, Decided
<1>11. ASSUME NEW w \in Workers, Lose(w) PROVE PoolStep
  <2>1. \A u \in Workers : Mode(u)' = Mode(u)
    BY <1>11 DEF Lose
  <2> QED BY <1>11, <2>1, PoolStays DEF Lose, Decided
<1>12. ASSUME NEW w \in Workers, Verify(w) PROVE PoolStep
  <2>1. \A u \in Workers : Mode(u)' = Mode(u)
    BY <1>12 DEF Verify
  <2> QED BY <1>12, <2>1, PoolStays DEF Verify, Decided
<1>13. ASSUME NEW c \in Claims, NEW v \in Verdicts, Settle(c, v) PROVE PoolStep
  BY <1>13, SettleJudges
<1>14. ASSUME NEW w \in Workers, Dispose(w) PROVE PoolStep
  <2>1. \A u \in Workers : Mode(u)' = Mode(u)
    BY <1>14 DEF Dispose, Disposal, Post, Steady
  <2> QED BY <1>14, <2>1, PoolStays DEF Dispose, Decided
<1>15. CASE DisposalEnds
  <2>1. \A u \in Workers : Mode(u)' = Mode(u)
    BY <1>15 DEF DisposalEnds
  <2> QED BY <1>15, <2>1, PoolStays DEF DisposalEnds, Decided
<1>17. CASE WriteLands
  BY <1>17, WriteLandsUnseen
<1>18. CASE WriteLost
  BY <1>18 DEF WriteLost
<1>16. CASE UNCHANGED vars
  <2>1. \A u \in Workers : Mode(u)' = Mode(u)
    BY <1>16 DEF vars
  <2> QED BY <1>16, <2>1, PoolStays DEF vars, Decided
<1> QED BY <1>1, <1>2, <1>3, <1>4, <1>5, <1>6, <1>7, <1>8, <1>9, <1>10, <1>11,
          <1>12, <1>13, <1>14, <1>15, <1>16, <1>17, <1>18 DEF Next, WaitStep

(* DismissalStands: in the orderly protocol a worker that was dismissed has  *)
(* the verdict on its work in the register, as soon as the write that the    *)
(* hook has let through is made.                                             *)
THEOREM DismissalLands == ASSUME Orderly PROVE Spec => []DismissalStands
<1> DEFINE DismissedJudged ==
             /\ denied = {}
             /\ \A w \in Workers :
                  phase[w] = "dismissed" =>
                    /\ task[w] \in Claims
                    /\ \A c \in Claims : c = task[w] => Judged(c)
<1>1. Init => DismissedJudged
  BY DEF Init
<1>2. ASSUME OrderlyInv, DismissalInv, DismissedJudged, [Next]_vars
      PROVE  DismissedJudged'
  <2> USE OrderlyMeets, ConstantsFacts
  <2>1. denied' = {}
    BY <1>2 DEF Next, WaitStep, Bind, Wake, StepCloses, Deliver, Heartbeat, FindNothing,
                SelfKill, ReadSignal, Rearm, Dismiss, Lose, Verify, Settle, Dispose,
                DisposalEnds, WriteLands, WriteLost, landings, vars
  <2>2. \A c \in Claims : Judged(c) => Judged(c)'
    BY <1>2, JudgedStays DEF DismissalInv
  <2>3. phase \in [Workers -> Phases] /\ task \in [Workers -> Claims \cup {None}]
    BY <1>2 DEF OrderlyInv, TypeInv, TypeOK
  <2>4. ASSUME NEW w \in Workers, phase'[w] = "dismissed"
        PROVE  task'[w] \in Claims /\ (\A c \in Claims : c = task'[w] => Judged(c)')
    <3>1. CASE Dismiss(w)
      <4>1. held[w] # None /\ held[w] = box[w] /\ held[w].type = "stop" /\ held[w] \in Signal
        BY <1>2, <3>1 DEF Dismiss, OrderlyInv, TypeInv, TypeOK, HasSignal, DispatchInv, DispatchFresh
      <4>2. held[w].claim \in Claims /\ Judged(held[w].claim)
        BY <1>2, <4>1 DEF DismissalInv, StopsAreJudged, Signal
      <4>3. held[w].claim = bound[w]
        BY <1>2, <4>1 DEF OrderlyInv, StopsOwn
      <4>4. task[w] = bound[w]
        BY <1>2, <3>1, <4>1 DEF Dismiss, OrderlyInv, ComingInv, GateReady, DispatchComing,
                                Free, Ended
      <4>5. task'[w] = held[w].claim
        BY <3>1, <4>3, <4>4 DEF Dismiss
      <4> QED BY <2>2, <4>2, <4>5
    <3>2. CASE phase[w] = "dismissed" /\ task'[w] = task[w]
      BY <1>2, <2>2, <3>2
    <3>3. Dismiss(w) \/ (phase[w] = "dismissed" /\ task'[w] = task[w])
      BY <1>2, <2>3, <2>4
      DEF Next, WaitStep, Bind, Wake, WakeWaiting, StartWorker, StepCloses, Deliver,
          Heartbeat, FindNothing, SelfKill, ReadSignal, Rearm, Dismiss, Lose, Verify,
          Settle, Dispose, DisposalEnds, WriteLands, WriteLost, Become, vars
    <3> QED BY <3>1, <3>2, <3>3
  <2> QED BY <2>1, <2>4
<1>3. DismissedJudged => DismissalStands
  BY DEF DismissalStands, Judged
<1> HIDE DEF DismissedJudged
<1>4. OrderlyInv /\ DismissalInv /\ DismissedJudged /\ [Next]_vars
        => OrderlyInv' /\ DismissalInv' /\ DismissedJudged'
  BY <1>2, OrderlyInvStep, DismissalInvStep
<1> QED BY <1>1, <1>3, <1>4, OrderlyInvInit, DismissalInvInit, PTL DEF Spec

(* ImplementsWorkerPool: in the orderly protocol the signal files, written   *)
(* one by one and read whenever their workers poll, amount to one step per   *)
(* dispatch and one per verdict, which is taken when its disposal starts and *)
(* lands in the register before that or after.                               *)
THEOREM PoolRefinement == ASSUME Orderly PROVE Spec => ImplementsWorkerPool
<1>1. OrderlyInv /\ [Next]_vars => OrderlyInv' /\ PoolStep
  BY OrderlyInvStep, StepIsPool
<1> QED BY <1>1, OrderlyInvInit, PoolInit, PTL
        DEF Spec, ImplementsWorkerPool, Pool!Spec, PoolStep

=============================================================================
