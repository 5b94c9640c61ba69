-------------------------- MODULE DispatchTxnProofs --------------------------
(***************************************************************************)
(* Proofs about DispatchTxn, for any claims, dispatches and cap.           *)
(*                                                                         *)
(* Types, and what an intent may name, hold under every set of operating   *)
(* conditions.  Each other theorem names the conditions it excludes, and   *)
(* holds under all the rest: chains may die before a mark is saved, gates  *)
(* may end without a verdict, steps may fail to write, unless it says so.  *)
(* DispatchTxnCalmProofs adds the refinement, which needs calm ones.       *)
(***************************************************************************)
EXTENDS DispatchTxn, TLAPS, SequenceTheorems

-----------------------------------------------------------------------------
CommitPhases ==
  {"anchor", "stash", "register", "finish"} \cup WindowPhases

(* A process that is applying or undoing steps holds an intent in memory.    *)
MemHeld ==
  \A d \in Dispatches :
    phase[d] \in CommitPhases \cup {"recover", "abort"} => mem[d] # None

(* A process applies steps only under an intent of its own claim.            *)
CommitsOwnClaim ==
  \A d \in Dispatches :
    phase[d] \in CommitPhases => ClaimOf[mem[d].id] = ClaimOf[d]

AnyInv == TypeOK /\ MemHeld /\ CommitsOwnClaim /\ RollbackStaysOnClaim

(* EdgeTargets: the store matrix leads from known statuses to known ones. *)
LEMMA EdgeTargets == \A edge \in StoreEdges : edge[2] \in Status
BY DEF StoreEdges, Status

(* StatusWrite: a store face's write of one status keeps the register's type. *)
LEMMA StatusWrite ==
  ASSUME NEW entries \in [Claims -> Entry], NEW c \in Claims, NEW s \in Status
  PROVE  [entries EXCEPT ![c].status = s] \in [Claims -> Entry]
BY DEF Entry

(* AppendType: appending a row, at the cap or below it, yields a log.        *)
LEMMA AppendType ==
  ASSUME NEW rows \in Seq(Dispatches), NEW d \in Dispatches
  PROVE  Append(Room(rows), d) \in Seq(Dispatches)
<1>1. Room(rows) \in Seq(Dispatches)
  <2>1. CASE Met("log_full") /\ Len(rows) >= AnchorCap
    <3>1. rows # << >>
      BY <2>1, ConstantsAssumption
    <3>2. Tail(rows) \in Seq(Dispatches)
      BY <3>1
    <3> QED BY <2>1, <3>2 DEF Room
  <2>2. CASE ~(Met("log_full") /\ Len(rows) >= AnchorCap)
    BY <2>2 DEF Room
  <2> QED BY <2>1, <2>2
<1> QED BY <1>1

(* DropLastType: a log without its last row is a log.                        *)
LEMMA DropLastType ==
  ASSUME NEW rows \in Seq(Dispatches), Len(rows) > 0
  PROVE  DropLast(rows) \in Seq(Dispatches)
BY DEF DropLast

(* MarkAnyInv, FailStepAnyInv: marking a step, whether it ran or failed.      *)
LEMMA MarkAnyInv ==
  ASSUME AnyInv, NEW d \in Dispatches, NEW step \in Steps,
         NEW next \in {"stash", "register", "finish"},
         phase[d] \in CommitPhases, Mark(d, step, next)
  PROVE  AnyInv'
<1> DEFINE marked == [mem[d] EXCEPT !.applied = @ \cup {step}]
<1> USE DEF AnyInv
<1>1. mem[d] \in Journal
  BY DEF TypeOK, MemHeld
<1>2. /\ marked \in Journal /\ marked # None
      /\ marked.id = mem[d].id /\ marked.anchorRow = mem[d].anchorRow
  BY <1>1, NoneIsNoIntent DEF Journal
<1> HIDE DEF marked
<1>3. /\ mem' = [mem EXCEPT ![d] = marked]
      /\ journal' = journal \/ journal' = marked
      /\ phase' = [phase EXCEPT ![d] = next]
      /\ UNCHANGED <<register, anchor, stash, undo>>
  BY DEF Mark, Goto, marked
<1>4. TypeOK'
  BY <1>2, <1>3 DEF TypeOK, Phases, ChainPhases, BudgetPhases
<1>5. MemHeld' /\ CommitsOwnClaim'
  BY <1>2, <1>3 DEF TypeOK, MemHeld, CommitsOwnClaim
<1>6. RollbackStaysOnClaim'
  BY <1>1, <1>2, <1>3, ConstantsAssumption
     DEF TypeOK, RollbackStaysOnClaim, RowOfClaim, MemHeld
<1> QED BY <1>4, <1>5, <1>6

LEMMA FailStepAnyInv ==
  ASSUME AnyInv, NEW d \in Dispatches, NEW step \in Steps, FailStep(d, step)
  PROVE  AnyInv'
<1> DEFINE marked == [mem[d] EXCEPT !.applied = @ \cup {step}]
<1> USE DEF AnyInv
<1>1. mem[d] \in Journal
  BY DEF TypeOK, MemHeld, FailStep, At, CommitPhases, Steps
<1>2. /\ marked \in Journal
      /\ marked.id = mem[d].id /\ marked.anchorRow = mem[d].anchorRow
  BY <1>1 DEF Journal
<1> HIDE DEF marked
<1>3. /\ journal' = marked
      /\ mem' = [mem EXCEPT ![d] = None] /\ undo' = [undo EXCEPT ![d] = {}]
      /\ phase' = [phase EXCEPT ![d] = "gate"]
      /\ UNCHANGED <<register, anchor, stash>>
  BY DEF FailStep, Exit, Goto, marked
<1>4. TypeOK'
  BY <1>2, <1>3 DEF TypeOK, Phases, ChainPhases, GatePhases
<1>5. MemHeld' /\ CommitsOwnClaim'
  BY <1>3 DEF TypeOK, MemHeld, CommitsOwnClaim, CommitPhases, WindowPhases
<1>6. RowOfClaim(mem[d]) /\ mem[d] # None
  BY DEF RollbackStaysOnClaim, MemHeld, FailStep, At, CommitPhases, Steps
<1>7. RollbackStaysOnClaim'
  BY <1>2, <1>3, <1>6 DEF TypeOK, RollbackStaysOnClaim, RowOfClaim
<1> QED BY <1>4, <1>5, <1>7

(* AnyInvStep: every step preserves the invariant.   *)
LEMMA AnyInvStep == AnyInv /\ [Next]_vars => AnyInv'
<1> SUFFICES ASSUME AnyInv, [Next]_vars PROVE AnyInv'
  OBVIOUS
<1> USE ConstantsAssumption
    DEF AnyInv, TypeOK, MemHeld, CommitsOwnClaim, RollbackStaysOnClaim, RowOfClaim,
        CommitPhases, WindowPhases, BudgetPhases, GatePhases, ChainPhases, Phases,
        Journal, Steps, Entry, Status, At, Goto
<1>1. ASSUME NEW d \in Dispatches, Admit(d) PROVE AnyInv'
  BY <1>1 DEF Admit
<1>2. ASSUME NEW d \in Dispatches, BeginInFlight(d) PROVE AnyInv'
  BY <1>2 DEF BeginInFlight, JournalClaim
<1>3. ASSUME NEW d \in Dispatches, BeginRecovers(d) PROVE AnyInv'
  BY <1>3 DEF BeginRecovers
<1>4. ASSUME NEW d \in Dispatches, OpenIntent(d) PROVE AnyInv'
  BY <1>4 DEF OpenIntent
<1>5. ASSUME NEW d \in Dispatches, LoadIntent(d) PROVE AnyInv'
  <2>1. CASE journal # None /\ JournalClaim = ClaimOf[d]
    <3>1. /\ mem' = [mem EXCEPT ![d] = journal]
          /\ phase' = [phase EXCEPT ![d] = "anchor"]
          /\ UNCHANGED <<register, anchor, stash, journal, undo>>
      BY <1>5, <2>1 DEF LoadIntent
    <3>2. TypeOK'
      BY <3>1
    <3> QED BY <2>1, <3>1, <3>2 DEF JournalClaim
  <2>2. CASE ~(journal # None /\ JournalClaim = ClaimOf[d])
    <3>1. /\ mem' = [mem EXCEPT ![d] = None] /\ undo' = [undo EXCEPT ![d] = {}]
          /\ phase' = [phase EXCEPT ![d] = "gate"]
          /\ UNCHANGED <<register, anchor, stash, journal>>
      BY <1>5, <2>2 DEF LoadIntent, Exit
    <3> QED BY <3>1
  <2> QED BY <2>1, <2>2
<1>6. ASSUME NEW d \in Dispatches, WriteAnchor(d) PROVE AnyInv'
  <2> DEFINE held == [mem[d] EXCEPT !.anchorRow = d]
  <2>1. mem[d] \in Journal /\ ClaimOf[mem[d].id] = ClaimOf[d]
    BY <1>6 DEF WriteAnchor
  <2>2. held \in Journal /\ held # None /\ held.id = mem[d].id /\ held.anchorRow = d
    BY <2>1, NoneIsNoIntent
  <2> HIDE DEF held
  <2>3. /\ mem' = [mem EXCEPT ![d] = held]
        /\ phase' = [phase EXCEPT ![d] = "anchor_mark"]
        /\ UNCHANGED <<register, stash, journal, undo>>
    BY <1>6 DEF WriteAnchor, held
  <2>4. anchor' \in [Claims -> Seq(Dispatches)]
    BY <1>6, AppendType DEF WriteAnchor
  <2>5. TypeOK'
    BY <2>2, <2>3, <2>4
  <2>6. MemHeld' /\ CommitsOwnClaim' /\ RollbackStaysOnClaim'
    BY <2>1, <2>2, <2>3
  <2> QED BY <2>5, <2>6
<1>7. ASSUME NEW d \in Dispatches, MarkAnchor(d) PROVE AnyInv'
  <2>1. phase[d] \in CommitPhases /\ Mark(d, "anchor", "stash")
    BY <1>7 DEF MarkAnchor
  <2> HIDE DEF AnyInv, CommitPhases
  <2> QED BY <2>1, MarkAnyInv
<1>8. ASSUME NEW d \in Dispatches, WriteStash(d) PROVE AnyInv'
  BY <1>8 DEF WriteStash
<1>9. ASSUME NEW d \in Dispatches, MarkStash(d) PROVE AnyInv'
  <2>1. phase[d] \in CommitPhases /\ Mark(d, "stash", "register")
    BY <1>9 DEF MarkStash
  <2> HIDE DEF AnyInv, CommitPhases
  <2> QED BY <2>1, MarkAnyInv
<1>10. ASSUME NEW d \in Dispatches, WriteRegister(d) PROVE AnyInv'
  BY <1>10 DEF WriteRegister
<1>11. ASSUME NEW d \in Dispatches, RefuseRegister(d) PROVE AnyInv'
  <2>1. FailStep(d, "register")
    BY <1>11 DEF RefuseRegister
  <2> HIDE DEF AnyInv
  <2> QED BY <2>1, FailStepAnyInv
<1>12. ASSUME NEW d \in Dispatches, MarkRegister(d) PROVE AnyInv'
  <2>1. phase[d] \in CommitPhases /\ Mark(d, "register", "finish")
    BY <1>12 DEF MarkRegister
  <2> HIDE DEF AnyInv, CommitPhases
  <2> QED BY <2>1, MarkAnyInv
<1>13. ASSUME NEW d \in Dispatches, Finish(d) PROVE AnyInv'
  BY <1>13 DEF Finish, Exit
<1>14. ASSUME NEW d \in Dispatches, StepFault(d) PROVE AnyInv'
  <2>1. CASE FailStep(d, "anchor") \/ FailStep(d, "stash")
    <3> HIDE DEF AnyInv
    <3> QED BY <2>1, FailStepAnyInv
  <2>2. CASE Exit(d, "gate") /\ UNCHANGED <<register, anchor, stash, journal>>
    BY <2>2 DEF Exit
  <2> QED BY <1>14, <2>1, <2>2 DEF StepFault
<1>15. ASSUME NEW d \in Dispatches, GateAllows(d) PROVE AnyInv'
  <2>1. register' \in [Claims -> Entry]
    <3> DEFINE counted == [register[ClaimOf[d]] EXCEPT !.count = @ + 1]
    <3>1. counted \in Entry
      <4>1. register[ClaimOf[d]] \in Entry
        OBVIOUS
      <4> HIDE DEF AnyInv, TypeOK, Status
      <4> QED BY <4>1
    <3>2. register' = register \/ register' = [register EXCEPT ![ClaimOf[d]] = counted]
      BY <1>15 DEF GateAllows
    <3> QED BY <3>1, <3>2
  <2>2. TypeOK'
    BY <1>15, <2>1 DEF GateAllows
  <2> QED BY <1>15, <2>2 DEF GateAllows
<1>16. ASSUME NEW d \in Dispatches, Confirm(d) PROVE AnyInv'
  BY <1>16 DEF Confirm
<1>17. ASSUME NEW d \in Dispatches, GateUnresolved(d) PROVE AnyInv'
  BY <1>17 DEF GateUnresolved
<1>18. ASSUME NEW d \in Dispatches, GateRejects(d) PROVE AnyInv'
  <2>1. CASE journal # None /\ JournalClaim = ClaimOf[d]
    <3>1. /\ mem' = [mem EXCEPT ![d] = journal]
          /\ undo' = [undo EXCEPT ![d] = journal.applied]
          /\ phase' = [phase EXCEPT ![d] = "abort"]
          /\ UNCHANGED <<register, anchor, stash, journal>>
      BY <1>18, <2>1 DEF GateRejects
    <3>2. TypeOK'
      BY <2>1, <3>1
    <3> QED BY <2>1, <3>1, <3>2
  <2>2. CASE ~(journal # None /\ JournalClaim = ClaimOf[d])
    <3>1. phase' = [phase EXCEPT ![d] = "rejected"] /\ phase[d] = "gate"
      BY <1>18, <2>2 DEF GateRejects
    <3>2. UNCHANGED <<register, anchor, stash, journal, mem, undo>>
      BY <1>18, <2>2 DEF GateRejects
    <3> QED BY <3>1, <3>2
  <2> QED BY <2>1, <2>2
<1>19. ASSUME NEW d \in Dispatches, UndoRegister(d) PROVE AnyInv'
  BY <1>19 DEF UndoRegister, RollingBack
<1>20. ASSUME NEW d \in Dispatches, UndoStash(d) PROVE AnyInv'
  BY <1>20 DEF UndoStash, RollingBack
<1>21. ASSUME NEW d \in Dispatches, UndoAnchor(d) PROVE AnyInv'
  BY <1>21, DropLastType DEF UndoAnchor, RollingBack, EndsWith
<1>22. ASSUME NEW d \in Dispatches, ClearRecovered(d) PROVE AnyInv'
  BY <1>22 DEF ClearRecovered
<1>23. ASSUME NEW d \in Dispatches, ClearAborted(d) PROVE AnyInv'
  BY <1>23 DEF ClearAborted, Exit
<1>24. ASSUME NEW d \in Dispatches, Crash(d) PROVE AnyInv'
  BY <1>24 DEF Crash, Exit
<1>25. ASSUME NEW d \in Dispatches, HookTimeout(d) PROVE AnyInv'
  BY <1>25 DEF HookTimeout, Exit
<1>26. ASSUME NEW d \in Dispatches, SubagentStop(d) PROVE AnyInv'
  BY <1>26 DEF SubagentStop, Pending
<1>27. ASSUME NEW c \in Claims, StoreApply(c) PROVE AnyInv'
  <2>1. register' \in [Claims -> Entry]
    <3>1. PICK s \in Status : register' = [register EXCEPT ![c].status = s]
      BY <1>27, EdgeTargets DEF StoreApply
    <3> QED BY <3>1, StatusWrite
  <2>2. UNCHANGED <<phase, anchor, stash, journal, mem, undo>>
    BY <1>27 DEF StoreApply
  <2> QED BY <2>1, <2>2
<1>28. CASE UNCHANGED vars
  BY <1>28 DEF vars
<1> QED
  BY <1>1, <1>2, <1>3, <1>4, <1>5, <1>6, <1>7, <1>8, <1>9, <1>10, <1>11, <1>12,
     <1>13, <1>14, <1>15, <1>16, <1>17, <1>18, <1>19, <1>20, <1>21, <1>22, <1>23,
     <1>24, <1>25, <1>26, <1>27, <1>28
  DEF Next, ChainStep, Fault

(* AnyInvInit: it holds before the first dispatch. *)
LEMMA AnyInvInit == Init => AnyInv
BY ConstantsAssumption
   DEF Init, AnyInv, TypeOK, MemHeld, CommitsOwnClaim, RollbackStaysOnClaim,
       RowOfClaim, Phases, Entry, Status, CommitPhases, WindowPhases

(* TypeCorrect: whatever the operating conditions, the state keeps its type. *)
THEOREM TypeCorrect == Spec => []TypeOK
<1>1. AnyInv => TypeOK
  BY DEF AnyInv
<1> QED
  BY <1>1, AnyInvInit, AnyInvStep, PTL DEF Spec

(* RollbackAlwaysOnClaim: whatever the operating conditions, no intent, on    *)
(* disk or held by a process, names an anchor row of a claim other than its  *)
(* own, so a rollback only ever drops rows of the claim it rolls back.       *)
THEOREM RollbackAlwaysOnClaim == Spec => []RollbackStaysOnClaim
<1>1. AnyInv => RollbackStaysOnClaim
  BY DEF AnyInv
<1> QED
  BY <1>1, AnyInvInit, AnyInvStep, PTL DEF Spec

-----------------------------------------------------------------------------
(* One chain at a time *)

(* The harness runs the hooks of one tool call to their end before the next  *)
(* call; "overlap" alone lets two chains interleave.                         *)
Serial ==
  \A d, e \in Dispatches :
    phase[d] \in ChainPhases /\ phase[e] \in ChainPhases => d = e

(* A chain that has opened its intent finds it in the slot, unmarked until   *)
(* its first step is; one that has not opened it yet is not in the slot.     *)
OwnSlot ==
  /\ \A d \in Dispatches :
       /\ phase[d] \in CommitPhases \cup {"load"} => journal # None /\ journal.id = d
       /\ phase[d] \in {"load", "anchor", "anchor_mark"} => journal.applied = {}
       /\ At(d, "snapshot") => journal = None
  /\ journal # None => phase[journal.id] \notin {"idle", "admitted", "recover", "snapshot"}

(* A process that is applying or undoing steps goes by what is in the slot,  *)
(* up to the row just written.                                               *)
SlotHeld ==
  \A d \in Dispatches :
    /\ phase[d] \in {"recover", "abort"} => journal # None
    /\ phase[d] \in (CommitPhases \ {"anchor_mark"}) \cup {"recover", "abort"}
         => mem[d] = journal
    /\ At(d, "anchor_mark") => mem[d] = [journal EXCEPT !.anchorRow = d]

SerialInv == AnyInv /\ Serial /\ OwnSlot /\ SlotHeld

LEMMA SerialInvInit == Init => SerialInv
BY AnyInvInit DEF Init, SerialInv, Serial, OwnSlot, SlotHeld, At, CommitPhases,
   WindowPhases, BudgetPhases, GatePhases, ChainPhases

(* MarkedIntent: marking a step adds its mark, and the row in memory, to the *)
(* intent in the slot.                                                       *)
LEMMA MarkedIntent ==
  ASSUME SerialInv, NEW d \in Dispatches, NEW step \in Steps, NEW next,
         phase[d] \in WindowPhases, phase[d] = "anchor_mark" => step = "anchor",
         Mark(d, step, next)
  PROVE  /\ journal # None /\ journal.id = d
         /\ phase' = [phase EXCEPT ![d] = next]
         /\ journal' \in Journal /\ journal' # None /\ journal'.id = d
         /\ journal'.before = journal.before
         /\ journal'.stashExisted = journal.stashExisted
         /\ journal'.applied = journal.applied \cup {step}
         /\ journal'.anchorRow = IF phase[d] = "anchor_mark" THEN d ELSE journal.anchorRow
         /\ mem' = [mem EXCEPT ![d] = journal']
         /\ UNCHANGED <<register, anchor, stash, undo>>
<1> DEFINE marked == [mem[d] EXCEPT !.applied = @ \cup {step}]
<1> USE DEF SerialInv, AnyInv, TypeOK
<1>1. journal \in Journal /\ journal # None /\ journal.id = d
  BY DEF OwnSlot, CommitPhases
<1>2. /\ mem[d] \in Journal /\ mem[d].id = d
      /\ mem[d].before = journal.before /\ mem[d].stashExisted = journal.stashExisted
      /\ mem[d].applied = journal.applied
      /\ mem[d].anchorRow = IF phase[d] = "anchor_mark" THEN d ELSE journal.anchorRow
  <2>1. CASE phase[d] = "anchor_mark"
    BY <1>1, <2>1 DEF SlotHeld, At, Journal
  <2>2. CASE phase[d] # "anchor_mark"
    BY <1>1, <2>2 DEF SlotHeld, CommitPhases
  <2> QED BY <2>1, <2>2
<1>3. journal.applied \cup {step} \in SUBSET Steps
  BY <1>1 DEF Journal
<1>4. /\ marked \in Journal /\ marked # None /\ marked.id = d
      /\ marked.before = journal.before
      /\ marked.stashExisted = journal.stashExisted
      /\ marked.applied = journal.applied \cup {step}
      /\ marked.anchorRow = mem[d].anchorRow
  BY <1>2, <1>3, NoneIsNoIntent DEF Journal
<1>5. step \in mem[d].applied => journal = marked
  <2>1. step \in mem[d].applied => phase[d] # "anchor_mark" /\ journal.applied \cup {step} = journal.applied
    BY <1>2 DEF OwnSlot
  <2>2. phase[d] # "anchor_mark" => mem[d] = journal
    BY DEF SlotHeld, CommitPhases
  <2> QED BY <1>1, <2>1, <2>2 DEF Journal
<1> HIDE DEF marked
<1>6. /\ mem' = [mem EXCEPT ![d] = marked]
      /\ journal' = IF step \in mem[d].applied THEN journal ELSE marked
      /\ phase' = [phase EXCEPT ![d] = next]
      /\ UNCHANGED <<register, anchor, stash, undo>>
  BY DEF Mark, Goto, marked
<1>7. journal' = marked
  BY <1>5, <1>6
<1> QED BY <1>1, <1>2, <1>4, <1>6, <1>7

(* FailedIntent: a step that fails is marked as well.                        *)
LEMMA FailedIntent ==
  ASSUME SerialInv, NEW d \in Dispatches, NEW step \in Steps, FailStep(d, step)
  PROVE  /\ journal # None /\ journal.id = d
         /\ phase[d] = step /\ phase' = [phase EXCEPT ![d] = "gate"]
         /\ journal' \in Journal /\ journal' # None /\ journal'.id = d
         /\ journal'.before = journal.before
         /\ journal'.stashExisted = journal.stashExisted
         /\ journal'.applied = journal.applied \cup {step}
         /\ journal'.anchorRow = journal.anchorRow
         /\ mem' = [mem EXCEPT ![d] = None] /\ undo' = [undo EXCEPT ![d] = {}]
         /\ UNCHANGED <<register, anchor, stash>>
<1> DEFINE marked == [mem[d] EXCEPT !.applied = @ \cup {step}]
<1> USE DEF SerialInv, AnyInv, TypeOK
<1>1. phase[d] = step /\ phase[d] \in CommitPhases \ {"anchor_mark"}
  BY DEF FailStep, At, CommitPhases, Steps
<1>2. journal \in Journal /\ journal # None /\ journal.id = d /\ mem[d] = journal
  BY <1>1 DEF OwnSlot, SlotHeld
<1>3. /\ mem[d] \in Journal /\ mem[d].id = d
      /\ mem[d].before = journal.before /\ mem[d].stashExisted = journal.stashExisted
      /\ mem[d].applied = journal.applied /\ mem[d].anchorRow = journal.anchorRow
      /\ journal.applied \cup {step} \in SUBSET Steps
  BY <1>2 DEF Journal
<1> HIDE DEF SerialInv
<1>4. /\ marked \in Journal /\ marked # None /\ marked.id = d
      /\ marked.before = journal.before
      /\ marked.stashExisted = journal.stashExisted
      /\ marked.applied = journal.applied \cup {step}
      /\ marked.anchorRow = journal.anchorRow
  BY <1>3, NoneIsNoIntent DEF Journal
<1> HIDE DEF marked
<1>5. /\ journal' = marked /\ mem' = [mem EXCEPT ![d] = None]
      /\ phase' = [phase EXCEPT ![d] = "gate"] /\ undo' = [undo EXCEPT ![d] = {}]
      /\ UNCHANGED <<register, anchor, stash>>
  BY DEF FailStep, Exit, Goto, marked
<1> QED BY <1>1, <1>2, <1>4, <1>5 DEF SerialInv

(* TailCounts: the tail of the gate touches one claim, and not its status.   *)
LEMMA TailCounts ==
  ASSUME TypeOK, NEW d \in Dispatches, GateAllows(d)
  PROVE  \A c \in Claims :
           /\ register'[c].status = register[c].status
           /\ c # ClaimOf[d] => register'[c] = register[c]
<1> DEFINE counted == [register[ClaimOf[d]] EXCEPT !.count = @ + 1]
<1>1. counted.status = register[ClaimOf[d]].status
  <2>1. register[ClaimOf[d]] \in Entry
    BY ConstantsAssumption DEF TypeOK
  <2> QED BY <2>1 DEF Entry
<1>2. register' = register \/ register' = [register EXCEPT ![ClaimOf[d]] = counted]
  BY DEF GateAllows
<1> HIDE DEF counted
<1> QED BY <1>1, <1>2, ConstantsAssumption DEF TypeOK

(* SerialInvStep: without overlap every step keeps it.                       *)
LEMMA SerialInvStep ==
  ASSUME ~Met("overlap"), SerialInv, [Next]_vars
  PROVE  SerialInv'
<1> SUFFICES Serial' /\ OwnSlot' /\ SlotHeld'
  BY AnyInvStep DEF SerialInv
<1> DEFINE Goal == Serial' /\ OwnSlot' /\ SlotHeld'
<1>m. ASSUME NEW d \in Dispatches, NEW step \in Steps,
             NEW next \in {"stash", "register", "finish"},
             phase[d] \in WindowPhases, phase[d] = "anchor_mark" => step = "anchor",
             Mark(d, step, next)
      PROVE  Goal
  <2>1. /\ journal # None /\ journal.id = d
        /\ phase' = [phase EXCEPT ![d] = next] /\ phase \in [Dispatches -> Phases]
        /\ journal' # None /\ journal'.id = d
        /\ mem' = [mem EXCEPT ![d] = journal'] /\ DOMAIN mem = Dispatches
    BY <1>m, MarkedIntent DEF SerialInv, AnyInv, TypeOK
  <2> QED BY <1>m, <2>1 DEF SerialInv, Serial, OwnSlot, SlotHeld, CommitPhases, WindowPhases,
             BudgetPhases, GatePhases, ChainPhases, At
<1>f. ASSUME NEW d \in Dispatches, NEW step \in Steps, FailStep(d, step)
      PROVE  Goal
  <2>1. /\ journal # None /\ journal.id = d /\ phase[d] = step
        /\ phase' = [phase EXCEPT ![d] = "gate"] /\ phase \in [Dispatches -> Phases]
        /\ journal' # None /\ journal'.id = d
        /\ mem' = [mem EXCEPT ![d] = None] /\ DOMAIN mem = Dispatches
    BY <1>f, FailedIntent DEF SerialInv, AnyInv, TypeOK
  <2> QED BY <1>f, <2>1 DEF SerialInv, Serial, OwnSlot, SlotHeld, CommitPhases, WindowPhases,
             BudgetPhases, GatePhases, ChainPhases, At, Steps
<1> USE ConstantsAssumption, NoneIsNoIntent
    DEF SerialInv, AnyInv, TypeOK, Serial, OwnSlot, SlotHeld,
        CommitPhases, WindowPhases, BudgetPhases, GatePhases, ChainPhases, Journal, At, Goto
<1>1. ASSUME NEW d \in Dispatches, Admit(d) PROVE Goal
  BY <1>1 DEF Admit
<1>2. ASSUME NEW d \in Dispatches, BeginInFlight(d) PROVE Goal
  BY <1>2 DEF BeginInFlight, JournalClaim, PidAlive
<1>3. ASSUME NEW d \in Dispatches, BeginRecovers(d) PROVE Goal
  BY <1>3 DEF BeginRecovers
<1>4. ASSUME NEW d \in Dispatches, OpenIntent(d) PROVE Goal
  <2>1. phase[d] \in {"snapshot", "admitted"} /\ phase' = [phase EXCEPT ![d] = "load"]
    BY <1>4 DEF OpenIntent
  <2>2. journal' # None /\ journal'.id = d /\ journal'.applied = {}
    <3>1. journal' \in Journal
      BY <1>4 DEF OpenIntent
    <3> QED BY <1>4, <3>1 DEF OpenIntent
  <2>3. UNCHANGED <<register, anchor, stash, mem, undo>>
    BY <1>4 DEF OpenIntent
  <2> QED BY <2>1, <2>2, <2>3
<1>5. ASSUME NEW d \in Dispatches, LoadIntent(d) PROVE Goal
  <2>1. journal # None /\ journal.id = d
    BY <1>5 DEF LoadIntent
  <2>2. /\ phase[d] = "load" /\ phase' = [phase EXCEPT ![d] = "anchor"]
        /\ mem' = [mem EXCEPT ![d] = journal]
        /\ UNCHANGED <<register, anchor, stash, journal, undo>>
    BY <1>5, <2>1 DEF LoadIntent, JournalClaim
  <2> QED BY <2>1, <2>2
<1>6. ASSUME NEW d \in Dispatches, WriteAnchor(d) PROVE Goal
  <2>1. /\ phase[d] = "anchor" /\ phase' = [phase EXCEPT ![d] = "anchor_mark"]
        /\ mem' = [mem EXCEPT ![d] = [journal EXCEPT !.anchorRow = d]]
        /\ UNCHANGED <<register, stash, journal, undo>>
    BY <1>6 DEF WriteAnchor
  <2> QED BY <2>1
<1>7. ASSUME NEW d \in Dispatches, MarkAnchor(d) PROVE Goal
  <2>1. phase[d] = "anchor_mark" /\ Mark(d, "anchor", "stash")
    BY <1>7 DEF MarkAnchor
  <2> HIDE DEF Goal
  <2> QED BY <1>m, <2>1 DEF Steps
<1>8. ASSUME NEW d \in Dispatches, WriteStash(d) PROVE Goal
  BY <1>8 DEF WriteStash
<1>9. ASSUME NEW d \in Dispatches, MarkStash(d) PROVE Goal
  <2>1. phase[d] = "stash_mark" /\ Mark(d, "stash", "register")
    BY <1>9 DEF MarkStash
  <2> HIDE DEF Goal
  <2> QED BY <1>m, <2>1 DEF Steps
<1>10. ASSUME NEW d \in Dispatches, WriteRegister(d) PROVE Goal
  BY <1>10 DEF WriteRegister
<1>11. ASSUME NEW d \in Dispatches, RefuseRegister(d) PROVE Goal
  <2>1. FailStep(d, "register")
    BY <1>11 DEF RefuseRegister
  <2> HIDE DEF Goal
  <2> QED BY <1>f, <2>1 DEF Steps
<1>12. ASSUME NEW d \in Dispatches, MarkRegister(d) PROVE Goal
  <2>1. phase[d] = "register_mark" /\ Mark(d, "register", "finish")
    BY <1>12 DEF MarkRegister
  <2> HIDE DEF Goal
  <2> QED BY <1>m, <2>1 DEF Steps
<1>13. ASSUME NEW d \in Dispatches, Finish(d) PROVE Goal
  <2>1. phase[d] = "finish" /\ phase' = [phase EXCEPT ![d] = "gate"]
    BY <1>13 DEF Finish, Exit
  <2>2. mem[d] = journal
    BY <2>1
  <2>3. journal' = journal /\ mem' = [mem EXCEPT ![d] = None]
    BY <1>13, <2>2 DEF Finish, Exit
  <2> QED BY <2>1, <2>3
<1>14. ASSUME NEW d \in Dispatches, StepFault(d) PROVE Goal
  <2>1. CASE FailStep(d, "anchor") \/ FailStep(d, "stash")
    <3> HIDE DEF Goal
    <3> QED BY <1>f, <2>1 DEF Steps
  <2>2. CASE At(d, "register") /\ Exit(d, "gate") /\ UNCHANGED <<register, anchor, stash, journal>>
    BY <2>2 DEF Exit
  <2> QED BY <1>14, <2>1, <2>2 DEF StepFault
<1>15. ASSUME NEW d \in Dispatches, GateAllows(d) PROVE Goal
  BY <1>15 DEF GateAllows
<1>16. ASSUME NEW d \in Dispatches, Confirm(d) PROVE Goal
  BY <1>16 DEF Confirm, JournalClaim
<1>17. ASSUME NEW d \in Dispatches, GateUnresolved(d) PROVE Goal
  BY <1>17 DEF GateUnresolved
<1>18. ASSUME NEW d \in Dispatches, GateRejects(d) PROVE Goal
  <2>1. CASE journal # None /\ JournalClaim = ClaimOf[d]
    <3>1. /\ phase[d] = "gate" /\ phase' = [phase EXCEPT ![d] = "abort"]
          /\ mem' = [mem EXCEPT ![d] = journal] /\ UNCHANGED journal
      BY <1>18, <2>1 DEF GateRejects
    <3> QED BY <2>1, <3>1
  <2>2. CASE ~(journal # None /\ JournalClaim = ClaimOf[d])
    <3>1. /\ phase[d] = "gate" /\ phase' = [phase EXCEPT ![d] = "rejected"]
          /\ UNCHANGED <<mem, journal>>
      BY <1>18, <2>2 DEF GateRejects
    <3> QED BY <3>1
  <2> QED BY <2>1, <2>2
<1>19. ASSUME NEW d \in Dispatches, UndoRegister(d) PROVE Goal
  BY <1>19 DEF UndoRegister, RollingBack
<1>20. ASSUME NEW d \in Dispatches, UndoStash(d) PROVE Goal
  BY <1>20 DEF UndoStash, RollingBack
<1>21. ASSUME NEW d \in Dispatches, UndoAnchor(d) PROVE Goal
  BY <1>21 DEF UndoAnchor, RollingBack
<1>22. ASSUME NEW d \in Dispatches, ClearRecovered(d) PROVE Goal
  BY <1>22 DEF ClearRecovered
<1>23. ASSUME NEW d \in Dispatches, ClearAborted(d) PROVE Goal
  BY <1>23 DEF ClearAborted, Exit
<1>24. ASSUME NEW d \in Dispatches, Crash(d) PROVE Goal
  BY <1>24 DEF Crash, Exit
<1>25. ASSUME NEW d \in Dispatches, HookTimeout(d) PROVE Goal
  BY <1>25 DEF HookTimeout, Exit
<1>26. ASSUME NEW d \in Dispatches, SubagentStop(d) PROVE Goal
  BY <1>26 DEF SubagentStop
<1>27. ASSUME NEW c \in Claims, StoreApply(c) PROVE Goal
  BY <1>27 DEF StoreApply
<1>28. CASE UNCHANGED vars
  BY <1>28 DEF vars
<1> QED
  BY <1>1, <1>2, <1>3, <1>4, <1>5, <1>6, <1>7, <1>8, <1>9, <1>10, <1>11, <1>12,
     <1>13, <1>14, <1>15, <1>16, <1>17, <1>18, <1>19, <1>20, <1>21, <1>22, <1>23,
     <1>24, <1>25, <1>26, <1>27, <1>28
  DEF Next, ChainStep, Fault

-----------------------------------------------------------------------------
(* Settled claims *)

(* A claim that is settled was settled when the open intent took its         *)
(* before-image.                                                             *)
SettledBefore ==
  journal # None =>
    \A c \in Claims :
      register[c].status = "SETTLED" => journal.before[c].status = "SETTLED"

SettledKept ==
  \A c \in Claims :
    register[c].status = "SETTLED" => register'[c].status = "SETTLED"

(* SettledBeforeStep: with every other store face locked out while an intent *)
(* is open, no step settles a claim that the before-image does not, and no   *)
(* step unsettles one.                                                       *)
LEMMA SettledBeforeStep ==
  ASSUME ~Met("overlap"), ~Met("foreign_write"), SerialInv, SettledBefore, [Next]_vars
  PROVE  SettledBefore' /\ SettledKept
<1> DEFINE Goal == SettledBefore' /\ SettledKept
<1>m. ASSUME NEW d \in Dispatches, NEW step \in Steps, NEW next,
             phase[d] \in WindowPhases, phase[d] = "anchor_mark" => step = "anchor",
             Mark(d, step, next)
      PROVE  Goal
  BY <1>m, MarkedIntent DEF SettledBefore, SettledKept
<1>f. ASSUME NEW d \in Dispatches, NEW step \in Steps, FailStep(d, step)
      PROVE  Goal
  BY <1>f, FailedIntent DEF SettledBefore, SettledKept
<1> USE NoneIsNoIntent, ConstantsAssumption
    DEF SerialInv, AnyInv, TypeOK, OwnSlot, SlotHeld, SettledBefore, SettledKept,
        CommitPhases, WindowPhases, At, Goto
<1>1. ASSUME NEW d \in Dispatches, Admit(d) PROVE Goal
  BY <1>1 DEF Admit
<1>2. ASSUME NEW d \in Dispatches, BeginInFlight(d) PROVE Goal
  BY <1>2 DEF BeginInFlight
<1>3. ASSUME NEW d \in Dispatches, BeginRecovers(d) PROVE Goal
  BY <1>3 DEF BeginRecovers
<1>4. ASSUME NEW d \in Dispatches, OpenIntent(d) PROVE Goal
  <2>1. journal' \in Journal
    BY <1>4 DEF OpenIntent, Journal
  <2> QED BY <1>4, <2>1 DEF OpenIntent
<1>5. ASSUME NEW d \in Dispatches, LoadIntent(d) PROVE Goal
  BY <1>5 DEF LoadIntent, Exit
<1>6. ASSUME NEW d \in Dispatches, WriteAnchor(d) PROVE Goal
  BY <1>6 DEF WriteAnchor
<1>7. ASSUME NEW d \in Dispatches, MarkAnchor(d) PROVE Goal
  BY <1>7, <1>m DEF MarkAnchor, Steps
<1>8. ASSUME NEW d \in Dispatches, WriteStash(d) PROVE Goal
  BY <1>8 DEF WriteStash
<1>9. ASSUME NEW d \in Dispatches, MarkStash(d) PROVE Goal
  BY <1>9, <1>m DEF MarkStash, Steps
<1>10. ASSUME NEW d \in Dispatches, WriteRegister(d) PROVE Goal
  <2>1. \A c \in Claims :
          register'[c] = register[c]
          \/ (register[c].status = "OPEN" /\ register'[c].status = "IN_PROGRESS")
    BY <1>10 DEF WriteRegister, Entry
  <2> QED BY <1>10, <2>1 DEF WriteRegister
<1>11. ASSUME NEW d \in Dispatches, RefuseRegister(d) PROVE Goal
  BY <1>11, <1>f DEF RefuseRegister, Steps
<1>12. ASSUME NEW d \in Dispatches, MarkRegister(d) PROVE Goal
  BY <1>12, <1>m DEF MarkRegister, Steps
<1>13. ASSUME NEW d \in Dispatches, Finish(d) PROVE Goal
  BY <1>13 DEF Finish, Exit
<1>14. ASSUME NEW d \in Dispatches, StepFault(d) PROVE Goal
  BY <1>14, <1>f DEF StepFault, Exit, Steps
<1>15. ASSUME NEW d \in Dispatches, GateAllows(d) PROVE Goal
  <2>1. \A c \in Claims : register'[c].status = register[c].status
    BY <1>15, TailCounts
  <2> QED BY <1>15, <2>1 DEF GateAllows
<1>16. ASSUME NEW d \in Dispatches, Confirm(d) PROVE Goal
  BY <1>16 DEF Confirm, JournalClaim
<1>17. ASSUME NEW d \in Dispatches, GateUnresolved(d) PROVE Goal
  BY <1>17 DEF GateUnresolved
<1>18. ASSUME NEW d \in Dispatches, GateRejects(d) PROVE Goal
  BY <1>18 DEF GateRejects
<1>19. ASSUME NEW d \in Dispatches, UndoRegister(d) PROVE Goal
  <2>1. journal # None /\ register' = journal.before /\ UNCHANGED journal
    BY <1>19 DEF UndoRegister, RollingBack
  <2> QED BY <2>1
<1>20. ASSUME NEW d \in Dispatches, UndoStash(d) PROVE Goal
  BY <1>20 DEF UndoStash
<1>21. ASSUME NEW d \in Dispatches, UndoAnchor(d) PROVE Goal
  BY <1>21 DEF UndoAnchor
<1>22. ASSUME NEW d \in Dispatches, ClearRecovered(d) PROVE Goal
  BY <1>22 DEF ClearRecovered
<1>23. ASSUME NEW d \in Dispatches, ClearAborted(d) PROVE Goal
  BY <1>23 DEF ClearAborted, Exit
<1>24. ASSUME NEW d \in Dispatches, Crash(d) PROVE Goal
  BY <1>24 DEF Crash, Exit
<1>25. ASSUME NEW d \in Dispatches, HookTimeout(d) PROVE Goal
  BY <1>25 DEF HookTimeout, Exit
<1>26. ASSUME NEW d \in Dispatches, SubagentStop(d) PROVE Goal
  BY <1>26 DEF SubagentStop
<1>27. ASSUME NEW c \in Claims, StoreApply(c) PROVE Goal
  <2>1. journal = None /\ UNCHANGED journal
    BY <1>27 DEF StoreApply
  <2>2. PICK edge \in StoreEdges :
          register[c].status = edge[1] /\ register' = [register EXCEPT ![c].status = edge[2]]
    BY <1>27 DEF StoreApply
  <2>3. edge[1] # "SETTLED"
    BY DEF StoreEdges
  <2> QED BY <2>1, <2>2, <2>3
<1>28. CASE UNCHANGED vars
  BY <1>28 DEF vars
<1> QED
  BY <1>1, <1>2, <1>3, <1>4, <1>5, <1>6, <1>7, <1>8, <1>9, <1>10, <1>11, <1>12,
     <1>13, <1>14, <1>15, <1>16, <1>17, <1>18, <1>19, <1>20, <1>21, <1>22, <1>23,
     <1>24, <1>25, <1>26, <1>27, <1>28
  DEF Next, ChainStep, Fault

(* TerminalIsFinal: as long as chains do not overlap and no other store face *)
(* writes under an open intent, no before-image restore, nor any other step, *)
(* moves a claim out of a terminal status, whatever crashes, times out or    *)
(* cannot be written.                                                        *)
THEOREM TerminalIsFinal ==
  ASSUME ~Met("overlap"), ~Met("foreign_write")
  PROVE  Spec => SettledStaysSettled
<1>1. Init => SerialInv /\ SettledBefore
  BY SerialInvInit DEF Init, SettledBefore
<1>2. SerialInv /\ SettledBefore /\ [Next]_vars
        => SerialInv' /\ SettledBefore' /\ SettledKept
  BY SerialInvStep, SettledBeforeStep
<1>3. SerialInv /\ SettledBefore /\ [Next]_vars =>
        [\A c \in Claims :
           register[c].status = "SETTLED" => register'[c].status = "SETTLED"]_vars
  BY <1>2 DEF SettledKept
<1> QED BY <1>1, <1>2, <1>3, PTL DEF Spec, SettledStaysSettled

-----------------------------------------------------------------------------
(* Claims in progress, and what their dispatches cost *)

Worked(c) == \E d \in Dispatches : ClaimOf[d] = c /\ LetThrough(d)

(* The open intent says, or is about to say, that it flipped the claim.      *)
Flipped(c) ==
  /\ journal # None /\ JournalClaim = c
  /\ "register" \in journal.applied \/ phase[journal.id] = "register_mark"

RegisterUndone == \E d \in Dispatches : RollingBack(d) /\ "register" \notin undo[d]

(* A claim nobody was let through for is IN_PROGRESS only under the open     *)
(* intent that flipped it, and until that intent's register step is undone.  *)
StatusOwed ==
  \A c \in Claims :
    ~Worked(c) =>
      /\ register[c].status = "IN_PROGRESS" => Flipped(c) /\ ~RegisterUndone
      /\ journal # None => journal.before[c].status # "IN_PROGRESS"

(* WorkedStays: a dispatch that was let through stays let through.           *)
LEMMA WorkedStays ==
  ASSUME AnyInv, [Next]_vars, NEW c \in Claims, Worked(c)
  PROVE  Worked(c)'
<1>1. PICK d \in Dispatches : ClaimOf[d] = c /\ phase[d] \in {"running", "stopped"}
  BY DEF Worked, LetThrough
<1> SUFFICES phase'[d] \in {"running", "stopped"}
  BY <1>1 DEF Worked, LetThrough
<1> USE <1>1 DEF AnyInv, TypeOK, At, Goto, Exit, FailStep, Mark, RollingBack, ChainPhases,
        BudgetPhases, GatePhases, WindowPhases, Steps
<1>2. ASSUME NEW e \in Dispatches, ChainStep(e) PROVE phase'[d] = phase[d]
  BY <1>2 DEF ChainStep, BeginInFlight, BeginRecovers, OpenIntent, LoadIntent, WriteAnchor,
     MarkAnchor, WriteStash, MarkStash, WriteRegister, RefuseRegister, MarkRegister, Finish,
     GateAllows, Confirm, GateRejects, UndoRegister, UndoStash, UndoAnchor, ClearRecovered,
     ClearAborted
<1>3. ASSUME NEW e \in Dispatches, Fault(e) PROVE phase'[d] = phase[d]
  BY <1>3 DEF Fault, StepFault, GateUnresolved, Crash, HookTimeout
<1>4. ASSUME NEW e \in Dispatches, Admit(e) \/ SubagentStop(e)
      PROVE  phase'[d] \in {"running", "stopped"}
  BY <1>4 DEF Admit, SubagentStop
<1>5. CASE (\E b \in Claims : StoreApply(b)) \/ UNCHANGED vars
  BY <1>5 DEF StoreApply, vars
<1> QED BY <1>2, <1>3, <1>4, <1>5 DEF Next

(* StatusOwedStep: as long as chains do not overlap and no process dies      *)
(* between a write and its mark, every step keeps it.                        *)
LEMMA StatusOwedStep ==
  ASSUME ~Met("overlap"), ~Met("unmarked_crash"), SerialInv, StatusOwed, [Next]_vars
  PROVE  StatusOwed'
<1> SUFFICES ASSUME NEW c \in Claims, ~Worked(c)'
             PROVE  /\ register'[c].status = "IN_PROGRESS" => Flipped(c)' /\ ~RegisterUndone'
                    /\ journal' # None => journal'.before[c].status # "IN_PROGRESS"
  BY DEF StatusOwed
<1> DEFINE Goal == /\ register'[c].status = "IN_PROGRESS" => Flipped(c)' /\ ~RegisterUndone'
                   /\ journal' # None => journal'.before[c].status # "IN_PROGRESS"
<1>w. ~Worked(c)
  BY WorkedStays DEF SerialInv
<1>c. /\ register[c].status = "IN_PROGRESS" => Flipped(c) /\ ~RegisterUndone
      /\ journal # None => journal.before[c].status # "IN_PROGRESS"
  BY <1>w DEF StatusOwed
<1>m. ASSUME NEW d \in Dispatches, NEW step \in Steps,
             NEW next \in {"stash", "register", "finish"},
             phase[d] = "register_mark" => step = "register",
             phase[d] \in WindowPhases, phase[d] = "anchor_mark" => step = "anchor",
             Mark(d, step, next)
      PROVE  Goal
  <2>1. /\ journal # None /\ journal.id = d /\ journal' # None /\ journal'.id = d
        /\ phase' = [phase EXCEPT ![d] = next] /\ phase \in [Dispatches -> Phases]
        /\ journal'.before = journal.before
        /\ journal'.applied = journal.applied \cup {step}
        /\ UNCHANGED <<register, undo>>
    BY <1>m, MarkedIntent DEF SerialInv, AnyInv, TypeOK
  <2> QED BY <1>c, <1>m, <2>1 DEF Flipped, RegisterUndone, RollingBack, JournalClaim,
             WindowPhases
<1>f. ASSUME NEW d \in Dispatches, NEW step \in Steps, FailStep(d, step)
      PROVE  Goal
  <2>1. /\ journal # None /\ journal.id = d /\ journal' # None /\ journal'.id = d
        /\ phase[d] = step /\ phase' = [phase EXCEPT ![d] = "gate"]
        /\ phase \in [Dispatches -> Phases]
        /\ journal'.before = journal.before
        /\ journal'.applied = journal.applied \cup {step}
        /\ undo' = [undo EXCEPT ![d] = {}] /\ undo \in [Dispatches -> SUBSET Steps]
        /\ UNCHANGED register
    BY <1>f, FailedIntent DEF SerialInv, AnyInv, TypeOK
  <2> QED BY <1>c, <1>f, <2>1 DEF Flipped, RegisterUndone, RollingBack, JournalClaim, Steps
<1> USE <1>c, NoneIsNoIntent, ConstantsAssumption
    DEF SerialInv, AnyInv, TypeOK, Serial, OwnSlot, SlotHeld, CommitPhases, WindowPhases,
        ChainPhases, BudgetPhases, GatePhases, At, Goto, Flipped, RegisterUndone, RollingBack,
        JournalClaim
<1>1. ASSUME NEW d \in Dispatches, Admit(d) PROVE Goal
  BY <1>1 DEF Admit
<1>2. ASSUME NEW d \in Dispatches, BeginInFlight(d) PROVE Goal
  BY <1>2 DEF BeginInFlight
<1>3. ASSUME NEW d \in Dispatches, BeginRecovers(d) PROVE Goal
  <2>1. journal.id \in Dispatches
    BY <1>3 DEF BeginRecovers, Journal
  <2> QED BY <1>3, <2>1 DEF BeginRecovers
<1>4. ASSUME NEW d \in Dispatches, OpenIntent(d) PROVE Goal
  <2>1. journal' \in Journal
    BY <1>4 DEF OpenIntent, Journal
  <2>2. journal = None
    BY <1>4 DEF OpenIntent, PidAlive, Journal
  <2> QED BY <1>4, <2>1, <2>2 DEF OpenIntent
<1>5. ASSUME NEW d \in Dispatches, LoadIntent(d) PROVE Goal
  <2>1. /\ phase[d] = "load" /\ phase' = [phase EXCEPT ![d] = "anchor"]
        /\ UNCHANGED <<register, journal, undo>>
    BY <1>5 DEF LoadIntent
  <2> QED BY <2>1
<1>6. ASSUME NEW d \in Dispatches, WriteAnchor(d) PROVE Goal
  BY <1>6 DEF WriteAnchor
<1>7. ASSUME NEW d \in Dispatches, MarkAnchor(d) PROVE Goal
  BY <1>7, <1>m DEF MarkAnchor, Steps
<1>8. ASSUME NEW d \in Dispatches, WriteStash(d) PROVE Goal
  BY <1>8 DEF WriteStash
<1>9. ASSUME NEW d \in Dispatches, MarkStash(d) PROVE Goal
  BY <1>9, <1>m DEF MarkStash, Steps
<1>10. ASSUME NEW d \in Dispatches, WriteRegister(d) PROVE Goal
  <2>1. c # ClaimOf[d] => register'[c] = register[c]
    BY <1>10 DEF WriteRegister
  <2> QED BY <1>10, <2>1 DEF WriteRegister
<1>11. ASSUME NEW d \in Dispatches, RefuseRegister(d) PROVE Goal
  BY <1>11, <1>f DEF RefuseRegister, Steps
<1>12. ASSUME NEW d \in Dispatches, MarkRegister(d) PROVE Goal
  BY <1>12, <1>m DEF MarkRegister, Steps
<1>13. ASSUME NEW d \in Dispatches, Finish(d) PROVE Goal
  <2>1. /\ phase[d] = "finish" /\ phase' = [phase EXCEPT ![d] = "gate"]
        /\ journal' = mem[d] /\ mem[d] \in Journal /\ UNCHANGED register
        /\ \A e \in Dispatches \ {d} : undo'[e] = undo[e]
    BY <1>13 DEF Finish, Exit, MemHeld
  <2> QED BY <2>1
<1>14. ASSUME NEW d \in Dispatches, StepFault(d) PROVE Goal
  <2>1. CASE FailStep(d, "anchor") \/ FailStep(d, "stash")
    BY <1>f, <2>1 DEF Steps
  <2>2. CASE At(d, "register") /\ Exit(d, "gate") /\ UNCHANGED <<register, anchor, stash, journal>>
    BY <2>2 DEF Exit
  <2> QED BY <1>14, <2>1, <2>2 DEF StepFault
<1>15. ASSUME NEW d \in Dispatches, GateAllows(d) PROVE Goal
  <2>1. register'[c].status = register[c].status
    BY <1>15, TailCounts
  <2> QED BY <1>15, <2>1 DEF GateAllows
<1>16. ASSUME NEW d \in Dispatches, Confirm(d) PROVE Goal
  BY <1>16 DEF Confirm, Worked, LetThrough
<1>17. ASSUME NEW d \in Dispatches, GateUnresolved(d) PROVE Goal
  BY <1>17 DEF GateUnresolved
<1>18. ASSUME NEW d \in Dispatches, GateRejects(d) PROVE Goal
  <2>1. CASE journal # None /\ ClaimOf[journal.id] = ClaimOf[d]
    <3>1. /\ phase[d] = "gate" /\ phase' = [phase EXCEPT ![d] = "abort"]
          /\ undo' = [undo EXCEPT ![d] = journal.applied]
          /\ UNCHANGED <<register, journal>>
      BY <1>18, <2>1 DEF GateRejects
    <3>2. journal.id \in Dispatches
      BY <2>1 DEF Journal
    <3> QED BY <2>1, <3>1, <3>2
  <2>2. CASE ~(journal # None /\ ClaimOf[journal.id] = ClaimOf[d])
    <3>1. /\ phase[d] = "gate" /\ phase' = [phase EXCEPT ![d] = "rejected"]
          /\ UNCHANGED <<register, journal, undo>>
      BY <1>18, <2>2 DEF GateRejects
    <3> QED BY <3>1
  <2> QED BY <2>1, <2>2
<1>19. ASSUME NEW d \in Dispatches, UndoRegister(d) PROVE Goal
  <2>1. journal # None /\ register' = journal.before /\ UNCHANGED <<journal, phase>>
    BY <1>19 DEF UndoRegister
  <2> QED BY <2>1
<1>20. ASSUME NEW d \in Dispatches, UndoStash(d) PROVE Goal
  BY <1>20 DEF UndoStash
<1>21. ASSUME NEW d \in Dispatches, UndoAnchor(d) PROVE Goal
  BY <1>21 DEF UndoAnchor
<1>22. ASSUME NEW d \in Dispatches, ClearRecovered(d) PROVE Goal
  BY <1>22 DEF ClearRecovered
<1>23. ASSUME NEW d \in Dispatches, ClearAborted(d) PROVE Goal
  BY <1>23 DEF ClearAborted, Exit
<1>24. ASSUME NEW d \in Dispatches, Crash(d) PROVE Goal
  BY <1>24 DEF Crash, Exit
<1>25. ASSUME NEW d \in Dispatches, HookTimeout(d) PROVE Goal
  BY <1>25 DEF HookTimeout, Exit
<1>26. ASSUME NEW d \in Dispatches, SubagentStop(d) PROVE Goal
  BY <1>26 DEF SubagentStop
<1>27. ASSUME NEW b \in Claims, StoreApply(b) PROVE Goal
  <2>1. register'[c].status = "IN_PROGRESS" => register[c].status = "IN_PROGRESS"
    <3>1. PICK edge \in StoreEdges : register' = [register EXCEPT ![b].status = edge[2]]
      BY <1>27 DEF StoreApply
    <3>2. edge[2] # "IN_PROGRESS"
      BY DEF StoreEdges
    <3>3. register[b] \in Entry /\ register[c] \in Entry
      OBVIOUS
    <3> QED BY <3>1, <3>2, <3>3 DEF Entry
  <2> QED BY <1>27, <2>1 DEF StoreApply
<1>28. CASE UNCHANGED vars
  BY <1>28 DEF vars
<1> QED
  BY <1>1, <1>2, <1>3, <1>4, <1>5, <1>6, <1>7, <1>8, <1>9, <1>10, <1>11, <1>12,
     <1>13, <1>14, <1>15, <1>16, <1>17, <1>18, <1>19, <1>20, <1>21, <1>22, <1>23,
     <1>24, <1>25, <1>26, <1>27, <1>28
  DEF Next, ChainStep, Fault

(* NoStrandedClaim: as long as chains do not overlap and no process dies     *)
(* between a write and its mark, no rejection, crash, timeout, write error   *)
(* or recovery leaves a claim IN_PROGRESS that no dispatch was let through   *)
(* for.                                                                      *)
THEOREM NoStrandedClaim ==
  ASSUME ~Met("overlap"), ~Met("unmarked_crash")
  PROVE  Spec => []InProgressHasWorker
<1>1. Init => SerialInv /\ StatusOwed
  BY SerialInvInit DEF Init, StatusOwed
<1>2. SerialInv /\ StatusOwed /\ [Next]_vars => SerialInv' /\ StatusOwed'
  BY SerialInvStep, StatusOwedStep
<1>3. StatusOwed => InProgressHasWorker
  BY DEF StatusOwed, Flipped, Worked, InProgressHasWorker
<1> QED BY <1>1, <1>2, <1>3, PTL DEF Spec

(* A gate that may count again finds its intent with the register step       *)
(* marked.                                                                   *)
GateMarked ==
  \A d \in Dispatches :
    phase[d] \in {"finish", "gate", "tail"} =>
      journal # None /\ journal.id = d /\ "register" \in journal.applied

(* CountOwed: a claim nobody was let through for has a count other than zero *)
(* only under the open intent that flipped it, and until that intent's       *)
(* register step is undone.                                                  *)
CountOwed ==
  \A c \in Claims :
    ~Worked(c) =>
      /\ register[c].count # 0 => Flipped(c) /\ ~RegisterUndone
      /\ journal # None => journal.before[c].count = 0

(* GateMarkedStep: as long as the whole chain dies or none of it, and its    *)
(* files can be written, no gate runs without the marked intent of its       *)
(* chain.                                                                    *)
LEMMA GateMarkedStep ==
  ASSUME ~Met("overlap"), ~Met("hook_timeout"), ~Met("io_fault"),
         SerialInv, GateMarked, [Next]_vars
  PROVE  GateMarked'
<1>m. ASSUME NEW d \in Dispatches, NEW step \in Steps,
             NEW next \in {"stash", "register", "finish"},
             next = "finish" => step = "register",
             phase[d] \in WindowPhases, phase[d] = "anchor_mark" => step = "anchor",
             Mark(d, step, next)
      PROVE  GateMarked'
  <2>1. /\ journal # None /\ journal.id = d /\ journal' # None /\ journal'.id = d
        /\ phase' = [phase EXCEPT ![d] = next] /\ phase \in [Dispatches -> Phases]
        /\ journal'.applied = journal.applied \cup {step}
    BY <1>m, MarkedIntent DEF SerialInv, AnyInv, TypeOK
  <2> QED BY <1>m, <2>1 DEF GateMarked
<1> USE NoneIsNoIntent, ConstantsAssumption
    DEF SerialInv, AnyInv, TypeOK, Serial, OwnSlot, SlotHeld, CommitPhases, WindowPhases,
        ChainPhases, BudgetPhases, GatePhases, At, Goto, GateMarked, JournalClaim
<1>1. ASSUME NEW d \in Dispatches, Admit(d) PROVE GateMarked'
  BY <1>1 DEF Admit
<1>2. ASSUME NEW d \in Dispatches, BeginInFlight(d) PROVE GateMarked'
  BY <1>2 DEF BeginInFlight
<1>3. ASSUME NEW d \in Dispatches, BeginRecovers(d) PROVE GateMarked'
  BY <1>3 DEF BeginRecovers
<1>4. ASSUME NEW d \in Dispatches, OpenIntent(d) PROVE GateMarked'
  <2>1. phase[d] \in {"snapshot", "admitted"} /\ phase' = [phase EXCEPT ![d] = "load"]
    BY <1>4 DEF OpenIntent
  <2> QED BY <2>1
<1>5. ASSUME NEW d \in Dispatches, LoadIntent(d) PROVE GateMarked'
  <2>1. phase' = [phase EXCEPT ![d] = "anchor"] /\ UNCHANGED journal
    BY <1>5 DEF LoadIntent
  <2> QED BY <2>1
<1>6. ASSUME NEW d \in Dispatches, WriteAnchor(d) PROVE GateMarked'
  BY <1>6 DEF WriteAnchor
<1>7. ASSUME NEW d \in Dispatches, MarkAnchor(d) PROVE GateMarked'
  BY <1>7, <1>m DEF MarkAnchor, Steps
<1>8. ASSUME NEW d \in Dispatches, WriteStash(d) PROVE GateMarked'
  BY <1>8 DEF WriteStash
<1>9. ASSUME NEW d \in Dispatches, MarkStash(d) PROVE GateMarked'
  BY <1>9, <1>m DEF MarkStash, Steps
<1>10. ASSUME NEW d \in Dispatches, WriteRegister(d) PROVE GateMarked'
  BY <1>10 DEF WriteRegister
<1>11. ASSUME NEW d \in Dispatches, RefuseRegister(d) PROVE GateMarked'
  <2>1. FailStep(d, "register")
    BY <1>11 DEF RefuseRegister
  <2>2. /\ journal # None /\ journal.id = d /\ journal' # None /\ journal'.id = d
        /\ phase' = [phase EXCEPT ![d] = "gate"]
        /\ "register" \in journal'.applied
    <3>1. "register" \in Steps
      BY DEF Steps
    <3> HIDE DEF SerialInv, AnyInv, TypeOK, OwnSlot, SlotHeld, At, Goto
    <3> QED BY <2>1, <3>1, FailedIntent
  <2> QED BY <2>2
<1>12. ASSUME NEW d \in Dispatches, MarkRegister(d) PROVE GateMarked'
  BY <1>12, <1>m DEF MarkRegister, Steps
<1>13. ASSUME NEW d \in Dispatches, Finish(d) PROVE GateMarked'
  <2>1. /\ phase[d] = "finish" /\ phase' = [phase EXCEPT ![d] = "gate"]
        /\ journal' = mem[d] /\ mem[d] \in Journal
    BY <1>13 DEF Finish, Exit, MemHeld
  <2> QED BY <2>1
<1>14. ASSUME NEW d \in Dispatches, StepFault(d) PROVE GateMarked'
  BY <1>14 DEF StepFault
<1>15. ASSUME NEW d \in Dispatches, GateAllows(d) PROVE GateMarked'
  BY <1>15 DEF GateAllows
<1>16. ASSUME NEW d \in Dispatches, Confirm(d) PROVE GateMarked'
  BY <1>16 DEF Confirm, JournalClaim
<1>17. ASSUME NEW d \in Dispatches, GateUnresolved(d) PROVE GateMarked'
  BY <1>17 DEF GateUnresolved
<1>18. ASSUME NEW d \in Dispatches, GateRejects(d) PROVE GateMarked'
  <2>1. phase'[d] \in {"abort", "rejected"}
    BY <1>18 DEF GateRejects
  <2> QED BY <1>18, <2>1 DEF GateRejects
<1>19. ASSUME NEW d \in Dispatches, UndoRegister(d) PROVE GateMarked'
  BY <1>19 DEF UndoRegister
<1>20. ASSUME NEW d \in Dispatches, UndoStash(d) PROVE GateMarked'
  BY <1>20 DEF UndoStash
<1>21. ASSUME NEW d \in Dispatches, UndoAnchor(d) PROVE GateMarked'
  BY <1>21 DEF UndoAnchor
<1>22. ASSUME NEW d \in Dispatches, ClearRecovered(d) PROVE GateMarked'
  BY <1>22 DEF ClearRecovered
<1>23. ASSUME NEW d \in Dispatches, ClearAborted(d) PROVE GateMarked'
  BY <1>23 DEF ClearAborted, Exit
<1>24. ASSUME NEW d \in Dispatches, Crash(d) PROVE GateMarked'
  BY <1>24 DEF Crash, Exit
<1>25. ASSUME NEW d \in Dispatches, HookTimeout(d) PROVE GateMarked'
  BY <1>25 DEF HookTimeout
<1>26. ASSUME NEW d \in Dispatches, SubagentStop(d) PROVE GateMarked'
  BY <1>26 DEF SubagentStop
<1>27. ASSUME NEW b \in Claims, StoreApply(b) PROVE GateMarked'
  BY <1>27 DEF StoreApply
<1>28. CASE UNCHANGED vars
  BY <1>28 DEF vars
<1> QED
  BY <1>1, <1>2, <1>3, <1>4, <1>5, <1>6, <1>7, <1>8, <1>9, <1>10, <1>11, <1>12,
     <1>13, <1>14, <1>15, <1>16, <1>17, <1>18, <1>19, <1>20, <1>21, <1>22, <1>23,
     <1>24, <1>25, <1>26, <1>27, <1>28
  DEF Next, ChainStep, Fault

(* CountOwedStep: if in addition no process dies between a write and its     *)
(* mark, every step keeps the count owed.                                    *)
LEMMA CountOwedStep ==
  ASSUME ~Met("overlap"), ~Met("unmarked_crash"), ~Met("hook_timeout"), ~Met("io_fault"),
         SerialInv, GateMarked, CountOwed, [Next]_vars
  PROVE  CountOwed'
<1> SUFFICES ASSUME NEW c \in Claims, ~Worked(c)'
             PROVE  /\ register'[c].count # 0 => Flipped(c)' /\ ~RegisterUndone'
                    /\ journal' # None => journal'.before[c].count = 0
  BY DEF CountOwed
<1> DEFINE Goal == /\ register'[c].count # 0 => Flipped(c)' /\ ~RegisterUndone'
                   /\ journal' # None => journal'.before[c].count = 0
<1>w. ~Worked(c)
  BY WorkedStays DEF SerialInv
<1>c. /\ register[c].count # 0 => Flipped(c) /\ ~RegisterUndone
      /\ journal # None => journal.before[c].count = 0
  BY <1>w DEF CountOwed
<1>m. ASSUME NEW d \in Dispatches, NEW step \in Steps,
             NEW next \in {"stash", "register", "finish"},
             phase[d] = "register_mark" => step = "register",
             phase[d] \in WindowPhases, phase[d] = "anchor_mark" => step = "anchor",
             Mark(d, step, next)
      PROVE  Goal
  <2>1. /\ journal # None /\ journal.id = d /\ journal' # None /\ journal'.id = d
        /\ phase' = [phase EXCEPT ![d] = next] /\ phase \in [Dispatches -> Phases]
        /\ journal'.before = journal.before
        /\ journal'.applied = journal.applied \cup {step}
        /\ UNCHANGED <<register, undo>>
    BY <1>m, MarkedIntent DEF SerialInv, AnyInv, TypeOK
  <2> QED BY <1>c, <1>m, <2>1 DEF Flipped, RegisterUndone, RollingBack, JournalClaim,
             WindowPhases
<1>f. ASSUME NEW d \in Dispatches, NEW step \in Steps, FailStep(d, step)
      PROVE  Goal
  <2>1. /\ journal # None /\ journal.id = d /\ journal' # None /\ journal'.id = d
        /\ phase[d] = step /\ phase' = [phase EXCEPT ![d] = "gate"]
        /\ phase \in [Dispatches -> Phases]
        /\ journal'.before = journal.before
        /\ journal'.applied = journal.applied \cup {step}
        /\ undo' = [undo EXCEPT ![d] = {}] /\ undo \in [Dispatches -> SUBSET Steps]
        /\ UNCHANGED register
    BY <1>f, FailedIntent DEF SerialInv, AnyInv, TypeOK
  <2> QED BY <1>c, <1>f, <2>1 DEF Flipped, RegisterUndone, RollingBack, JournalClaim, Steps
<1> USE <1>c, NoneIsNoIntent, ConstantsAssumption
    DEF SerialInv, AnyInv, TypeOK, Serial, OwnSlot, SlotHeld, CommitPhases, WindowPhases,
        ChainPhases, BudgetPhases, GatePhases, At, Goto, Flipped, RegisterUndone, RollingBack,
        JournalClaim
<1>1. ASSUME NEW d \in Dispatches, Admit(d) PROVE Goal
  BY <1>1 DEF Admit
<1>2. ASSUME NEW d \in Dispatches, BeginInFlight(d) PROVE Goal
  BY <1>2 DEF BeginInFlight
<1>3. ASSUME NEW d \in Dispatches, BeginRecovers(d) PROVE Goal
  <2>1. journal.id \in Dispatches
    BY <1>3 DEF BeginRecovers, Journal
  <2> QED BY <1>3, <2>1 DEF BeginRecovers
<1>4. ASSUME NEW d \in Dispatches, OpenIntent(d) PROVE Goal
  <2>1. journal' \in Journal
    BY <1>4 DEF OpenIntent, Journal
  <2>2. journal = None
    BY <1>4 DEF OpenIntent, PidAlive, Journal
  <2> QED BY <1>4, <2>1, <2>2 DEF OpenIntent
<1>5. ASSUME NEW d \in Dispatches, LoadIntent(d) PROVE Goal
  <2>1. /\ phase[d] = "load" /\ phase' = [phase EXCEPT ![d] = "anchor"]
        /\ UNCHANGED <<register, journal, undo>>
    BY <1>5 DEF LoadIntent
  <2> QED BY <2>1
<1>6. ASSUME NEW d \in Dispatches, WriteAnchor(d) PROVE Goal
  BY <1>6 DEF WriteAnchor
<1>7. ASSUME NEW d \in Dispatches, MarkAnchor(d) PROVE Goal
  BY <1>7, <1>m DEF MarkAnchor, Steps
<1>8. ASSUME NEW d \in Dispatches, WriteStash(d) PROVE Goal
  BY <1>8 DEF WriteStash
<1>9. ASSUME NEW d \in Dispatches, MarkStash(d) PROVE Goal
  BY <1>9, <1>m DEF MarkStash, Steps
<1>10. ASSUME NEW d \in Dispatches, WriteRegister(d) PROVE Goal
  <2>1. c # ClaimOf[d] => register'[c] = register[c]
    BY <1>10 DEF WriteRegister
  <2> QED BY <1>10, <2>1 DEF WriteRegister
<1>11. ASSUME NEW d \in Dispatches, RefuseRegister(d) PROVE Goal
  BY <1>11, <1>f DEF RefuseRegister, Steps
<1>12. ASSUME NEW d \in Dispatches, MarkRegister(d) PROVE Goal
  BY <1>12, <1>m DEF MarkRegister, Steps
<1>13. ASSUME NEW d \in Dispatches, Finish(d) PROVE Goal
  <2>1. /\ phase[d] = "finish" /\ phase' = [phase EXCEPT ![d] = "gate"]
        /\ journal' = mem[d] /\ mem[d] \in Journal /\ UNCHANGED register
        /\ \A e \in Dispatches \ {d} : undo'[e] = undo[e]
    BY <1>13 DEF Finish, Exit, MemHeld
  <2> QED BY <2>1
<1>14. ASSUME NEW d \in Dispatches, StepFault(d) PROVE Goal
  BY <1>14 DEF StepFault
<1>15. ASSUME NEW d \in Dispatches, GateAllows(d) PROVE Goal
  <2>1. c # ClaimOf[d] => register'[c] = register[c]
    BY <1>15, TailCounts
  <2>2. /\ journal # None /\ journal.id = d /\ "register" \in journal.applied
        /\ phase[d] = "gate" /\ phase' = [phase EXCEPT ![d] = "tail"]
        /\ UNCHANGED <<journal, undo>>
    BY <1>15 DEF GateAllows, GateMarked
  <2> QED BY <2>1, <2>2
<1>16. ASSUME NEW d \in Dispatches, Confirm(d) PROVE Goal
  BY <1>16 DEF Confirm, Worked, LetThrough
<1>17. ASSUME NEW d \in Dispatches, GateUnresolved(d) PROVE Goal
  BY <1>17 DEF GateUnresolved
<1>18. ASSUME NEW d \in Dispatches, GateRejects(d) PROVE Goal
  <2>1. CASE journal # None /\ ClaimOf[journal.id] = ClaimOf[d]
    <3>1. /\ phase[d] = "gate" /\ phase' = [phase EXCEPT ![d] = "abort"]
          /\ undo' = [undo EXCEPT ![d] = journal.applied]
          /\ UNCHANGED <<register, journal>>
      BY <1>18, <2>1 DEF GateRejects
    <3>2. journal.id \in Dispatches
      BY <2>1 DEF Journal
    <3> QED BY <2>1, <3>1, <3>2
  <2>2. CASE ~(journal # None /\ ClaimOf[journal.id] = ClaimOf[d])
    <3>1. /\ phase[d] = "gate" /\ phase' = [phase EXCEPT ![d] = "rejected"]
          /\ UNCHANGED <<register, journal, undo>>
      BY <1>18, <2>2 DEF GateRejects
    <3> QED BY <3>1
  <2> QED BY <2>1, <2>2
<1>19. ASSUME NEW d \in Dispatches, UndoRegister(d) PROVE Goal
  <2>1. journal # None /\ register' = journal.before /\ UNCHANGED <<journal, phase>>
    BY <1>19 DEF UndoRegister
  <2> QED BY <2>1
<1>20. ASSUME NEW d \in Dispatches, UndoStash(d) PROVE Goal
  BY <1>20 DEF UndoStash
<1>21. ASSUME NEW d \in Dispatches, UndoAnchor(d) PROVE Goal
  BY <1>21 DEF UndoAnchor
<1>22. ASSUME NEW d \in Dispatches, ClearRecovered(d) PROVE Goal
  BY <1>22 DEF ClearRecovered
<1>23. ASSUME NEW d \in Dispatches, ClearAborted(d) PROVE Goal
  BY <1>23 DEF ClearAborted, Exit
<1>24. ASSUME NEW d \in Dispatches, Crash(d) PROVE Goal
  BY <1>24 DEF Crash, Exit
<1>25. ASSUME NEW d \in Dispatches, HookTimeout(d) PROVE Goal
  BY <1>25 DEF HookTimeout
<1>26. ASSUME NEW d \in Dispatches, SubagentStop(d) PROVE Goal
  BY <1>26 DEF SubagentStop
<1>27. ASSUME NEW b \in Claims, StoreApply(b) PROVE Goal
  <2>1. register'[c].count = register[c].count
    <3>1. PICK edge \in StoreEdges : register' = [register EXCEPT ![b].status = edge[2]]
      BY <1>27 DEF StoreApply
    <3>2. register[b] \in Entry /\ register[c] \in Entry
      OBVIOUS
    <3> QED BY <3>1, <3>2 DEF Entry
  <2> QED BY <1>27, <2>1 DEF StoreApply
<1>28. CASE UNCHANGED vars
  BY <1>28 DEF vars
<1> QED
  BY <1>1, <1>2, <1>3, <1>4, <1>5, <1>6, <1>7, <1>8, <1>9, <1>10, <1>11, <1>12,
     <1>13, <1>14, <1>15, <1>16, <1>17, <1>18, <1>19, <1>20, <1>21, <1>22, <1>23,
     <1>24, <1>25, <1>26, <1>27, <1>28
  DEF Next, ChainStep, Fault

(* BudgetOnlySpentOnGrants: as long as chains do not overlap, die as a whole *)
(* and not between a write and its mark, and their files can be written, the *)
(* dispatch_count of a claim is zero, whenever nothing is under way, until a *)
(* dispatch of it is let through.                                            *)
THEOREM BudgetOnlySpentOnGrants ==
  ASSUME ~Met("overlap"), ~Met("unmarked_crash"), ~Met("hook_timeout"), ~Met("io_fault")
  PROVE  Spec => []BudgetKept
<1>1. Init => SerialInv /\ GateMarked /\ CountOwed
  BY SerialInvInit DEF Init, GateMarked, CountOwed
<1>2. SerialInv /\ GateMarked /\ CountOwed /\ [Next]_vars
        => SerialInv' /\ GateMarked' /\ CountOwed'
  BY SerialInvStep, GateMarkedStep, CountOwedStep
<1>3. CountOwed => BudgetKept
  BY DEF CountOwed, Flipped, Worked, BudgetKept, Quiet
<1> QED BY <1>1, <1>2, <1>3, PTL DEF Spec
-----------------------------------------------------------------------------
(* The barrier *)

(* A chain that comes to its verdict finds its own intent in the slot.       *)
GateOwns ==
  \A d \in Dispatches :
    phase[d] \in {"gate", "tail"} => journal # None /\ journal.id = d

(* A rollback of the open intent takes back what dispatch e wrote: the step  *)
(* is about to be marked, or it is marked and not yet undone.                *)
Undoable(e, step, window) ==
  /\ journal # None /\ journal.id = e
  /\ \/ At(e, window)
     \/ /\ step \in journal.applied
        /\ \A d \in Dispatches : RollingBack(d) => step \in undo[d]

(* No chain gets past the barrier while a step is pending whose chain lives. *)
Barrier ==
  \A d \in Dispatches :
    phase[d] \in {"admitted", "recover", "snapshot", "load", "anchor", "anchor_mark", "stash"}
      => \A c \in Pending : At(stash[c], "dead")

(* A pending step has a worker at work or can still be taken back.           *)
StashOwned ==
  \A c \in Pending :
    /\ ClaimOf[stash[c]] = c
    /\ At(stash[c], "running") \/ Undoable(stash[c], "stash", "stash_mark")

BarrierInv ==
  /\ SerialInv /\ GateOwns /\ Barrier /\ StashOwned /\ OneStepPending
  /\ journal # None => ~journal.stashExisted

(* OpenAlone: a chain opens its intent in an empty slot, over no pending     *)
(* step.                                                                     *)
LEMMA OpenAlone ==
  ASSUME BarrierInv, NEW d \in Dispatches, OpenIntent(d)
  PROVE  /\ phase[d] \in {"admitted", "snapshot"} /\ phase' = [phase EXCEPT ![d] = "load"]
         /\ journal = None /\ Pending = {}
         /\ journal' \in Journal /\ journal' # None /\ journal'.id = d
         /\ ~journal'.stashExisted /\ journal'.applied = {} /\ journal'.anchorRow = None
         /\ UNCHANGED <<register, anchor, stash, mem, undo>>
<1> USE ConstantsAssumption, NoneIsNoIntent DEF BarrierInv, SerialInv, AnyInv, TypeOK, At, Goto
<1>1. /\ phase[d] \in {"admitted", "snapshot"} /\ phase' = [phase EXCEPT ![d] = "load"]
      /\ UNCHANGED <<register, anchor, stash, mem, undo>>
  BY DEF OpenIntent
<1>2. journal = None
  <2>1. CASE phase[d] = "snapshot"
    BY <2>1 DEF OwnSlot
  <2>2. CASE phase[d] = "admitted" /\ journal # None
    <3>1. journal.id \in Dispatches /\ phase[journal.id] \in ChainPhases
      BY <2>2 DEF OpenIntent, PidAlive, Journal, ChainPhases
    <3>2. journal.id = d
      BY <2>2, <3>1 DEF Serial, ChainPhases, BudgetPhases
    <3> QED BY <2>2, <3>2 DEF OwnSlot
  <2> QED BY <1>1, <2>1, <2>2
<1>3. Pending = {}
  BY <1>1, <1>2 DEF Barrier, StashOwned, Undoable, Pending
<1>4. /\ journal' = [id |-> d, before |-> register, stashExisted |-> FALSE,
                     anchorRow |-> None, applied |-> {}]
  BY <1>3 DEF OpenIntent, Pending
<1>5. journal' \in Journal
  BY <1>4 DEF Journal
<1> QED BY <1>1, <1>2, <1>3, <1>4, <1>5

(* BarrierInvStep: every step keeps it, when no step outlives its chain      *)
(* unmarked and no step is taken for stale while its worker runs.            *)
LEMMA BarrierInvStep ==
  ASSUME ~Met("overlap"), ~Met("unmarked_crash"), ~Met("hook_timeout"), ~Met("stale_step"),
         BarrierInv, [Next]_vars
  PROVE  BarrierInv'
<1> SUFFICES /\ GateOwns' /\ Barrier' /\ StashOwned' /\ OneStepPending'
             /\ (journal # None => ~journal.stashExisted)'
  BY SerialInvStep DEF BarrierInv
<1> DEFINE Goal == /\ GateOwns' /\ Barrier' /\ StashOwned' /\ OneStepPending'
                   /\ (journal # None => ~journal.stashExisted)'
<1>m. ASSUME NEW d \in Dispatches, NEW step \in Steps,
             NEW next \in {"stash", "register", "finish"},
             phase[d] \in WindowPhases, phase[d] = "anchor_mark" => step = "anchor",
             phase[d] = "stash_mark" => step = "stash",
             next = "stash" <=> phase[d] = "anchor_mark", Mark(d, step, next)
      PROVE  Goal
  <2>1. /\ journal # None /\ journal.id = d
        /\ phase' = [phase EXCEPT ![d] = next] /\ phase \in [Dispatches -> Phases]
        /\ stash \in [Claims -> Dispatches \cup {None}]
        /\ journal' # None /\ journal'.id = d
        /\ journal'.stashExisted = journal.stashExisted
        /\ journal'.applied = journal.applied \cup {step}
        /\ UNCHANGED <<stash, undo>>
    BY <1>m, MarkedIntent DEF BarrierInv, SerialInv, AnyInv, TypeOK
  <2> USE DEF BarrierInv, Pending, At
  <2>2. /\ GateOwns' /\ Barrier' /\ OneStepPending'
        /\ (journal # None => ~journal.stashExisted)'
    BY <1>m, <2>1 DEF GateOwns, Barrier, OneStepPending, WindowPhases
  <2>3. ASSUME NEW e \in Dispatches PROVE phase'[e] \notin {"recover", "abort"}
    <3>1. CASE e = d
      BY <1>m, <2>1, <3>1
    <3>2. CASE e # d
      <4>1. phase[e] \notin ChainPhases /\ phase'[e] = phase[e]
        BY <1>m, <2>1, <3>2 DEF SerialInv, Serial, WindowPhases, BudgetPhases, ChainPhases
      <4> QED BY <4>1 DEF BudgetPhases, GatePhases, ChainPhases
    <3> QED BY <3>1, <3>2
  <2>4. StashOwned'
    BY <1>m, <2>1, <2>3 DEF StashOwned, Undoable, RollingBack, WindowPhases
  <2> QED BY <2>2, <2>4
<1>f. ASSUME NEW d \in Dispatches, NEW step \in Steps, FailStep(d, step)
      PROVE  Goal
  <2>1. /\ journal # None /\ journal.id = d /\ phase[d] = step
        /\ phase' = [phase EXCEPT ![d] = "gate"] /\ phase \in [Dispatches -> Phases]
        /\ journal' # None /\ journal'.id = d
        /\ journal'.stashExisted = journal.stashExisted
        /\ journal'.applied = journal.applied \cup {step}
        /\ undo' = [undo EXCEPT ![d] = {}] /\ DOMAIN undo = Dispatches /\ UNCHANGED stash
    BY <1>f, FailedIntent DEF BarrierInv, SerialInv, AnyInv, TypeOK
  <2> QED BY <1>f, <2>1 DEF BarrierInv, SerialInv, Serial, GateOwns, Barrier, StashOwned, Undoable,
             OneStepPending, Pending, RollingBack, BudgetPhases, ChainPhases, At, Steps
<1> USE ConstantsAssumption, NoneIsNoIntent
    DEF BarrierInv, SerialInv, AnyInv, TypeOK, Serial, OwnSlot, SlotHeld, GateOwns, Barrier,
        StashOwned, Undoable, OneStepPending, Pending, RollingBack, JournalClaim, CommitPhases, WindowPhases, BudgetPhases,
        GatePhases, ChainPhases, Journal, At, Goto
<1>1. ASSUME NEW d \in Dispatches, Admit(d) PROVE Goal
  BY <1>1 DEF Admit
<1>2. ASSUME NEW d \in Dispatches, BeginInFlight(d) PROVE Goal
  BY <1>2 DEF BeginInFlight
<1>3. ASSUME NEW d \in Dispatches, BeginRecovers(d) PROVE Goal
  BY <1>3 DEF BeginRecovers
<1>4. ASSUME NEW d \in Dispatches, OpenIntent(d) PROVE Goal
  <2>1. /\ phase[d] \in {"admitted", "snapshot"} /\ phase' = [phase EXCEPT ![d] = "load"]
        /\ \A c \in Claims : stash[c] = None
        /\ journal' # None /\ journal'.id = d /\ ~journal'.stashExisted
        /\ journal = None /\ UNCHANGED <<stash, undo>>
    BY <1>4, OpenAlone
  <2> QED BY <2>1
<1>5. ASSUME NEW d \in Dispatches, LoadIntent(d) PROVE Goal
  <2>1. /\ phase[d] = "load" /\ phase' = [phase EXCEPT ![d] = "anchor"]
        /\ UNCHANGED <<stash, journal, undo>>
    BY <1>5 DEF LoadIntent
  <2> QED BY <2>1
<1>6. ASSUME NEW d \in Dispatches, WriteAnchor(d) PROVE Goal
  <2>1. /\ phase[d] = "anchor" /\ phase' = [phase EXCEPT ![d] = "anchor_mark"]
        /\ UNCHANGED <<stash, journal, undo>>
    BY <1>6 DEF WriteAnchor
  <2> QED BY <2>1
<1>7. ASSUME NEW d \in Dispatches, MarkAnchor(d) PROVE Goal
  <2>1. phase[d] = "anchor_mark" /\ Mark(d, "anchor", "stash")
    BY <1>7 DEF MarkAnchor
  <2> HIDE DEF Goal
  <2> QED BY <1>m, <2>1 DEF Steps
<1>8. ASSUME NEW d \in Dispatches, WriteStash(d) PROVE Goal
  <2>1. /\ phase[d] = "stash" /\ phase' = [phase EXCEPT ![d] = "stash_mark"]
        /\ stash' = [stash EXCEPT ![ClaimOf[d]] = d]
        /\ UNCHANGED <<journal, undo>>
    BY <1>8 DEF WriteStash
  <2>2. journal.id = d /\ phase[d] # "dead" /\ phase[d] # "running"
    BY <2>1
  <2>3. ASSUME NEW c \in Pending PROVE FALSE
    <3>1. phase[stash[c]] = "dead" /\ (phase[stash[c]] = "running" \/ journal.id = stash[c])
      BY <2>1, <2>3
    <3> QED BY <2>2, <3>1
  <2>4. \A c \in Claims : stash[c] = None
    BY <2>3
  <2> QED BY <2>1, <2>2, <2>4
<1>9. ASSUME NEW d \in Dispatches, MarkStash(d) PROVE Goal
  <2>1. phase[d] = "stash_mark" /\ Mark(d, "stash", "register")
    BY <1>9 DEF MarkStash
  <2> HIDE DEF Goal
  <2> QED BY <1>m, <2>1 DEF Steps
<1>10. ASSUME NEW d \in Dispatches, WriteRegister(d) PROVE Goal
  BY <1>10 DEF WriteRegister
<1>11. ASSUME NEW d \in Dispatches, RefuseRegister(d) PROVE Goal
  <2>1. FailStep(d, "register")
    BY <1>11 DEF RefuseRegister
  <2> HIDE DEF Goal
  <2> QED BY <1>f, <2>1 DEF Steps
<1>12. ASSUME NEW d \in Dispatches, MarkRegister(d) PROVE Goal
  <2>1. phase[d] = "register_mark" /\ Mark(d, "register", "finish")
    BY <1>12 DEF MarkRegister
  <2> HIDE DEF Goal
  <2> QED BY <1>m, <2>1 DEF Steps
<1>13. ASSUME NEW d \in Dispatches, Finish(d) PROVE Goal
  <2>1. phase[d] = "finish" /\ phase' = [phase EXCEPT ![d] = "gate"]
    BY <1>13 DEF Finish, Exit
  <2>2. mem[d] = journal
    BY <2>1
  <2>3. journal' = journal /\ undo' = [undo EXCEPT ![d] = {}] /\ UNCHANGED stash
    BY <1>13, <2>2 DEF Finish, Exit
  <2> QED BY <2>1, <2>3
<1>14. ASSUME NEW d \in Dispatches, StepFault(d) PROVE Goal
  <2>1. CASE FailStep(d, "anchor") \/ FailStep(d, "stash")
    <3> HIDE DEF Goal
    <3> QED BY <1>f, <2>1 DEF Steps
  <2>2. CASE At(d, "register") /\ Exit(d, "gate") /\ UNCHANGED <<register, anchor, stash, journal>>
    BY <2>2 DEF Exit
  <2> QED BY <1>14, <2>1, <2>2 DEF StepFault
<1>15. ASSUME NEW d \in Dispatches, GateAllows(d) PROVE Goal
  <2>1. /\ phase[d] = "gate" /\ phase' = [phase EXCEPT ![d] = "tail"]
        /\ UNCHANGED <<stash, journal, undo>>
    BY <1>15 DEF GateAllows
  <2> QED BY <2>1
<1>16. ASSUME NEW d \in Dispatches, Confirm(d) PROVE Goal
  BY <1>16 DEF Confirm
<1>17. ASSUME NEW d \in Dispatches, GateUnresolved(d) PROVE Goal
  BY <1>17 DEF GateUnresolved
<1>18. ASSUME NEW d \in Dispatches, GateRejects(d) PROVE Goal
  <2>1. /\ phase[d] = "gate" /\ phase' = [phase EXCEPT ![d] = "abort"]
        /\ undo' = [undo EXCEPT ![d] = journal.applied]
        /\ UNCHANGED <<stash, journal>>
    BY <1>18 DEF GateRejects
  <2> QED BY <2>1
<1>19. ASSUME NEW d \in Dispatches, UndoRegister(d) PROVE Goal
  BY <1>19 DEF UndoRegister
<1>20. ASSUME NEW d \in Dispatches, UndoStash(d) PROVE Goal
  <2>1. /\ phase[d] \in {"recover", "abort"} /\ mem[d] = journal /\ journal # None
        /\ stash' = [stash EXCEPT ![ClaimOf[journal.id]] = None]
        /\ undo' = [undo EXCEPT ![d] = @ \ {"stash"}]
        /\ UNCHANGED <<phase, journal>>
    BY <1>20 DEF UndoStash
  <2> QED BY <2>1
<1>21. ASSUME NEW d \in Dispatches, UndoAnchor(d) PROVE Goal
  BY <1>21 DEF UndoAnchor
<1>22. ASSUME NEW d \in Dispatches, ClearRecovered(d) PROVE Goal
  BY <1>22 DEF ClearRecovered
<1>23. ASSUME NEW d \in Dispatches, ClearAborted(d) PROVE Goal
  BY <1>23 DEF ClearAborted, Exit
<1>24. ASSUME NEW d \in Dispatches, Crash(d) PROVE Goal
  BY <1>24 DEF Crash, Exit
<1>25. ASSUME NEW d \in Dispatches, HookTimeout(d) PROVE Goal
  BY <1>25 DEF HookTimeout, Exit
<1>26. ASSUME NEW d \in Dispatches, SubagentStop(d) PROVE Goal
  <2>1. /\ phase[d] = "running" /\ phase' = [phase EXCEPT ![d] = "stopped"]
        /\ UNCHANGED <<journal, undo>>
    BY <1>26 DEF SubagentStop
  <2>2. \A c \in Claims : stash'[c] = None
    BY <1>26 DEF SubagentStop
  <2> QED BY <2>1, <2>2
<1>27. ASSUME NEW c \in Claims, StoreApply(c) PROVE Goal
  BY <1>27 DEF StoreApply
<1>28. CASE UNCHANGED vars
  BY <1>28 DEF vars
<1> QED
  BY <1>1, <1>2, <1>3, <1>4, <1>5, <1>6, <1>7, <1>8, <1>9, <1>10, <1>11, <1>12,
     <1>13, <1>14, <1>15, <1>16, <1>17, <1>18, <1>19, <1>20, <1>21, <1>22, <1>23,
     <1>24, <1>25, <1>26, <1>27, <1>28
  DEF Next, ChainStep, Fault

(* BarrierInvAlways: it holds throughout.                                    *)
LEMMA BarrierInvAlways ==
  ASSUME ~Met("overlap"), ~Met("unmarked_crash"), ~Met("hook_timeout"), ~Met("stale_step")
  PROVE  Spec => []BarrierInv
<1>1. Init => BarrierInv
  BY SerialInvInit DEF Init, BarrierInv, GateOwns, Barrier, StashOwned, OneStepPending, Pending
<1>2. BarrierInv /\ [Next]_vars => BarrierInv'
  BY BarrierInvStep
<1> QED BY <1>1, <1>2, PTL DEF Spec

(* BarrierHolds: unless chains overlap, a chain dies between a write and its  *)
(* mark, worker_budget is killed alone or a running step is taken for stale, *)
(* at most one launch stash is pending.                                      *)
THEOREM BarrierHolds ==
  ASSUME ~Met("overlap"), ~Met("unmarked_crash"), ~Met("hook_timeout"), ~Met("stale_step")
  PROVE  Spec => []OneStepPending
<1>1. BarrierInv => OneStepPending
  BY DEF BarrierInv
<1> QED BY <1>1, BarrierInvAlways, PTL

-----------------------------------------------------------------------------
(* What rejected and dead dispatches leave behind *)

(* AppendRows: an appended row is the last one, and the others were there.   *)
LEMMA AppendRows ==
  ASSUME NEW rows \in Seq(Dispatches), NEW d \in Dispatches,
         NEW more, more = Append(Room(rows), d)
  PROVE  /\ Len(more) \in Nat \ {0} /\ more[Len(more)] = d
         /\ \A i \in 1..Len(more) :
              i = Len(more) \/ \E j \in 1..Len(rows) : more[i] = rows[j]
<1> DEFINE kept == Room(rows)
<1>1. kept \in Seq(Dispatches) /\ \A i \in 1..Len(kept) : \E j \in 1..Len(rows) : kept[i] = rows[j]
  <2>1. CASE Met("log_full") /\ Len(rows) >= AnchorCap
    <3>1. rows # << >>
      BY <2>1, ConstantsAssumption
    <3>2. /\ kept = Tail(rows) /\ kept \in Seq(Dispatches) /\ Len(kept) = Len(rows) - 1
          /\ \A i \in 1..Len(kept) : kept[i] = rows[i + 1]
      BY <2>1, <3>1, HeadTailProperties DEF Room
    <3>3. \A i \in 1..Len(kept) : i + 1 \in 1..Len(rows)
      BY <3>2
    <3> QED BY <3>2, <3>3
  <2>2. CASE ~(Met("log_full") /\ Len(rows) >= AnchorCap)
    BY <2>2 DEF Room
  <2> QED BY <2>1, <2>2
<1>2. /\ Len(more) = Len(kept) + 1 /\ Len(kept) \in Nat
      /\ more[Len(kept) + 1] = d /\ \A i \in 1..Len(kept) : more[i] = kept[i]
  <2> HIDE DEF kept
  <2> QED BY <1>1, AppendProperties DEF kept
<1> HIDE DEF kept
<1>3. \A i \in 1..Len(more) : i = Len(more) \/ i \in 1..Len(kept)
  BY <1>2
<1> QED BY <1>1, <1>2, <1>3

(* DropRows: a log without its last row keeps the others.                    *)
LEMMA DropRows ==
  ASSUME NEW rows \in Seq(Dispatches), Len(rows) > 0
  PROVE  /\ DropLast(rows) \in Seq(Dispatches) /\ Len(DropLast(rows)) = Len(rows) - 1
         /\ \A i \in 1..(Len(rows) - 1) : DropLast(rows)[i] = rows[i]
<1> DEFINE n == Len(rows) - 1
           front == SubSeq(rows, 1, n)
<1>1. n \in Nat /\ \A i \in 1..n : rows[i] \in Dispatches
  OBVIOUS
<1>2. /\ front \in Seq(Dispatches) /\ Len(front) = IF 1 <= n THEN n - 1 + 1 ELSE 0
      /\ \A i \in 1..(n - 1 + 1) : front[i] = rows[1 + i - 1]
  <2> HIDE DEF n
  <2> QED BY <1>1, SubSeqProperties
<1>3. Len(front) = n /\ \A i \in 1..n : front[i] = rows[i]
  <2> HIDE DEF n, front
  <2> QED BY <1>1, <1>2
<1> QED BY <1>2, <1>3 DEF DropLast

(* The anchor row of dispatch r is there by right, or can be taken back.     *)
RowOwed(r) ==
  /\ Undoable(r, "anchor", "anchor_mark")
  /\ At(r, "anchor_mark") \/ journal.anchorRow = r

RowsOwned ==
  \A c \in Claims : \A i \in 1..Len(anchor[c]) :
    \/ LetThrough(anchor[c][i])
    \/ RowOwed(anchor[c][i]) /\ ClaimOf[anchor[c][i]] = c /\ i = Len(anchor[c])

RightKept ==
  \A r \in Dispatches :
    /\ LetThrough(r) => LetThrough(r)'
    /\ RowOwed(r) => RowOwed(r)' \/ LetThrough(r)'

(* RowsAppended: an appended row that can be taken back, after rows that are *)
(* there by right, keeps it.                                                 *)
LEMMA RowsAppended ==
  ASSUME TypeOK, NEW own \in Claims, NEW d \in Dispatches, ClaimOf[d] = own, RowOwed(d)',
         \A c \in Claims : \A i \in 1..Len(anchor[c]) : LetThrough(anchor[c][i]),
         \A r \in Dispatches : LetThrough(r) => LetThrough(r)',
         anchor' = [anchor EXCEPT ![own] = Append(Room(@), d)]
  PROVE  RowsOwned'
<1>1. PICK more : more = Append(Room(anchor[own]), d)
  OBVIOUS
<1>2. anchor[own] \in Seq(Dispatches) /\ anchor'[own] = more
      /\ \A c \in Claims \ {own} : anchor'[c] = anchor[c]
  BY <1>1 DEF TypeOK
<1>3. /\ Len(more) \in Nat \ {0} /\ more[Len(more)] = d
      /\ \A i \in 1..Len(more) :
           i = Len(more) \/ \E j \in 1..Len(anchor[own]) : more[i] = anchor[own][j]
  <2>1. ASSUME NEW rows \in Seq(Dispatches), more = Append(Room(rows), d)
        PROVE  /\ Len(more) \in Nat \ {0} /\ more[Len(more)] = d
               /\ \A i \in 1..Len(more) :
                    i = Len(more) \/ \E j \in 1..Len(rows) : more[i] = rows[j]
    BY <2>1, AppendRows
  <2> QED BY <1>1, <1>2, <2>1
<1>4. \A c \in Claims : \A i \in 1..Len(anchor[c]) : anchor[c][i] \in Dispatches
  BY DEF TypeOK
<1>5. ASSUME NEW i \in 1..Len(more)
      PROVE  LetThrough(more[i])' \/ (RowOwed(more[i])' /\ more[i] = d /\ i = Len(more))
  <2>1. CASE i = Len(more)
    BY <1>3, <2>1
  <2>2. CASE i # Len(more)
    <3>1. PICK j \in 1..Len(anchor[own]) : more[i] = anchor[own][j]
      BY <1>3, <2>2
    <3>2. anchor[own][j] \in Dispatches /\ LetThrough(anchor[own][j])
      BY <1>4
    <3> QED BY <3>1, <3>2
  <2> QED BY <2>1, <2>2
<1>6. ASSUME NEW c \in Claims, c # own, NEW i \in 1..Len(anchor[c]) PROVE LetThrough(anchor[c][i])'
  <2>1. anchor[c][i] \in Dispatches /\ LetThrough(anchor[c][i]) /\ anchor'[c] = anchor[c]
    BY <1>2, <1>4, <1>6
  <2> QED BY <2>1 DEF LetThrough
<1> QED BY <1>2, <1>5, <1>6 DEF RowsOwned

(* RowsOwnedStep: every step keeps it, under the conditions of the barrier.  *)
LEMMA RowsOwnedStep ==
  ASSUME ~Met("overlap"), ~Met("unmarked_crash"), ~Met("hook_timeout"), ~Met("stale_step"),
         BarrierInv, RowsOwned, [Next]_vars
  PROVE  RowsOwned'
<1> DEFINE Goal == UNCHANGED anchor /\ RightKept
<1>a. TypeOK /\ TypeOK'
  BY BarrierInvStep DEF BarrierInv, SerialInv, AnyInv
<1>g. ASSUME Goal PROVE RowsOwned'
  BY <1>a, <1>g DEF RowsOwned, RightKept, TypeOK
<1>m. ASSUME NEW d \in Dispatches, NEW step \in Steps,
             NEW next \in {"stash", "register", "finish"},
             phase[d] \in WindowPhases, phase[d] = "anchor_mark" => step = "anchor",
             phase[d] = "stash_mark" => step = "stash",
             next = "stash" <=> phase[d] = "anchor_mark", Mark(d, step, next)
      PROVE  Goal
  <2>1. /\ journal # None /\ journal.id = d
        /\ phase' = [phase EXCEPT ![d] = next] /\ phase \in [Dispatches -> Phases]
        /\ journal' # None /\ journal'.id = d
        /\ journal'.applied = journal.applied \cup {step}
        /\ journal'.anchorRow = IF phase[d] = "anchor_mark" THEN d ELSE journal.anchorRow
        /\ UNCHANGED <<anchor, undo>>
    BY <1>m, MarkedIntent DEF BarrierInv, SerialInv, AnyInv, TypeOK
  <2>2. ASSUME NEW e \in Dispatches PROVE phase'[e] \notin {"recover", "abort"}
    <3>1. CASE e = d
      BY <1>m, <2>1, <3>1
    <3>2. CASE e # d
      <4>1. phase[e] \notin ChainPhases /\ phase'[e] = phase[e]
        BY <1>m, <2>1, <3>2 DEF BarrierInv, SerialInv, Serial, WindowPhases, BudgetPhases, ChainPhases
      <4> QED BY <4>1 DEF BudgetPhases, GatePhases, ChainPhases
    <3> QED BY <3>1, <3>2
  <2> QED BY <1>m, <2>1, <2>2 DEF RightKept, RowOwed, Undoable, LetThrough, RollingBack, At, WindowPhases
<1>f. ASSUME NEW d \in Dispatches, NEW step \in Steps, FailStep(d, step)
      PROVE  Goal
  <2>1. /\ journal # None /\ journal.id = d /\ phase[d] = step
        /\ phase' = [phase EXCEPT ![d] = "gate"] /\ phase \in [Dispatches -> Phases]
        /\ journal' # None /\ journal'.id = d /\ journal'.anchorRow = journal.anchorRow
        /\ journal'.applied = journal.applied \cup {step}
        /\ undo' = [undo EXCEPT ![d] = {}] /\ DOMAIN undo = Dispatches /\ UNCHANGED anchor
    BY <1>f, FailedIntent DEF BarrierInv, SerialInv, AnyInv, TypeOK
  <2> QED BY <1>f, <2>1 DEF RightKept, RowOwed, Undoable, LetThrough, RollingBack, At, Steps
<1> USE ConstantsAssumption, NoneIsNoIntent
    DEF BarrierInv, SerialInv, AnyInv, TypeOK, Serial, OwnSlot, SlotHeld, GateOwns, RightKept,
        RowOwed, Undoable, LetThrough, RollingBack, JournalClaim, CommitPhases, WindowPhases,
        BudgetPhases, GatePhases, ChainPhases, Journal, At, Goto
<1>1. ASSUME NEW d \in Dispatches, Admit(d) PROVE Goal
  BY <1>1 DEF Admit
<1>2. ASSUME NEW d \in Dispatches, BeginInFlight(d) PROVE Goal
  BY <1>2 DEF BeginInFlight
<1>3. ASSUME NEW d \in Dispatches, BeginRecovers(d) PROVE Goal
  BY <1>3 DEF BeginRecovers
<1>4. ASSUME NEW d \in Dispatches, OpenIntent(d) PROVE Goal
  <2>1. /\ phase[d] \in {"admitted", "snapshot"} /\ phase' = [phase EXCEPT ![d] = "load"]
        /\ journal = None /\ UNCHANGED anchor
    BY <1>4, OpenAlone
  <2> QED BY <2>1
<1>5. ASSUME NEW d \in Dispatches, LoadIntent(d) PROVE Goal
  <2>1. /\ phase[d] = "load" /\ phase' = [phase EXCEPT ![d] = "anchor"]
        /\ UNCHANGED <<anchor, journal, undo>>
    BY <1>5 DEF LoadIntent
  <2> QED BY <2>1
<1>6. ASSUME NEW d \in Dispatches, WriteAnchor(d) PROVE RowsOwned'
  <2>1. /\ phase[d] = "anchor" /\ phase' = [phase EXCEPT ![d] = "anchor_mark"]
        /\ anchor' = [anchor EXCEPT ![ClaimOf[d]] = Append(Room(@), d)]
        /\ UNCHANGED <<journal, undo>>
    BY <1>6 DEF WriteAnchor
  <2>2. journal # None /\ journal.id = d /\ journal.applied = {}
    BY <2>1
  <2>3. RowOwed(d)' /\ \A r \in Dispatches : LetThrough(r) => LetThrough(r)'
    BY <2>1, <2>2
  <2>4. \A c \in Claims : \A i \in 1..Len(anchor[c]) : LetThrough(anchor[c][i])
    BY <2>1, <2>2 DEF RowsOwned
  <2>5. ClaimOf[d] \in Claims /\ TypeOK
    OBVIOUS
  <2> HIDE DEF BarrierInv, RowOwed, LetThrough, TypeOK
  <2> QED BY <2>1, <2>3, <2>4, <2>5, RowsAppended
<1>7. ASSUME NEW d \in Dispatches, MarkAnchor(d) PROVE Goal
  <2>1. phase[d] = "anchor_mark" /\ Mark(d, "anchor", "stash")
    BY <1>7 DEF MarkAnchor
  <2> HIDE DEF Goal
  <2> QED BY <1>m, <2>1 DEF Steps
<1>8. ASSUME NEW d \in Dispatches, WriteStash(d) PROVE Goal
  BY <1>8 DEF WriteStash
<1>9. ASSUME NEW d \in Dispatches, MarkStash(d) PROVE Goal
  <2>1. phase[d] = "stash_mark" /\ Mark(d, "stash", "register")
    BY <1>9 DEF MarkStash
  <2> HIDE DEF Goal
  <2> QED BY <1>m, <2>1 DEF Steps
<1>10. ASSUME NEW d \in Dispatches, WriteRegister(d) PROVE Goal
  BY <1>10 DEF WriteRegister
<1>11. ASSUME NEW d \in Dispatches, RefuseRegister(d) PROVE Goal
  <2>1. FailStep(d, "register")
    BY <1>11 DEF RefuseRegister
  <2> HIDE DEF Goal
  <2> QED BY <1>f, <2>1 DEF Steps
<1>12. ASSUME NEW d \in Dispatches, MarkRegister(d) PROVE Goal
  <2>1. phase[d] = "register_mark" /\ Mark(d, "register", "finish")
    BY <1>12 DEF MarkRegister
  <2> HIDE DEF Goal
  <2> QED BY <1>m, <2>1 DEF Steps
<1>13. ASSUME NEW d \in Dispatches, Finish(d) PROVE Goal
  <2>1. phase[d] = "finish" /\ phase' = [phase EXCEPT ![d] = "gate"]
    BY <1>13 DEF Finish, Exit
  <2>2. mem[d] = journal
    BY <2>1
  <2>3. journal' = journal /\ undo' = [undo EXCEPT ![d] = {}] /\ UNCHANGED anchor
    BY <1>13, <2>2 DEF Finish, Exit
  <2> QED BY <2>1, <2>3
<1>14. ASSUME NEW d \in Dispatches, StepFault(d) PROVE Goal
  <2>1. CASE FailStep(d, "anchor") \/ FailStep(d, "stash")
    <3> HIDE DEF Goal
    <3> QED BY <1>f, <2>1 DEF Steps
  <2>2. CASE At(d, "register") /\ Exit(d, "gate") /\ UNCHANGED <<register, anchor, stash, journal>>
    BY <2>2 DEF Exit
  <2> QED BY <1>14, <2>1, <2>2 DEF StepFault
<1>15. ASSUME NEW d \in Dispatches, GateAllows(d) PROVE Goal
  <2>1. /\ phase[d] = "gate" /\ phase' = [phase EXCEPT ![d] = "tail"]
        /\ UNCHANGED <<anchor, journal, undo>>
    BY <1>15 DEF GateAllows
  <2> QED BY <2>1
<1>16. ASSUME NEW d \in Dispatches, Confirm(d) PROVE Goal
  BY <1>16 DEF Confirm
<1>17. ASSUME NEW d \in Dispatches, GateUnresolved(d) PROVE Goal
  BY <1>17 DEF GateUnresolved
<1>18. ASSUME NEW d \in Dispatches, GateRejects(d) PROVE Goal
  <2>1. /\ phase[d] = "gate" /\ phase' = [phase EXCEPT ![d] = "abort"]
        /\ undo' = [undo EXCEPT ![d] = journal.applied]
        /\ UNCHANGED <<anchor, journal>>
    BY <1>18 DEF GateRejects
  <2> QED BY <2>1
<1>19. ASSUME NEW d \in Dispatches, UndoRegister(d) PROVE Goal
  BY <1>19 DEF UndoRegister
<1>20. ASSUME NEW d \in Dispatches, UndoStash(d) PROVE Goal
  <2>1. /\ phase[d] \in {"recover", "abort"} /\ undo' = [undo EXCEPT ![d] = @ \ {"stash"}]
        /\ UNCHANGED <<phase, anchor, journal>>
    BY <1>20 DEF UndoStash
  <2> QED BY <2>1
<1>21. ASSUME NEW d \in Dispatches, UndoAnchor(d) PROVE RowsOwned'
  <2> DEFINE own == ClaimOf[journal.id]
             rows == anchor[own]
  <2>1. /\ phase[d] \in {"recover", "abort"} /\ mem[d] = journal /\ journal # None
        /\ own \in Claims /\ rows \in Seq(Dispatches) /\ journal.anchorRow \in Dispatches \cup {None}
        /\ UNCHANGED <<phase, journal>>
    BY <1>21 DEF UndoAnchor
  <2>2. \A r \in Dispatches : RowOwed(r) => r = journal.id /\ journal.anchorRow = r
    BY <2>1
  <2>3. anchor' = IF journal.anchorRow # None /\ EndsWith(rows, journal.anchorRow)
                  THEN [anchor EXCEPT ![own] = DropLast(@)] ELSE anchor
    BY <1>21, <2>1 DEF UndoAnchor
  <2>4. \A r \in Dispatches : LetThrough(r)' <=> LetThrough(r)
    BY <2>1
  <2>5. \A c \in Claims : \A i \in 1..Len(anchor[c]) : anchor[c][i] \in Dispatches
    BY <1>a
  <2>6. anchor \in [Claims -> Seq(Dispatches)]
    BY <1>a
  <2> HIDE DEF own, BarrierInv, RowOwed, LetThrough, TypeOK, Journal, At
  <2>7. ASSUME NEW c \in Claims, NEW i \in 1..Len(anchor[c]),
               ~LetThrough(anchor[c][i])
        PROVE  c = own /\ i = Len(rows) /\ journal.anchorRow = rows[i] /\ EndsWith(rows, journal.anchorRow)
    <3>1. RowOwed(anchor[c][i]) /\ ClaimOf[anchor[c][i]] = c /\ i = Len(anchor[c])
      BY <2>7 DEF RowsOwned
    <3>2. anchor[c][i] = journal.id /\ journal.anchorRow = journal.id
      BY <2>2, <2>5, <3>1
    <3>3. c = own
      BY <3>1, <3>2 DEF own
    <3>4. Len(rows) > 0
      BY <2>1, <3>1, <3>3
    <3> QED BY <3>1, <3>2, <3>3, <3>4 DEF EndsWith
  <2>8. ASSUME NEW c \in Claims, NEW i \in 1..Len(anchor'[c]) PROVE LetThrough(anchor'[c][i])
    <3>1. CASE journal.anchorRow # None /\ EndsWith(rows, journal.anchorRow) /\ c = own
      <4>1. anchor'[c] = DropLast(rows) /\ Len(rows) > 0 /\ Len(rows) \in Nat
        BY <2>1, <2>3, <2>6, <3>1 DEF EndsWith
      <4>2. i \in 1..(Len(rows) - 1) /\ anchor'[c][i] = rows[i]
        BY <2>1, <4>1, DropRows
      <4>3. i \in 1..Len(anchor[c]) /\ i # Len(rows)
        BY <3>1, <4>1, <4>2
      <4> QED BY <2>7, <3>1, <4>2, <4>3
    <3>2. CASE ~(journal.anchorRow # None /\ EndsWith(rows, journal.anchorRow) /\ c = own)
      <4>1. anchor'[c] = anchor[c]
        BY <2>3, <2>6, <3>2
      <4>2. journal.anchorRow # None \/ LetThrough(anchor[c][i])
        BY <2>5, <2>7, <4>1, ConstantsAssumption
      <4> QED BY <2>7, <3>2, <4>1, <4>2
    <3> QED BY <3>1, <3>2
  <2> QED BY <1>a, <2>4, <2>8 DEF RowsOwned, TypeOK
<1>22. ASSUME NEW d \in Dispatches, ClearRecovered(d) PROVE Goal
  BY <1>22 DEF ClearRecovered
<1>23. ASSUME NEW d \in Dispatches, ClearAborted(d) PROVE Goal
  BY <1>23 DEF ClearAborted, Exit
<1>24. ASSUME NEW d \in Dispatches, Crash(d) PROVE Goal
  BY <1>24 DEF Crash, Exit
<1>25. ASSUME NEW d \in Dispatches, HookTimeout(d) PROVE Goal
  BY <1>25 DEF HookTimeout, Exit
<1>26. ASSUME NEW d \in Dispatches, SubagentStop(d) PROVE Goal
  BY <1>26 DEF SubagentStop
<1>27. ASSUME NEW c \in Claims, StoreApply(c) PROVE Goal
  BY <1>27 DEF StoreApply
<1>28. CASE UNCHANGED vars
  <2>1. Goal
    BY <1>28 DEF vars
  <2> QED BY <1>g, <2>1
<1> HIDE DEF Goal
<1> QED
  BY <1>g, <1>1, <1>2, <1>3, <1>4, <1>5, <1>6, <1>7, <1>8, <1>9, <1>10, <1>11, <1>12,
     <1>13, <1>14, <1>15, <1>16, <1>17, <1>18, <1>19, <1>20, <1>21, <1>22, <1>23,
     <1>24, <1>25, <1>26, <1>27, <1>28
  DEF Next, ChainStep, Fault

(* NothingLeftBehind: under the conditions of BarrierHolds, a dispatch that   *)
(* was rejected or whose chain died leaves no anchor row and no launch stash *)
(* once the intent slot is empty, whatever claims, dispatches and order of   *)
(* chains, I/O faults, foreign writes and unresolved gates there are.        *)
THEOREM NothingLeftBehind ==
  ASSUME ~Met("overlap"), ~Met("unmarked_crash"), ~Met("hook_timeout"), ~Met("stale_step")
  PROVE  Spec => []NoResidue
<1>1. Init => RowsOwned
  BY DEF Init, RowsOwned
<1>2. BarrierInv /\ RowsOwned /\ [Next]_vars => RowsOwned'
  BY RowsOwnedStep
<1>3. BarrierInv /\ RowsOwned => NoResidue
  <2> SUFFICES ASSUME BarrierInv, RowsOwned, journal = None,
                      NEW d \in Dispatches, phase[d] \in {"rejected", "dead"}
               PROVE  d \notin Rows(ClaimOf[d]) /\ stash[ClaimOf[d]] # d
    BY DEF NoResidue
  <2>1. d \notin Rows(ClaimOf[d])
    BY ConstantsAssumption DEF RowsOwned, RowOwed, Undoable, Rows, LetThrough
  <2>2. stash[ClaimOf[d]] # d
    BY ConstantsAssumption DEF BarrierInv, StashOwned, Undoable, Pending, At
  <2> QED BY <2>1, <2>2
<1> QED BY <1>1, <1>2, <1>3, BarrierInvAlways, PTL DEF Spec

-----------------------------------------------------------------------------
(* The work of a dispatch that was let through *)

(* The open intent is of a dispatch not let through yet, and names no row    *)
(* but its own.                                                              *)
NotYetGranted ==
  journal # None => ~LetThrough(journal.id) /\ journal.anchorRow \in {None, journal.id}

(* While a worker runs no chain does, and no other worker.                   *)
RunnerAlone ==
  \A d \in Dispatches :
    At(d, "running") =>
      \A e \in Dispatches : phase[e] \notin ChainPhases /\ (At(e, "running") => e = d)

StashedPhases == {"stash_mark", "register", "register_mark", "finish", "gate", "tail"}

(* What a chain on its way to a verdict has written is there.                *)
OwnWritten ==
  \A d \in Dispatches :
    /\ phase[d] \in {"anchor_mark", "stash"} \cup StashedPhases => d \in Rows(ClaimOf[d])
    /\ phase[d] \in StashedPhases => stash[ClaimOf[d]] = d

StandsInv ==
  SerialInv /\ GateOwns /\ NotYetGranted /\ RunnerAlone /\ OwnWritten /\ WorkStands

(* RowAdded, RowDropped: what a write or a rollback does to the rows of a    *)
(* claim, below the cap.                                                     *)
LEMMA RowAdded ==
  ASSUME TypeOK, ~Met("log_full"), NEW own \in Claims, NEW d \in Dispatches,
         anchor' = [anchor EXCEPT ![own] = Append(Room(@), d)]
  PROVE  d \in Rows(own)' /\ \A c \in Claims : Rows(c) \subseteq Rows(c)'
<1>1. PICK more : more = Append(anchor[own], d)
  OBVIOUS
<1>2. anchor[own] \in Seq(Dispatches) /\ anchor'[own] = more
      /\ \A c \in Claims \ {own} : anchor'[c] = anchor[c]
  BY <1>1 DEF TypeOK, Room
<1>3. /\ Len(more) = Len(anchor[own]) + 1 /\ Len(anchor[own]) \in Nat
      /\ more[Len(anchor[own]) + 1] = d
      /\ \A i \in 1..Len(anchor[own]) : more[i] = anchor[own][i]
  <2>1. ASSUME NEW rows \in Seq(Dispatches), more = Append(rows, d)
        PROVE  /\ Len(more) = Len(rows) + 1 /\ Len(rows) \in Nat
               /\ more[Len(rows) + 1] = d /\ \A i \in 1..Len(rows) : more[i] = rows[i]
    BY <2>1, AppendProperties
  <2> QED BY <1>1, <1>2, <2>1
<1>4. d \in {more[i] : i \in 1..Len(more)}
  BY <1>3
<1>5. ASSUME NEW i \in 1..Len(anchor[own]) PROVE anchor[own][i] \in {more[j] : j \in 1..Len(more)}
  BY <1>3
<1>6. Rows(own)' = {more[i] : i \in 1..Len(more)} /\ Rows(own) = {anchor[own][i] : i \in 1..Len(anchor[own])}
      /\ \A c \in Claims \ {own} : Rows(c)' = Rows(c)
  BY <1>2 DEF Rows
<1> QED BY <1>4, <1>5, <1>6

LEMMA RowDropped ==
  ASSUME TypeOK, NEW own \in Claims, NEW r, EndsWith(anchor[own], r),
         anchor' = [anchor EXCEPT ![own] = DropLast(@)]
  PROVE  \A c \in Claims : Rows(c) \subseteq Rows(c)' \cup {r}
<1>1. PICK rows : rows = anchor[own]
  OBVIOUS
<1>2. rows \in Seq(Dispatches) /\ anchor'[own] = DropLast(rows)
      /\ Len(rows) > 0 /\ Len(rows) \in Nat /\ rows[Len(rows)] = r
      /\ \A c \in Claims \ {own} : anchor'[c] = anchor[c]
  BY <1>1 DEF TypeOK, EndsWith
<1>3. /\ Len(DropLast(rows)) = Len(rows) - 1
      /\ \A i \in 1..(Len(rows) - 1) : DropLast(rows)[i] = rows[i]
  BY <1>2, DropRows
<1>4. ASSUME NEW i \in 1..Len(rows), rows[i] # r
      PROVE  rows[i] \in {DropLast(rows)[j] : j \in 1..Len(DropLast(rows))}
  <2>1. i \in 1..(Len(rows) - 1)
    BY <1>2, <1>4
  <2> QED BY <1>2, <1>3, <2>1
<1> QED BY <1>1, <1>2, <1>4 DEF Rows

(* StandsInvStep: every step keeps it, whatever dies unmarked and whatever   *)
(* other store faces write under an open intent.                             *)
LEMMA StandsInvStep ==
  ASSUME ~Met("overlap"), ~Met("unresolved_gate"), ~Met("hook_timeout"), ~Met("io_fault"),
         ~Met("stale_step"), ~Met("log_full"), StandsInv, [Next]_vars
  PROVE  StandsInv'
<1> SUFFICES GateOwns' /\ NotYetGranted' /\ RunnerAlone' /\ OwnWritten' /\ WorkStands'
  BY SerialInvStep DEF StandsInv
<1> DEFINE Goal == GateOwns' /\ NotYetGranted' /\ RunnerAlone' /\ OwnWritten' /\ WorkStands'
<1>r. UNCHANGED anchor => \A c \in Claims : Rows(c)' = Rows(c)
  BY DEF Rows
<1>m. ASSUME NEW d \in Dispatches, NEW step \in Steps,
             NEW next \in {"stash", "register", "finish"},
             phase[d] \in WindowPhases, phase[d] = "anchor_mark" => step = "anchor",
             phase[d] = "stash_mark" => step = "stash",
             next = "stash" <=> phase[d] = "anchor_mark", Mark(d, step, next)
      PROVE  Goal
  <2>1. /\ journal # None /\ journal.id = d
        /\ phase' = [phase EXCEPT ![d] = next] /\ phase \in [Dispatches -> Phases]
        /\ journal' # None /\ journal'.id = d
        /\ journal'.anchorRow = IF phase[d] = "anchor_mark" THEN d ELSE journal.anchorRow
        /\ UNCHANGED <<anchor, stash>>
    BY <1>m, MarkedIntent DEF StandsInv, SerialInv, AnyInv, TypeOK
  <2> USE DEF StandsInv, At
  <2>2. /\ phase[d] \in ChainPhases /\ phase'[d] \notin {"running", "stopped", "abort"}
        /\ \A e \in Dispatches : phase[e] # "running"
    BY <1>m, <2>1 DEF RunnerAlone, WindowPhases, BudgetPhases, ChainPhases
  <2>3. GateOwns' /\ NotYetGranted'
    BY <1>m, <2>1, <2>2 DEF GateOwns, NotYetGranted, LetThrough
  <2>4. RunnerAlone'
    BY <2>1, <2>2 DEF RunnerAlone
  <2>5. OwnWritten'
    BY <1>m, <1>r, <2>1, ConstantsAssumption DEF OwnWritten, StashedPhases, WindowPhases
  <2>6. WorkStands'
    BY <1>r, <2>1, <2>2, ConstantsAssumption DEF WorkStands, LetThrough
  <2> QED BY <2>3, <2>4, <2>5, <2>6
<1>f. ASSUME NEW d \in Dispatches, NEW step \in Steps, FailStep(d, step), phase[d] = "register"
      PROVE  Goal
  <2>1. /\ journal # None /\ journal.id = d
        /\ phase' = [phase EXCEPT ![d] = "gate"] /\ phase \in [Dispatches -> Phases]
        /\ journal' # None /\ journal'.id = d /\ journal'.anchorRow = journal.anchorRow
        /\ UNCHANGED <<anchor, stash>>
    BY <1>f, FailedIntent DEF StandsInv, SerialInv, AnyInv, TypeOK
  <2> USE DEF StandsInv, At
  <2>2. /\ phase[d] \in ChainPhases /\ phase'[d] \notin {"running", "stopped", "abort"}
        /\ \A e \in Dispatches : phase[e] # "running"
    BY <1>f, <2>1 DEF RunnerAlone, WindowPhases, BudgetPhases, ChainPhases
  <2>3. GateOwns' /\ NotYetGranted'
    BY <1>f, <2>1, <2>2 DEF GateOwns, NotYetGranted, LetThrough
  <2>4. RunnerAlone'
    BY <2>1, <2>2 DEF RunnerAlone
  <2>5. OwnWritten'
    BY <1>f, <1>r, <2>1, ConstantsAssumption DEF OwnWritten, StashedPhases, WindowPhases
  <2>6. WorkStands'
    BY <1>r, <2>1, <2>2, ConstantsAssumption DEF WorkStands, LetThrough
  <2> QED BY <2>3, <2>4, <2>5, <2>6
<1> USE ConstantsAssumption, NoneIsNoIntent, <1>r
    DEF StandsInv, SerialInv, AnyInv, TypeOK, Serial, OwnSlot, SlotHeld, GateOwns, NotYetGranted,
        RunnerAlone, OwnWritten, WorkStands, StashedPhases, LetThrough, Pending, RollingBack,
        JournalClaim, CommitPhases, WindowPhases, BudgetPhases, GatePhases, ChainPhases, Journal,
        At, Goto
<1>1. ASSUME NEW d \in Dispatches, Admit(d) PROVE Goal
  <2>1. /\ phase[d] = "idle" /\ phase' = [phase EXCEPT ![d] = "admitted"]
        /\ UNCHANGED <<anchor, stash, journal>>
    BY <1>1 DEF Admit
  <2>2. ASSUME NEW e \in Dispatches, phase[e] = "running" PROVE FALSE
    <3>1. stash[ClaimOf[e]] = e /\ ClaimOf[e] \in Claims /\ e # None
      BY <2>2
    <3>2. ClaimOf[e] \in Pending
      BY <3>1 DEF Pending
    <3>3. At(stash[ClaimOf[e]], "dead")
      BY <1>1, <3>2 DEF Admit
    <3> QED BY <2>2, <3>1, <3>3
  <2> QED BY <2>1, <2>2
<1>2. ASSUME NEW d \in Dispatches, BeginInFlight(d) PROVE Goal
  BY <1>2 DEF BeginInFlight
<1>3. ASSUME NEW d \in Dispatches, BeginRecovers(d) PROVE Goal
  BY <1>3 DEF BeginRecovers
<1>4. ASSUME NEW d \in Dispatches, OpenIntent(d) PROVE Goal
  <2>1. /\ phase[d] \in {"admitted", "snapshot"} /\ phase' = [phase EXCEPT ![d] = "load"]
        /\ UNCHANGED <<anchor, stash>>
    BY <1>4 DEF OpenIntent
  <2>2. journal' # None /\ journal'.id = d /\ journal'.anchorRow = None
    <3>1. journal' \in Journal
      BY <1>4 DEF OpenIntent
    <3> QED BY <1>4, <3>1 DEF OpenIntent
  <2> QED BY <2>1, <2>2
<1>5. ASSUME NEW d \in Dispatches, LoadIntent(d) PROVE Goal
  <2>1. /\ phase[d] = "load" /\ phase' = [phase EXCEPT ![d] = "anchor"]
        /\ UNCHANGED <<anchor, stash, journal>>
    BY <1>5 DEF LoadIntent
  <2> QED BY <2>1
<1>6. ASSUME NEW d \in Dispatches, WriteAnchor(d) PROVE Goal
  <2>1. /\ phase[d] = "anchor" /\ phase' = [phase EXCEPT ![d] = "anchor_mark"]
        /\ anchor' = [anchor EXCEPT ![ClaimOf[d]] = Append(Room(@), d)]
        /\ UNCHANGED <<stash, journal>>
    BY <1>6 DEF WriteAnchor
  <2>2. ClaimOf[d] \in Claims /\ TypeOK
    OBVIOUS
  <2>3. d \in Rows(ClaimOf[d])' /\ \A c \in Claims : Rows(c) \subseteq Rows(c)'
    <3> HIDE DEF StandsInv, TypeOK, Goal
    <3> QED BY <2>1, <2>2, RowAdded
  <2> QED BY <2>1, <2>3
<1>7. ASSUME NEW d \in Dispatches, MarkAnchor(d) PROVE Goal
  <2>1. phase[d] = "anchor_mark" /\ Mark(d, "anchor", "stash")
    BY <1>7 DEF MarkAnchor
  <2> HIDE DEF Goal
  <2> QED BY <1>m, <2>1 DEF Steps
<1>8. ASSUME NEW d \in Dispatches, WriteStash(d) PROVE Goal
  BY <1>8 DEF WriteStash
<1>9. ASSUME NEW d \in Dispatches, MarkStash(d) PROVE Goal
  <2>1. phase[d] = "stash_mark" /\ Mark(d, "stash", "register")
    BY <1>9 DEF MarkStash
  <2> HIDE DEF Goal
  <2> QED BY <1>m, <2>1 DEF Steps
<1>10. ASSUME NEW d \in Dispatches, WriteRegister(d) PROVE Goal
  BY <1>10 DEF WriteRegister
<1>11. ASSUME NEW d \in Dispatches, RefuseRegister(d) PROVE Goal
  <2>1. FailStep(d, "register") /\ phase[d] = "register"
    BY <1>11 DEF RefuseRegister, FailStep
  <2> HIDE DEF Goal
  <2> QED BY <1>f, <2>1 DEF Steps
<1>12. ASSUME NEW d \in Dispatches, MarkRegister(d) PROVE Goal
  <2>1. phase[d] = "register_mark" /\ Mark(d, "register", "finish")
    BY <1>12 DEF MarkRegister
  <2> HIDE DEF Goal
  <2> QED BY <1>m, <2>1 DEF Steps
<1>13. ASSUME NEW d \in Dispatches, Finish(d) PROVE Goal
  <2>1. phase[d] = "finish" /\ phase' = [phase EXCEPT ![d] = "gate"]
    BY <1>13 DEF Finish, Exit
  <2>2. mem[d] = journal
    BY <2>1
  <2>3. journal' = journal /\ UNCHANGED <<anchor, stash>>
    BY <1>13, <2>2 DEF Finish, Exit
  <2> QED BY <2>1, <2>3
<1>14. ASSUME NEW d \in Dispatches, StepFault(d) PROVE Goal
  BY <1>14 DEF StepFault
<1>15. ASSUME NEW d \in Dispatches, GateAllows(d) PROVE Goal
  <2>1. /\ phase[d] = "gate" /\ phase' = [phase EXCEPT ![d] = "tail"]
        /\ UNCHANGED <<anchor, stash, journal>>
    BY <1>15 DEF GateAllows
  <2> QED BY <2>1
<1>16. ASSUME NEW d \in Dispatches, Confirm(d) PROVE Goal
  BY <1>16 DEF Confirm
<1>17. ASSUME NEW d \in Dispatches, GateUnresolved(d) PROVE Goal
  BY <1>17 DEF GateUnresolved
<1>18. ASSUME NEW d \in Dispatches, GateRejects(d) PROVE Goal
  <2>1. /\ phase[d] = "gate" /\ phase' = [phase EXCEPT ![d] = "abort"]
        /\ UNCHANGED <<anchor, stash, journal>>
    BY <1>18 DEF GateRejects
  <2> QED BY <2>1
<1>19. ASSUME NEW d \in Dispatches, UndoRegister(d) PROVE Goal
  BY <1>19 DEF UndoRegister
<1>20. ASSUME NEW d \in Dispatches, UndoStash(d) PROVE Goal
  BY <1>20 DEF UndoStash
<1>21. ASSUME NEW d \in Dispatches, UndoAnchor(d) PROVE Goal
  <2>1. /\ phase[d] \in {"recover", "abort"} /\ mem[d] = journal /\ journal # None
        /\ ClaimOf[journal.id] \in Claims /\ TypeOK
        /\ UNCHANGED <<phase, stash, journal>>
    BY <1>21 DEF UndoAnchor
  <2>2. \/ UNCHANGED anchor
        \/ /\ EndsWith(anchor[ClaimOf[journal.id]], journal.id)
           /\ anchor' = [anchor EXCEPT ![ClaimOf[journal.id]] = DropLast(@)]
    BY <1>21, <2>1 DEF UndoAnchor
  <2>3. \A c \in Claims : Rows(c) \subseteq Rows(c)' \cup {journal.id}
    <3> HIDE DEF StandsInv, TypeOK, Goal
    <3> QED BY <2>1, <2>2, RowDropped
  <2>4. ~LetThrough(journal.id) /\ \A e \in Dispatches : phase[e] \in ChainPhases => e = d
    BY <2>1
  <2> QED BY <2>1, <2>3, <2>4
<1>22. ASSUME NEW d \in Dispatches, ClearRecovered(d) PROVE Goal
  BY <1>22 DEF ClearRecovered
<1>23. ASSUME NEW d \in Dispatches, ClearAborted(d) PROVE Goal
  BY <1>23 DEF ClearAborted, Exit
<1>24. ASSUME NEW d \in Dispatches, Crash(d) PROVE Goal
  BY <1>24 DEF Crash, Exit
<1>25. ASSUME NEW d \in Dispatches, HookTimeout(d) PROVE Goal
  BY <1>25 DEF HookTimeout, Exit
<1>26. ASSUME NEW d \in Dispatches, SubagentStop(d) PROVE Goal
  <2>1. /\ phase[d] = "running" /\ phase' = [phase EXCEPT ![d] = "stopped"]
        /\ UNCHANGED <<anchor, journal>>
    BY <1>26 DEF SubagentStop
  <2>2. \A e \in Dispatches : phase[e] \notin ChainPhases /\ (phase[e] = "running" => e = d)
    BY <2>1
  <2> QED BY <2>1, <2>2
<1>27. ASSUME NEW c \in Claims, StoreApply(c) PROVE Goal
  BY <1>27 DEF StoreApply
<1>28. CASE UNCHANGED vars
  BY <1>28 DEF vars
<1> QED
  BY <1>1, <1>2, <1>3, <1>4, <1>5, <1>6, <1>7, <1>8, <1>9, <1>10, <1>11, <1>12,
     <1>13, <1>14, <1>15, <1>16, <1>17, <1>18, <1>19, <1>20, <1>21, <1>22, <1>23,
     <1>24, <1>25, <1>26, <1>27, <1>28
  DEF Next, ChainStep, Fault

(* GrantedWorkStands: unless chains overlap, a hook is killed alone or exits  *)
(* without a verdict, a step cannot write or is taken for stale, or the log  *)
(* is full, no later chain and no recovery takes back the anchor row or the  *)
(* pending stash of a dispatch that was let through.                         *)
THEOREM GrantedWorkStands ==
  ASSUME ~Met("overlap"), ~Met("unresolved_gate"), ~Met("hook_timeout"), ~Met("io_fault"),
         ~Met("stale_step"), ~Met("log_full")
  PROVE  Spec => []WorkStands
<1>1. Init => StandsInv
  BY SerialInvInit
     DEF Init, StandsInv, GateOwns, NotYetGranted, RunnerAlone, OwnWritten, StashedPhases,
         WorkStands, LetThrough, At
<1>2. StandsInv /\ [Next]_vars => StandsInv'
  BY StandsInvStep
<1>3. StandsInv => WorkStands
  BY DEF StandsInv
<1> QED BY <1>1, <1>2, <1>3, PTL DEF Spec
=============================================================================
