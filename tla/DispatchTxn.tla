----------------------------- MODULE DispatchTxn -----------------------------
(***************************************************************************)
(* The dispatch transaction of scripts/claims_store.py, driven by the      *)
(* PreToolUse gate chain.                                                  *)
(*                                                                         *)
(* One element of Dispatches is one Agent tool call.  Its chain is two     *)
(* operating-system processes run one after the other: worker_budget       *)
(* (barrier, begin_dispatch, commit_dispatch) and dispatch_gate (allow,    *)
(* reject, or neither).  They share four things on disk: the claim         *)
(* register, the per-claim anchor log, the per-claim launch stash, and the *)
(* single-slot intent journal.  Every file write is one step; the process  *)
(* can die between any two of them.                                        *)
(*                                                                         *)
(* Conditions names the operating conditions a behaviour may meet beyond   *)
(* the ones the code's comments promise to handle:                         *)
(*   "unmarked_crash"   death between a step's write and its journal mark  *)
(*   "overlap"          the chains of two dispatches interleave            *)
(*   "unresolved_gate"  dispatch_gate exits with neither 0 nor 2           *)
(*   "hook_timeout"     worker_budget alone dies and the chain goes on     *)
(*   "foreign_write"    another store face writes under an open intent     *)
(*   "io_fault"         a transaction step cannot write                    *)
(*   "stale_step"       the barrier admits over a step still running       *)
(*   "log_full"         the anchor log is at its cap                       *)
(***************************************************************************)
EXTENDS Naturals, Sequences, FiniteSets

CONSTANTS
  Claims,       \* claim ids of claim-register.yaml
  Dispatches,   \* dispatch attempts; also the identity of their processes
  ClaimOf,      \* the claim a dispatch attempt is for
  Conditions,   \* see above
  AnchorCap,    \* _ANCHOR_LOG_MAX_ROWS
  None          \* an absent file or value

AllConditions ==
  {"unmarked_crash", "overlap", "unresolved_gate", "hook_timeout",
   "foreign_write", "io_fault", "stale_step", "log_full"}

ASSUME ConstantsAssumption ==
  /\ ClaimOf \in [Dispatches -> Claims]
  /\ Conditions \subseteq AllConditions
  /\ AnchorCap \in Nat \ {0}
  /\ None \notin Dispatches

Met(condition) == condition \in Conditions

VARIABLES
  phase,      \* where each dispatch's chain stands
  register,   \* claim-register.yaml: status and dispatch_count of each claim
  anchor,     \* runs/.dispatch-anchor-<claim>.jsonl: the rows, oldest first
  stash,      \* runs/dispatch-launch-<claim>.json: the attempt it was launched for
  journal,    \* runs/.claims-intent.json, or None
  mem,        \* the journal as the process of a dispatch holds it in memory
  undo        \* the steps that process has yet to roll back

vars == <<phase, register, anchor, stash, journal, mem, undo>>

-----------------------------------------------------------------------------
(* Status names the classes of statuses the transaction tells apart; SETTLED *)
(* stands for the eight TERMINAL ones.                                       *)
Status == {"OPEN", "IN_PROGRESS", "PARK", "SETTLED"}

Entry == [status : Status, count : Nat]

Steps == {"anchor", "stash", "register"}

Journal ==
  [id : Dispatches, before : [Claims -> Entry], stashExisted : BOOLEAN,
   anchorRow : Dispatches \cup {None}, applied : SUBSET Steps]

ASSUME NoneIsNoIntent == None \notin Journal

(* Phases in which the worker_budget process of a dispatch is alive: its pid *)
(* is the one begin_dispatch writes in the journal.                          *)
WindowPhases == {"anchor_mark", "stash_mark", "register_mark"}

BudgetPhases ==
  {"admitted", "recover", "snapshot", "load", "anchor", "stash", "register",
   "finish"} \cup WindowPhases

GatePhases == {"gate", "tail", "abort"}

ChainPhases == BudgetPhases \cup GatePhases

Phases == {"idle", "running", "stopped", "rejected", "dead"} \cup ChainPhases

TypeOK ==
  /\ phase \in [Dispatches -> Phases]
  /\ register \in [Claims -> Entry]
  /\ anchor \in [Claims -> Seq(Dispatches)]
  /\ stash \in [Claims -> Dispatches \cup {None}]
  /\ journal \in Journal \cup {None}
  /\ mem \in [Dispatches -> Journal \cup {None}]
  /\ undo \in [Dispatches -> SUBSET Steps]

Init ==
  /\ phase = [d \in Dispatches |-> "idle"]
  /\ register = [c \in Claims |-> [status |-> "OPEN", count |-> 0]]
  /\ anchor = [c \in Claims |-> <<>>]
  /\ stash = [c \in Claims |-> None]
  /\ journal = None
  /\ mem = [d \in Dispatches |-> None]
  /\ undo = [d \in Dispatches |-> {}]

-----------------------------------------------------------------------------
(* Helpers *)

JournalClaim == ClaimOf[journal.id]

PidAlive(d) == phase[d] \in BudgetPhases

Goto(d, p) == phase' = [phase EXCEPT ![d] = p]

At(d, p) == phase[d] = p

(* A process that ends takes its memory with it. *)
Exit(d, p) ==
  /\ Goto(d, p)
  /\ mem' = [mem EXCEPT ![d] = None]
  /\ undo' = [undo EXCEPT ![d] = {}]

(* A row appended at the cap pushes the oldest row out. *)
Room(rows) ==
  IF Met("log_full") /\ Len(rows) >= AnchorCap THEN Tail(rows) ELSE rows

DropLast(rows) == SubSeq(rows, 1, Len(rows) - 1)

(* pending_step: the claims with an unsettled launch stash. *)
Pending == {c \in Claims : stash[c] # None}

EndsWith(rows, r) == Len(rows) > 0 /\ rows[Len(rows)] = r

-----------------------------------------------------------------------------
(* worker_budget: the barrier and begin_dispatch *)

(* Fault, see the README: the battery without its settle barrier. *)
AdmitsUnsettled(d) ==
  /\ At(d, "idle")
  /\ Met("overlap") \/ \A e \in Dispatches : phase[e] \notin ChainPhases
  /\ Goto(d, "admitted")
  /\ UNCHANGED <<register, anchor, stash, journal, mem, undo>>

(* The gate battery lets a dispatch through.  Its first leg is the settle    *)
(* barrier: no launch stash may be pending, except one older than its time   *)
(* to live; a worker that is still running has not been away that long       *)
(* unless "stale_step" says so.  A dispatch the battery refuses changes      *)
(* nothing and stays idle.                                                   *)
Admit(d) ==
  /\ At(d, "idle")
  /\ \A c \in Pending : At(stash[c], "dead") \/ Met("stale_step")
  /\ Met("overlap") \/ \A e \in Dispatches : phase[e] \notin ChainPhases
  /\ Goto(d, "admitted")
  /\ UNCHANGED <<register, anchor, stash, journal, mem, undo>>

(* begin_dispatch finds a live intent of its own claim and refuses; its      *)
(* caller drops the refusal and runs commit_dispatch all the same.           *)
BeginInFlight(d) ==
  /\ At(d, "admitted")
  /\ journal # None
  /\ JournalClaim = ClaimOf[d] /\ PidAlive(journal.id)
  /\ Goto(d, "load")
  /\ UNCHANGED <<register, anchor, stash, journal, mem, undo>>

(* begin_dispatch finds any other intent, and recover rolls it back: its     *)
(* owner is dead, or alive but older than RECOVERY_WINDOW_S (age is          *)
(* abstracted to a choice between this action and OpenIntent).               *)
BeginRecovers(d) ==
  /\ At(d, "admitted")
  /\ journal # None
  /\ ~(JournalClaim = ClaimOf[d] /\ PidAlive(journal.id))
  /\ mem' = [mem EXCEPT ![d] = journal]
  /\ undo' = [undo EXCEPT ![d] = journal.applied]
  /\ Goto(d, "recover")
  /\ UNCHANGED <<register, anchor, stash, journal>>

(* begin_dispatch writes its own intent over whatever the slot holds: recover *)
(* left a young intent of another claim alone while its owner lives.          *)
OpenIntent(d) ==
  /\ \/ At(d, "snapshot")
     \/ At(d, "admitted") /\ journal = None
     \/ /\ At(d, "admitted") /\ journal # None
        /\ JournalClaim # ClaimOf[d] /\ PidAlive(journal.id)
  /\ journal' = [id |-> d, before |-> register,
                 stashExisted |-> stash[ClaimOf[d]] # None,
                 anchorRow |-> None, applied |-> {}]
  /\ Goto(d, "load")
  /\ UNCHANGED <<register, anchor, stash, mem, undo>>

-----------------------------------------------------------------------------
(* worker_budget: commit_dispatch *)

(* Fault: whatever intent is in the slot is taken for one's own. *)
LoadsAnyIntent(d) ==
  /\ At(d, "load")
  /\ IF journal # None
     THEN /\ mem' = [mem EXCEPT ![d] = journal]
          /\ Goto(d, "anchor")
          /\ UNCHANGED undo
     ELSE Exit(d, "gate")
  /\ UNCHANGED <<register, anchor, stash, journal>>

(* commit_dispatch reads the slot; an intent of another claim is no intent. *)
LoadIntent(d) ==
  /\ At(d, "load")
  /\ IF journal # None /\ JournalClaim = ClaimOf[d]
     THEN /\ mem' = [mem EXCEPT ![d] = journal]
          /\ Goto(d, "anchor")
          /\ UNCHANGED undo
     ELSE Exit(d, "gate")
  /\ UNCHANGED <<register, anchor, stash, journal>>

WriteAnchor(d) ==
  /\ At(d, "anchor")
  /\ anchor' = [anchor EXCEPT ![ClaimOf[d]] = Append(Room(@), d)]
  /\ mem' = [mem EXCEPT ![d].anchorRow = d]
  /\ Goto(d, "anchor_mark")
  /\ UNCHANGED <<register, stash, journal, undo>>

WriteStash(d) ==
  /\ At(d, "stash")
  /\ stash' = [stash EXCEPT ![ClaimOf[d]] = d]
  /\ Goto(d, "stash_mark")
  /\ UNCHANGED <<register, anchor, journal, mem, undo>>

(* Fault: the register step does not look at the status it flips. *)
FlipsAnyStatus(d) ==
  /\ At(d, "register")
  /\ register' = [register EXCEPT
                    ![ClaimOf[d]] = [status |-> "IN_PROGRESS",
                                     count |-> @.count + 1]]
  /\ Goto(d, "register_mark")
  /\ UNCHANGED <<anchor, stash, journal, mem, undo>>

WriteRegister(d) ==
  /\ At(d, "register")
  /\ register[ClaimOf[d]].status = "OPEN"
  /\ register' = [register EXCEPT
                    ![ClaimOf[d]] = [status |-> "IN_PROGRESS",
                                     count |-> @.count + 1]]
  /\ Goto(d, "register_mark")
  /\ UNCHANGED <<anchor, stash, journal, mem, undo>>

(* Faults: the mark is not saved to disk; the mark names the step to come. *)
MarksInMemory(d, step, next) ==
  /\ mem' = [mem EXCEPT ![d].applied = @ \cup {step}]
  /\ Goto(d, next)
  /\ UNCHANGED <<register, anchor, stash, journal, undo>>

MarksNextStep(d, step, next) ==
  /\ mem' = [mem EXCEPT ![d].applied = @ \cup {next}]
  /\ journal' = mem'[d]
  /\ Goto(d, next)
  /\ UNCHANGED <<register, anchor, stash, undo>>

(* _txn_run_step marks a step after it ran; a step that is already marked is *)
(* not saved again.                                                          *)
Mark(d, step, next) ==
  /\ LET marked == [mem[d] EXCEPT !.applied = @ \cup {step}]
     IN  /\ mem' = [mem EXCEPT ![d] = marked]
         /\ journal' = IF step \in mem[d].applied THEN journal ELSE marked
  /\ Goto(d, next)
  /\ UNCHANGED <<register, anchor, stash, undo>>

MarkAnchor(d) == At(d, "anchor_mark") /\ Mark(d, "anchor", "stash")

MarkStash(d) == At(d, "stash_mark") /\ Mark(d, "stash", "register")

MarkRegister(d) == At(d, "register_mark") /\ Mark(d, "register", "finish")

(* A step that reports failure is marked like one that ran, and the journal  *)
(* is saved once more as failed; the chain goes on to the gate.              *)
FailStep(d, step) ==
  /\ At(d, step)
  /\ journal' = [mem[d] EXCEPT !.applied = @ \cup {step}]
  /\ Exit(d, "gate")
  /\ UNCHANGED <<register, anchor, stash>>

(* Fault: a refused register step is tried again. *)
RetriesRegister(d) ==
  /\ At(d, "register")
  /\ register[ClaimOf[d]].status # "OPEN"
  /\ UNCHANGED vars

(* The register step refuses a claim that is not OPEN. *)
RefuseRegister(d) ==
  /\ register[ClaimOf[d]].status # "OPEN"
  /\ FailStep(d, "register")

(* The anchor and stash steps swallow a write error; one in the register     *)
(* step escapes to the fail-open caller, unmarked.                           *)
StepFault(d) ==
  /\ Met("io_fault")
  /\ \/ FailStep(d, "anchor")
     \/ FailStep(d, "stash")
     \/ /\ At(d, "register") /\ register[ClaimOf[d]].status = "OPEN"
        /\ Exit(d, "gate")
        /\ UNCHANGED <<register, anchor, stash, journal>>

(* The intent is saved as committed and worker_budget exits. *)
Finish(d) ==
  /\ At(d, "finish")
  /\ journal' = mem[d]
  /\ Exit(d, "gate")
  /\ UNCHANGED <<register, anchor, stash>>

-----------------------------------------------------------------------------
(* dispatch_gate *)

(* Every tooth passed: the ALLOW tail counts the dispatch on the claim.  An  *)
(* early return with 0 (hooks asleep, failure-blocked) skips the tail.       *)
GateAllows(d) ==
  /\ At(d, "gate")
  /\ \/ register' = [register EXCEPT ![ClaimOf[d]].count = @ + 1]
     \/ UNCHANGED register
  /\ Goto(d, "tail")
  /\ UNCHANGED <<anchor, stash, journal, mem, undo>>

(* Fault: the intent of an approved dispatch stays in the slot. *)
ConfirmsWithoutClearing(d) ==
  /\ At(d, "tail")
  /\ Goto(d, "running")
  /\ UNCHANGED <<register, anchor, stash, journal, mem, undo>>

(* confirm_dispatch clears an intent of this claim, whatever its state. *)
Confirm(d) ==
  /\ At(d, "tail")
  /\ journal' = IF journal # None /\ JournalClaim = ClaimOf[d]
                THEN None ELSE journal
  /\ Goto(d, "running")
  /\ UNCHANGED <<register, anchor, stash, mem, undo>>

(* rc 3 (SATURATED) or an uncaught exception: the call goes ahead, and the   *)
(* intent is neither confirmed nor aborted.                                  *)
GateUnresolved(d) ==
  /\ Met("unresolved_gate")
  /\ At(d, "gate")
  /\ Goto(d, "running")
  /\ UNCHANGED <<register, anchor, stash, journal, mem, undo>>

(* abort_dispatch: nothing to do without an intent of this claim. *)
GateRejects(d) ==
  /\ At(d, "gate")
  /\ IF journal # None /\ JournalClaim = ClaimOf[d]
     THEN /\ mem' = [mem EXCEPT ![d] = journal]
          /\ undo' = [undo EXCEPT ![d] = journal.applied]
          /\ Goto(d, "abort")
     ELSE /\ Goto(d, "rejected")
          /\ UNCHANGED <<mem, undo>>
  /\ UNCHANGED <<register, anchor, stash, journal>>

-----------------------------------------------------------------------------
(* _txn_rollback, for abort_dispatch and for recover: the applied steps of   *)
(* the journal in memory, in reverse order.                                  *)

RollingBack(d) == phase[d] \in {"recover", "abort"}

(* Fault: the rollback restores the statuses and forgets the counts. *)
RestoresStatusOnly(d) ==
  /\ RollingBack(d)
  /\ "register" \in undo[d]
  /\ register' = [c \in Claims |->
                    [register[c] EXCEPT !.status = mem[d].before[c].status]]
  /\ undo' = [undo EXCEPT ![d] = @ \ {"register"}]
  /\ UNCHANGED <<phase, anchor, stash, journal, mem>>

UndoRegister(d) ==
  /\ RollingBack(d)
  /\ "register" \in undo[d]
  /\ register' = mem[d].before
  /\ undo' = [undo EXCEPT ![d] = @ \ {"register"}]
  /\ UNCHANGED <<phase, anchor, stash, journal, mem>>

UndoStash(d) ==
  /\ RollingBack(d)
  /\ "register" \notin undo[d] /\ "stash" \in undo[d]
  /\ stash' = IF mem[d].stashExisted THEN stash
              ELSE [stash EXCEPT ![ClaimOf[mem[d].id]] = None]
  /\ undo' = [undo EXCEPT ![d] = @ \ {"stash"}]
  /\ UNCHANGED <<phase, register, anchor, journal, mem>>

(* Fault: the rollback drops the fresh tail of the log, whoever wrote it. *)
DropsFreshTail(d) ==
  /\ RollingBack(d)
  /\ undo[d] = {"anchor"}
  /\ anchor' = [anchor EXCEPT ![ClaimOf[mem[d].id]] = DropLast(@)]
  /\ undo' = [undo EXCEPT ![d] = {}]
  /\ UNCHANGED <<phase, register, stash, journal, mem>>

UndoAnchor(d) ==
  /\ RollingBack(d)
  /\ undo[d] = {"anchor"}
  /\ LET rows == anchor[ClaimOf[mem[d].id]]
     IN  anchor' = IF mem[d].anchorRow # None /\ EndsWith(rows, mem[d].anchorRow)
                   THEN [anchor EXCEPT ![ClaimOf[mem[d].id]] = DropLast(@)]
                   ELSE anchor
  /\ undo' = [undo EXCEPT ![d] = {}]
  /\ UNCHANGED <<phase, register, stash, journal, mem>>

(* The slot is cleared last. *)
ClearRecovered(d) ==
  /\ At(d, "recover") /\ undo[d] = {}
  /\ journal' = None
  /\ Goto(d, "snapshot")
  /\ mem' = [mem EXCEPT ![d] = None]
  /\ UNCHANGED <<register, anchor, stash, undo>>

ClearAborted(d) ==
  /\ At(d, "abort") /\ undo[d] = {}
  /\ journal' = None
  /\ Exit(d, "rejected")
  /\ UNCHANGED <<register, anchor, stash>>

-----------------------------------------------------------------------------
(* Death and the rest of the system *)

(* The session is killed: the chain stops where it is and no worker starts.  *)
Crash(d) ==
  /\ phase[d] \in ChainPhases
  /\ phase[d] \in WindowPhases => Met("unmarked_crash")
  /\ Exit(d, "dead")
  /\ UNCHANGED <<register, anchor, stash, journal>>

(* worker_budget alone is killed; the harness goes on to the next hook. *)
HookTimeout(d) ==
  /\ Met("hook_timeout")
  /\ phase[d] \in BudgetPhases \ WindowPhases
  /\ Exit(d, "gate")
  /\ UNCHANGED <<register, anchor, stash, journal>>

(* The worker stops: settle_step settles a pending step and consumes its     *)
(* stash (the oldest one; age is abstracted to a choice).                    *)
SubagentStop(d) ==
  /\ At(d, "running")
  /\ \/ \E c \in Pending : stash' = [stash EXCEPT ![c] = None]
     \/ Pending = {} /\ UNCHANGED stash
  /\ Goto(d, "stopped")
  /\ UNCHANGED <<register, anchor, journal, mem, undo>>

(* The matrix without its two dispatch edges: OPEN -> IN_PROGRESS is         *)
(* WriteRegister's, and abort_dispatch's IN_PROGRESS -> OPEN has one caller, *)
(* the transaction's own recovery (UndoRegister). A parked claim can be      *)
(* superseded.                                                               *)
StoreEdges ==
  {<<"OPEN", "PARK">>, <<"IN_PROGRESS", "PARK">>, <<"PARK", "OPEN">>,
   <<"OPEN", "SETTLED">>, <<"IN_PROGRESS", "SETTLED">>, <<"PARK", "SETTLED">>}

(* Another store face (claims_store.apply) moves a claim along the matrix.   *)
StoreApply(c) ==
  /\ journal = None \/ Met("foreign_write")
  /\ \E edge \in StoreEdges :
       /\ register[c].status = edge[1]
       /\ register' = [register EXCEPT ![c].status = edge[2]]
  /\ UNCHANGED <<phase, anchor, stash, journal, mem, undo>>

-----------------------------------------------------------------------------
ChainStep(d) ==
  \/ BeginInFlight(d) \/ BeginRecovers(d) \/ OpenIntent(d) \/ LoadIntent(d)
  \/ WriteAnchor(d) \/ MarkAnchor(d)
  \/ WriteStash(d) \/ MarkStash(d)
  \/ WriteRegister(d) \/ RefuseRegister(d) \/ MarkRegister(d) \/ Finish(d)
  \/ GateAllows(d) \/ Confirm(d) \/ GateRejects(d)
  \/ UndoRegister(d) \/ UndoStash(d) \/ UndoAnchor(d)
  \/ ClearRecovered(d) \/ ClearAborted(d)

Fault(d) == StepFault(d) \/ GateUnresolved(d) \/ Crash(d) \/ HookTimeout(d)

Next ==
  \/ \E d \in Dispatches : Admit(d) \/ ChainStep(d) \/ Fault(d) \/ SubagentStop(d)
  \/ \E c \in Claims : StoreApply(c)

Spec == Init /\ [][Next]_vars

(* A hook process that is not killed runs to its end. *)
FairSpec == Spec /\ \A d \in Dispatches : WF_vars(ChainStep(d))

-----------------------------------------------------------------------------
(* Properties *)

Rows(c) == {anchor[c][i] : i \in 1..Len(anchor[c])}

LetThrough(d) == phase[d] \in {"running", "stopped"}

Quiet == journal = None /\ \A d \in Dispatches : phase[d] \notin ChainPhases

(* NoResidue: once the intent slot is empty, a dispatch that was rejected or *)
(* whose chain died has left no anchor row and no launch stash behind        *)
(* (claims_store: "leaves no partial state after recovery").                 *)
NoResidue ==
  journal = None =>
    \A d \in Dispatches :
      phase[d] \in {"rejected", "dead"} =>
        d \notin Rows(ClaimOf[d]) /\ stash[ClaimOf[d]] # d

(* InProgressHasWorker: with the intent slot empty, a claim is IN_PROGRESS   *)
(* only if some dispatch of it was let through: a rejected or dead chain     *)
(* never strands its claim in a status no gate dispatches.                   *)
InProgressHasWorker ==
  journal = None =>
    \A c \in Claims :
      register[c].status = "IN_PROGRESS" =>
        \E d \in Dispatches : ClaimOf[d] = c /\ LetThrough(d)

(* WorkStands: the anchor row of a dispatch that was let through stays, and   *)
(* its launch stash stays until its worker stops (confirm_dispatch: "the     *)
(* gate chain approved - the journal's work stands"): no later chain and no  *)
(* recovery takes them back.                                                 *)
WorkStands ==
  \A d \in Dispatches :
    /\ LetThrough(d) => d \in Rows(ClaimOf[d])
    /\ At(d, "running") => stash[ClaimOf[d]] = d

(* BudgetKept: with no chain in flight and no intent open, a claim none of   *)
(* whose dispatches was let through has a dispatch_count of zero: what       *)
(* check_branch_budget compares with branch_budget.retries is not used up by *)
(* rejected, refused or crashed chains.                                      *)
BudgetKept ==
  Quiet =>
    \A c \in Claims :
      (\A d \in Dispatches : ClaimOf[d] = c => ~LetThrough(d))
        => register[c].count = 0

(* OneStepPending: at most one launch stash is on disk, so that the settle   *)
(* barrier never holds a dispatch back for more than one step, and the step  *)
(* a stopping worker settles is its own.                                     *)
OneStepPending == \A b, c \in Pending : b = c

(* SettledStaysSettled: no dispatch, rejection or recovery moves a settled   *)
(* claim out of its terminal status (LEGAL_TRANSITIONS: "TERMINAL statuses   *)
(* have NO outgoing edges").                                                 *)
SettledStaysSettled ==
  [][\A c \in Claims :
       register[c].status = "SETTLED" => register'[c].status = "SETTLED"]_vars

(* RollbackStaysOnClaim: the anchor row an intent names for its rollback is  *)
(* a row of the intent's own claim, on disk and in every process, although   *)
(* overlapping chains overwrite, inherit and resurrect the single slot.  The *)
(* rollback takes the log from the claim and the row from the intent.        *)
RowOfClaim(intent) ==
  intent # None /\ intent.anchorRow # None
    => ClaimOf[intent.anchorRow] = ClaimOf[intent.id]

RollbackStaysOnClaim ==
  /\ RowOfClaim(journal)
  /\ \A d \in Dispatches : RowOfClaim(mem[d])

(* ChainEnds: every admitted chain reaches a verdict or dies; no journal     *)
(* state makes begin, commit, confirm or abort wait for another process.     *)
ChainEnds ==
  \A d \in Dispatches : At(d, "admitted") ~> phase[d] \notin ChainPhases

-----------------------------------------------------------------------------
(* The refinement mapping: what an open intent's owner wrote is not visible  *)
(* yet.  The register is the before-image, the owner's row is not in the log *)
(* and the owner's stash is absent.                                          *)
registerBar == IF journal = None THEN register ELSE journal.before

anchorBar ==
  [c \in Claims |->
     IF journal # None /\ EndsWith(anchor[c], journal.id)
     THEN DropLast(anchor[c]) ELSE anchor[c]]

stashBar ==
  [c \in Claims |->
     IF journal # None /\ stash[c] = journal.id THEN None ELSE stash[c]]

verdictBar ==
  [d \in Dispatches |->
     CASE phase[d] = "running" -> "granted"
       [] phase[d] = "stopped" -> "finished"
       [] phase[d] \in {"rejected", "dead"} -> "denied"
       [] OTHER -> "pending"]

Atomic ==
  INSTANCE AtomicDispatch
    WITH register <- registerBar, anchor <- anchorBar,
         stash <- stashBar, verdict <- verdictBar

(* ImplementsAtomic: seen through the mapping, a dispatch takes effect as a  *)
(* whole when its gate lets it through, or not at all.                       *)
ImplementsAtomic == Atomic!Spec
=============================================================================
