------------------------ MODULE DispatchTxnCalmProofs ------------------------
(***************************************************************************)
(* The proof that DispatchTxn implements AtomicDispatch under calm         *)
(* conditions, Conditions = {}: chains one at a time, as the harness runs  *)
(* them, that may die at any marked point, with every other write to the   *)
(* register made while no intent is open.  The safety properties are       *)
(* proved in DispatchTxnProofs, each under the conditions it needs.        *)
(***************************************************************************)
EXTENDS DispatchTxnProofs

Commits == INSTANCE AtomicDispatchProofs
  WITH register <- registerBar, anchor <- anchorBar,
       stash <- stashBar, verdict <- verdictBar

(* Why CalmInv: the abstract state is what the disk would hold if the open   *)
(* intent were rolled back, so the invariant says what the slot must say for *)
(* that: whose intent it is, which of its steps are on disk, what each of    *)
(* them has changed, and that all else on disk belongs to dispatches that    *)
(* were let through.                                                         *)

Calm == Conditions = {}

(* Phases in which the slot holds the intent of the dispatch itself. *)
OwnerPhases ==
  CommitPhases \cup {"load", "gate", "tail", "abort"}

SlotOwned ==
  /\ \A d \in Dispatches :
       /\ phase[d] \in OwnerPhases => journal # None /\ journal.id = d
       /\ At(d, "snapshot") => journal = None
       /\ At(d, "recover") => journal # None
  /\ journal # None => phase[journal.id] \in OwnerPhases \cup {"dead"}

(* While a worker runs nothing else happens. *)
RunnerIsAlone ==
  \A d \in Dispatches :
    At(d, "running") =>
      /\ journal = None
      /\ \A e \in Dispatches :
           phase[e] \notin ChainPhases /\ (At(e, "running") => e = d)

AppliedAt(p) ==
  CASE p \in {"load", "anchor", "anchor_mark"} -> {}
    [] p \in {"stash", "stash_mark"} -> {"anchor"}
    [] p \in {"register", "register_mark"} -> {"anchor", "stash"}
    [] OTHER -> Steps

MarksTrue ==
  journal # None =>
    /\ phase[journal.id] # "dead" => journal.applied = AppliedAt(phase[journal.id])
    /\ journal.anchorRow = IF "anchor" \in journal.applied THEN journal.id ELSE None
    /\ ~journal.stashExisted

(* A step may be on disk: it is being written, or marked and not yet undone. *)
Landed(step, window) ==
  \/ phase[journal.id] = window
  \/ /\ step \in journal.applied
     /\ \A d \in Dispatches : RollingBack(d) => step \in undo[d]

RegisterLanded ==
  journal # None =>
    /\ \A c \in Claims \ {JournalClaim} : register[c] = journal.before[c]
    /\ ~Landed("register", "register_mark") => register = journal.before
    /\ register[JournalClaim].status \in {journal.before[JournalClaim].status, "IN_PROGRESS"}
    /\ phase[journal.id] \in {"register_mark", "finish", "gate"}
         => register[JournalClaim] = Atomic!Granted(journal.before[JournalClaim], 0)
    /\ At(journal.id, "tail") =>
         \E tail \in {0, 1} :
           register[JournalClaim] = Atomic!Granted(journal.before[JournalClaim], tail)

AnchorLanded ==
  journal # None =>
    /\ \A c \in Claims :
         EndsWith(anchor[c], journal.id)
           => c = JournalClaim /\ Landed("anchor", "anchor_mark")
    /\ phase[journal.id]
         \in OwnerPhases \ {"load", "anchor", "abort"}
         => EndsWith(anchor[JournalClaim], journal.id)

StashLanded ==
  /\ \A c \in Claims :
       stash[c] # None =>
         /\ ClaimOf[stash[c]] = c
         /\ \/ At(stash[c], "running")
            \/ journal # None /\ journal.id = stash[c] /\ Landed("stash", "stash_mark")
  /\ journal # None /\ phase[journal.id]
       \in {"stash_mark", "register", "register_mark", "finish", "gate", "tail"}
       => stash[JournalClaim] = journal.id
  /\ \A d \in Dispatches : At(d, "running") => stash[ClaimOf[d]] = d

BarRows(c) == {anchorBar[c][i] : i \in 1..Len(anchorBar[c])}

RowsAreGranted ==
  \A c \in Claims : \A r \in BarRows(c) :
    r \in Dispatches /\ ClaimOf[r] = c /\ LetThrough(r)

CalmInv ==
  /\ SerialInv /\ SlotOwned /\ RunnerIsAlone /\ MarksTrue
  /\ RegisterLanded /\ AnchorLanded /\ StashLanded /\ RowsAreGranted

(* What the proof of one step shows besides CalmInv': the step is one of the *)
(* abstract specification, or none.                                          *)
AtomicStep == [Atomic!Next]_(Atomic!vars)

(* EndLemma: the last row of a log, appended or dropped. *)
LEMMA EndLemma ==
  ASSUME NEW rows \in Seq(Dispatches), NEW d \in Dispatches
  PROVE  /\ EndsWith(Append(rows, d), d)
         /\ DropLast(Append(rows, d)) = rows
         /\ \A e : EndsWith(Append(rows, d), e) => e = d
BY DEF EndsWith, DropLast

(* SameGrants: a step that changes neither the rows in sight nor who was let *)
(* through keeps what is said of both.                                       *)
LEMMA SameGrants ==
  ASSUME RowsAreGranted, anchorBar' = anchorBar,
         \A d \in Dispatches : LetThrough(d)' <=> LetThrough(d)
  PROVE  RowsAreGranted'
<1>1. \A c \in Claims : BarRows(c)' = BarRows(c)
  BY DEF BarRows
<1>2. ASSUME NEW c \in Claims, NEW r \in BarRows(c)'
      PROVE  r \in Dispatches /\ ClaimOf[r] = c /\ LetThrough(r)'
  <2>1. r \in BarRows(c)
    BY <1>1, <1>2
  <2>2. r \in Dispatches /\ ClaimOf[r] = c /\ LetThrough(r)
    BY <2>1 DEF RowsAreGranted
  <2> QED BY <2>2
<1> QED BY <1>2 DEF RowsAreGranted

(* OwnIntent: from the load of its intent to the verdict, the slot is the    *)
(* dispatch's own.                                                           *)
LEMMA OwnIntent ==
  ASSUME CalmInv, NEW d \in Dispatches, phase[d] \in OwnerPhases
  PROVE  /\ journal \in Journal /\ journal # None /\ journal.id = d
         /\ JournalClaim = ClaimOf[d]
BY NoneIsNoIntent DEF CalmInv, SerialInv, AnyInv, TypeOK, SlotOwned, JournalClaim

(* EndsDrop: a log that ends with a row is not empty and has a log before it. *)
LEMMA EndsDrop ==
  ASSUME NEW rows \in Seq(Dispatches), NEW r, EndsWith(rows, r)
  PROVE  DropLast(rows) \in Seq(Dispatches) /\ Len(DropLast(rows)) = Len(rows) - 1
<1>1. Len(rows) \in Nat /\ Len(rows) > 0
  BY DEF EndsWith
<1>2. DropLast(rows) \in Seq(Dispatches)
  BY <1>1, DropLastType
<1> QED BY <1>1, <1>2, DropRows

(* LastRow: the rows of a log are those before its last row, and that row. *)
LEMMA LastRow ==
  ASSUME NEW rows \in Seq(Dispatches), NEW r \in Dispatches, EndsWith(rows, r)
  PROVE  {rows[i] : i \in 1..Len(rows)}
           = {DropLast(rows)[i] : i \in 1..Len(DropLast(rows))} \cup {r}
<1>1. Len(rows) \in Nat /\ Len(rows) > 0 /\ rows[Len(rows)] = r
  BY DEF EndsWith
<1>2. Len(DropLast(rows)) = Len(rows) - 1
  BY EndsDrop
<1>3. \A i \in 1..(Len(rows) - 1) : DropLast(rows)[i] = rows[i]
  BY <1>1 DEF DropLast
<1>4. 1..Len(rows) = 1..(Len(rows) - 1) \cup {Len(rows)}
  BY <1>1
<1> QED BY <1>1, <1>2, <1>3, <1>4

(* GrantedKept: a claim that is not OPEN keeps its entry but for the tail.   *)
LEMMA GrantedKept ==
  ASSUME NEW entry \in Entry, entry.status # "OPEN"
  PROVE  /\ Atomic!Granted(entry, 0) = entry
         /\ Atomic!Granted(entry, 1) = [entry EXCEPT !.count = @ + 1]
<1>1. entry = [status |-> entry.status, count |-> entry.count] /\ entry.count \in Nat
  BY DEF Entry
<1>2. entry.count + 0 = entry.count
  BY <1>1
<1>3. Atomic!Granted(entry, 0) = [entry EXCEPT !.count = entry.count + 0]
  BY DEF Atomic!Granted
<1>4. [entry EXCEPT !.count = entry.count + 0] = entry
  BY <1>1, <1>2 DEF Entry
<1>5. Atomic!Granted(entry, 1) = [entry EXCEPT !.count = @ + 1]
  BY DEF Atomic!Granted
<1> QED BY <1>3, <1>4, <1>5

(* DropAppend: dropping the last row and appending it again changes nothing. *)
LEMMA DropAppend ==
  ASSUME NEW rows \in Seq(Dispatches), NEW r \in Dispatches, EndsWith(rows, r)
  PROVE  rows = Append(DropLast(rows), r)
<1>1. /\ DropLast(rows) \in Seq(Dispatches)
      /\ Len(DropLast(rows)) = Len(rows) - 1
      /\ Len(rows) \in Nat /\ Len(rows) > 0 /\ rows[Len(rows)] = r
  BY EndsDrop DEF EndsWith
<1>2. \A i \in 1..(Len(rows) - 1) : DropLast(rows)[i] = rows[i]
  BY <1>1 DEF DropLast
<1> DEFINE back == Append(DropLast(rows), r)
<1>3. /\ back \in Seq(Dispatches) /\ Len(back) = Len(rows) /\ back[Len(rows)] = r
      /\ \A i \in 1..(Len(rows) - 1) : back[i] = DropLast(rows)[i]
  <2> HIDE DEF DropLast
  <2> QED BY <1>1
<1>4. \A i \in 1..Len(rows) : back[i] = rows[i]
  <2> HIDE DEF back
  <2> QED BY <1>1, <1>2, <1>3
<1> HIDE DEF back
<1>5. rows = back
  BY <1>3, <1>4
<1> QED BY <1>5 DEF back

(* Roller: while a chain rolls back, the slot is its own rejected intent or  *)
(* a dead chain's, and no other chain is about.                              *)
LEMMA Roller ==
  ASSUME CalmInv, NEW d \in Dispatches, phase[d] \in {"recover", "abort"}
  PROVE  /\ journal # None /\ journal \in Journal /\ mem[d] = journal
         /\ \A e \in Dispatches : phase[e] \in ChainPhases <=> e = d
         /\ journal.id = d \/ phase[journal.id] = "dead"
         /\ journal.id = d => phase[d] = "abort"
<1> USE DEF CalmInv, SerialInv, AnyInv, TypeOK
<1>1. journal # None /\ journal \in Journal /\ mem[d] = journal
  BY DEF SlotOwned, SlotHeld, OwnerPhases, At
<1>2. \A e \in Dispatches : phase[e] \in ChainPhases <=> e = d
  BY DEF Serial, ChainPhases, BudgetPhases, GatePhases
<1>3. journal.id \in Dispatches /\ phase[journal.id] \in OwnerPhases \cup {"dead"}
  BY <1>1 DEF SlotOwned, Journal
<1>4. journal.id = d \/ phase[journal.id] = "dead"
  BY <1>2, <1>3
     DEF OwnerPhases, CommitPhases, WindowPhases, ChainPhases, BudgetPhases, GatePhases
<1>5. journal.id = d => phase[d] = "abort"
  BY <1>3 DEF OwnerPhases, CommitPhases, WindowPhases
<1> QED BY <1>1, <1>2, <1>4, <1>5

(* MarkedSlot: marking a step adds its mark, and the row in memory, to the   *)
(* dispatch's own intent.                                                    *)
LEMMA MarkedSlot ==
  ASSUME CalmInv, NEW d \in Dispatches, NEW step \in Steps, NEW next,
         phase[d] \in WindowPhases, phase[d] = "anchor_mark" <=> step = "anchor",
         journal.applied = AppliedAt(phase[d]), step \notin journal.applied,
         Mark(d, step, next)
  PROVE  /\ phase' = [phase EXCEPT ![d] = next]
         /\ journal' \in Journal /\ journal' # None /\ journal'.id = d
         /\ JournalClaim' = ClaimOf[d]
         /\ journal'.applied = journal.applied \cup {step} /\ journal'.anchorRow = d
         /\ journal'.before = journal.before
         /\ journal'.stashExisted = journal.stashExisted
         /\ mem' = [mem EXCEPT ![d] = journal']
         /\ UNCHANGED <<register, anchor, stash, undo>>
<1> DEFINE marked == [mem[d] EXCEPT !.applied = @ \cup {step}]
<1> USE DEF CalmInv, SerialInv, AnyInv, TypeOK
<1>1. journal \in Journal /\ journal # None /\ journal.id = d
  BY OwnIntent DEF OwnerPhases, CommitPhases
<1>2. mem[d] = IF step = "anchor" THEN [journal EXCEPT !.anchorRow = d] ELSE journal
  BY DEF SlotHeld, CommitPhases, WindowPhases, At
<1>3. step # "anchor" => journal.anchorRow = d
  BY <1>1 DEF MarksTrue, AppliedAt, WindowPhases
<1>4. /\ mem[d] \in Journal /\ mem[d].id = d
      /\ mem[d].applied = journal.applied /\ mem[d].anchorRow = d
      /\ mem[d].before = journal.before /\ mem[d].stashExisted = journal.stashExisted
  BY <1>1, <1>2, <1>3 DEF Journal
<1>5. /\ marked \in Journal /\ marked # None /\ marked.id = d
      /\ marked.applied = journal.applied \cup {step} /\ marked.anchorRow = d
      /\ marked.before = journal.before /\ marked.stashExisted = journal.stashExisted
  <2>1. journal.applied \cup {step} \in SUBSET Steps
    BY <1>1 DEF Journal
  <2> QED BY <1>4, <2>1, NoneIsNoIntent DEF Journal
<1>6. /\ journal' = marked /\ mem' = [mem EXCEPT ![d] = marked]
      /\ UNCHANGED <<register, anchor, stash, undo>>
      /\ phase' = [phase EXCEPT ![d] = next]
  BY <1>4 DEF Mark, Goto
<1> HIDE DEF marked
<1> QED BY <1>5, <1>6 DEF JournalClaim

(* CalmSerial: chains are serial under calm conditions.                      *)
LEMMA CalmSerial == ASSUME Calm, CalmInv, [Next]_vars PROVE SerialInv'
BY SerialInvStep DEF Calm, CalmInv, Met

(* CalmAdmit: the barrier and the gate battery let a chain start.            *)
LEMMA CalmAdmit ==
  ASSUME Calm, CalmInv, NEW d \in Dispatches, Admit(d)
  PROVE  CalmInv' /\ AtomicStep
<1> USE ConstantsAssumption, NoneIsNoIntent DEF CalmInv, SerialInv, AnyInv, TypeOK,
        CommitPhases, WindowPhases, OwnerPhases, ChainPhases, BudgetPhases, GatePhases, At
<1>1. /\ phase[d] = "idle" /\ phase' = [phase EXCEPT ![d] = "admitted"]
      /\ \A e \in Dispatches : phase[e] \notin ChainPhases /\ phase[e] # "running"
      /\ UNCHANGED <<register, anchor, stash, journal, mem, undo>>
  <2>1. /\ phase[d] = "idle" /\ phase' = [phase EXCEPT ![d] = "admitted"]
        /\ UNCHANGED <<register, anchor, stash, journal, mem, undo>>
    BY DEF Admit, Goto
  <2>2. \A e \in Dispatches : phase[e] \notin ChainPhases
    BY DEF Calm, Admit, Met
  <2>3. \A c \in Claims : stash[c] # None => phase[stash[c]] = "dead"
    BY DEF Calm, Admit, Met, Pending
  <2>4. \A e \in Dispatches : phase[e] # "running"
    <3> SUFFICES ASSUME NEW e \in Dispatches, phase[e] = "running" PROVE FALSE
      OBVIOUS
    <3>1. stash[ClaimOf[e]] = e /\ ClaimOf[e] \in Claims
      BY DEF StashLanded
    <3> QED BY <2>3, <3>1
  <2> QED BY <2>1, <2>2, <2>4
<1>2. SlotOwned'
  BY <1>1 DEF Serial, SlotOwned
<1>3. RunnerIsAlone'
  BY <1>1 DEF SlotOwned, RunnerIsAlone
<1>4. MarksTrue'
  BY <1>1 DEF Serial, SlotOwned, MarksTrue, AppliedAt, Steps
<1>5. RegisterLanded'
  BY <1>1 DEF Serial, SlotOwned, MarksTrue, AppliedAt, RegisterLanded, Landed, RollingBack,
     JournalClaim, Steps
<1>6. AnchorLanded'
  BY <1>1 DEF Serial, SlotOwned, MarksTrue, AppliedAt, AnchorLanded, Landed, RollingBack,
     JournalClaim, Steps
<1>7. StashLanded'
  BY <1>1 DEF Serial, SlotOwned, MarksTrue, AppliedAt, StashLanded, Landed, RollingBack,
     JournalClaim, RunnerIsAlone, Steps
<1>8. anchorBar' = anchorBar /\ registerBar' = registerBar /\ stashBar' = stashBar
  BY <1>1 DEF anchorBar, registerBar, stashBar
<1>9. RowsAreGranted'
  BY <1>1, <1>8, SameGrants DEF LetThrough
<1>10. AtomicStep
  <2>1. verdictBar' = verdictBar
    BY <1>1 DEF verdictBar
  <2> QED BY <1>8, <2>1 DEF AtomicStep, Atomic!vars
<1> QED
  BY CalmSerial, <1>2, <1>3, <1>4, <1>5, <1>6, <1>7, <1>8, <1>9, <1>10
  DEF Next, ChainStep, Fault

(* CalmBeginRecovers: a chain takes up the intent of a dead one.             *)
LEMMA CalmBeginRecovers ==
  ASSUME Calm, CalmInv, NEW d \in Dispatches, BeginRecovers(d)
  PROVE  CalmInv' /\ AtomicStep
<1> USE ConstantsAssumption, NoneIsNoIntent DEF CalmInv, SerialInv, AnyInv, TypeOK,
        CommitPhases, WindowPhases, OwnerPhases, ChainPhases, BudgetPhases, GatePhases, At
<1>1. /\ phase[d] = "admitted" /\ phase' = [phase EXCEPT ![d] = "recover"]
      /\ journal # None /\ journal \in Journal
      /\ mem' = [mem EXCEPT ![d] = journal]
      /\ undo' = [undo EXCEPT ![d] = journal.applied]
      /\ UNCHANGED <<register, anchor, stash, journal>>
  BY DEF BeginRecovers, Goto
<1>2. SlotOwned'
  BY <1>1 DEF Serial, SlotOwned
<1>3. RunnerIsAlone'
  BY <1>1 DEF SlotOwned, RunnerIsAlone
<1>4. MarksTrue'
  BY <1>1 DEF Serial, SlotOwned, MarksTrue, AppliedAt, Steps
<1>5. RegisterLanded'
  BY <1>1 DEF Serial, SlotOwned, MarksTrue, AppliedAt, RegisterLanded, Landed, RollingBack,
     JournalClaim, Steps
<1>6. AnchorLanded'
  BY <1>1 DEF Serial, SlotOwned, MarksTrue, AppliedAt, AnchorLanded, Landed, RollingBack,
     JournalClaim, Steps
<1>7. StashLanded'
  BY <1>1 DEF Serial, SlotOwned, MarksTrue, AppliedAt, StashLanded, Landed, RollingBack,
     JournalClaim, RunnerIsAlone, Steps
<1>8. anchorBar' = anchorBar /\ registerBar' = registerBar /\ stashBar' = stashBar
  BY <1>1 DEF anchorBar, registerBar, stashBar
<1>9. RowsAreGranted'
  BY <1>1, <1>8, SameGrants DEF LetThrough
<1>10. AtomicStep
  <2>1. verdictBar' = verdictBar
    BY <1>1 DEF verdictBar
  <2> QED BY <1>8, <2>1 DEF AtomicStep, Atomic!vars
<1> QED
  BY CalmSerial, <1>2, <1>3, <1>4, <1>5, <1>6, <1>7, <1>8, <1>9, <1>10
  DEF Next, ChainStep, Fault

(* CalmLoadIntent: commit_dispatch finds its own intent.                     *)
LEMMA CalmLoadIntent ==
  ASSUME Calm, CalmInv, NEW d \in Dispatches, LoadIntent(d)
  PROVE  CalmInv' /\ AtomicStep
<1> USE ConstantsAssumption, NoneIsNoIntent DEF CalmInv, SerialInv, AnyInv, TypeOK,
        CommitPhases, WindowPhases, OwnerPhases, ChainPhases, BudgetPhases, GatePhases, At
<1>1. /\ phase[d] = "load" /\ phase' = [phase EXCEPT ![d] = "anchor"]
      /\ journal \in Journal /\ journal # None /\ journal.id = d
      /\ mem' = [mem EXCEPT ![d] = journal]
      /\ UNCHANGED <<register, anchor, stash, journal, undo>>
  BY OwnIntent DEF LoadIntent, JournalClaim, Goto
<1>2. SlotOwned'
  BY <1>1 DEF Serial, SlotOwned
<1>3. RunnerIsAlone'
  BY <1>1 DEF SlotOwned, RunnerIsAlone
<1>4. MarksTrue'
  BY <1>1 DEF Serial, SlotOwned, MarksTrue, AppliedAt, Steps
<1>5. RegisterLanded'
  BY <1>1 DEF Serial, SlotOwned, MarksTrue, AppliedAt, RegisterLanded, Landed, RollingBack,
     JournalClaim, Steps
<1>6. AnchorLanded'
  BY <1>1 DEF Serial, SlotOwned, MarksTrue, AppliedAt, AnchorLanded, Landed, RollingBack,
     JournalClaim, Steps
<1>7. StashLanded'
  BY <1>1 DEF Serial, SlotOwned, MarksTrue, AppliedAt, StashLanded, Landed, RollingBack,
     JournalClaim, RunnerIsAlone, Steps
<1>8. anchorBar' = anchorBar /\ registerBar' = registerBar /\ stashBar' = stashBar
  BY <1>1 DEF anchorBar, registerBar, stashBar
<1>9. RowsAreGranted'
  BY <1>1, <1>8, SameGrants DEF LetThrough
<1>10. AtomicStep
  <2>1. verdictBar' = verdictBar
    BY <1>1 DEF verdictBar
  <2> QED BY <1>8, <2>1 DEF AtomicStep, Atomic!vars
<1> QED
  BY CalmSerial, <1>2, <1>3, <1>4, <1>5, <1>6, <1>7, <1>8, <1>9, <1>10
  DEF Next, ChainStep, Fault

(* CalmWriteStash: the stash is written, hidden by the intent.               *)
LEMMA CalmWriteStash ==
  ASSUME Calm, CalmInv, NEW d \in Dispatches, WriteStash(d)
  PROVE  CalmInv' /\ AtomicStep
<1> USE ConstantsAssumption, NoneIsNoIntent DEF CalmInv, SerialInv, AnyInv, TypeOK,
        CommitPhases, WindowPhases, OwnerPhases, ChainPhases, BudgetPhases, GatePhases, At
<1>1. /\ phase[d] = "stash" /\ phase' = [phase EXCEPT ![d] = "stash_mark"]
      /\ journal \in Journal /\ journal # None /\ journal.id = d /\ JournalClaim = ClaimOf[d]
      /\ stash' = [stash EXCEPT ![ClaimOf[d]] = d] /\ \A c \in Claims : stash[c] = None
      /\ UNCHANGED <<register, anchor, journal, mem, undo>>
  <2>1. /\ phase[d] = "stash" /\ phase[d] \in OwnerPhases /\ phase[d] \in ChainPhases
        /\ phase' = [phase EXCEPT ![d] = "stash_mark"]
    BY DEF WriteStash, Goto
  <2>2. journal \in Journal /\ journal # None /\ journal.id = d /\ JournalClaim = ClaimOf[d]
    BY <2>1, OwnIntent
  <2>3. \A c \in Claims : stash[c] = None
    BY <2>1, <2>2 DEF StashLanded, RunnerIsAlone, Landed, MarksTrue, AppliedAt
  <2> QED BY <2>1, <2>2, <2>3 DEF WriteStash
<1>2. SlotOwned'
  BY <1>1 DEF Serial, SlotOwned
<1>3. RunnerIsAlone'
  BY <1>1 DEF SlotOwned, RunnerIsAlone
<1>4. MarksTrue'
  BY <1>1 DEF Serial, SlotOwned, MarksTrue, AppliedAt, Steps
<1>5. RegisterLanded'
  BY <1>1 DEF Serial, SlotOwned, MarksTrue, AppliedAt, RegisterLanded, Landed, RollingBack,
     JournalClaim, Steps
<1>6. AnchorLanded'
  BY <1>1 DEF Serial, SlotOwned, MarksTrue, AppliedAt, AnchorLanded, Landed, RollingBack,
     JournalClaim, Steps
<1>7. StashLanded'
  BY <1>1 DEF Serial, SlotOwned, MarksTrue, AppliedAt, StashLanded, Landed, RollingBack,
     JournalClaim, RunnerIsAlone, Steps
<1>8. anchorBar' = anchorBar /\ registerBar' = registerBar /\ stashBar' = stashBar
  BY <1>1 DEF anchorBar, registerBar, stashBar
<1>9. RowsAreGranted'
  BY <1>1, <1>8, SameGrants DEF LetThrough
<1>10. AtomicStep
  <2>1. verdictBar' = verdictBar
    BY <1>1 DEF verdictBar
  <2> QED BY <1>8, <2>1 DEF AtomicStep, Atomic!vars
<1> QED
  BY CalmSerial, <1>2, <1>3, <1>4, <1>5, <1>6, <1>7, <1>8, <1>9, <1>10
  DEF Next, ChainStep, Fault

(* CalmMarkAnchor: the anchor step is marked.                                *)
LEMMA CalmMarkAnchor ==
  ASSUME Calm, CalmInv, NEW d \in Dispatches, MarkAnchor(d)
  PROVE  CalmInv' /\ AtomicStep
<1> USE ConstantsAssumption, NoneIsNoIntent DEF CalmInv, SerialInv, AnyInv, TypeOK,
        CommitPhases, WindowPhases, OwnerPhases, ChainPhases, BudgetPhases, GatePhases, At
<1>1. /\ phase[d] = "anchor_mark" /\ phase' = [phase EXCEPT ![d] = "stash"]
      /\ journal \in Journal /\ journal # None /\ journal.id = d /\ JournalClaim = ClaimOf[d]
      /\ journal' \in Journal /\ journal' # None /\ journal'.id = d /\ JournalClaim' = ClaimOf[d]
      /\ journal'.applied = journal.applied \cup {"anchor"}
      /\ journal'.anchorRow = d
      /\ journal'.before = journal.before /\ journal'.stashExisted = journal.stashExisted
      /\ mem' = [mem EXCEPT ![d] = journal']
      /\ UNCHANGED <<register, anchor, stash, undo>>
  <2>1. phase[d] = "anchor_mark" /\ Mark(d, "anchor", "stash")
    BY DEF MarkAnchor
  <2>2. JournalClaim = ClaimOf[d] /\ journal \in Journal /\ journal # None /\ journal.id = d
    BY <2>1, OwnIntent
  <2>3. journal.applied = AppliedAt("anchor_mark") /\ "anchor" \notin AppliedAt("anchor_mark")
    BY <2>1, <2>2 DEF MarksTrue, AppliedAt
  <2> HIDE DEF CalmInv
  <2> QED BY <2>1, <2>2, <2>3, MarkedSlot DEF Steps
<1>2. SlotOwned'
  BY <1>1 DEF Serial, SlotOwned
<1>3. RunnerIsAlone'
  BY <1>1 DEF SlotOwned, RunnerIsAlone
<1>4. MarksTrue'
  BY <1>1 DEF Serial, SlotOwned, MarksTrue, AppliedAt, Steps
<1>5. RegisterLanded'
  BY <1>1 DEF Serial, SlotOwned, MarksTrue, AppliedAt, RegisterLanded, Landed, RollingBack,
     JournalClaim, Steps
<1>6. AnchorLanded'
  BY <1>1 DEF Serial, SlotOwned, MarksTrue, AppliedAt, AnchorLanded, Landed, RollingBack,
     JournalClaim, Steps
<1>7. StashLanded'
  BY <1>1 DEF Serial, SlotOwned, MarksTrue, AppliedAt, StashLanded, Landed, RollingBack,
     JournalClaim, RunnerIsAlone, Steps
<1>8. anchorBar' = anchorBar /\ registerBar' = registerBar /\ stashBar' = stashBar
  BY <1>1 DEF anchorBar, registerBar, stashBar
<1>9. RowsAreGranted'
  BY <1>1, <1>8, SameGrants DEF LetThrough
<1>10. AtomicStep
  <2>1. verdictBar' = verdictBar
    BY <1>1 DEF verdictBar
  <2> QED BY <1>8, <2>1 DEF AtomicStep, Atomic!vars
<1> QED
  BY CalmSerial, <1>2, <1>3, <1>4, <1>5, <1>6, <1>7, <1>8, <1>9, <1>10
  DEF Next, ChainStep, Fault

(* CalmMarkStash: the stash step is marked.                                  *)
LEMMA CalmMarkStash ==
  ASSUME Calm, CalmInv, NEW d \in Dispatches, MarkStash(d)
  PROVE  CalmInv' /\ AtomicStep
<1> USE ConstantsAssumption, NoneIsNoIntent DEF CalmInv, SerialInv, AnyInv, TypeOK,
        CommitPhases, WindowPhases, OwnerPhases, ChainPhases, BudgetPhases, GatePhases, At
<1>1. /\ phase[d] = "stash_mark" /\ phase' = [phase EXCEPT ![d] = "register"]
      /\ journal \in Journal /\ journal # None /\ journal.id = d /\ JournalClaim = ClaimOf[d]
      /\ journal' \in Journal /\ journal' # None /\ journal'.id = d /\ JournalClaim' = ClaimOf[d]
      /\ journal'.applied = journal.applied \cup {"stash"}
      /\ journal'.anchorRow = d
      /\ journal'.before = journal.before /\ journal'.stashExisted = journal.stashExisted
      /\ mem' = [mem EXCEPT ![d] = journal']
      /\ UNCHANGED <<register, anchor, stash, undo>>
  <2>1. phase[d] = "stash_mark" /\ Mark(d, "stash", "register")
    BY DEF MarkStash
  <2>2. JournalClaim = ClaimOf[d] /\ journal \in Journal /\ journal # None /\ journal.id = d
    BY <2>1, OwnIntent
  <2>3. journal.applied = AppliedAt("stash_mark") /\ "stash" \notin AppliedAt("stash_mark")
    BY <2>1, <2>2 DEF MarksTrue, AppliedAt
  <2> HIDE DEF CalmInv
  <2> QED BY <2>1, <2>2, <2>3, MarkedSlot DEF Steps
<1>2. SlotOwned'
  BY <1>1 DEF Serial, SlotOwned
<1>3. RunnerIsAlone'
  BY <1>1 DEF SlotOwned, RunnerIsAlone
<1>4. MarksTrue'
  BY <1>1 DEF Serial, SlotOwned, MarksTrue, AppliedAt, Steps
<1>5. RegisterLanded'
  BY <1>1 DEF Serial, SlotOwned, MarksTrue, AppliedAt, RegisterLanded, Landed, RollingBack,
     JournalClaim, Steps
<1>6. AnchorLanded'
  BY <1>1 DEF Serial, SlotOwned, MarksTrue, AppliedAt, AnchorLanded, Landed, RollingBack,
     JournalClaim, Steps
<1>7. StashLanded'
  BY <1>1 DEF Serial, SlotOwned, MarksTrue, AppliedAt, StashLanded, Landed, RollingBack,
     JournalClaim, RunnerIsAlone, Steps
<1>8. anchorBar' = anchorBar /\ registerBar' = registerBar /\ stashBar' = stashBar
  BY <1>1 DEF anchorBar, registerBar, stashBar
<1>9. RowsAreGranted'
  BY <1>1, <1>8, SameGrants DEF LetThrough
<1>10. AtomicStep
  <2>1. verdictBar' = verdictBar
    BY <1>1 DEF verdictBar
  <2> QED BY <1>8, <2>1 DEF AtomicStep, Atomic!vars
<1> QED
  BY CalmSerial, <1>2, <1>3, <1>4, <1>5, <1>6, <1>7, <1>8, <1>9, <1>10
  DEF Next, ChainStep, Fault

(* CalmMarkRegister: the register step is marked.                            *)
LEMMA CalmMarkRegister ==
  ASSUME Calm, CalmInv, NEW d \in Dispatches, MarkRegister(d)
  PROVE  CalmInv' /\ AtomicStep
<1> USE ConstantsAssumption, NoneIsNoIntent DEF CalmInv, SerialInv, AnyInv, TypeOK,
        CommitPhases, WindowPhases, OwnerPhases, ChainPhases, BudgetPhases, GatePhases, At
<1>1. /\ phase[d] = "register_mark" /\ phase' = [phase EXCEPT ![d] = "finish"]
      /\ journal \in Journal /\ journal # None /\ journal.id = d /\ JournalClaim = ClaimOf[d]
      /\ journal' \in Journal /\ journal' # None /\ journal'.id = d /\ JournalClaim' = ClaimOf[d]
      /\ journal'.applied = journal.applied \cup {"register"}
      /\ journal'.anchorRow = d
      /\ journal'.before = journal.before /\ journal'.stashExisted = journal.stashExisted
      /\ mem' = [mem EXCEPT ![d] = journal']
      /\ UNCHANGED <<register, anchor, stash, undo>>
  <2>1. phase[d] = "register_mark" /\ Mark(d, "register", "finish")
    BY DEF MarkRegister
  <2>2. JournalClaim = ClaimOf[d] /\ journal \in Journal /\ journal # None /\ journal.id = d
    BY <2>1, OwnIntent
  <2>3. journal.applied = AppliedAt("register_mark") /\ "register" \notin AppliedAt("register_mark")
    BY <2>1, <2>2 DEF MarksTrue, AppliedAt
  <2> HIDE DEF CalmInv
  <2> QED BY <2>1, <2>2, <2>3, MarkedSlot DEF Steps
<1>2. SlotOwned'
  BY <1>1 DEF Serial, SlotOwned
<1>3. RunnerIsAlone'
  BY <1>1 DEF SlotOwned, RunnerIsAlone
<1>4. MarksTrue'
  BY <1>1 DEF Serial, SlotOwned, MarksTrue, AppliedAt, Steps
<1>5. RegisterLanded'
  BY <1>1 DEF Serial, SlotOwned, MarksTrue, AppliedAt, RegisterLanded, Landed, RollingBack,
     JournalClaim, Steps
<1>6. AnchorLanded'
  BY <1>1 DEF Serial, SlotOwned, MarksTrue, AppliedAt, AnchorLanded, Landed, RollingBack,
     JournalClaim, Steps
<1>7. StashLanded'
  BY <1>1 DEF Serial, SlotOwned, MarksTrue, AppliedAt, StashLanded, Landed, RollingBack,
     JournalClaim, RunnerIsAlone, Steps
<1>8. anchorBar' = anchorBar /\ registerBar' = registerBar /\ stashBar' = stashBar
  BY <1>1 DEF anchorBar, registerBar, stashBar
<1>9. RowsAreGranted'
  BY <1>1, <1>8, SameGrants DEF LetThrough
<1>10. AtomicStep
  <2>1. verdictBar' = verdictBar
    BY <1>1 DEF verdictBar
  <2> QED BY <1>8, <2>1 DEF AtomicStep, Atomic!vars
<1> QED
  BY CalmSerial, <1>2, <1>3, <1>4, <1>5, <1>6, <1>7, <1>8, <1>9, <1>10
  DEF Next, ChainStep, Fault

(* CalmFinish: the intent is saved as committed.                             *)
LEMMA CalmFinish ==
  ASSUME Calm, CalmInv, NEW d \in Dispatches, Finish(d)
  PROVE  CalmInv' /\ AtomicStep
<1> USE ConstantsAssumption, NoneIsNoIntent DEF CalmInv, SerialInv, AnyInv, TypeOK,
        CommitPhases, WindowPhases, OwnerPhases, ChainPhases, BudgetPhases, GatePhases, At
<1>1. /\ phase[d] = "finish" /\ phase' = [phase EXCEPT ![d] = "gate"]
      /\ journal \in Journal /\ journal # None /\ journal.id = d /\ journal' = journal
      /\ mem' = [mem EXCEPT ![d] = None] /\ undo' = [undo EXCEPT ![d] = {}]
      /\ UNCHANGED <<register, anchor, stash>>
  BY OwnIntent DEF Finish, Exit, SlotHeld, Goto
<1>2. SlotOwned'
  BY <1>1 DEF Serial, SlotOwned
<1>3. RunnerIsAlone'
  BY <1>1 DEF SlotOwned, RunnerIsAlone
<1>4. MarksTrue'
  BY <1>1 DEF Serial, SlotOwned, MarksTrue, AppliedAt, Steps
<1>5. RegisterLanded'
  BY <1>1 DEF Serial, SlotOwned, MarksTrue, AppliedAt, RegisterLanded, Landed, RollingBack,
     JournalClaim, Steps
<1>6. AnchorLanded'
  BY <1>1 DEF Serial, SlotOwned, MarksTrue, AppliedAt, AnchorLanded, Landed, RollingBack,
     JournalClaim, Steps
<1>7. StashLanded'
  BY <1>1 DEF Serial, SlotOwned, MarksTrue, AppliedAt, StashLanded, Landed, RollingBack,
     JournalClaim, RunnerIsAlone, Steps
<1>8. anchorBar' = anchorBar /\ registerBar' = registerBar /\ stashBar' = stashBar
  BY <1>1 DEF anchorBar, registerBar, stashBar
<1>9. RowsAreGranted'
  BY <1>1, <1>8, SameGrants DEF LetThrough
<1>10. AtomicStep
  <2>1. verdictBar' = verdictBar
    BY <1>1 DEF verdictBar
  <2> QED BY <1>8, <2>1 DEF AtomicStep, Atomic!vars
<1> QED
  BY CalmSerial, <1>2, <1>3, <1>4, <1>5, <1>6, <1>7, <1>8, <1>9, <1>10
  DEF Next, ChainStep, Fault

(* CalmGateRejects: the rollback of a rejected dispatch begins.              *)
LEMMA CalmGateRejects ==
  ASSUME Calm, CalmInv, NEW d \in Dispatches, GateRejects(d)
  PROVE  CalmInv' /\ AtomicStep
<1> USE ConstantsAssumption, NoneIsNoIntent DEF CalmInv, SerialInv, AnyInv, TypeOK,
        CommitPhases, WindowPhases, OwnerPhases, ChainPhases, BudgetPhases, GatePhases, At
<1>1. /\ phase[d] = "gate" /\ phase' = [phase EXCEPT ![d] = "abort"]
      /\ journal \in Journal /\ journal # None /\ journal.id = d
      /\ mem' = [mem EXCEPT ![d] = journal] /\ undo' = [undo EXCEPT ![d] = journal.applied]
      /\ UNCHANGED <<register, anchor, stash, journal>>
  BY OwnIntent DEF GateRejects, SlotHeld, Goto
<1>2. SlotOwned'
  BY <1>1 DEF Serial, SlotOwned
<1>3. RunnerIsAlone'
  BY <1>1 DEF SlotOwned, RunnerIsAlone
<1>4. MarksTrue'
  BY <1>1 DEF Serial, SlotOwned, MarksTrue, AppliedAt, Steps
<1>5. RegisterLanded'
  BY <1>1 DEF Serial, SlotOwned, MarksTrue, AppliedAt, RegisterLanded, Landed, RollingBack,
     JournalClaim, Steps
<1>6. AnchorLanded'
  BY <1>1 DEF Serial, SlotOwned, MarksTrue, AppliedAt, AnchorLanded, Landed, RollingBack,
     JournalClaim, Steps
<1>7. StashLanded'
  BY <1>1 DEF Serial, SlotOwned, MarksTrue, AppliedAt, StashLanded, Landed, RollingBack,
     JournalClaim, RunnerIsAlone, Steps
<1>8. anchorBar' = anchorBar /\ registerBar' = registerBar /\ stashBar' = stashBar
  BY <1>1 DEF anchorBar, registerBar, stashBar
<1>9. RowsAreGranted'
  BY <1>1, <1>8, SameGrants DEF LetThrough
<1>10. AtomicStep
  <2>1. verdictBar' = verdictBar
    BY <1>1 DEF verdictBar
  <2> QED BY <1>8, <2>1 DEF AtomicStep, Atomic!vars
<1> QED
  BY CalmSerial, <1>2, <1>3, <1>4, <1>5, <1>6, <1>7, <1>8, <1>9, <1>10
  DEF Next, ChainStep, Fault

(* CalmCrash: a chain dies between two marked steps: Deny.                   *)
LEMMA CalmCrash ==
  ASSUME Calm, CalmInv, NEW d \in Dispatches, Crash(d)
  PROVE  CalmInv' /\ AtomicStep
<1> USE ConstantsAssumption, NoneIsNoIntent DEF CalmInv, SerialInv, AnyInv, TypeOK,
        CommitPhases, WindowPhases, OwnerPhases, ChainPhases, BudgetPhases, GatePhases, At
<1>1. /\ phase[d] \in ChainPhases \ WindowPhases /\ phase' = [phase EXCEPT ![d] = "dead"]
      /\ mem' = [mem EXCEPT ![d] = None] /\ undo' = [undo EXCEPT ![d] = {}]
      /\ UNCHANGED <<register, anchor, stash, journal>>
  BY DEF Calm, Crash, Exit, Goto, Met
<1>2. SlotOwned'
  BY <1>1 DEF Serial, SlotOwned
<1>3. RunnerIsAlone'
  BY <1>1 DEF SlotOwned, RunnerIsAlone
<1>4. MarksTrue'
  BY <1>1 DEF Serial, SlotOwned, MarksTrue, AppliedAt, Steps
<1>5. RegisterLanded'
  BY <1>1 DEF Serial, SlotOwned, MarksTrue, AppliedAt, RegisterLanded, Landed, RollingBack,
     JournalClaim, Steps
<1>6. AnchorLanded'
  BY <1>1 DEF Serial, SlotOwned, MarksTrue, AppliedAt, AnchorLanded, Landed, RollingBack,
     JournalClaim, Steps
<1>7. StashLanded'
  BY <1>1 DEF Serial, SlotOwned, MarksTrue, AppliedAt, StashLanded, Landed, RollingBack,
     JournalClaim, RunnerIsAlone, Steps
<1>8. anchorBar' = anchorBar /\ registerBar' = registerBar /\ stashBar' = stashBar
  BY <1>1 DEF anchorBar, registerBar, stashBar
<1>9. RowsAreGranted'
  BY <1>1, <1>8, SameGrants DEF LetThrough
<1>10. AtomicStep
  <2>1. verdictBar[d] = "pending" /\ verdictBar' = [verdictBar EXCEPT ![d] = "denied"]
    BY <1>1 DEF verdictBar
  <2> QED BY <1>8, <2>1 DEF AtomicStep, Atomic!Next, Atomic!Deny
<1> QED
  BY CalmSerial, <1>2, <1>3, <1>4, <1>5, <1>6, <1>7, <1>8, <1>9, <1>10
  DEF Next, ChainStep, Fault

(* CalmOpenIntent: a chain opens its intent; nothing is pending and the slot is empty. *)
LEMMA CalmOpenIntent ==
  ASSUME Calm, CalmInv, NEW d \in Dispatches, OpenIntent(d)
  PROVE  CalmInv' /\ AtomicStep
<1> USE ConstantsAssumption, NoneIsNoIntent DEF CalmInv, SerialInv, AnyInv, TypeOK,
        CommitPhases, WindowPhases, OwnerPhases, ChainPhases, BudgetPhases, GatePhases, At
<1>1. /\ phase[d] \in {"admitted", "snapshot"} /\ phase' = [phase EXCEPT ![d] = "load"]
      /\ journal = None /\ journal' \in Journal /\ journal' # None /\ journal'.id = d
      /\ journal'.before = register /\ journal'.anchorRow = None /\ journal'.applied = {}
      /\ ~journal'.stashExisted /\ \A c \in Claims : stash[c] = None
      /\ \A c \in Claims : ~EndsWith(anchor[c], d)
      /\ \A e \in Dispatches : phase[e] \notin OwnerPhases /\ (phase[e] \in ChainPhases => e = d)
      /\ UNCHANGED <<register, anchor, stash, mem, undo>>
  <2>1. phase[d] \in {"admitted", "snapshot"} /\ phase' = [phase EXCEPT ![d] = "load"]
    BY DEF OpenIntent, Goto
  <2>2. \A e \in Dispatches : phase[e] \in ChainPhases => e = d
    BY <2>1 DEF Serial
  <2>3. journal = None
    BY <2>1, <2>2 DEF OpenIntent, SlotOwned, PidAlive, Journal
  <2>4. \A e \in Dispatches : phase[e] # "running"
    BY <2>1 DEF RunnerIsAlone
  <2>5. \A c \in Claims : stash[c] = None
    BY <2>3, <2>4 DEF StashLanded
  <2>6. journal' = [id |-> d, before |-> register, stashExisted |-> FALSE,
                    anchorRow |-> None, applied |-> {}]
    BY <2>5 DEF OpenIntent
  <2>7. UNCHANGED <<register, anchor, stash, mem, undo>>
    BY DEF OpenIntent
  <2>8. \A c \in Claims : ~EndsWith(anchor[c], d)
    <3> SUFFICES ASSUME NEW c \in Claims, EndsWith(anchor[c], d) PROVE FALSE
      OBVIOUS
    <3>1. Len(anchor[c]) \in 1..Len(anchor[c]) /\ anchor[c][Len(anchor[c])] = d
      BY DEF EndsWith
    <3>2. d \in BarRows(c)
      BY <2>3, <3>1 DEF BarRows, anchorBar
    <3> QED BY <2>1, <3>2 DEF RowsAreGranted, LetThrough
  <2>9. \A e \in Dispatches : phase[e] \notin OwnerPhases
    BY <2>3 DEF SlotOwned
  <2>10. /\ journal' \in Journal /\ journal' # None /\ journal'.id = d
         /\ journal'.before = register /\ journal'.anchorRow = None
         /\ journal'.applied = {} /\ ~journal'.stashExisted
    <3>1. journal' \in Journal
      <4> HIDE DEF Entry
      <4> QED BY <2>6 DEF Journal
    <3> QED BY <2>6, <3>1
  <2> QED BY <2>1, <2>2, <2>3, <2>5, <2>7, <2>8, <2>9, <2>10
<1>2. SlotOwned'
  BY <1>1 DEF Serial, SlotOwned
<1>3. RunnerIsAlone'
  BY <1>1 DEF SlotOwned, RunnerIsAlone
<1>4. MarksTrue'
  BY <1>1 DEF Serial, SlotOwned, MarksTrue, AppliedAt, Steps
<1>5. RegisterLanded'
  BY <1>1 DEF Serial, SlotOwned, MarksTrue, AppliedAt, RegisterLanded, Landed, RollingBack,
     JournalClaim, Steps
<1>6. AnchorLanded'
  BY <1>1 DEF Serial, SlotOwned, MarksTrue, AppliedAt, AnchorLanded, Landed, RollingBack,
     JournalClaim, Steps
<1>7. StashLanded'
  BY <1>1 DEF Serial, SlotOwned, MarksTrue, AppliedAt, StashLanded, Landed, RollingBack,
     JournalClaim, RunnerIsAlone, Steps
<1>8. anchorBar' = anchorBar /\ registerBar' = registerBar /\ stashBar' = stashBar
  BY <1>1 DEF anchorBar, registerBar, stashBar
<1>9. RowsAreGranted'
  BY <1>1, <1>8, SameGrants DEF LetThrough
<1>10. AtomicStep
  <2>1. verdictBar' = verdictBar
    BY <1>1 DEF verdictBar
  <2> QED BY <1>8, <2>1 DEF AtomicStep, Atomic!vars
<1> QED
  BY CalmSerial, <1>2, <1>3, <1>4, <1>5, <1>6, <1>7, <1>8, <1>9, <1>10
  DEF Next, ChainStep, Fault

(* CalmWriteAnchor: the row is written, hidden by the intent.                *)
LEMMA CalmWriteAnchor ==
  ASSUME Calm, CalmInv, NEW d \in Dispatches, WriteAnchor(d)
  PROVE  CalmInv' /\ AtomicStep
<1> USE ConstantsAssumption, NoneIsNoIntent DEF CalmInv, SerialInv, AnyInv, TypeOK,
        CommitPhases, WindowPhases, OwnerPhases, ChainPhases, BudgetPhases, GatePhases, At
<1>1. /\ phase[d] = "anchor" /\ phase' = [phase EXCEPT ![d] = "anchor_mark"]
      /\ journal \in Journal /\ journal # None /\ journal.id = d /\ JournalClaim = ClaimOf[d]
      /\ anchor' = [anchor EXCEPT ![ClaimOf[d]] = Append(@, d)]
      /\ \A c \in Claims : ~EndsWith(anchor[c], d)
      /\ mem' = [mem EXCEPT ![d] = [journal EXCEPT !.anchorRow = d]]
      /\ UNCHANGED <<register, stash, journal, undo>>
  <2>1. /\ phase[d] = "anchor" /\ phase[d] \in OwnerPhases
        /\ phase' = [phase EXCEPT ![d] = "anchor_mark"]
    BY DEF WriteAnchor, Goto
  <2>2. journal \in Journal /\ journal # None /\ journal.id = d /\ JournalClaim = ClaimOf[d]
    BY <2>1, OwnIntent
  <2>3. mem[d] = journal
    BY <2>1 DEF SlotHeld
  <2>4. anchor' = [anchor EXCEPT ![ClaimOf[d]] = Append(@, d)]
    BY DEF Calm, WriteAnchor, Room, Met
  <2>5. mem' = [mem EXCEPT ![d] = [journal EXCEPT !.anchorRow = d]]
    BY <2>3 DEF WriteAnchor
  <2>6. \A c \in Claims : ~EndsWith(anchor[c], d)
    BY <2>1, <2>2 DEF AnchorLanded, Landed, MarksTrue, AppliedAt
  <2> QED BY <2>1, <2>2, <2>4, <2>5, <2>6 DEF WriteAnchor
<1>2. SlotOwned'
  BY <1>1 DEF Serial, SlotOwned
<1>3. RunnerIsAlone'
  BY <1>1 DEF SlotOwned, RunnerIsAlone
<1>4. MarksTrue'
  BY <1>1 DEF Serial, SlotOwned, MarksTrue, AppliedAt, Steps
<1>5. RegisterLanded'
  BY <1>1 DEF Serial, SlotOwned, MarksTrue, AppliedAt, RegisterLanded, Landed, RollingBack,
     JournalClaim, Steps
<1>6. AnchorLanded'
  <2>1. EndsWith(anchor'[ClaimOf[d]], d)
    BY <1>1, EndLemma
  <2>2. \A c \in Claims : EndsWith(anchor'[c], d) => c = ClaimOf[d]
    BY <1>1
  <2> QED BY <1>1, <2>1, <2>2 DEF AnchorLanded, Landed, JournalClaim, EndsWith
<1>7. StashLanded'
  BY <1>1 DEF Serial, SlotOwned, MarksTrue, AppliedAt, StashLanded, Landed, RollingBack,
     JournalClaim, RunnerIsAlone, Steps
<1>8. anchorBar' = anchorBar /\ registerBar' = registerBar /\ stashBar' = stashBar
  <2>1. anchorBar' = anchorBar
    <3>1. anchorBar = [c \in Claims |-> anchor[c]]
      BY <1>1 DEF anchorBar
    <3>2. anchorBar' = [c \in Claims |-> IF c = ClaimOf[d] THEN DropLast(anchor'[c])
                                         ELSE anchor'[c]]
      <4>1. EndsWith(anchor'[ClaimOf[d]], d)
        BY <1>1, EndLemma
      <4>2. \A c \in Claims \ {ClaimOf[d]} : ~EndsWith(anchor'[c], d)
        BY <1>1 DEF EndsWith
      <4>3. journal' # None /\ journal'.id = d
        BY <1>1
      <4>4. \A c \in Claims : (EndsWith(anchor[c], journal.id))' <=> c = ClaimOf[d]
        BY <4>1, <4>2, <4>3 DEF EndsWith
      <4> QED BY <4>3, <4>4 DEF anchorBar, DropLast
    <3>3. DropLast(anchor'[ClaimOf[d]]) = anchor[ClaimOf[d]]
      BY <1>1, EndLemma
    <3> QED BY <1>1, <3>1, <3>2, <3>3
  <2> QED BY <1>1, <2>1 DEF registerBar, stashBar
<1>9. RowsAreGranted'
  BY <1>1, <1>8, SameGrants DEF LetThrough
<1>10. AtomicStep
  <2>1. verdictBar' = verdictBar
    BY <1>1 DEF verdictBar
  <2> QED BY <1>8, <2>1 DEF AtomicStep, Atomic!vars
<1> QED
  BY CalmSerial, <1>2, <1>3, <1>4, <1>5, <1>6, <1>7, <1>8, <1>9, <1>10
  DEF Next, ChainStep, Fault

(* CalmWriteRegister: the claim is flipped, hidden by the before-image.      *)
LEMMA CalmWriteRegister ==
  ASSUME Calm, CalmInv, NEW d \in Dispatches, WriteRegister(d)
  PROVE  CalmInv' /\ AtomicStep
<1> USE ConstantsAssumption, NoneIsNoIntent DEF CalmInv, SerialInv, AnyInv, TypeOK,
        CommitPhases, WindowPhases, OwnerPhases, ChainPhases, BudgetPhases, GatePhases, At
<1>1. /\ phase[d] = "register" /\ phase' = [phase EXCEPT ![d] = "register_mark"]
      /\ journal \in Journal /\ journal # None /\ journal.id = d /\ JournalClaim = ClaimOf[d]
      /\ register = journal.before /\ register[ClaimOf[d]].status = "OPEN"
      /\ register' = [register EXCEPT ![ClaimOf[d]] = Atomic!Granted(@, 0)]
      /\ register'[ClaimOf[d]].status = "IN_PROGRESS"
      /\ UNCHANGED <<anchor, stash, journal, mem, undo>>
  <2>1. /\ phase[d] = "register" /\ phase[d] \in OwnerPhases
        /\ phase' = [phase EXCEPT ![d] = "register_mark"]
    BY DEF WriteRegister, Goto
  <2>2. journal \in Journal /\ journal # None /\ journal.id = d /\ JournalClaim = ClaimOf[d]
    BY <2>1, OwnIntent
  <2>3. register = journal.before
    BY <2>1, <2>2 DEF RegisterLanded, Landed, MarksTrue, AppliedAt
  <2>4. register[ClaimOf[d]] \in Entry /\ register[ClaimOf[d]].status = "OPEN"
    BY DEF WriteRegister
  <2>5. Atomic!Granted(register[ClaimOf[d]], 0)
          = [status |-> "IN_PROGRESS", count |-> register[ClaimOf[d]].count + 1]
    BY <2>4 DEF Atomic!Granted, Entry
  <2>6. register' = [register EXCEPT ![ClaimOf[d]] = Atomic!Granted(@, 0)]
    BY <2>5 DEF WriteRegister
  <2>7. register'[ClaimOf[d]].status = "IN_PROGRESS"
    BY <2>5, <2>6
  <2> QED BY <2>1, <2>2, <2>3, <2>4, <2>6, <2>7 DEF WriteRegister
<1>2. SlotOwned'
  BY <1>1 DEF Serial, SlotOwned
<1>3. RunnerIsAlone'
  BY <1>1 DEF SlotOwned, RunnerIsAlone
<1>4. MarksTrue'
  BY <1>1 DEF Serial, SlotOwned, MarksTrue, AppliedAt, Steps
<1>5. RegisterLanded'
  BY <1>1 DEF Serial, SlotOwned, MarksTrue, AppliedAt, RegisterLanded, Landed, RollingBack,
     JournalClaim, Steps
<1>6. AnchorLanded'
  BY <1>1 DEF Serial, SlotOwned, MarksTrue, AppliedAt, AnchorLanded, Landed, RollingBack,
     JournalClaim, Steps
<1>7. StashLanded'
  BY <1>1 DEF Serial, SlotOwned, MarksTrue, AppliedAt, StashLanded, Landed, RollingBack,
     JournalClaim, RunnerIsAlone, Steps
<1>8. anchorBar' = anchorBar /\ registerBar' = registerBar /\ stashBar' = stashBar
  BY <1>1 DEF anchorBar, registerBar, stashBar
<1>9. RowsAreGranted'
  BY <1>1, <1>8, SameGrants DEF LetThrough
<1>10. AtomicStep
  <2>1. verdictBar' = verdictBar
    BY <1>1 DEF verdictBar
  <2> QED BY <1>8, <2>1 DEF AtomicStep, Atomic!vars
<1> QED
  BY CalmSerial, <1>2, <1>3, <1>4, <1>5, <1>6, <1>7, <1>8, <1>9, <1>10
  DEF Next, ChainStep, Fault

(* CalmRefuseRegister: the register step refuses and is marked all the same. *)
LEMMA CalmRefuseRegister ==
  ASSUME Calm, CalmInv, NEW d \in Dispatches, RefuseRegister(d)
  PROVE  CalmInv' /\ AtomicStep
<1> USE ConstantsAssumption, NoneIsNoIntent DEF CalmInv, SerialInv, AnyInv, TypeOK,
        CommitPhases, WindowPhases, OwnerPhases, ChainPhases, BudgetPhases, GatePhases, At
<1>1. /\ phase[d] = "register" /\ phase' = [phase EXCEPT ![d] = "gate"]
      /\ journal \in Journal /\ journal # None /\ journal.id = d /\ JournalClaim = ClaimOf[d]
      /\ journal' \in Journal /\ journal' # None /\ journal'.id = d /\ JournalClaim' = ClaimOf[d]
      /\ journal.applied = {"anchor", "stash"} /\ journal'.applied = Steps
      /\ journal.anchorRow = d /\ journal'.anchorRow = d
      /\ journal'.before = journal.before /\ journal'.stashExisted = journal.stashExisted
      /\ register = journal.before
      /\ register[ClaimOf[d]] = Atomic!Granted(register[ClaimOf[d]], 0)
      /\ mem' = [mem EXCEPT ![d] = None] /\ undo' = [undo EXCEPT ![d] = {}]
      /\ UNCHANGED <<register, anchor, stash>>
  <2>1. /\ phase[d] = "register" /\ phase[d] \in OwnerPhases
        /\ phase' = [phase EXCEPT ![d] = "gate"]
    BY DEF RefuseRegister, FailStep, Exit, Goto
  <2>2. journal \in Journal /\ journal # None /\ journal.id = d /\ JournalClaim = ClaimOf[d]
    BY <2>1, OwnIntent
  <2>3. register = journal.before
    BY <2>1, <2>2 DEF RegisterLanded, Landed, MarksTrue, AppliedAt
  <2>4. journal.applied = {"anchor", "stash"} /\ journal.anchorRow = d
    BY <2>1, <2>2 DEF MarksTrue, AppliedAt
  <2>5. register[ClaimOf[d]] = Atomic!Granted(register[ClaimOf[d]], 0)
    <3>1. register[ClaimOf[d]] \in Entry /\ register[ClaimOf[d]].status # "OPEN"
      BY DEF RefuseRegister
    <3> QED BY <3>1 DEF Atomic!Granted, Entry
  <2>6. mem[d] = journal
    BY <2>1 DEF SlotHeld
  <2>7. journal' = [journal EXCEPT !.applied = @ \cup {"register"}]
    BY <2>6 DEF RefuseRegister, FailStep
  <2>8. /\ journal' \in Journal /\ journal'.id = d /\ journal'.applied = Steps
        /\ journal'.anchorRow = d /\ journal'.before = journal.before
        /\ journal'.stashExisted = journal.stashExisted
    BY <2>2, <2>4, <2>7 DEF Journal, Steps
  <2>9. journal' # None /\ JournalClaim' = ClaimOf[d]
    BY <2>8 DEF JournalClaim
  <2> QED BY <2>1, <2>2, <2>3, <2>4, <2>5, <2>8, <2>9 DEF RefuseRegister, FailStep, Exit
<1>2. SlotOwned'
  BY <1>1 DEF Serial, SlotOwned
<1>3. RunnerIsAlone'
  BY <1>1 DEF SlotOwned, RunnerIsAlone
<1>4. MarksTrue'
  BY <1>1 DEF Serial, SlotOwned, MarksTrue, AppliedAt, Steps
<1>5. RegisterLanded'
  BY <1>1 DEF Serial, SlotOwned, MarksTrue, AppliedAt, RegisterLanded, Landed, RollingBack,
     JournalClaim, Steps
<1>6. AnchorLanded'
  BY <1>1 DEF Serial, SlotOwned, MarksTrue, AppliedAt, AnchorLanded, Landed, RollingBack,
     JournalClaim, Steps
<1>7. StashLanded'
  BY <1>1 DEF Serial, SlotOwned, MarksTrue, AppliedAt, StashLanded, Landed, RollingBack,
     JournalClaim, RunnerIsAlone, Steps
<1>8. anchorBar' = anchorBar /\ registerBar' = registerBar /\ stashBar' = stashBar
  BY <1>1 DEF anchorBar, registerBar, stashBar
<1>9. RowsAreGranted'
  BY <1>1, <1>8, SameGrants DEF LetThrough
<1>10. AtomicStep
  <2>1. verdictBar' = verdictBar
    BY <1>1 DEF verdictBar
  <2> QED BY <1>8, <2>1 DEF AtomicStep, Atomic!vars
<1> QED
  BY CalmSerial, <1>2, <1>3, <1>4, <1>5, <1>6, <1>7, <1>8, <1>9, <1>10
  DEF Next, ChainStep, Fault

(* CalmGateAllows: the allow tail may count the dispatch.                    *)
LEMMA CalmGateAllows ==
  ASSUME Calm, CalmInv, NEW d \in Dispatches, GateAllows(d)
  PROVE  CalmInv' /\ AtomicStep
<1> USE ConstantsAssumption, NoneIsNoIntent DEF CalmInv, SerialInv, AnyInv, TypeOK,
        CommitPhases, WindowPhases, OwnerPhases, ChainPhases, BudgetPhases, GatePhases, At
<1>1. /\ phase[d] = "gate" /\ phase' = [phase EXCEPT ![d] = "tail"]
      /\ journal \in Journal /\ journal # None /\ journal.id = d /\ JournalClaim = ClaimOf[d]
      /\ journal.applied = Steps
      /\ \A c \in Claims \ {ClaimOf[d]} : register'[c] = register[c]
      /\ register'[ClaimOf[d]].status = register[ClaimOf[d]].status
      /\ \E tail \in {0, 1} :
           register'[ClaimOf[d]] = Atomic!Granted(journal.before[ClaimOf[d]], tail)
      /\ UNCHANGED <<anchor, stash, journal, mem, undo>>
  <2>1. /\ phase[d] = "gate" /\ phase[d] \in OwnerPhases
        /\ phase' = [phase EXCEPT ![d] = "tail"]
    BY DEF GateAllows, Goto
  <2>2. journal \in Journal /\ journal # None /\ journal.id = d /\ JournalClaim = ClaimOf[d]
    BY <2>1, OwnIntent
  <2>3. journal.applied = Steps
    BY <2>1, <2>2 DEF MarksTrue, AppliedAt
  <2>4. /\ register[ClaimOf[d]] = Atomic!Granted(journal.before[ClaimOf[d]], 0)
        /\ journal.before[ClaimOf[d]] \in Entry /\ register[ClaimOf[d]] \in Entry
    BY <2>1, <2>2 DEF RegisterLanded, Journal
  <2>5. [register[ClaimOf[d]] EXCEPT !.count = @ + 1]
          = Atomic!Granted(journal.before[ClaimOf[d]], 1)
    <3>1. CASE journal.before[ClaimOf[d]].status = "OPEN"
      BY <2>4, <3>1 DEF Atomic!Granted, Entry
    <3>2. CASE journal.before[ClaimOf[d]].status # "OPEN"
      <4>1. /\ Atomic!Granted(journal.before[ClaimOf[d]], 0) = journal.before[ClaimOf[d]]
            /\ Atomic!Granted(journal.before[ClaimOf[d]], 1)
                 = [journal.before[ClaimOf[d]] EXCEPT !.count = @ + 1]
        BY <2>4, <3>2, GrantedKept
      <4> QED BY <2>4, <4>1
    <3> QED BY <3>1, <3>2
  <2>6. CASE UNCHANGED register
    BY <2>1, <2>2, <2>3, <2>4, <2>6 DEF GateAllows
  <2>7. CASE register' = [register EXCEPT ![ClaimOf[d]].count = @ + 1]
    <3>1. register' = [register EXCEPT ![ClaimOf[d]] =
                         Atomic!Granted(journal.before[ClaimOf[d]], 1)]
      BY <2>5, <2>7
    <3>2. Atomic!Granted(journal.before[ClaimOf[d]], 1).status = register[ClaimOf[d]].status
      BY <2>4, <2>5 DEF Entry
    <3> QED BY <2>1, <2>2, <2>3, <3>1, <3>2 DEF GateAllows
  <2> QED BY <2>6, <2>7 DEF GateAllows
<1>2. SlotOwned'
  BY <1>1 DEF Serial, SlotOwned
<1>3. RunnerIsAlone'
  BY <1>1 DEF SlotOwned, RunnerIsAlone
<1>4. MarksTrue'
  BY <1>1 DEF Serial, SlotOwned, MarksTrue, AppliedAt, Steps
<1>5. RegisterLanded'
  BY <1>1 DEF Serial, SlotOwned, MarksTrue, AppliedAt, RegisterLanded, Landed, RollingBack,
     JournalClaim, Steps
<1>6. AnchorLanded'
  BY <1>1 DEF Serial, SlotOwned, MarksTrue, AppliedAt, AnchorLanded, Landed, RollingBack,
     JournalClaim, Steps
<1>7. StashLanded'
  BY <1>1 DEF Serial, SlotOwned, MarksTrue, AppliedAt, StashLanded, Landed, RollingBack,
     JournalClaim, RunnerIsAlone, Steps
<1>8. anchorBar' = anchorBar /\ registerBar' = registerBar /\ stashBar' = stashBar
  BY <1>1 DEF anchorBar, registerBar, stashBar
<1>9. RowsAreGranted'
  BY <1>1, <1>8, SameGrants DEF LetThrough
<1>10. AtomicStep
  <2>1. verdictBar' = verdictBar
    BY <1>1 DEF verdictBar
  <2> QED BY <1>8, <2>1 DEF AtomicStep, Atomic!vars
<1> QED
  BY CalmSerial, <1>2, <1>3, <1>4, <1>5, <1>6, <1>7, <1>8, <1>9, <1>10
  DEF Next, ChainStep, Fault

(* CalmUndoRegister: the before-image is restored.                           *)
LEMMA CalmUndoRegister ==
  ASSUME Calm, CalmInv, NEW d \in Dispatches, UndoRegister(d)
  PROVE  CalmInv' /\ AtomicStep
<1> USE ConstantsAssumption, NoneIsNoIntent DEF CalmInv, SerialInv, AnyInv, TypeOK,
        CommitPhases, WindowPhases, OwnerPhases, ChainPhases, BudgetPhases, GatePhases, At
<1>1. /\ phase[d] \in {"recover", "abort"} /\ journal # None /\ journal \in Journal
      /\ mem[d] = journal /\ phase' = phase
      /\ \A e \in Dispatches : phase[e] \in ChainPhases <=> e = d
      /\ journal.id = d \/ phase[journal.id] = "dead"
      /\ journal.id = d => phase[d] = "abort"
      /\ register' = journal.before /\ "register" \in undo[d]
      /\ undo' = [undo EXCEPT ![d] = @ \ {"register"}]
      /\ UNCHANGED <<anchor, stash, journal, mem>>
  <2>1. phase[d] \in {"recover", "abort"}
    BY DEF UndoRegister, RollingBack
  <2>2. /\ journal # None /\ journal \in Journal /\ mem[d] = journal
        /\ \A e \in Dispatches : phase[e] \in ChainPhases <=> e = d
        /\ journal.id = d \/ phase[journal.id] = "dead"
        /\ journal.id = d => phase[d] = "abort"
    BY <2>1, Roller
  <2> QED BY <2>1, <2>2 DEF UndoRegister
<1>2. SlotOwned'
  BY <1>1 DEF Serial, SlotOwned
<1>3. RunnerIsAlone'
  BY <1>1 DEF SlotOwned, RunnerIsAlone
<1>4. MarksTrue'
  BY <1>1 DEF Serial, SlotOwned, MarksTrue, AppliedAt, Steps
<1>5. RegisterLanded'
  BY <1>1 DEF Serial, SlotOwned, MarksTrue, AppliedAt, RegisterLanded, Landed, RollingBack,
     JournalClaim, Steps
<1>6. AnchorLanded'
  BY <1>1 DEF Serial, SlotOwned, MarksTrue, AppliedAt, AnchorLanded, Landed, RollingBack,
     JournalClaim, Steps
<1>7. StashLanded'
  BY <1>1 DEF Serial, SlotOwned, MarksTrue, AppliedAt, StashLanded, Landed, RollingBack,
     JournalClaim, RunnerIsAlone, Steps
<1>8. anchorBar' = anchorBar /\ registerBar' = registerBar /\ stashBar' = stashBar
  BY <1>1 DEF anchorBar, registerBar, stashBar
<1>9. RowsAreGranted'
  BY <1>1, <1>8, SameGrants DEF LetThrough
<1>10. AtomicStep
  <2>1. verdictBar' = verdictBar
    BY <1>1 DEF verdictBar
  <2> QED BY <1>8, <2>1 DEF AtomicStep, Atomic!vars
<1> QED
  BY CalmSerial, <1>2, <1>3, <1>4, <1>5, <1>6, <1>7, <1>8, <1>9, <1>10
  DEF Next, ChainStep, Fault

(* CalmUndoStash: the owner's stash is removed.                              *)
LEMMA CalmUndoStash ==
  ASSUME Calm, CalmInv, NEW d \in Dispatches, UndoStash(d)
  PROVE  CalmInv' /\ AtomicStep
<1> USE ConstantsAssumption, NoneIsNoIntent DEF CalmInv, SerialInv, AnyInv, TypeOK,
        CommitPhases, WindowPhases, OwnerPhases, ChainPhases, BudgetPhases, GatePhases, At
<1>1. /\ phase[d] \in {"recover", "abort"} /\ journal # None /\ journal \in Journal
      /\ mem[d] = journal /\ phase' = phase
      /\ \A e \in Dispatches : phase[e] \in ChainPhases <=> e = d
      /\ journal.id = d \/ phase[journal.id] = "dead"
      /\ journal.id = d => phase[d] = "abort"
      /\ stash' = [stash EXCEPT ![JournalClaim] = None]
      /\ stash[JournalClaim] \in {None, journal.id}
      /\ undo' = [undo EXCEPT ![d] = @ \ {"stash"}]
      /\ UNCHANGED <<register, anchor, journal, mem>>
  <2>1. phase[d] \in {"recover", "abort"}
    BY DEF UndoStash, RollingBack
  <2>2. /\ journal # None /\ journal \in Journal /\ mem[d] = journal
        /\ \A e \in Dispatches : phase[e] \in ChainPhases <=> e = d
        /\ journal.id = d \/ phase[journal.id] = "dead"
        /\ journal.id = d => phase[d] = "abort"
    BY <2>1, Roller
  <2>3. stash[JournalClaim] \in {None, journal.id}
    BY <2>2 DEF StashLanded, RunnerIsAlone, JournalClaim, Journal
  <2> QED BY <2>1, <2>2, <2>3 DEF UndoStash, MarksTrue, JournalClaim
<1>2. SlotOwned'
  BY <1>1 DEF Serial, SlotOwned
<1>3. RunnerIsAlone'
  BY <1>1 DEF SlotOwned, RunnerIsAlone
<1>4. MarksTrue'
  BY <1>1 DEF Serial, SlotOwned, MarksTrue, AppliedAt, Steps
<1>5. RegisterLanded'
  BY <1>1 DEF Serial, SlotOwned, MarksTrue, AppliedAt, RegisterLanded, Landed, RollingBack,
     JournalClaim, Steps
<1>6. AnchorLanded'
  BY <1>1 DEF Serial, SlotOwned, MarksTrue, AppliedAt, AnchorLanded, Landed, RollingBack,
     JournalClaim, Steps
<1>7. StashLanded'
  BY <1>1 DEF Serial, SlotOwned, MarksTrue, AppliedAt, StashLanded, Landed, RollingBack,
     JournalClaim, RunnerIsAlone, Steps
<1>8. anchorBar' = anchorBar /\ registerBar' = registerBar /\ stashBar' = stashBar
  BY <1>1 DEF anchorBar, registerBar, stashBar
<1>9. RowsAreGranted'
  BY <1>1, <1>8, SameGrants DEF LetThrough
<1>10. AtomicStep
  <2>1. verdictBar' = verdictBar
    BY <1>1 DEF verdictBar
  <2> QED BY <1>8, <2>1 DEF AtomicStep, Atomic!vars
<1> QED
  BY CalmSerial, <1>2, <1>3, <1>4, <1>5, <1>6, <1>7, <1>8, <1>9, <1>10
  DEF Next, ChainStep, Fault

(* CalmUndoAnchor: the owner's row, and no other, is removed.                *)
LEMMA CalmUndoAnchor ==
  ASSUME Calm, CalmInv, NEW d \in Dispatches, UndoAnchor(d)
  PROVE  CalmInv' /\ AtomicStep
<1> USE ConstantsAssumption, NoneIsNoIntent DEF CalmInv, SerialInv, AnyInv, TypeOK,
        CommitPhases, WindowPhases, OwnerPhases, ChainPhases, BudgetPhases, GatePhases, At
<1>1. /\ phase[d] \in {"recover", "abort"} /\ journal # None /\ journal \in Journal
      /\ mem[d] = journal /\ phase' = phase
      /\ \A e \in Dispatches : phase[e] \in ChainPhases <=> e = d
      /\ journal.id = d \/ phase[journal.id] = "dead"
      /\ journal.id = d => phase[d] = "abort"
      /\ JournalClaim \in Claims /\ journal.id \in Dispatches
      /\ anchor' = IF EndsWith(anchor[JournalClaim], journal.id)
                   THEN [anchor EXCEPT ![JournalClaim] = DropLast(@)] ELSE anchor
      /\ undo[d] = {"anchor"} /\ undo' = [undo EXCEPT ![d] = {}]
      /\ ~LetThrough(journal.id)
      /\ UNCHANGED <<register, stash, journal, mem>>
  <2>1. phase[d] \in {"recover", "abort"}
    BY DEF UndoAnchor, RollingBack
  <2>2. /\ journal # None /\ journal \in Journal /\ mem[d] = journal
        /\ \A e \in Dispatches : phase[e] \in ChainPhases <=> e = d
        /\ journal.id = d \/ phase[journal.id] = "dead"
        /\ journal.id = d => phase[d] = "abort"
    BY <2>1, Roller
  <2>3. /\ JournalClaim \in Claims /\ JournalClaim = ClaimOf[mem[d].id]
        /\ journal.id \in Dispatches
    BY <2>2 DEF JournalClaim, Journal
  <2>4. EndsWith(anchor[JournalClaim], journal.id) => mem[d].anchorRow = journal.id
    BY <2>1, <2>2, <2>3 DEF AnchorLanded, Landed, MarksTrue
  <2>5. mem[d].anchorRow \in {None, journal.id}
    BY <2>2 DEF MarksTrue
  <2>6. ~LetThrough(journal.id)
    BY <2>1, <2>2 DEF LetThrough
  <2>7. anchor' = IF EndsWith(anchor[JournalClaim], journal.id)
                   THEN [anchor EXCEPT ![JournalClaim] = DropLast(@)] ELSE anchor
    <3>1. journal.id # None
      BY <2>3
    <3>2. anchor' = IF mem[d].anchorRow # None /\ EndsWith(anchor[JournalClaim], mem[d].anchorRow)
                    THEN [anchor EXCEPT ![JournalClaim] = DropLast(@)] ELSE anchor
      <4> HIDE DEF CalmInv, AnyInv, TypeOK
      <4> QED BY <2>3 DEF UndoAnchor
    <3> HIDE DEF CalmInv, AnyInv, TypeOK
    <3> QED BY <2>4, <2>5, <3>1, <3>2
  <2>8. /\ undo[d] = {"anchor"} /\ undo' = [undo EXCEPT ![d] = {}]
         /\ UNCHANGED <<phase, register, stash, journal, mem>>
    BY DEF UndoAnchor
  <2> HIDE DEF CalmInv, AnyInv, TypeOK
  <2> QED BY <2>1, <2>2, <2>3, <2>6, <2>7, <2>8
<1>2. SlotOwned'
  BY <1>1 DEF Serial, SlotOwned
<1>3. RunnerIsAlone'
  BY <1>1 DEF SlotOwned, RunnerIsAlone
<1>4. MarksTrue'
  BY <1>1 DEF Serial, SlotOwned, MarksTrue, AppliedAt, Steps
<1>5. RegisterLanded'
  BY <1>1 DEF Serial, SlotOwned, MarksTrue, AppliedAt, RegisterLanded, Landed, RollingBack,
     JournalClaim, Steps
<1>6. AnchorLanded'
  <2>1. \A c \in Claims : ~EndsWith(anchor'[c], journal.id)
    <3> SUFFICES ASSUME NEW c \in Claims, EndsWith(anchor'[c], journal.id) PROVE FALSE
      OBVIOUS
    <3>1. c = JournalClaim /\ EndsWith(anchor[c], journal.id)
      BY <1>1, EndsDrop DEF AnchorLanded
    <3>2. anchor'[c] = DropLast(anchor[c]) /\ anchorBar[c] = DropLast(anchor[c])
      BY <1>1, <3>1 DEF anchorBar
    <3>3. journal.id \in BarRows(c)
      <4>1. EndsWith(anchorBar[c], journal.id) /\ Len(anchorBar[c]) \in Nat
        BY <1>1, <3>1, <3>2, EndsDrop
      <4>2. /\ Len(anchorBar[c]) \in 1..Len(anchorBar[c])
            /\ anchorBar[c][Len(anchorBar[c])] = journal.id
        BY <4>1 DEF EndsWith
      <4> QED BY <4>2 DEF BarRows
    <3> QED BY <1>1, <3>3 DEF RowsAreGranted
  <2> QED BY <1>1, <2>1 DEF AnchorLanded, EndsWith
<1>7. StashLanded'
  BY <1>1 DEF Serial, SlotOwned, MarksTrue, AppliedAt, StashLanded, Landed, RollingBack,
     JournalClaim, RunnerIsAlone, Steps
<1>8. anchorBar' = anchorBar /\ registerBar' = registerBar /\ stashBar' = stashBar
  <2>1. anchorBar' = anchorBar
    <3>1. \A c \in Claims : ~EndsWith(anchor'[c], journal.id)
      BY <1>1, <1>6 DEF AnchorLanded, Landed, RollingBack, EndsWith
    <3>2. anchorBar' = [c \in Claims |-> anchor'[c]]
      BY <1>1, <3>1 DEF anchorBar, EndsWith
    <3>3. \A c \in Claims : EndsWith(anchor[c], journal.id) => c = JournalClaim
      BY <1>1 DEF AnchorLanded
    <3> QED BY <1>1, <3>2, <3>3 DEF anchorBar
  <2> QED BY <1>1, <2>1 DEF registerBar, stashBar
<1>9. RowsAreGranted'
  BY <1>1, <1>8, SameGrants DEF LetThrough
<1>10. AtomicStep
  <2>1. verdictBar' = verdictBar
    BY <1>1 DEF verdictBar
  <2> QED BY <1>8, <2>1 DEF AtomicStep, Atomic!vars
<1> QED
  BY CalmSerial, <1>2, <1>3, <1>4, <1>5, <1>6, <1>7, <1>8, <1>9, <1>10
  DEF Next, ChainStep, Fault

(* CalmClearRecovered: a dead chain's intent is cleared once its steps are undone. *)
LEMMA CalmClearRecovered ==
  ASSUME Calm, CalmInv, NEW d \in Dispatches, ClearRecovered(d)
  PROVE  CalmInv' /\ AtomicStep
<1> USE ConstantsAssumption, NoneIsNoIntent DEF CalmInv, SerialInv, AnyInv, TypeOK,
        CommitPhases, WindowPhases, OwnerPhases, ChainPhases, BudgetPhases, GatePhases, At
<1>1. /\ phase[d] \in {"recover"} /\ journal # None /\ journal \in Journal
      /\ mem[d] = journal /\ phase' = [phase EXCEPT ![d] = "snapshot"]
      /\ \A e \in Dispatches : phase[e] \in ChainPhases <=> e = d
      /\ journal.id = d \/ phase[journal.id] = "dead"
      /\ journal.id = d => phase[d] = "abort"
      /\ journal' = None /\ register = journal.before
      /\ \A c \in Claims : ~EndsWith(anchor[c], journal.id) /\ stash[c] = None
      /\ UNCHANGED <<register, anchor, stash>>
      /\ mem' = [mem EXCEPT ![d] = None] /\ undo' = undo
  <2>1. phase[d] \in {"recover", "abort"}
    BY DEF ClearRecovered, RollingBack
  <2>2. /\ journal # None /\ journal \in Journal /\ mem[d] = journal
        /\ \A e \in Dispatches : phase[e] \in ChainPhases <=> e = d
        /\ journal.id = d \/ phase[journal.id] = "dead"
        /\ journal.id = d => phase[d] = "abort"
    BY <2>1, Roller
  <2>3. undo[d] = {} /\ RollingBack(d)
    BY <2>1 DEF ClearRecovered, RollingBack
  <2>4. ~Landed("register", "register_mark") /\ ~Landed("anchor", "anchor_mark")
        /\ ~Landed("stash", "stash_mark")
    BY <2>1, <2>2, <2>3 DEF Landed
  <2>5. \A e \in Dispatches : ~At(e, "running")
    BY <2>2 DEF RunnerIsAlone
  <2>6. register = journal.before
    BY <2>2, <2>4 DEF RegisterLanded
  <2>7. \A c \in Claims : ~EndsWith(anchor[c], journal.id) /\ stash[c] = None
    BY <2>2, <2>4, <2>5 DEF AnchorLanded, StashLanded
  <2> QED BY <2>1, <2>2, <2>6, <2>7 DEF ClearRecovered, Goto
<1>2. SlotOwned'
  BY <1>1 DEF Serial, SlotOwned
<1>3. RunnerIsAlone'
  BY <1>1 DEF SlotOwned, RunnerIsAlone
<1>4. MarksTrue'
  BY <1>1 DEF Serial, SlotOwned, MarksTrue, AppliedAt, Steps
<1>5. RegisterLanded'
  BY <1>1 DEF Serial, SlotOwned, MarksTrue, AppliedAt, RegisterLanded, Landed, RollingBack,
     JournalClaim, Steps
<1>6. AnchorLanded'
  BY <1>1 DEF Serial, SlotOwned, MarksTrue, AppliedAt, AnchorLanded, Landed, RollingBack,
     JournalClaim, Steps
<1>7. StashLanded'
  BY <1>1 DEF Serial, SlotOwned, MarksTrue, AppliedAt, StashLanded, Landed, RollingBack,
     JournalClaim, RunnerIsAlone, Steps
<1>8. anchorBar' = anchorBar /\ registerBar' = registerBar /\ stashBar' = stashBar
  BY <1>1 DEF anchorBar, registerBar, stashBar
<1>9. RowsAreGranted'
  BY <1>1, <1>8, SameGrants DEF LetThrough
<1>10. AtomicStep
  <2>1. verdictBar' = verdictBar
    BY <1>1 DEF verdictBar
  <2> QED BY <1>8, <2>1 DEF AtomicStep, Atomic!vars
<1> QED
  BY CalmSerial, <1>2, <1>3, <1>4, <1>5, <1>6, <1>7, <1>8, <1>9, <1>10
  DEF Next, ChainStep, Fault

(* CalmClearAborted: a rejected chain's intent is cleared: Deny.             *)
LEMMA CalmClearAborted ==
  ASSUME Calm, CalmInv, NEW d \in Dispatches, ClearAborted(d)
  PROVE  CalmInv' /\ AtomicStep
<1> USE ConstantsAssumption, NoneIsNoIntent DEF CalmInv, SerialInv, AnyInv, TypeOK,
        CommitPhases, WindowPhases, OwnerPhases, ChainPhases, BudgetPhases, GatePhases, At
<1>1. /\ phase[d] \in {"abort"} /\ journal # None /\ journal \in Journal
      /\ mem[d] = journal /\ phase' = [phase EXCEPT ![d] = "rejected"]
      /\ \A e \in Dispatches : phase[e] \in ChainPhases <=> e = d
      /\ journal.id = d \/ phase[journal.id] = "dead"
      /\ journal.id = d => phase[d] = "abort"
      /\ journal' = None /\ register = journal.before
      /\ \A c \in Claims : ~EndsWith(anchor[c], journal.id) /\ stash[c] = None
      /\ UNCHANGED <<register, anchor, stash>>
      /\ mem' = [mem EXCEPT ![d] = None] /\ undo' = [undo EXCEPT ![d] = {}]
  <2>1. phase[d] \in {"recover", "abort"}
    BY DEF ClearAborted, RollingBack
  <2>2. /\ journal # None /\ journal \in Journal /\ mem[d] = journal
        /\ \A e \in Dispatches : phase[e] \in ChainPhases <=> e = d
        /\ journal.id = d \/ phase[journal.id] = "dead"
        /\ journal.id = d => phase[d] = "abort"
    BY <2>1, Roller
  <2>3. undo[d] = {} /\ RollingBack(d)
    BY <2>1 DEF ClearAborted, RollingBack
  <2>4. ~Landed("register", "register_mark") /\ ~Landed("anchor", "anchor_mark")
        /\ ~Landed("stash", "stash_mark")
    BY <2>1, <2>2, <2>3 DEF Landed
  <2>5. \A e \in Dispatches : ~At(e, "running")
    BY <2>2 DEF RunnerIsAlone
  <2>6. register = journal.before
    BY <2>2, <2>4 DEF RegisterLanded
  <2>7. \A c \in Claims : ~EndsWith(anchor[c], journal.id) /\ stash[c] = None
    BY <2>2, <2>4, <2>5 DEF AnchorLanded, StashLanded
  <2> QED BY <2>1, <2>2, <2>6, <2>7 DEF ClearAborted, Exit, Goto
<1>2. SlotOwned'
  BY <1>1 DEF Serial, SlotOwned
<1>3. RunnerIsAlone'
  BY <1>1 DEF SlotOwned, RunnerIsAlone
<1>4. MarksTrue'
  BY <1>1 DEF Serial, SlotOwned, MarksTrue, AppliedAt, Steps
<1>5. RegisterLanded'
  BY <1>1 DEF Serial, SlotOwned, MarksTrue, AppliedAt, RegisterLanded, Landed, RollingBack,
     JournalClaim, Steps
<1>6. AnchorLanded'
  BY <1>1 DEF Serial, SlotOwned, MarksTrue, AppliedAt, AnchorLanded, Landed, RollingBack,
     JournalClaim, Steps
<1>7. StashLanded'
  BY <1>1 DEF Serial, SlotOwned, MarksTrue, AppliedAt, StashLanded, Landed, RollingBack,
     JournalClaim, RunnerIsAlone, Steps
<1>8. anchorBar' = anchorBar /\ registerBar' = registerBar /\ stashBar' = stashBar
  BY <1>1 DEF anchorBar, registerBar, stashBar
<1>9. RowsAreGranted'
  BY <1>1, <1>8, SameGrants DEF LetThrough
<1>10. AtomicStep
  <2>1. verdictBar[d] = "pending" /\ verdictBar' = [verdictBar EXCEPT ![d] = "denied"]
    BY <1>1 DEF verdictBar
  <2> QED BY <1>8, <2>1 DEF AtomicStep, Atomic!Next, Atomic!Deny
<1> QED
  BY CalmSerial, <1>2, <1>3, <1>4, <1>5, <1>6, <1>7, <1>8, <1>9, <1>10
  DEF Next, ChainStep, Fault

(* CalmConfirm: the slot is cleared, and the dispatch takes effect: Grant.   *)
LEMMA CalmConfirm ==
  ASSUME Calm, CalmInv, NEW d \in Dispatches, Confirm(d)
  PROVE  CalmInv' /\ AtomicStep
<1> USE ConstantsAssumption, NoneIsNoIntent DEF CalmInv, SerialInv, AnyInv, TypeOK,
        CommitPhases, WindowPhases, OwnerPhases, ChainPhases, BudgetPhases, GatePhases, At
<1>1. /\ phase[d] = "tail" /\ phase' = [phase EXCEPT ![d] = "running"]
      /\ journal # None /\ journal \in Journal /\ journal.id = d /\ JournalClaim = ClaimOf[d]
      /\ journal' = None
      /\ \A e \in Dispatches :
           (phase[e] \in ChainPhases => e = d) /\ phase[e] # "running"
      /\ EndsWith(anchor[ClaimOf[d]], d) /\ stash[ClaimOf[d]] = d
      /\ \A c \in Claims \ {ClaimOf[d]} :
           stash[c] = None /\ ~EndsWith(anchor[c], d) /\ register[c] = journal.before[c]
      /\ UNCHANGED <<register, anchor, stash, mem, undo>>
  <2>1. /\ phase[d] = "tail" /\ phase[d] \in OwnerPhases /\ phase[d] \in ChainPhases
        /\ phase' = [phase EXCEPT ![d] = "running"]
    BY DEF Confirm, Goto
  <2>2. journal \in Journal /\ journal # None /\ journal.id = d /\ JournalClaim = ClaimOf[d]
    BY <2>1, OwnIntent
  <2>3. \A e \in Dispatches : (phase[e] \in ChainPhases => e = d) /\ phase[e] # "running"
    BY <2>1 DEF Serial, RunnerIsAlone
  <2>4. /\ EndsWith(anchor[ClaimOf[d]], d)
        /\ \A c \in Claims \ {ClaimOf[d]} : ~EndsWith(anchor[c], d)
    BY <2>1, <2>2 DEF AnchorLanded
  <2>5. /\ stash[ClaimOf[d]] = d
        /\ \A c \in Claims \ {ClaimOf[d]} : stash[c] = None
    BY <2>1, <2>2, <2>3 DEF StashLanded
  <2>6. \A c \in Claims \ {ClaimOf[d]} : register[c] = journal.before[c]
    BY <2>2 DEF RegisterLanded
  <2>7. journal' = None
    BY <2>2 DEF Confirm
  <2> QED BY <2>1, <2>2, <2>3, <2>4, <2>5, <2>6, <2>7 DEF Confirm
<1>2. SlotOwned'
  BY <1>1 DEF Serial, SlotOwned
<1>3. RunnerIsAlone'
  BY <1>1 DEF SlotOwned, RunnerIsAlone
<1>4. MarksTrue'
  BY <1>1 DEF Serial, SlotOwned, MarksTrue, AppliedAt, Steps
<1>5. RegisterLanded'
  BY <1>1 DEF Serial, SlotOwned, MarksTrue, AppliedAt, RegisterLanded, Landed, RollingBack,
     JournalClaim, Steps
<1>6. AnchorLanded'
  BY <1>1 DEF Serial, SlotOwned, MarksTrue, AppliedAt, AnchorLanded, Landed, RollingBack,
     JournalClaim, Steps
<1>7. StashLanded'
  BY <1>1 DEF Serial, SlotOwned, MarksTrue, AppliedAt, StashLanded, Landed, RollingBack,
     JournalClaim, RunnerIsAlone, Steps
<1>8. RowsAreGranted'
  <2>1. anchorBar' = anchor
    BY <1>1 DEF anchorBar
  <2>2. /\ anchorBar[ClaimOf[d]] = DropLast(anchor[ClaimOf[d]])
        /\ \A c \in Claims \ {ClaimOf[d]} : anchorBar[c] = anchor[c]
    BY <1>1 DEF anchorBar
  <2>3. BarRows(ClaimOf[d])' = BarRows(ClaimOf[d]) \cup {d}
    <3>1. {anchor[ClaimOf[d]][i] : i \in 1..Len(anchor[ClaimOf[d]])}
            = {DropLast(anchor[ClaimOf[d]])[i] : i \in 1..Len(DropLast(anchor[ClaimOf[d]]))}
                \cup {d}
      <4>1. anchor[ClaimOf[d]] \in Seq(Dispatches)
        OBVIOUS
      <4> QED BY <1>1, <4>1, LastRow
    <3>2. BarRows(ClaimOf[d])'
            = {anchor[ClaimOf[d]][i] : i \in 1..Len(anchor[ClaimOf[d]])}
      BY <2>1 DEF BarRows
    <3>3. BarRows(ClaimOf[d])
            = {DropLast(anchor[ClaimOf[d]])[i] : i \in 1..Len(DropLast(anchor[ClaimOf[d]]))}
      BY <2>2 DEF BarRows
    <3> QED BY <3>1, <3>2, <3>3
  <2>4. \A c \in Claims \ {ClaimOf[d]} : BarRows(c)' = BarRows(c)
    BY <2>1, <2>2 DEF BarRows
  <2>5. \A e \in Dispatches : LetThrough(e)' <=> (LetThrough(e) \/ e = d)
    BY <1>1 DEF LetThrough
  <2>6. ASSUME NEW c \in Claims, NEW r \in BarRows(c)'
        PROVE  r \in Dispatches /\ ClaimOf[r] = c /\ LetThrough(r)'
    <3>1. r \in Dispatches /\ ClaimOf[r] = c /\ (LetThrough(r) \/ r = d)
      <4>1. CASE c = ClaimOf[d]
        <5>1. r \in BarRows(c) \/ r = d
          BY <2>3, <2>6, <4>1
        <5> QED BY <4>1, <5>1 DEF RowsAreGranted
      <4>2. CASE c # ClaimOf[d]
        <5>1. r \in BarRows(c)
          BY <2>4, <2>6, <4>2
        <5> QED BY <5>1 DEF RowsAreGranted
      <4> QED BY <4>1, <4>2
    <3> QED BY <2>5, <3>1
  <2> QED BY <2>6 DEF RowsAreGranted
<1>9. AtomicStep
  <2>1. verdictBar[d] = "pending" /\ verdictBar' = [verdictBar EXCEPT ![d] = "granted"]
    BY <1>1 DEF verdictBar
  <2>2. /\ \A c \in Claims : stashBar[c] = None
        /\ stashBar' = [stashBar EXCEPT ![ClaimOf[d]] = d]
    <3>1. stashBar = [c \in Claims |-> None] /\ stashBar' = stash
      BY <1>1 DEF stashBar
    <3>2. stash = [c \in Claims |-> IF c = ClaimOf[d] THEN d ELSE None]
      BY <1>1
    <3> QED BY <3>1, <3>2
  <2>3. anchorBar' = [anchorBar EXCEPT ![ClaimOf[d]] = Append(@, d)]
    <3>1. anchorBar' = anchor
      BY <1>1 DEF anchorBar
    <3>2. anchorBar = [anchor EXCEPT ![ClaimOf[d]] = DropLast(@)]
      BY <1>1 DEF anchorBar
    <3>3. anchor[ClaimOf[d]] = Append(DropLast(anchor[ClaimOf[d]]), d)
      BY <1>1, DropAppend
    <3> QED BY <3>1, <3>2, <3>3
  <2>4. \E tail \in {0, 1} :
          registerBar' = [registerBar EXCEPT ![ClaimOf[d]] = Atomic!Granted(@, tail)]
    <3>1. PICK tail \in {0, 1} :
            register[ClaimOf[d]] = Atomic!Granted(journal.before[ClaimOf[d]], tail)
      BY <1>1 DEF RegisterLanded
    <3>2. registerBar' = register /\ registerBar = journal.before
          /\ journal.before \in [Claims -> Entry]
      BY <1>1 DEF registerBar, Journal
    <3>3. registerBar' = [registerBar EXCEPT ![ClaimOf[d]] = Atomic!Granted(@, tail)]
      BY <1>1, <3>1, <3>2
    <3> QED BY <3>3
  <2>5. Atomic!Grant(d)
    BY <2>1, <2>2, <2>3, <2>4 DEF Atomic!Grant
  <2> QED BY <2>5 DEF AtomicStep, Atomic!Next
<1> QED
  BY CalmSerial, <1>2, <1>3, <1>4, <1>5, <1>6, <1>7, <1>8, <1>9
  DEF Next, ChainStep, Fault

(* CalmSubagentStop: the one worker stops and settles its own step: Stop.    *)
LEMMA CalmSubagentStop ==
  ASSUME Calm, CalmInv, NEW d \in Dispatches, SubagentStop(d)
  PROVE  CalmInv' /\ AtomicStep
<1> USE ConstantsAssumption, NoneIsNoIntent DEF CalmInv, SerialInv, AnyInv, TypeOK,
        CommitPhases, WindowPhases, OwnerPhases, ChainPhases, BudgetPhases, GatePhases, At
<1>1. /\ phase[d] = "running" /\ phase' = [phase EXCEPT ![d] = "stopped"]
      /\ journal = None
      /\ \A e \in Dispatches : phase[e] \notin ChainPhases /\ (phase[e] = "running" => e = d)
      /\ stash' = [c \in Claims |-> None]
      /\ stash = [c \in Claims |-> IF c = ClaimOf[d] THEN d ELSE None]
      /\ UNCHANGED <<register, anchor, journal, mem, undo>>
  <2>1. phase[d] = "running" /\ phase' = [phase EXCEPT ![d] = "stopped"]
    BY DEF SubagentStop, Goto
  <2>2. /\ journal = None
        /\ \A e \in Dispatches : phase[e] \notin ChainPhases /\ (phase[e] = "running" => e = d)
    BY <2>1 DEF RunnerIsAlone
  <2>3. \A c \in Claims : stash[c] = IF c = ClaimOf[d] THEN d ELSE None
    BY <2>1, <2>2 DEF StashLanded
  <2>4. Pending = {ClaimOf[d]}
    BY <2>3 DEF Pending
  <2>5. stash' = [stash EXCEPT ![ClaimOf[d]] = None]
    BY <2>4 DEF SubagentStop
  <2>6. stash' = [c \in Claims |-> None]
    BY <2>3, <2>5
  <2> QED BY <2>1, <2>2, <2>3, <2>6 DEF SubagentStop
<1>2. SlotOwned'
  BY <1>1 DEF Serial, SlotOwned
<1>3. RunnerIsAlone'
  BY <1>1 DEF SlotOwned, RunnerIsAlone
<1>4. MarksTrue'
  BY <1>1 DEF Serial, SlotOwned, MarksTrue, AppliedAt, Steps
<1>5. RegisterLanded'
  BY <1>1 DEF Serial, SlotOwned, MarksTrue, AppliedAt, RegisterLanded, Landed, RollingBack,
     JournalClaim, Steps
<1>6. AnchorLanded'
  BY <1>1 DEF Serial, SlotOwned, MarksTrue, AppliedAt, AnchorLanded, Landed, RollingBack,
     JournalClaim, Steps
<1>7. StashLanded'
  BY <1>1 DEF Serial, SlotOwned, MarksTrue, AppliedAt, StashLanded, Landed, RollingBack,
     JournalClaim, RunnerIsAlone, Steps
<1>8. anchorBar' = anchorBar /\ registerBar' = registerBar
  BY <1>1 DEF anchorBar, registerBar
<1>9. RowsAreGranted'
  BY <1>1, <1>8, SameGrants DEF LetThrough
<1>10. AtomicStep
  <2>1. verdictBar[d] = "granted" /\ verdictBar' = [verdictBar EXCEPT ![d] = "finished"]
    BY <1>1 DEF verdictBar
  <2>2. stashBar = stash /\ stashBar' = stash'
    BY <1>1 DEF stashBar
  <2>3. stash[ClaimOf[d]] = d /\ stash' = [stash EXCEPT ![ClaimOf[d]] = None]
    BY <1>1
  <2>4. Atomic!Stop(d)
    BY <1>8, <2>1, <2>2, <2>3 DEF Atomic!Stop
  <2> QED BY <2>4 DEF AtomicStep, Atomic!Next
<1> QED
  BY CalmSerial, <1>2, <1>3, <1>4, <1>5, <1>6, <1>7, <1>8, <1>9, <1>10
  DEF Next, ChainStep, Fault

(* CalmStoreApply: another store face moves a claim, with no intent open: Apply. *)
LEMMA CalmStoreApply ==
  ASSUME Calm, CalmInv, NEW c \in Claims, StoreApply(c)
  PROVE  CalmInv' /\ AtomicStep
<1> USE ConstantsAssumption, NoneIsNoIntent DEF CalmInv, SerialInv, AnyInv, TypeOK,
        CommitPhases, WindowPhases, OwnerPhases, ChainPhases, BudgetPhases, GatePhases, At
<1>1. /\ journal = None /\ journal' = None
      /\ \A e \in Claims : register'[e].count = register[e].count
      /\ \A e \in Claims : register'[e].status = "IN_PROGRESS" => register[e].status = "IN_PROGRESS"
      /\ UNCHANGED <<phase, anchor, stash, journal, mem, undo>>
  <2>1. journal = None /\ UNCHANGED <<phase, anchor, stash, journal, mem, undo>>
    BY DEF Calm, StoreApply, Met
  <2>2. PICK edge \in StoreEdges : register' = [register EXCEPT ![c].status = edge[2]]
    BY DEF StoreApply
  <2>3. edge[2] # "IN_PROGRESS"
    BY DEF StoreEdges
  <2>4. \A e \in Claims : register[e] \in Entry
    OBVIOUS
  <2> QED BY <2>1, <2>2, <2>3, <2>4 DEF Entry
<1>2. SlotOwned'
  BY <1>1 DEF Serial, SlotOwned
<1>3. RunnerIsAlone'
  BY <1>1 DEF SlotOwned, RunnerIsAlone
<1>4. MarksTrue'
  BY <1>1 DEF Serial, SlotOwned, MarksTrue, AppliedAt, Steps
<1>5. RegisterLanded'
  BY <1>1 DEF Serial, SlotOwned, MarksTrue, AppliedAt, RegisterLanded, Landed, RollingBack,
     JournalClaim, Steps
<1>6. AnchorLanded'
  BY <1>1 DEF Serial, SlotOwned, MarksTrue, AppliedAt, AnchorLanded, Landed, RollingBack,
     JournalClaim, Steps
<1>7. StashLanded'
  BY <1>1 DEF Serial, SlotOwned, MarksTrue, AppliedAt, StashLanded, Landed, RollingBack,
     JournalClaim, RunnerIsAlone, Steps
<1>8. RowsAreGranted'
  BY <1>1 DEF RowsAreGranted, BarRows, anchorBar, LetThrough
<1>9. AtomicStep
  <2>1. /\ registerBar = register /\ registerBar' = register'
        /\ anchorBar' = anchorBar /\ stashBar' = stashBar /\ verdictBar' = verdictBar
    BY <1>1 DEF registerBar, anchorBar, stashBar, verdictBar
  <2>2. PICK edge \in StoreEdges :
          /\ register[c].status = edge[1]
          /\ register' = [register EXCEPT ![c].status = edge[2]]
    BY DEF StoreApply
  <2>3. edge[1] # "SETTLED" /\ edge[2] \in {"OPEN", "IN_PROGRESS", "PARK", "SETTLED"}
    BY DEF StoreEdges
  <2>4. Atomic!Apply(c)
    BY <2>1, <2>2, <2>3 DEF Atomic!Apply
  <2> QED BY <2>4 DEF AtomicStep, Atomic!Next
<1> QED
  BY CalmSerial, <1>2, <1>3, <1>4, <1>5, <1>6, <1>7, <1>8, <1>9
  DEF Next, ChainStep, Fault

(* CalmStep: under calm conditions the other actions never fire. *)
LEMMA CalmStep ==
  ASSUME Calm, CalmInv, [Next]_vars
  PROVE  CalmInv' /\ AtomicStep
<1>1. ASSUME NEW d \in Dispatches, ChainStep(d) PROVE CalmInv' /\ AtomicStep
  <2>1. ~BeginInFlight(d)
    <3> SUFFICES ASSUME BeginInFlight(d) PROVE FALSE
      OBVIOUS
    <3>1. phase[d] = "admitted" /\ journal # None /\ journal \in Journal
          /\ phase[journal.id] \in BudgetPhases
      BY DEF CalmInv, SerialInv, AnyInv, TypeOK, BeginInFlight, PidAlive, At
    <3>2. journal.id = d
      BY <3>1 DEF CalmInv, SerialInv, Serial, ChainPhases, BudgetPhases, Journal
    <3> QED BY <3>1, <3>2 DEF CalmInv, SlotOwned, OwnerPhases, CommitPhases, WindowPhases
  <2> QED
    BY <1>1, <2>1, CalmBeginRecovers, CalmOpenIntent, CalmLoadIntent, CalmWriteAnchor,
       CalmMarkAnchor, CalmWriteStash, CalmMarkStash, CalmWriteRegister, CalmRefuseRegister,
       CalmMarkRegister, CalmFinish, CalmGateAllows, CalmConfirm, CalmGateRejects,
       CalmUndoRegister, CalmUndoStash, CalmUndoAnchor, CalmClearRecovered, CalmClearAborted
    DEF ChainStep
<1>2. ASSUME NEW d \in Dispatches, Fault(d) PROVE CalmInv' /\ AtomicStep
  <2>1. Crash(d)
    BY <1>2 DEF Calm, Fault, StepFault, GateUnresolved, HookTimeout, Met
  <2> QED BY <2>1, CalmCrash
<1>3. CASE UNCHANGED vars
  <2>1. SerialInv'
    BY CalmSerial
  <2>2. /\ SlotOwned' /\ RunnerIsAlone' /\ MarksTrue'
        /\ RegisterLanded' /\ AnchorLanded' /\ StashLanded'
    BY <1>3 DEF CalmInv, vars, SlotOwned, RunnerIsAlone, MarksTrue,
       RegisterLanded, AnchorLanded, StashLanded, Landed, RollingBack, JournalClaim, At, EndsWith
  <2>3. /\ anchorBar' = anchorBar /\ registerBar' = registerBar
        /\ stashBar' = stashBar /\ verdictBar' = verdictBar
    BY <1>3 DEF vars, anchorBar, registerBar, stashBar, verdictBar
  <2>4. RowsAreGranted'
    BY <1>3, <2>3, SameGrants DEF CalmInv, vars, LetThrough
  <2>5. AtomicStep
    BY <1>3, <2>3 DEF AtomicStep, Atomic!vars, vars
  <2> QED BY <2>1, <2>2, <2>4, <2>5 DEF CalmInv
<1> QED
  BY <1>1, <1>2, <1>3, CalmAdmit, CalmSubagentStop, CalmStoreApply DEF Next

(* CalmInit: every claim OPEN, no files, no chain: the invariant holds and   *)
(* the abstract system is in its initial state.                              *)
LEMMA CalmInit == Calm /\ Init => CalmInv /\ Atomic!Init
<1> SUFFICES ASSUME Calm, Init PROVE CalmInv /\ Atomic!Init
  OBVIOUS
<1> USE ConstantsAssumption DEF Init
<1>1. SerialInv
  BY SerialInvInit
<1>2. /\ SlotOwned /\ RunnerIsAlone /\ MarksTrue
      /\ RegisterLanded /\ AnchorLanded /\ StashLanded
  BY DEF SlotOwned, RunnerIsAlone, MarksTrue, RegisterLanded, AnchorLanded,
     StashLanded, At, OwnerPhases, CommitPhases, WindowPhases, ChainPhases, BudgetPhases, GatePhases
<1>3. /\ registerBar = register /\ anchorBar = anchor /\ stashBar = stash
      /\ verdictBar = [d \in Dispatches |-> "pending"]
  BY DEF registerBar, anchorBar, stashBar, verdictBar
<1>4. RowsAreGranted
  BY <1>3 DEF RowsAreGranted, BarRows, LetThrough
<1>5. Atomic!Init
  BY <1>3 DEF Atomic!Init
<1> QED BY <1>1, <1>2, <1>4, <1>5 DEF CalmInv

(* CalmAlways: the inductive invariant holds in every calm behaviour. *)
LEMMA CalmAlways == ASSUME Calm PROVE Spec => []CalmInv
<1>1. Init => CalmInv
  BY CalmInit
<1>2. CalmInv /\ [Next]_vars => CalmInv'
  BY CalmStep
<1> QED BY <1>1, <1>2, PTL DEF Spec

(* Refinement: under calm conditions the journalled steps, crashes and       *)
(* recoveries implement the atomic dispatch of AtomicDispatch.               *)
THEOREM Refinement == ASSUME Calm PROVE Spec => ImplementsAtomic
<1>1. Init => Atomic!Init
  BY CalmInit
<1>2. CalmInv /\ [Next]_vars => [Atomic!Next]_(Atomic!vars)
  BY CalmStep DEF AtomicStep
<1> QED BY <1>1, <1>2, CalmAlways, PTL DEF Spec, ImplementsAtomic, Atomic!Spec

(* ChainsAreSerial: so under calm conditions the chains keep the promise the *)
(* layers above rely on, one open step and one worker at a time, crashes and *)
(* recoveries included.                                                      *)
THEOREM ChainsAreSerial == ASSUME Calm PROVE Spec => Commits!ImplementsSerialSteps
<1>1. Commits!Sensible
  BY ConstantsAssumption DEF Commits!Sensible
<1>2. Commits!Spec => Commits!ImplementsSerialSteps
  BY <1>1, Commits!SerialRefinement
<1>3. Atomic!Init => Commits!Init
  BY DEF Atomic!Init, Commits!Init
<1>4. [Atomic!Next]_(Atomic!vars) => [Commits!Next]_(Commits!vars)
  BY DEF Atomic!Next, Atomic!Grant, Atomic!Granted, Atomic!Deny, Atomic!Stop, Atomic!Apply,
     Atomic!vars, Commits!Next, Commits!Grant, Commits!Granted, Commits!Deny, Commits!Stop,
     Commits!Apply, Commits!vars
<1> QED
  BY <1>2, <1>3, <1>4, Refinement, PTL
  DEF ImplementsAtomic, Atomic!Spec, Commits!Spec
=============================================================================
