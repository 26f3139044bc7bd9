----------------------- MODULE EditTransaction_proof -----------------------
(***************************************************************************)
(* Proofs about EditTransaction: types, that workspaces one of which lies  *)
(* in the other never edit together, and that, where the calls of a        *)
(* workspace exclude one another, an interrupted edit can be rolled back,  *)
(* edits are atomic, and what they report is so.                           *)
(***************************************************************************)
EXTENDS EditTransaction, TLAPS

Points ==
    Resting \union {"recover", "restoring", "admitted", "planned", "recording", "editing",
                    "prepared"}

FilesTyped == disk \in [Paths -> Contents] /\ record \in [Roots -> Records]

CallsTyped ==
    /\ pc \in [Editors -> Points]
    /\ goal \in [Editors -> {"preamble", "begin", "rollback"}]
    /\ next \in [Editors -> Nat]
    /\ \A e \in Editors : next[e] \in 1 .. Len(Edits[e]) + 1
    /\ snap = [e \in Editors |-> snap[e]]
    /\ \A e \in Editors : snap[e] \in [PathsOf(e) -> Contents]
    /\ todo \in [Editors -> SUBSET Paths]
    /\ report \in [Editors -> {"pending", "applied", "none", "unknown", "refused"}]

EnvTyped ==
    /\ outside \in [Roots -> SUBSET Paths]
    /\ crashes \in 0 .. MaxCrashes /\ meddling \in 0 .. MaxMeddling

(* What a call is in the middle of exists: the edit it prepared, and the   *)
(* entries it restores.                                                    *)
Within ==
    \A e \in Editors :
        /\ pc[e] = "prepared" => next[e] <= Len(Edits[e])
        /\ pc[e] = "restoring" => todo[e] \subseteq DOMAIN record[Root[e]].entries

Types == FilesTyped /\ CallsTyped /\ EnvTyped /\ Within

(* Of two calls, one at most is between two awaits. *)
Alone == \A e, f \in Editors : MidSegment(e) /\ MidSegment(f) => e = f
-----------------------------------------------------------------------------
(* The constants, and the records calls write.                             *)
LEMMA Elements ==
    ASSUME NEW S, NEW s \in Seq(S)
    PROVE  Len(s) \in Nat /\ \A i \in 1 .. Len(s) : s[i] \in S
OBVIOUS

LEMMA EditFacts ==
    ASSUME NEW e \in Editors
    PROVE  /\ Root[e] \in Roots /\ Len(Edits[e]) \in Nat /\ Len(Edits[e]) > 0
           /\ \A i \in 1 .. Len(Edits[e]) :
                 /\ Edits[e][i].path \in Paths /\ Edits[e][i].content \in Contents
                 /\ Edits[e][i].path \in PathsOf(e)
           /\ PathsOf(e) \subseteq Paths
<1>1. Edits[e] \in Seq([path : Paths, content : Contents]) /\ Root[e] \in Roots
      BY Assumptions DEF Assumptions
<1>2. Len(Edits[e]) \in Nat /\ Len(Edits[e]) > 0
      BY <1>1, Assumptions DEF Assumptions
<1>3. \A i \in 1 .. Len(Edits[e]) : Edits[e][i] \in [path : Paths, content : Contents]
      BY <1>1, Elements
<1>4. \A i \in 1 .. Len(Edits[e]) : Edits[e][i].path \in Paths /\ Edits[e][i].content \in Contents
      BY <1>3
<1>5. QED BY <1>1, <1>2, <1>4 DEF PathsOf

Entries == UNION {[D -> Entry] : D \in SUBSET Paths}

LEMMA RecordFacts ==
    ASSUME NEW rec \in Records
    PROVE  /\ rec.status \in Statuses
           /\ rec.entries \in Entries
           /\ DOMAIN rec.entries \subseteq Paths
           /\ \A p \in DOMAIN rec.entries : rec.entries[p] \in Entry
           /\ rec.entries \in [DOMAIN rec.entries -> Entry]
<1>1. rec.status \in Statuses /\ rec.entries \in Entries
      BY DEF Records, Entries
<1>2. PICK D \in SUBSET Paths : rec.entries \in [D -> Entry]
      BY <1>1 DEF Entries
<1>3. QED BY <1>1, <1>2

LEMMA MadeRecord ==
    ASSUME NEW st \in Statuses, NEW D \in SUBSET Paths, NEW f \in [D -> Entry]
    PROVE  [status |-> st, entries |-> f] \in Records
<1>1. f \in Entries
      BY DEF Entries
<1>2. QED BY <1>1 DEF Records, Entries

LEMMA NoRecordTyped == NoRecord \in Records
<1>1. <<>> \in [{} -> Entry]
      OBVIOUS
<1>2. "none" \in Statuses /\ {} \in SUBSET Paths
      BY DEF Statuses
<1>3. QED BY <1>1, <1>2, MadeRecord DEF NoRecord

LEMMA DecidedTyped ==
    ASSUME NEW rec \in Records, NEW st \in Statuses
    PROVE  Decided(rec, st) \in Records /\ Decided(rec, st).status = st
<1>1. DOMAIN rec.entries \in SUBSET Paths /\ rec.entries \in [DOMAIN rec.entries -> Entry]
      BY RecordFacts
<1>2. [status |-> st, entries |-> rec.entries] \in Records
      BY <1>1, MadeRecord
<1>3. QED BY <1>2 DEF Decided

LEMMA WrittenTyped ==
    ASSUME NEW e \in Editors
    PROVE  Written(e) \in [PathsOf(e) -> Contents]
<1>1. SUFFICES ASSUME NEW p \in PathsOf(e)
               PROVE  Edits[e][CHOOSE i \in 1 .. Len(Edits[e]) : Edits[e][i].path = p].content
                         \in Contents
      BY DEF Written
<1>2. PICK i \in 1 .. Len(Edits[e]) : Edits[e][i].path = p
      BY DEF PathsOf
<1>3. (CHOOSE j \in 1 .. Len(Edits[e]) : Edits[e][j].path = p) \in 1 .. Len(Edits[e])
      BY <1>2
<1>4. QED BY <1>3, EditFacts

LEMMA NewRecordTyped ==
    ASSUME CallsTyped, NEW e \in Editors
    PROVE  NewRecord(e) \in Records /\ NewRecord(e).status = "active"
<1>1. /\ snap[e] \in [PathsOf(e) -> Contents] /\ Written(e) \in [PathsOf(e) -> Contents]
      /\ PathsOf(e) \in SUBSET Paths
      BY WrittenTyped, EditFacts DEF CallsTyped
<1>2. ASSUME NEW p \in PathsOf(e)
      PROVE  [orig     |-> snap[e][p],
              expected |-> IF Kind[e] = "patch" THEN Written(e)[p] ELSE snap[e][p],
              previous |-> {}] \in Entry
      BY <1>1 DEF Entry
<1>3. [p \in PathsOf(e) |->
          [orig     |-> snap[e][p],
           expected |-> IF Kind[e] = "patch" THEN Written(e)[p] ELSE snap[e][p],
           previous |-> {}]] \in [PathsOf(e) -> Entry]
      BY <1>2
<1>4. "active" \in Statuses
      BY DEF Statuses
<1>5. QED BY <1>1, <1>3, <1>4, MadeRecord DEF NewRecord

LEMMA NotedTyped ==
    ASSUME NEW rec \in Records, NEW p \in DOMAIN rec.entries, NEW content \in Contents
    PROVE  /\ WithNoted(rec, p, content) \in Records
           /\ WithNoted(rec, p, content).status = rec.status
           /\ DOMAIN WithNoted(rec, p, content).entries = DOMAIN rec.entries
<1>1. /\ rec.status \in Statuses /\ DOMAIN rec.entries \in SUBSET Paths
      /\ rec.entries[p] \in Entry
      /\ rec.entries \in [DOMAIN rec.entries -> Entry]
      BY RecordFacts
<1>2. Noted(rec.entries[p], content) \in Entry
      BY <1>1 DEF Noted, Entry
<1>3. [rec.entries EXCEPT ![p] = Noted(rec.entries[p], content)] \in [DOMAIN rec.entries -> Entry]
      BY <1>1, <1>2
<1>4. QED BY <1>1, <1>3, MadeRecord DEF WithNoted
-----------------------------------------------------------------------------
(* How a call goes on.                                                     *)
Goals   == {"preamble", "begin", "rollback"}
Effects == {"applied", "none", "unknown", "refused"}

LEMMA FinishTyped ==
    ASSUME CallsTyped, NEW e \in Editors, NEW effect \in Effects, Finish(e, effect)
    PROVE  CallsTyped' /\ pc' = [pc EXCEPT ![e] = "done"]
<1>1. NoSnap(e) \in [PathsOf(e) -> Contents]
      BY Assumptions DEF Assumptions, NoSnap
<1>2. /\ pc' = [pc EXCEPT ![e] = "done"]
      /\ report' = [report EXCEPT ![e] = effect]
      /\ goal' = [goal EXCEPT ![e] = "preamble"]
      /\ next' = [next EXCEPT ![e] = 1]
      /\ snap' = [snap EXCEPT ![e] = NoSnap(e)]
      /\ todo' = [todo EXCEPT ![e] = {}]
      BY DEF Finish, GoTo
<1>3. pc' \in [Editors -> Points]
      BY <1>2 DEF CallsTyped, Points, Resting
<1>4. goal' \in [Editors -> {"preamble", "begin", "rollback"}]
      BY <1>2 DEF CallsTyped
<1>5. next' \in [Editors -> Nat] /\ \A f \in Editors : next'[f] \in 1 .. Len(Edits[f]) + 1
      BY <1>2, EditFacts DEF CallsTyped
<1>6. /\ snap' = [f \in Editors |-> snap'[f]]
      /\ \A f \in Editors : snap'[f] \in [PathsOf(f) -> Contents]
  <2>1. DOMAIN snap = Editors
        BY DEF CallsTyped
  <2>2. snap' = [f \in Editors |-> IF f = e THEN NoSnap(e) ELSE snap[f]]
        BY <1>2, <2>1
  <2>3. QED BY <1>1, <2>2 DEF CallsTyped
<1>7. todo' \in [Editors -> SUBSET Paths]
      BY <1>2 DEF CallsTyped
<1>8. report' \in [Editors -> {"pending", "applied", "none", "unknown", "refused"}]
      BY <1>2 DEF CallsTyped, Effects
<1>9. QED BY <1>2, <1>3, <1>4, <1>5, <1>6, <1>7, <1>8 DEF CallsTyped

(* The call goes on, and forgets and remembers nothing.                    *)
LEMMA GoOnTyped ==
    ASSUME CallsTyped, NEW e \in Editors, NEW at \in Points, pc' = [pc EXCEPT ![e] = at],
           goal' \in [Editors -> Goals], UNCHANGED <<next, snap, todo, report>>
    PROVE  CallsTyped'
<1>1. pc' \in [Editors -> Points]
      BY DEF CallsTyped
<1>2. QED BY <1>1 DEF CallsTyped, Goals

LEMMA StartRecoveryTyped ==
    ASSUME CallsTyped, NEW e \in Editors, NEW why \in Goals, StartRecovery(e, why)
    PROVE  /\ pc' = [pc EXCEPT ![e] = "recover"]
           /\ goal' \in [Editors -> Goals]
           /\ "recover" \in Points \ {"prepared", "restoring"}
BY DEF CallsTyped, StartRecovery, GoTo, Goals, Points

LEMMA RecoveryThrowsTyped ==
    ASSUME CallsTyped, NEW e \in Editors, RecoveryThrows(e)
    PROVE  CallsTyped' /\ pc' = [pc EXCEPT ![e] = "done"]
BY FinishTyped DEF RecoveryThrows, Effects

LEMMA RecoveryReturnsTyped ==
    ASSUME CallsTyped, NEW e \in Editors, NEW committed \in BOOLEAN,
           RecoveryReturns(e, committed)
    PROVE  CallsTyped' /\ \E at \in {"done", "recording", "admitted"} : pc' = [pc EXCEPT ![e] = at]
<1>1. CASE goal[e] = "rollback"
      BY <1>1, FinishTyped DEF RecoveryReturns, Effects
<1>2. CASE goal[e] # "rollback"
  <2>1. /\ pc' = [pc EXCEPT ![e] = IF goal[e] = "begin" THEN "recording" ELSE "admitted"]
        /\ UNCHANGED <<goal, next, snap, todo, report>>
        BY <1>2 DEF RecoveryReturns, GoTo
  <2>2. (IF goal[e] = "begin" THEN "recording" ELSE "admitted") \in Points
        BY DEF Points
  <2>3. goal' \in [Editors -> Goals]
        BY <2>1 DEF CallsTyped, Goals
  <2>4. QED BY <2>1, <2>2, <2>3, GoOnTyped
<1>3. QED BY <1>1, <1>2

LEMMA WriteTyped ==
    ASSUME EnvTyped, FilesTyped, NEW r \in Roots, NEW p \in Paths, NEW content \in Contents,
           Write(r, p, content)
    PROVE  EnvTyped' /\ disk' \in [Paths -> Contents]
<1>1. /\ disk' = [disk EXCEPT ![p] = content]
      /\ outside' = [q \in Roots |-> IF q = r THEN outside[q] ELSE outside[q] \union {p}]
      /\ UNCHANGED <<crashes, meddling>>
      BY DEF Write
<1>2. QED BY <1>1 DEF EnvTyped, FilesTyped

LEMMA RecordPut ==
    ASSUME FilesTyped, NEW r \in Roots, NEW rec \in Records, record' = [record EXCEPT ![r] = rec]
    PROVE  record' \in [Roots -> Records]
BY DEF FilesTyped

LEMMA CleanedUpTyped ==
    ASSUME FilesTyped, NEW r \in Roots, NEW st \in Statuses, CleanedUp(r, st)
    PROVE  record' \in [Roots -> Records]
<1>1. record[r] \in Records
      BY DEF FilesTyped
<1>2. QED BY <1>1, DecidedTyped, NoRecordTyped, RecordPut DEF CleanedUp

(* A call moves only when no other is between two awaits.                  *)
LEMMA OthersRest ==
    ASSUME pc \in [Editors -> Points], NEW e \in Editors, Turn(e), NEW at,
           pc' = [pc EXCEPT ![e] = at]
    PROVE  /\ pc'[e] = at
           /\ \A f \in Editors : f # e => pc'[f] = pc[f] /\ ~ MidSegment(f) /\ ~ MidSegment(f)'
           /\ Alone'
<1>1. pc'[e] = at /\ \A f \in Editors : f # e => pc'[f] = pc[f] /\ ~ MidSegment(f)
      BY DEF Turn
<1>2. \A f \in Editors : f # e => ~ MidSegment(f)'
      BY <1>1 DEF MidSegment
<1>3. QED BY <1>1, <1>2 DEF Alone

LEMMA StepTyped ==
    ASSUME Types, NEW e \in Editors, Turn(e), NEW at, pc' = [pc EXCEPT ![e] = at],
           at = "prepared" => next'[e] <= Len(Edits[e]),
           at = "restoring" => todo'[e] \subseteq DOMAIN record'[Root[e]].entries,
           FilesTyped', CallsTyped', EnvTyped'
    PROVE  Types' /\ Alone'
<1>1. /\ pc'[e] = at
      /\ \A f \in Editors : f # e => pc'[f] = pc[f] /\ ~ MidSegment(f)
      /\ Alone'
      BY OthersRest DEF Types, CallsTyped
<1>2. \A f \in Editors : f # e => pc'[f] # "prepared" /\ pc'[f] # "restoring"
      BY <1>1 DEF MidSegment
<1>3. Within'
      BY <1>1, <1>2 DEF Within
<1>4. QED BY <1>1, <1>3 DEF Types
-----------------------------------------------------------------------------
(* Recovery keeps the types.                                               *)
LEMMA RecoverTyped ==
    ASSUME Types, NEW e \in Editors, Recover(e)
    PROVE  Types' /\ Alone'
<1> USE DEF Types
<1>1. Turn(e) /\ UNCHANGED <<disk, outside, crashes, meddling>> /\ EnvTyped'
      BY DEF Recover, RecoverRefused, RecoverNothing, RecoverDecided, RecoverPlan, At, Keep, env,
             EnvTyped
<1>2. Root[e] \in Roots /\ record[Root[e]] \in Records
      BY EditFacts DEF FilesTyped
<1>3. CASE RecoverRefused(e)
  <2>1. CallsTyped' /\ pc' = [pc EXCEPT ![e] = "done"] /\ UNCHANGED record
        BY <1>3, RecoveryThrowsTyped DEF RecoverRefused
  <2>2. FilesTyped'
        BY <1>1, <2>1 DEF FilesTyped
  <2>3. QED BY <1>1, <2>1, <2>2, StepTyped
<1>4. CASE RecoverNothing(e) \/ RecoverDecided(e)
  <2>1. PICK committed \in BOOLEAN : RecoveryReturns(e, committed)
        BY <1>4 DEF RecoverNothing, RecoverDecided
  <2>2. UNCHANGED record \/ CleanedUp(Root[e], record[Root[e]].status)
        BY <1>4 DEF RecoverNothing, RecoverDecided
  <2>3. FilesTyped'
        BY <1>1, <1>2, <2>2, CleanedUpTyped, RecordFacts DEF FilesTyped
  <2>4. QED BY <1>1, <2>1, <2>3, RecoveryReturnsTyped, StepTyped
<1>5. CASE RecoverPlan(e)
  <2>1. /\ pc' = [pc EXCEPT ![e] = "restoring"]
        /\ todo' = [todo EXCEPT ![e] = DOMAIN record[Root[e]].entries]
        /\ UNCHANGED <<disk, record, goal, next, snap, report>>
        BY <1>5 DEF RecoverPlan, GoTo
  <2>2. "restoring" \in Points /\ DOMAIN record[Root[e]].entries \in SUBSET Paths
        BY <1>2, RecordFacts DEF Points
  <2>3. CallsTyped'
        BY <2>1, <2>2 DEF CallsTyped
  <2>4. todo'[e] = DOMAIN record'[Root[e]].entries
        BY <2>1 DEF CallsTyped
  <2>5. FilesTyped'
        BY <2>1 DEF FilesTyped
  <2>6. QED BY <1>1, <2>1, <2>3, <2>4, <2>5, StepTyped
<1>6. QED BY <1>3, <1>4, <1>5 DEF Recover

LEMMA RestoreEntryTyped ==
    ASSUME Types, NEW e \in Editors, NEW p \in Paths, RestoreEntry(e, p)
    PROVE  Types' /\ Alone'
<1> DEFINE entry == record[Root[e]].entries[p]
<1> USE DEF Types
<1>1. Turn(e) /\ pc[e] = "restoring" /\ p \in todo[e] /\ UNCHANGED record
      BY DEF RestoreEntry, At
<1>2. Root[e] \in Roots /\ record[Root[e]] \in Records
      BY EditFacts DEF FilesTyped
<1>3. p \in DOMAIN record[Root[e]].entries
      BY <1>1 DEF Within
<1>4. entry.orig \in Contents
      BY <1>2, <1>3, RecordFacts DEF Entry
<1>5. CASE /\ IF disk[p] = entry.orig THEN Keep ELSE Write(Root[e], p, entry.orig)
           /\ todo' = [todo EXCEPT ![e] = @ \ {p}]
           /\ UNCHANGED <<pc, goal, next, snap, report>>
  <2>1. EnvTyped' /\ FilesTyped'
    <3>1. CASE disk[p] = entry.orig
          BY <1>1, <1>5, <3>1 DEF Keep, env, EnvTyped, FilesTyped
    <3>2. CASE disk[p] # entry.orig
          BY <1>1, <1>2, <1>4, <1>5, <3>2, WriteTyped DEF FilesTyped
    <3>3. QED BY <3>1, <3>2
  <2>2. todo'[e] = todo[e] \ {p}
        BY <1>5 DEF CallsTyped
  <2>3. CallsTyped'
        BY <1>5 DEF CallsTyped
  <2>4. pc' = [pc EXCEPT ![e] = "restoring"]
        BY <1>1, <1>5 DEF CallsTyped
  <2>5. todo'[e] \subseteq DOMAIN record'[Root[e]].entries
        BY <1>1, <2>2 DEF Within
  <2>6. QED BY <1>1, <2>1, <2>3, <2>4, <2>5, StepTyped
<1>6. CASE RecoveryThrows(e) /\ Keep
  <2>1. CallsTyped' /\ pc' = [pc EXCEPT ![e] = "done"]
        BY <1>6, RecoveryThrowsTyped
  <2>2. EnvTyped' /\ FilesTyped'
        BY <1>1, <1>6 DEF Keep, env, EnvTyped, FilesTyped
  <2>3. QED BY <1>1, <2>1, <2>2, StepTyped
<1>7. QED BY <1>5, <1>6 DEF RestoreEntry

LEMMA RecoverDoneTyped ==
    ASSUME Types, NEW e \in Editors, RecoverDone(e)
    PROVE  Types' /\ Alone'
<1> USE DEF Types
<1>1. Turn(e) /\ UNCHANGED disk /\ EnvTyped'
      BY DEF RecoverDone, At, Keep, env, EnvTyped
<1>2. Root[e] \in Roots /\ record[Root[e]] \in Records /\ "rolled_back" \in Statuses
      BY EditFacts DEF FilesTyped, Statuses
<1>3. \/ CleanedUp(Root[e], "rolled_back") \/ UNCHANGED record
      \/ record' = [record EXCEPT ![Root[e]] = Decided(record[Root[e]], "rolled_back")]
      BY DEF RecoverDone
<1>4. FilesTyped'
      BY <1>1, <1>2, <1>3, CleanedUpTyped, DecidedTyped, RecordPut DEF FilesTyped
<1>5. RecoveryReturns(e, FALSE) \/ RecoveryThrows(e)
      BY DEF RecoverDone
<1>6. CallsTyped' /\ \E at \in {"done", "recording", "admitted"} : pc' = [pc EXCEPT ![e] = at]
      BY <1>5, RecoveryReturnsTyped, RecoveryThrowsTyped
<1>7. QED BY <1>1, <1>4, <1>6, StepTyped
-----------------------------------------------------------------------------
(* So do the steps of a call.                                              *)
LEMMA BeginTyped ==
    ASSUME Types, NEW e \in Editors,
           Enter(e) \/ BeginBatch(e) \/ PlanPatch(e) \/ BeginPatch(e) \/ Decline(e)
    PROVE  Types' /\ Alone'
<1> USE DEF Types
<1>1. Turn(e) /\ UNCHANGED <<disk, record>> /\ FilesTyped'
      BY DEF Enter, BeginBatch, PlanPatch, BeginPatch, Decline, At, Keep, FilesTyped
<1>2. EnvTyped'
  <2>1. UNCHANGED env \/ Took(e)
        BY DEF Enter, BeginBatch, PlanPatch, BeginPatch, Decline, Keep
  <2>2. CASE UNCHANGED env
        BY <2>2 DEF env, EnvTyped
  <2>3. CASE Took(e)
        BY <2>3 DEF Took, EnvTyped
  <2>4. QED BY <2>1, <2>2, <2>3
<1>3. CASE Enter(e) \/ BeginPatch(e)
  <2>1. (StartRecovery(e, "preamble") \/ StartRecovery(e, "begin"))
           /\ UNCHANGED <<next, snap, todo, report>>
        BY <1>3 DEF Enter, BeginPatch
  <2>2. PICK why \in Goals : StartRecovery(e, why)
        BY <2>1 DEF Goals
  <2>3. CallsTyped' /\ pc' = [pc EXCEPT ![e] = "recover"]
        BY <2>1, <2>2, StartRecoveryTyped, GoOnTyped
  <2>4. QED BY <1>1, <1>2, <2>3, StepTyped
<1>4. CASE Decline(e)
  <2>1. CallsTyped' /\ pc' = [pc EXCEPT ![e] = "done"]
        BY <1>4, FinishTyped DEF Decline, Effects
  <2>2. QED BY <1>1, <1>2, <2>1, StepTyped
<1>5. CASE BeginBatch(e) \/ PlanPatch(e)
  <2>1. /\ snap' = [snap EXCEPT ![e] = [p \in PathsOf(e) |-> disk[p]]]
        /\ UNCHANGED <<next, todo, report>>
        BY <1>5 DEF BeginBatch, PlanPatch, Took
  <2>2. [p \in PathsOf(e) |-> disk[p]] \in [PathsOf(e) -> Contents]
        BY EditFacts DEF FilesTyped
  <2>3. /\ snap' = [f \in Editors |-> snap'[f]]
        /\ \A f \in Editors : snap'[f] \in [PathsOf(f) -> Contents]
    <3>1. DOMAIN snap = Editors
          BY DEF CallsTyped
    <3>2. snap' = [f \in Editors |-> IF f = e THEN [p \in PathsOf(e) |-> disk[p]] ELSE snap[f]]
          BY <2>1, <3>1
    <3>3. QED BY <2>2, <3>2 DEF CallsTyped
  <2>4. PICK at \in {"recover", "planned"} :
            pc' = [pc EXCEPT ![e] = at] /\ goal' \in [Editors -> Goals]
    <3>1. CASE BeginBatch(e)
          BY <3>1, StartRecoveryTyped DEF BeginBatch, Goals
    <3>2. CASE PlanPatch(e)
          BY <3>2 DEF PlanPatch, GoTo, Goals, CallsTyped
    <3>3. QED BY <1>5, <3>1, <3>2
  <2>5. pc' \in [Editors -> Points]
        BY <2>4 DEF CallsTyped, Points
  <2>6. CallsTyped'
        BY <2>1, <2>3, <2>4, <2>5 DEF CallsTyped, Goals
  <2>7. QED BY <1>1, <1>2, <2>4, <2>6, StepTyped
<1>6. QED BY <1>3, <1>4, <1>5

LEMMA RecordTyped ==
    ASSUME Types, NEW e \in Editors, Record(e)
    PROVE  Types' /\ Alone'
<1> USE DEF Types
<1>1. Turn(e) /\ UNCHANGED disk /\ EnvTyped'
      BY DEF Record, At, Keep, env, EnvTyped
<1>2. UNCHANGED record \/ record' = [record EXCEPT ![Root[e]] = NewRecord(e)]
      BY DEF Record
<1>3. FilesTyped'
      BY <1>1, <1>2, NewRecordTyped, RecordPut, EditFacts DEF FilesTyped
<1>4. \/ pc' = [pc EXCEPT ![e] = "editing"] /\ UNCHANGED <<goal, next, snap, todo, report>>
      \/ Finish(e, "refused")
      BY DEF Record, GoTo
<1>5. "editing" \in Points /\ "refused" \in Effects /\ goal \in [Editors -> Goals]
      BY DEF Points, Effects, Goals, CallsTyped
<1>6. CallsTyped' /\ \E at \in {"editing", "done"} : pc' = [pc EXCEPT ![e] = at]
      BY <1>4, <1>5, FinishTyped, GoOnTyped
<1>7. QED BY <1>1, <1>3, <1>6, StepTyped

LEMMA FailTyped ==
    ASSUME CallsTyped, NEW e \in Editors, Fail(e)
    PROVE  CallsTyped' /\ pc' = [pc EXCEPT ![e] = "recover"]
<1>1. StartRecovery(e, "rollback") /\ UNCHANGED <<next, snap, todo, report>> /\ "rollback" \in Goals
      BY DEF Fail, Goals
<1>2. QED BY <1>1, StartRecoveryTyped, GoOnTyped

LEMMA WritePlainTyped ==
    ASSUME Types, NEW e \in Editors, WritePlain(e)
    PROVE  Types' /\ Alone'
<1> USE DEF Types
<1>1. Turn(e) /\ UNCHANGED record
      BY DEF WritePlain, At
<1>2. /\ Edits[e][1].path \in Paths /\ Edits[e][1].content \in Contents
      /\ Root[e] \in Roots
      BY EditFacts
<1>3. Write(Root[e], Edits[e][1].path, Edits[e][1].content) /\ Finish(e, "applied")
      BY DEF WritePlain
<1>4. EnvTyped' /\ FilesTyped'
      BY <1>1, <1>2, <1>3, WriteTyped DEF FilesTyped
<1>5. CallsTyped' /\ pc' = [pc EXCEPT ![e] = "done"]
      BY <1>3, FinishTyped DEF Effects
<1>6. QED BY <1>1, <1>4, <1>5, StepTyped

LEMMA PrepareTyped ==
    ASSUME Types, NEW e \in Editors, Prepare(e)
    PROVE  Types' /\ Alone'
<1> DEFINE r    == Root[e]
           edit == Edits[e][next[e]]
<1> USE DEF Types
<1>1. Turn(e) /\ UNCHANGED disk /\ EnvTyped' /\ next[e] <= Len(Edits[e])
      BY DEF Prepare, At, Keep, env, EnvTyped
<1>2. next[e] \in 1 .. Len(Edits[e])
      BY <1>1, EditFacts DEF CallsTyped
<1>3. edit.content \in Contents /\ r \in Roots /\ record[r] \in Records
      BY <1>2, EditFacts DEF FilesTyped
<1>4. \/ UNCHANGED record
      \/ /\ edit.path \in DOMAIN record[r].entries
         /\ record' = [record EXCEPT ![r] = WithNoted(record[r], edit.path, edit.content)]
      BY DEF Prepare
<1>5. FilesTyped'
      BY <1>1, <1>3, <1>4, NotedTyped, RecordPut DEF FilesTyped
<1>6. \/ pc' = [pc EXCEPT ![e] = "prepared"] /\ UNCHANGED <<goal, next, snap, todo, report>>
      \/ Fail(e)
      BY DEF Prepare, GoTo
<1>7. CASE pc' = [pc EXCEPT ![e] = "prepared"] /\ UNCHANGED <<goal, next, snap, todo, report>>
  <2>1. "prepared" \in Points /\ goal \in [Editors -> Goals]
        BY DEF Points, Goals, CallsTyped
  <2>2. CallsTyped'
        BY <1>7, <2>1, GoOnTyped
  <2>3. QED BY <1>1, <1>5, <1>7, <2>2, StepTyped
<1>8. CASE Fail(e)
      BY <1>1, <1>5, <1>8, FailTyped, StepTyped
<1>9. QED BY <1>6, <1>7, <1>8

LEMMA ApplyTyped ==
    ASSUME Types, NEW e \in Editors, ApplyBatch(e) \/ ApplyPatch(e)
    PROVE  Types' /\ Alone'
<1> DEFINE edit == Edits[e][next[e]]
<1> USE DEF Types
<1>1. Turn(e) /\ UNCHANGED record
      BY DEF ApplyBatch, ApplyPatch, At
<1>2. next[e] \in 1 .. Len(Edits[e])
      BY EditFacts DEF ApplyBatch, ApplyPatch, At, Within, CallsTyped
<1>3. edit.path \in Paths /\ edit.content \in Contents /\ Root[e] \in Roots
      BY <1>2, EditFacts
<1>4. Write(Root[e], edit.path, edit.content) \/ Keep
      BY DEF ApplyBatch, ApplyPatch
<1>5. FilesTyped' /\ EnvTyped'
  <2>1. CASE Write(Root[e], edit.path, edit.content)
        BY <1>1, <1>3, <2>1, WriteTyped DEF FilesTyped
  <2>2. CASE Keep
        BY <1>1, <2>2 DEF Keep, env, FilesTyped, EnvTyped
  <2>3. QED BY <1>4, <2>1, <2>2
<1>6. \/ Fail(e)
      \/ /\ pc' = [pc EXCEPT ![e] = "editing"]
         /\ next' = [next EXCEPT ![e] = next[e] + 1]
         /\ UNCHANGED <<goal, snap, todo, report>>
      BY DEF ApplyBatch, ApplyPatch, At, GoTo, CallsTyped
<1>7. CASE Fail(e)
      BY <1>1, <1>5, <1>7, FailTyped, StepTyped
<1>8. CASE /\ pc' = [pc EXCEPT ![e] = "editing"]
           /\ next' = [next EXCEPT ![e] = next[e] + 1]
           /\ UNCHANGED <<goal, snap, todo, report>>
  <2>1. next' \in [Editors -> Nat] /\ \A f \in Editors : next'[f] \in 1 .. Len(Edits[f]) + 1
        BY <1>2, <1>8, EditFacts DEF CallsTyped
  <2>2. pc' \in [Editors -> Points]
        BY <1>8 DEF CallsTyped, Points
  <2>3. CallsTyped'
        BY <1>8, <2>1, <2>2 DEF CallsTyped
  <2>4. QED BY <1>1, <1>5, <1>8, <2>3, StepTyped
<1>9. QED BY <1>6, <1>7, <1>8

LEMMA CompleteTyped ==
    ASSUME Types, NEW e \in Editors, Complete(e)
    PROVE  Types' /\ Alone'
<1> USE DEF Types
<1>1. Turn(e) /\ UNCHANGED disk /\ EnvTyped'
      BY DEF Complete, At, Keep, env, EnvTyped
<1>2. Root[e] \in Roots /\ record[Root[e]] \in Records /\ "committed" \in Statuses
      BY EditFacts DEF FilesTyped, Statuses
<1>3. \/ UNCHANGED record \/ CleanedUp(Root[e], "committed")
      \/ record' = [record EXCEPT ![Root[e]] = Decided(record[Root[e]], "committed")]
      BY DEF Complete
<1>4. FilesTyped'
      BY <1>1, <1>2, <1>3, CleanedUpTyped, DecidedTyped, RecordPut DEF FilesTyped
<1>5. Finish(e, "applied") \/ Fail(e)
      BY DEF Complete
<1>6. CallsTyped' /\ \E at \in {"done", "recover"} : pc' = [pc EXCEPT ![e] = at]
      BY <1>5, FinishTyped, FailTyped DEF Effects
<1>7. QED BY <1>1, <1>4, <1>6, StepTyped

LEMMA CrashTyped ==
    ASSUME Types, Crash
    PROVE  Types' /\ Alone'
<1> USE DEF Types
<1>1. /\ pc' = [e \in Editors |-> IF pc[e] = "done" THEN "done" ELSE "idle"]
      /\ goal' = [e \in Editors |-> "preamble"]
      /\ next' = [e \in Editors |-> 1]
      /\ snap' = [e \in Editors |-> NoSnap(e)]
      /\ todo' = [e \in Editors |-> {}]
      /\ UNCHANGED <<disk, record, report, outside, meddling>>
      BY DEF Crash
<1>2. \A e \in Editors : pc'[e] \in {"idle", "done"}
      BY <1>1
<1>3. Alone' /\ Within'
      BY <1>2 DEF Alone, Within, MidSegment
<1>4. FilesTyped'
      BY <1>1 DEF FilesTyped
<1>5. EnvTyped'
      BY <1>1, Assumptions DEF EnvTyped, Crash, Assumptions
<1>6. pc' \in [Editors -> Points]
      BY <1>1 DEF Points, Resting
<1>7. next' \in [Editors -> Nat] /\ \A f \in Editors : next'[f] \in 1 .. Len(Edits[f]) + 1
      BY <1>1, EditFacts
<1>8. \A f \in Editors : snap'[f] \in [PathsOf(f) -> Contents]
      BY <1>1, Assumptions DEF Assumptions, NoSnap
<1>9. snap' = [e \in Editors |-> snap'[e]]
      BY <1>1
<1>10. CallsTyped'
      BY <1>1, <1>6, <1>7, <1>8, <1>9 DEF CallsTyped
<1>11. QED BY <1>3, <1>4, <1>5, <1>10

LEMMA OutsiderTyped ==
    ASSUME Types, Alone, NEW p \in Paths, NEW content \in Contents, Outsider(p, content)
    PROVE  Types' /\ Alone'
<1> USE DEF Types
<1>1. /\ disk' = [disk EXCEPT ![p] = content]
      /\ outside' = [r \in Roots |-> outside[r] \union {p}]
      /\ UNCHANGED <<record, crashes, pc, goal, next, snap, todo, report>>
      BY DEF Outsider, call
<1>2. FilesTyped'
      BY <1>1 DEF FilesTyped
<1>3. EnvTyped'
      BY <1>1, Assumptions DEF EnvTyped, Outsider, Assumptions
<1>4. CallsTyped' /\ Within' /\ Alone'
      BY <1>1 DEF CallsTyped, Within, Alone, MidSegment
<1>5. QED BY <1>2, <1>3, <1>4
-----------------------------------------------------------------------------
LEMMA TypesInit == Init => Types /\ Alone
<1> SUFFICES ASSUME Init PROVE Types /\ Alone
    OBVIOUS
<1> USE DEF Init
<1>1. FilesTyped
      BY NoRecordTyped DEF FilesTyped
<1>2. EnvTyped
      BY Assumptions DEF EnvTyped, Assumptions
<1>3. next \in [Editors -> Nat] /\ \A f \in Editors : next[f] \in 1 .. Len(Edits[f]) + 1
      BY EditFacts
<1>4. \A f \in Editors : snap[f] \in [PathsOf(f) -> Contents]
      BY Assumptions DEF Assumptions, NoSnap
<1>5. CallsTyped
      BY <1>3, <1>4 DEF CallsTyped, Points, Resting
<1>6. Within /\ Alone
      BY DEF Within, Alone, MidSegment
<1>7. QED BY <1>1, <1>2, <1>5, <1>6 DEF Types

LEMMA TypesNext == Types /\ Alone /\ [Next]_vars => Types' /\ Alone'
<1> SUFFICES ASSUME Types, Alone, [Next]_vars PROVE Types' /\ Alone'
    OBVIOUS
<1>1. CASE UNCHANGED vars
      BY <1>1 DEF vars, Types, FilesTyped, CallsTyped, EnvTyped, Within, Alone, MidSegment
<1>2. ASSUME NEW e \in Editors, Recovery(e) PROVE Types' /\ Alone'
      BY <1>2, RecoverTyped, RestoreEntryTyped, RecoverDoneTyped DEF Recovery
<1>3. ASSUME NEW e \in Editors, Begin(e) PROVE Types' /\ Alone'
      BY <1>3, BeginTyped, RecordTyped DEF Begin
<1>4. ASSUME NEW e \in Editors, Edit(e) PROVE Types' /\ Alone'
      BY <1>4, WritePlainTyped, PrepareTyped, ApplyTyped, CompleteTyped DEF Edit
<1>5. QED BY <1>1, <1>2, <1>3, <1>4, CrashTyped, OutsiderTyped DEF Next

LEMMA TypesImply == Types => TypeOK
BY DEF Types, FilesTyped, CallsTyped, EnvTyped, Points, TypeOK

(* For any calls, workspaces and files, every variable keeps its type: no  *)
(* record names a file twice or outside the paths, and no call leaves the  *)
(* list of its edits.                                                      *)
THEOREM EditTypes == Spec => []TypeOK
<1>1. QED
      BY TypesInit, TypesNext, TypesImply, PTL DEF Spec
-----------------------------------------------------------------------------
(* What the recovery records guarantee: overlap and recoverability.        *)

(* A step of the call e, of any kind. *)
Step(e) == Recovery(e) \/ Begin(e) \/ Edit(e)

(* A step of e leaves the other calls alone. *)
Others(e) ==
    \A f \in Editors : f # e =>
        pc'[f] = pc[f] /\ goal'[f] = goal[f] /\ next'[f] = next[f] /\ snap'[f] = snap[f]

LEMMA FinishOthers ==
    ASSUME CallsTyped, NEW e \in Editors, NEW effect, Finish(e, effect)
    PROVE  Others(e)
BY DEF CallsTyped, Finish, GoTo, Others

LEMMA RecoveryOthers ==
    ASSUME CallsTyped, NEW e \in Editors
    PROVE  /\ RecoveryThrows(e) => Others(e)
           /\ \A committed : RecoveryReturns(e, committed) => Others(e)
<1>1. ASSUME RecoveryThrows(e) PROVE Others(e)
      BY <1>1, FinishOthers DEF RecoveryThrows
<1>2. ASSUME NEW committed, RecoveryReturns(e, committed) PROVE Others(e)
  <2>1. CASE goal[e] = "rollback"
        BY <1>2, <2>1, FinishOthers DEF RecoveryReturns
  <2>2. CASE goal[e] # "rollback"
        BY <1>2, <2>2 DEF RecoveryReturns, GoTo, CallsTyped, Others
  <2>3. QED BY <2>1, <2>2
<1>3. QED BY <1>1, <1>2

LEMMA StartOthers ==
    ASSUME CallsTyped, NEW e \in Editors, NEW why, StartRecovery(e, why), UNCHANGED <<next, snap>>
    PROVE  Others(e)
BY DEF CallsTyped, StartRecovery, GoTo, Others

LEMMA FailOthers ==
    ASSUME CallsTyped, NEW e \in Editors, Fail(e)
    PROVE  Others(e)
BY StartOthers DEF Fail

LEMMA StepOthers ==
    ASSUME Types, NEW e \in Editors, Step(e)
    PROVE  Others(e) /\ Turn(e) /\ (pc[e] \notin Resting \/ Enter(e))
<1> USE DEF Types
<1>1. CallsTyped
      OBVIOUS
<1>2. CASE Recover(e)
  <2>1. Turn(e) /\ pc[e] = "recover"
        BY <1>2 DEF Recover, RecoverRefused, RecoverNothing, RecoverDecided, RecoverPlan, At
  <2>2. CASE RecoverPlan(e)
        BY <2>1, <2>2 DEF RecoverPlan, GoTo, CallsTyped, Others, Resting
  <2>3. CASE ~ RecoverPlan(e)
    <3>1. RecoveryThrows(e) \/ \E committed : RecoveryReturns(e, committed)
          BY <1>2, <2>3 DEF Recover, RecoverRefused, RecoverNothing, RecoverDecided
    <3>2. QED BY <2>1, <3>1, RecoveryOthers DEF Resting
  <2>4. QED BY <2>2, <2>3
<1>3. CASE \E p \in Paths : RestoreEntry(e, p)
  <2>1. Turn(e) /\ pc[e] = "restoring"
        BY <1>3 DEF RestoreEntry, At
  <2>2. UNCHANGED <<pc, goal, next, snap>> \/ RecoveryThrows(e)
        BY <1>3 DEF RestoreEntry
  <2>3. QED BY <2>1, <2>2, RecoveryOthers DEF Others, Resting
<1>4. CASE RecoverDone(e)
  <2>1. Turn(e) /\ pc[e] = "restoring"
        BY <1>4 DEF RecoverDone, At
  <2>2. RecoveryThrows(e) \/ RecoveryReturns(e, FALSE)
        BY <1>4 DEF RecoverDone
  <2>3. QED BY <2>1, <2>2, RecoveryOthers DEF Resting
<1>5. CASE Enter(e) \/ BeginPatch(e)
  <2>1. Turn(e) /\ (Enter(e) \/ pc[e] = "planned")
        BY <1>5 DEF Enter, BeginPatch, At
  <2>2. (\E why : StartRecovery(e, why)) /\ UNCHANGED <<next, snap>>
        BY <1>5 DEF Enter, BeginPatch
  <2>3. QED BY <2>1, <2>2, StartOthers DEF Resting
<1>6. CASE BeginBatch(e) \/ PlanPatch(e)
      BY <1>6 DEF BeginBatch, PlanPatch, At, Took, StartRecovery, GoTo, CallsTyped, Others, Resting
<1>7. CASE Decline(e)
      BY <1>7, FinishOthers DEF Decline, At, Resting
<1>8. CASE Record(e)
  <2>1. Turn(e) /\ pc[e] = "recording"
        BY <1>8 DEF Record, At
  <2>2. (GoTo(e, "editing") /\ UNCHANGED <<goal, next, snap>>) \/ Finish(e, "refused")
        BY <1>8 DEF Record
  <2>3. QED BY <2>1, <2>2, FinishOthers DEF GoTo, CallsTyped, Others, Resting
<1>9. CASE WritePlain(e)
      BY <1>9, FinishOthers DEF WritePlain, At, Resting
<1>10. CASE Prepare(e) \/ ApplyBatch(e) \/ ApplyPatch(e)
  <2>1. Turn(e) /\ pc[e] \in {"editing", "prepared"}
        BY <1>10 DEF Prepare, ApplyBatch, ApplyPatch, At
  <2>2. \/ Fail(e)
        \/ /\ \E at : pc' = [pc EXCEPT ![e] = at]
           /\ UNCHANGED <<goal, next, snap>>
        \/ /\ UNCHANGED pc \/ GoTo(e, "editing")
           /\ next' = [next EXCEPT ![e] = next[e] + 1]
           /\ UNCHANGED <<goal, snap>>
        BY <1>10 DEF Prepare, ApplyBatch, ApplyPatch, GoTo, CallsTyped
  <2>3. QED BY <2>1, <2>2, FailOthers DEF GoTo, CallsTyped, Others, Resting
<1>11. CASE Complete(e)
  <2>1. Turn(e) /\ pc[e] = "editing"
        BY <1>11 DEF Complete, At
  <2>2. Finish(e, "applied") \/ Fail(e)
        BY <1>11 DEF Complete
  <2>3. QED BY <2>1, <2>2, FinishOthers, FailOthers DEF Resting
<1>12. QED
      BY <1>2, <1>3, <1>4, <1>5, <1>6, <1>7, <1>8, <1>9, <1>10, <1>11
      DEF Step, Recovery, Begin, Edit
-----------------------------------------------------------------------------
(* Of another workspace than its own, e leaves the record alone; what it   *)
(* writes there is a change from outside.                                  *)
Elsewhere(e) ==
    \A q \in Roots : q # Root[e] =>
        /\ record'[q] = record[q]
        /\ outside[q] \subseteq outside'[q]
        /\ \A p \in Paths : p \notin outside'[q] => disk'[p] = disk[p]

LEMMA StepRecords ==
    ASSUME Types, NEW e \in Editors, Step(e)
    PROVE  UNCHANGED record \/ \E rec : record' = [record EXCEPT ![Root[e]] = rec]
<1>1. ASSUME NEW st, CleanedUp(Root[e], st)
      PROVE  \E rec : record' = [record EXCEPT ![Root[e]] = rec]
      BY <1>1 DEF CleanedUp
<1>2. CASE Recovery(e)
      BY <1>1, <1>2 DEF Recovery, Recover, RecoverRefused, RecoverNothing, RecoverDecided,
                        RecoverPlan, RestoreEntry, RecoverDone
<1>3. CASE Begin(e)
      BY <1>3 DEF Begin, Enter, BeginBatch, PlanPatch, BeginPatch, Decline, Record
<1>4. CASE Edit(e)
      BY <1>1, <1>4 DEF Edit, WritePlain, Prepare, ApplyBatch, ApplyPatch, Complete
<1>5. QED BY <1>2, <1>3, <1>4 DEF Step

LEMMA StepFiles ==
    ASSUME Types, NEW e \in Editors, Step(e)
    PROVE  \/ UNCHANGED <<disk, outside>>
           \/ Took(e) /\ UNCHANGED disk
           \/ \E p \in Paths, content \in Contents : Write(Root[e], p, content)
<1> USE DEF Types
<1>1. Keep => UNCHANGED <<disk, outside>>
      BY DEF Keep, env
<1>2. CASE Recover(e) \/ RecoverDone(e)
      BY <1>1, <1>2 DEF Recover, RecoverRefused, RecoverNothing, RecoverDecided, RecoverPlan,
                        RecoverDone, env
<1>3. ASSUME NEW p \in Paths, RestoreEntry(e, p)
      PROVE  UNCHANGED <<disk, outside>> \/ \E content \in Contents : Write(Root[e], p, content)
  <2>1. p \in DOMAIN record[Root[e]].entries /\ record[Root[e]] \in Records
        BY <1>3, EditFacts DEF RestoreEntry, At, Within, FilesTyped
  <2>2. record[Root[e]].entries[p].orig \in Contents
        BY <2>1, RecordFacts DEF Entry
  <2>3. Keep \/ Write(Root[e], p, record[Root[e]].entries[p].orig)
        BY <1>3 DEF RestoreEntry
  <2>4. QED BY <1>1, <2>2, <2>3
<1>4. CASE Begin(e)
      BY <1>1, <1>4 DEF Begin, Enter, BeginBatch, PlanPatch, BeginPatch, Decline, Record, env
<1>5. CASE WritePlain(e)
      BY <1>5, EditFacts DEF WritePlain
<1>6. CASE Prepare(e) \/ Complete(e)
      BY <1>1, <1>6 DEF Prepare, Complete
<1>7. CASE ApplyBatch(e) \/ ApplyPatch(e)
  <2>1. next[e] \in 1 .. Len(Edits[e])
        BY <1>7, EditFacts DEF ApplyBatch, ApplyPatch, At, Within, CallsTyped
  <2>2. Edits[e][next[e]].path \in Paths /\ Edits[e][next[e]].content \in Contents
        BY <2>1, EditFacts
  <2>3. Keep \/ Write(Root[e], Edits[e][next[e]].path, Edits[e][next[e]].content)
        BY <1>7 DEF ApplyBatch, ApplyPatch
  <2>4. QED BY <1>1, <2>2, <2>3
<1>8. QED BY <1>2, <1>3, <1>4, <1>5, <1>6, <1>7 DEF Step, Recovery, Edit

LEMMA StepElsewhere ==
    ASSUME Types, NEW e \in Editors, Step(e)
    PROVE  Elsewhere(e)
<1>1. ASSUME NEW q \in Roots, q # Root[e] PROVE record'[q] = record[q]
      BY <1>1, StepRecords DEF Types, FilesTyped
<1>2. ASSUME NEW q \in Roots, q # Root[e]
      PROVE  /\ outside[q] \subseteq outside'[q]
             /\ \A p \in Paths : p \notin outside'[q] => disk'[p] = disk[p]
  <2>1. CASE UNCHANGED <<disk, outside>>
        BY <2>1
  <2>2. CASE Took(e) /\ UNCHANGED disk
        BY <1>2, <2>2 DEF Took, Types, EnvTyped
  <2>3. CASE \E p \in Paths, content \in Contents : Write(Root[e], p, content)
        BY <1>2, <2>3 DEF Write, Types, EnvTyped, FilesTyped
  <2>4. QED BY <2>1, <2>2, <2>3, StepFiles
<1>3. QED BY <1>1, <1>2 DEF Elsewhere
-----------------------------------------------------------------------------
(* Workspaces that contain one another.  A call that has passed the check  *)
(* has nobody in its way until it has written its record or ended.         *)
Clear ==
    \A e \in Editors : pc[e] \in {"restoring", "recording"} => ~ Overlapped(Root[e])

(* Only the step that writes the record makes a workspace active, and only *)
(* a call that has passed the check gets there.                            *)
LEMMA StepActivates ==
    ASSUME Types, Clear, NEW e \in Editors, Step(e)
    PROVE  /\ Active(Root[e])' => Active(Root[e]) \/ ~ Overlapped(Root[e])
           /\ pc'[e] \in {"restoring", "recording"} => ~ Overlapped(Root[e])
<1> DEFINE r == Root[e]
<1> USE DEF Types
<1>1. r \in Roots /\ record[r] \in Records
      BY EditFacts DEF FilesTyped
<1>2. ASSUME NEW st, st # "active", CleanedUp(r, st) PROVE ~ Active(r)'
      BY <1>1, <1>2 DEF CleanedUp, NoRecord, Decided, Active, FilesTyped
<1>3. ASSUME UNCHANGED record PROVE Active(r)' => Active(r)
      BY <1>3 DEF Active
<1>4. CASE Recover(e) /\ ~ Overlapped(r)
      BY <1>4
<1>5. CASE Recover(e) /\ Overlapped(r)
  <2>1. RecoverRefused(e)
        BY <1>5 DEF Recover, RecoverNothing, RecoverDecided, RecoverPlan
  <2>2. pc' = [pc EXCEPT ![e] = "done"] /\ UNCHANGED record
        BY <2>1, RecoveryThrowsTyped DEF RecoverRefused
  <2>3. QED BY <1>3, <2>2 DEF CallsTyped
<1>6. CASE RecoverDone(e) \/ \E p \in Paths : RestoreEntry(e, p)
      BY <1>6 DEF RecoverDone, RestoreEntry, At, Clear
<1>7. CASE Record(e)
      BY <1>7 DEF Record, At, Clear
<1>8. CASE Enter(e) \/ BeginBatch(e) \/ PlanPatch(e) \/ BeginPatch(e) \/ Decline(e)
  <2>1. UNCHANGED record
        BY <1>8 DEF Enter, BeginBatch, PlanPatch, BeginPatch, Decline
  <2>2. pc'[e] \in {"recover", "planned", "done"}
        BY <1>8 DEF Enter, BeginBatch, PlanPatch, BeginPatch, Decline, StartRecovery, GoTo, Finish,
                    CallsTyped
  <2>3. QED BY <1>3, <2>1, <2>2
<1>9. CASE Edit(e)
  <2>1. pc'[e] \in {"done", "prepared", "editing", "recover"}
        BY <1>9 DEF Edit, WritePlain, Prepare, ApplyBatch, ApplyPatch, Complete, Finish, Fail,
                    StartRecovery, GoTo, CallsTyped, At
  <2>2. Active(r)' => Active(r)
    <3>1. CASE WritePlain(e) \/ ApplyBatch(e) \/ ApplyPatch(e)
          BY <1>3, <3>1 DEF WritePlain, ApplyBatch, ApplyPatch
    <3>2. CASE Prepare(e)
      <4>1. \/ UNCHANGED record
            \/ Active(r)
            BY <3>2 DEF Prepare
      <4>2. QED BY <1>3, <4>1
    <3>3. CASE Complete(e)
      <4>1. \/ UNCHANGED record
            \/ CleanedUp(r, "committed")
            \/ record' = [record EXCEPT ![r] = Decided(record[r], "committed")]
            BY <3>3 DEF Complete
      <4>2. record' = [record EXCEPT ![r] = Decided(record[r], "committed")] => ~ Active(r)'
            BY <1>1 DEF Active, Decided, FilesTyped
      <4>3. QED BY <1>2, <1>3, <4>1, <4>2
    <3>4. QED BY <1>9, <3>1, <3>2, <3>3 DEF Edit
  <2>3. QED BY <2>1, <2>2
<1>10. QED
      BY <1>4, <1>5, <1>6, <1>7, <1>8, <1>9 DEF Step, Recovery, Begin

LEMMA StepKeepsApart ==
    ASSUME Types, Clear, NoOverlappingActive, NEW e \in Editors, Step(e)
    PROVE  Clear' /\ NoOverlappingActive'
<1>1. \A q \in Roots : q # Root[e] => record'[q] = record[q]
      BY StepElsewhere DEF Elsewhere
<1>2. \A q \in Roots : q # Root[e] => (Active(q)' <=> Active(q))
      BY <1>1 DEF Active
<1>3. Overlapped(Root[e])' <=> Overlapped(Root[e])
      BY <1>2 DEF Overlapped
<1>4. /\ Active(Root[e])' => Active(Root[e]) \/ ~ Overlapped(Root[e])
      /\ pc'[e] \in {"restoring", "recording"} => ~ Overlapped(Root[e])
      BY StepActivates
<1>5. Root[e] \in Roots
      BY EditFacts
<1>6. \A q, r \in Roots : <<q, r>> \in Overlaps => <<r, q>> \in Overlaps
      BY Assumptions DEF Assumptions
<1>7. NoOverlappingActive'
  <2>1. SUFFICES ASSUME NEW q \in Roots, NEW r \in Roots, q # r, <<q, r>> \in Overlaps,
                        Active(q)', Active(r)'
                 PROVE  FALSE
        BY DEF NoOverlappingActive
  <2>2. CASE Active(q) /\ Active(r)
        BY <2>1, <2>2 DEF NoOverlappingActive
  <2>3. CASE ~ Active(q)
        BY <1>2, <1>4, <1>6, <2>1, <2>3 DEF Overlapped
  <2>4. CASE ~ Active(r)
        BY <1>2, <1>4, <2>1, <2>4 DEF Overlapped
  <2>5. QED BY <2>2, <2>3, <2>4
<1>8. \A f \in Editors : f # e => pc'[f] \notin {"restoring", "recording"}
      BY StepOthers DEF Others, Turn, MidSegment
<1>9. Clear'
      BY <1>3, <1>4, <1>8 DEF Clear
<1>10. QED BY <1>7, <1>9

LEMMA ApartInit == Init => Clear /\ NoOverlappingActive
BY DEF Init, Clear, NoOverlappingActive, Active, NoRecord

LEMMA ApartNext ==
    Types /\ Clear /\ NoOverlappingActive /\ [Next]_vars => Clear' /\ NoOverlappingActive'
<1> SUFFICES ASSUME Types, Clear, NoOverlappingActive, [Next]_vars
             PROVE  Clear' /\ NoOverlappingActive'
    OBVIOUS
<1>1. ASSUME UNCHANGED record PROVE NoOverlappingActive' /\ \A r \in Roots : Overlapped(r)' <=> Overlapped(r)
      BY <1>1 DEF NoOverlappingActive, Active, Overlapped
<1>2. CASE UNCHANGED vars
      BY <1>1, <1>2, EditFacts DEF vars, Clear
<1>3. CASE Crash
  <2>1. UNCHANGED record /\ \A e \in Editors : pc'[e] \notin {"restoring", "recording"}
        BY <1>3 DEF Crash
  <2>2. QED BY <1>1, <2>1 DEF Clear
<1>4. ASSUME NEW p \in Paths, NEW content \in Contents, Outsider(p, content)
      PROVE  Clear' /\ NoOverlappingActive'
  <2>1. UNCHANGED <<record, pc>>
        BY <1>4 DEF Outsider, call
  <2>2. QED BY <1>1, <2>1, EditFacts DEF Clear
<1>5. ASSUME NEW e \in Editors, Step(e) PROVE Clear' /\ NoOverlappingActive'
      BY <1>5, StepKeepsApart
<1>6. QED BY <1>2, <1>3, <1>4, <1>5 DEF Next, Step

(* assertNoOverlappingTransaction: of two workspaces one of which lies in  *)
(* the other, at most one has an edit that is not decided, whatever        *)
(* crashes and whichever writes of records fail.                           *)
THEOREM OverlapExcluded == Spec => []NoOverlappingActive
<1>1. QED
      BY TypesInit, TypesNext, ApartInit, ApartNext, PTL DEF Spec
-----------------------------------------------------------------------------
(* Rolling back.  Between the end of a recovery and its record a call has  *)
(* no record; from its snapshot to its record its files are as it found    *)
(* them; and what it is about to write its record knows.                   *)
Beginning(e) == pc[e] = "recover" /\ goal[e] = "begin"

Standing(e) ==
    /\ Beginning(e) \/ pc[e] \in {"admitted", "planned", "recording"} => ~ Active(Root[e])
    /\ pc[e] = "restoring" => goal[e] # "begin"
    /\ Beginning(e) \/ pc[e] \in {"planned", "recording"} =>
          \A p \in PathsOf(e) \ outside[Root[e]] : disk[p] = snap[e][p]
    /\ pc[e] = "prepared" =>
          LET edit == Edits[e][next[e]]
          IN /\ Kind[e] # "patch"
             /\ edit.path \in DOMAIN record[Root[e]].entries
                => record[Root[e]].entries[edit.path].expected = edit.content
    /\ pc[e] = "editing" /\ Kind[e] = "patch" =>
          \A i \in 1 .. Len(Edits[e]) :
             Edits[e][i].path \in DOMAIN record[Root[e]].entries =>
                record[Root[e]].entries[Edits[e][i].path].expected = Edits[e][i].content

(* The calls of one workspace exclude one another. *)
Exclusive ==
    \A e, f \in Editors : e # f /\ Root[e] = Root[f] => pc[e] \in Resting \/ pc[f] \in Resting

RollsBack(r) ==
    Active(r) => \A p \in DOMAIN record[r].entries \ outside[r] :
                    Known(record[r].entries[p], disk[p])

LEMMA RestingStands ==
    ASSUME NEW e \in Editors, pc[e] \in Resting
    PROVE  Standing(e)
BY DEF Standing, Beginning, Resting

LEMMA OthersStand ==
    ASSUME Types, Shared = {}, Exclusive, \A f \in Editors : Standing(f),
           NEW e \in Editors, Step(e)
    PROVE  Exclusive' /\ \A f \in Editors : f # e => Standing(f)'
<1>1. /\ \A f \in Editors : f # e =>
            pc'[f] = pc[f] /\ goal'[f] = goal[f] /\ next'[f] = next[f] /\ snap'[f] = snap[f]
      /\ pc[e] \notin Resting \/ Enter(e)
      BY StepOthers DEF Others
<1>2. \A f \in Editors : f # e /\ Root[f] = Root[e] => pc[f] \in Resting
      BY <1>1 DEF Enter, MayEnter, Exclusive
<1>3. Exclusive'
      BY <1>1, <1>2 DEF Exclusive
<1>4. ASSUME NEW f \in Editors, f # e PROVE Standing(f)'
  <2>1. CASE Root[f] = Root[e]
    <3>1. pc'[f] \in Resting
          BY <1>1, <1>2, <1>4, <2>1
    <3>2. QED BY <3>1 DEF Standing, Beginning, Resting
  <2>2. CASE Root[f] # Root[e]
    <3>1. /\ Root[f] \in Roots /\ PathsOf(f) \subseteq Paths
          /\ record'[Root[f]] = record[Root[f]]
          /\ outside[Root[f]] \subseteq outside'[Root[f]]
          /\ \A p \in Paths : p \notin outside'[Root[f]] => disk'[p] = disk[p]
          BY <2>2, EditFacts, StepElsewhere DEF Elsewhere
    <3>2. pc'[f] = pc[f] /\ goal'[f] = goal[f] /\ next'[f] = next[f] /\ snap'[f] = snap[f]
          BY <1>1, <1>4
    <3>3. Beginning(f)' <=> Beginning(f)
          BY <3>2 DEF Beginning
    <3>4. Active(Root[f])' <=> Active(Root[f])
          BY <3>1 DEF Active
    <3>5. QED BY <3>1, <3>2, <3>3, <3>4 DEF Standing
  <2>3. QED BY <2>1, <2>2
<1>5. QED BY <1>3, <1>4

LEMMA OthersRollBack ==
    ASSUME Types, \A r \in Roots : RollsBack(r), NEW e \in Editors, Step(e)
    PROVE  \A r \in Roots : r # Root[e] => RollsBack(r)'
<1>1. SUFFICES ASSUME NEW r \in Roots, r # Root[e] PROVE RollsBack(r)'
      OBVIOUS
<1>2. /\ record'[r] = record[r]
      /\ outside[r] \subseteq outside'[r]
      /\ \A p \in Paths : p \notin outside'[r] => disk'[p] = disk[p]
      BY <1>1, StepElsewhere DEF Elsewhere
<1>3. DOMAIN record[r].entries \subseteq Paths
      BY RecordFacts DEF Types, FilesTyped
<1>4. QED BY <1>2, <1>3 DEF RollsBack, Active

(* Writing a content the record knows, or none. *)
LEMMA WriteRollsBack ==
    ASSUME Types, NEW r \in Roots, RollsBack(r), UNCHANGED record,
           NEW p \in Paths, NEW content \in Contents, Write(r, p, content),
           Active(r) /\ p \in DOMAIN record[r].entries => Known(record[r].entries[p], content)
    PROVE  RollsBack(r)'
<1>1. /\ outside'[r] = outside[r]
      /\ disk'[p] = content /\ \A q \in Paths : q # p => disk'[q] = disk[q]
      BY DEF Write, Types, EnvTyped, FilesTyped
<1>2. DOMAIN record[r].entries \subseteq Paths
      BY RecordFacts DEF Types, FilesTyped
<1>3. SUFFICES ASSUME Active(r), NEW q \in DOMAIN record[r].entries, q \notin outside[r]
               PROVE  Known(record[r].entries[q], disk'[q])
      BY <1>1 DEF RollsBack, Active, Known
<1>4. CASE q = p
      BY <1>1, <1>3, <1>4
<1>5. CASE q # p
      BY <1>1, <1>2, <1>3, <1>5 DEF RollsBack
<1>6. QED BY <1>4, <1>5

(* Nothing has changed that matters. *)
LEMMA SameRollsBack ==
    ASSUME NEW r, RollsBack(r), UNCHANGED <<disk, outside>>,
           UNCHANGED record \/ ~ Active(r)'
    PROVE  RollsBack(r)'
BY DEF RollsBack, Active, Known

LEMMA CleanedUpDecides ==
    ASSUME Types, NEW r \in Roots, NEW st, st # "active",
           \/ CleanedUp(r, st)
           \/ record' = [record EXCEPT ![r] = Decided(record[r], st)]
    PROVE  ~ Active(r)'
BY DEF CleanedUp, NoRecord, Decided, Active, Types, FilesTyped
-----------------------------------------------------------------------------
LEMMA FinishStands ==
    ASSUME Types, NEW e \in Editors, NEW effect, Finish(e, effect)
    PROVE  Standing(e)'
<1>1. pc'[e] = "done"
      BY DEF Finish, GoTo, Types, CallsTyped
<1>2. QED BY <1>1 DEF Standing, Beginning

LEMMA FailStands ==
    ASSUME Types, NEW e \in Editors, Fail(e)
    PROVE  Standing(e)'
<1>1. pc'[e] = "recover" /\ goal'[e] = "rollback"
      BY DEF Fail, StartRecovery, GoTo, Types, CallsTyped
<1>2. QED BY <1>1 DEF Standing, Beginning

(* A recovery that ends has left no active record. *)
LEMMA ReturnStands ==
    ASSUME Types, NEW e \in Editors, Standing(e), pc[e] \in {"recover", "restoring"},
           NEW committed, RecoveryReturns(e, committed), ~ Active(Root[e])',
           UNCHANGED <<disk, outside>>
    PROVE  Standing(e)'
<1>1. CASE goal[e] = "rollback"
      BY <1>1, FinishStands DEF RecoveryReturns
<1>2. CASE goal[e] = "begin"
  <2>1. pc'[e] = "recording" /\ UNCHANGED snap /\ pc[e] = "recover"
        BY <1>2 DEF RecoveryReturns, GoTo, Standing, Types, CallsTyped
  <2>2. \A p \in PathsOf(e) \ outside[Root[e]] : disk[p] = snap[e][p]
        BY <1>2, <2>1 DEF Standing, Beginning
  <2>3. QED BY <2>1, <2>2 DEF Standing, Beginning
<1>3. CASE goal[e] \notin {"rollback", "begin"}
  <2>1. pc'[e] = "admitted"
        BY <1>3 DEF RecoveryReturns, GoTo, Types, CallsTyped
  <2>2. QED BY <2>1 DEF Standing, Beginning
<1>4. QED BY <1>1, <1>2, <1>3

LEMMA RecoveryKeeps ==
    ASSUME Types, NEW e \in Editors, Standing(e), RollsBack(Root[e]), Recovery(e)
    PROVE  Standing(e)' /\ RollsBack(Root[e])'
<1> DEFINE r == Root[e]
<1> USE DEF Types
<1>1. r \in Roots /\ record[r] \in Records
      BY EditFacts DEF FilesTyped
<1>2. Keep => UNCHANGED <<disk, outside>>
      BY DEF Keep, env
<1>3. CASE RecoverRefused(e)
  <2>1. Standing(e)'
        BY <1>3, FinishStands DEF RecoverRefused, RecoveryThrows
  <2>2. QED BY <1>2, <1>3, <2>1, SameRollsBack DEF RecoverRefused
<1>4. CASE RecoverNothing(e)
  <2>1. pc[e] = "recover" /\ RecoveryReturns(e, FALSE) /\ UNCHANGED <<record, disk, outside>>
        BY <1>2, <1>4 DEF RecoverNothing, At
  <2>2. ~ Active(r)'
        BY <1>4, <2>1 DEF RecoverNothing, Active
  <2>3. QED BY <2>1, <2>2, ReturnStands, SameRollsBack
<1>5. CASE RecoverDecided(e)
  <2>1. /\ pc[e] = "recover" /\ UNCHANGED <<disk, outside>>
        /\ \E committed : RecoveryReturns(e, committed)
        BY <1>2, <1>5 DEF RecoverDecided, At
  <2>2. ~ Active(r)'
        BY <1>1, <1>5, CleanedUpDecides DEF RecoverDecided, Active
  <2>3. QED BY <2>1, <2>2, ReturnStands, SameRollsBack
<1>6. CASE RecoverPlan(e)
  <2>1. /\ pc[e] = "recover" /\ pc'[e] = "restoring" /\ Active(r)
        /\ UNCHANGED <<goal, record, disk, outside>>
        BY <1>6 DEF RecoverPlan, At, GoTo, CallsTyped, env
  <2>2. goal[e] # "begin"
        BY <2>1 DEF Standing, Beginning
  <2>3. Standing(e)'
        BY <2>1, <2>2 DEF Standing, Beginning
  <2>4. QED BY <2>1, <2>3, SameRollsBack
<1>7. ASSUME NEW p \in Paths, RestoreEntry(e, p) PROVE Standing(e)' /\ RollsBack(r)'
  <2>1. /\ pc[e] = "restoring" /\ UNCHANGED record
        /\ p \in DOMAIN record[r].entries
        BY <1>7 DEF RestoreEntry, At, Within
  <2>2. record[r].entries[p].orig \in Contents
        BY <1>1, <2>1, RecordFacts DEF Entry
  <2>3. Keep \/ Write(r, p, record[r].entries[p].orig)
        BY <1>7 DEF RestoreEntry
  <2>4. RollsBack(r)'
    <3>1. CASE Keep
          BY <1>2, <2>1, <3>1, SameRollsBack
    <3>2. CASE Write(r, p, record[r].entries[p].orig)
          BY <1>1, <2>1, <2>2, <3>2, WriteRollsBack DEF Known
    <3>3. QED BY <2>3, <3>1, <3>2
  <2>5. UNCHANGED <<pc, goal>> \/ RecoveryThrows(e)
        BY <1>7 DEF RestoreEntry
  <2>6. Standing(e)'
    <3>1. CASE UNCHANGED <<pc, goal>>
          BY <2>1, <3>1 DEF Standing, Beginning
    <3>2. CASE RecoveryThrows(e)
          BY <3>2, FinishStands DEF RecoveryThrows
    <3>3. QED BY <2>5, <3>1, <3>2
  <2>7. QED BY <2>4, <2>6
<1>8. CASE RecoverDone(e)
  <2>1. pc[e] = "restoring" /\ UNCHANGED <<disk, outside>>
        BY <1>2, <1>8 DEF RecoverDone, At
  <2>2. CASE CleanedUp(r, "rolled_back") /\ RecoveryReturns(e, FALSE)
    <3>1. ~ Active(r)'
          BY <1>1, <2>2, CleanedUpDecides
    <3>2. QED BY <2>1, <2>2, <3>1, ReturnStands, SameRollsBack
  <2>3. CASE /\ RecoveryThrows(e)
             /\ \/ UNCHANGED record
                \/ record' = [record EXCEPT ![r] = Decided(record[r], "rolled_back")]
    <3>1. Standing(e)'
          BY <2>3, FinishStands DEF RecoveryThrows
    <3>2. UNCHANGED record \/ ~ Active(r)'
          BY <1>1, <2>3, CleanedUpDecides
    <3>3. QED BY <2>1, <3>1, <3>2, SameRollsBack
  <2>4. QED BY <1>8, <2>2, <2>3 DEF RecoverDone
<1>9. QED BY <1>3, <1>4, <1>5, <1>6, <1>7, <1>8 DEF Recovery, Recover
-----------------------------------------------------------------------------
LEMMA BeginKeeps ==
    ASSUME Types, NEW e \in Editors, Standing(e), RollsBack(Root[e]),
           Enter(e) \/ BeginBatch(e) \/ PlanPatch(e) \/ BeginPatch(e) \/ Decline(e)
    PROVE  Standing(e)' /\ RollsBack(Root[e])'
<1> DEFINE r == Root[e]
<1> USE DEF Types
<1>1. r \in Roots
      BY EditFacts
<1>2. CASE Enter(e)
  <2>1. pc'[e] = "recover" /\ goal'[e] = "preamble" /\ UNCHANGED <<record, disk, outside>>
        BY <1>2 DEF Enter, StartRecovery, GoTo, CallsTyped, env
  <2>2. QED BY <2>1, SameRollsBack DEF Standing, Beginning
<1>3. CASE Decline(e)
  <2>1. Finish(e, "refused") /\ UNCHANGED <<record, disk, outside>>
        BY <1>3 DEF Decline, Keep, env
  <2>2. QED BY <2>1, FinishStands, SameRollsBack
<1>4. CASE BeginPatch(e)
  <2>1. /\ pc[e] = "planned" /\ pc'[e] = "recover"
        /\ UNCHANGED <<snap, record, disk, outside>>
        BY <1>4 DEF BeginPatch, At, StartRecovery, GoTo, CallsTyped, env
  <2>2. ~ Active(r)' /\ \A p \in PathsOf(e) \ outside[r] : disk[p] = snap[e][p]
        BY <2>1 DEF Standing, Active
  <2>3. QED BY <2>1, <2>2, SameRollsBack DEF Standing, Beginning
<1>5. CASE BeginBatch(e) \/ PlanPatch(e)
  <2>1. /\ pc[e] = "admitted" /\ pc'[e] \in {"recover", "planned"}
        /\ snap'[e] = [p \in PathsOf(e) |-> disk[p]]
        /\ UNCHANGED <<record, disk>>
        BY <1>5 DEF BeginBatch, PlanPatch, At, Took, StartRecovery, GoTo, CallsTyped
  <2>2. ~ Active(r)'
        BY <2>1 DEF Standing, Active
  <2>3. \A p \in PathsOf(e) : disk'[p] = snap'[e][p]
        BY <2>1
  <2>4. Standing(e)'
        BY <2>1, <2>2, <2>3 DEF Standing, Beginning
  <2>5. QED BY <2>2, <2>4 DEF RollsBack, Active
<1>6. QED BY <1>2, <1>3, <1>4, <1>5

(* A patch names each path once, so what it will write there is its edit.  *)
LEMMA PatchWritten ==
    ASSUME NEW e \in Editors, Kind[e] = "patch", NEW i \in 1 .. Len(Edits[e])
    PROVE  Written(e)[Edits[e][i].path] = Edits[e][i].content
<1> DEFINE p == Edits[e][i].path
           j == CHOOSE k \in 1 .. Len(Edits[e]) : Edits[e][k].path = p
<1>1. j \in 1 .. Len(Edits[e]) /\ Edits[e][j].path = p
      OBVIOUS
<1>2. j = i
      BY <1>1, Assumptions DEF Assumptions
<1>3. p \in PathsOf(e)
      BY EditFacts
<1>4. Written(e)[p] = Edits[e][j].content
      BY <1>3 DEF Written
<1>5. QED BY <1>2, <1>4

LEMMA RecordKeeps ==
    ASSUME Types, NEW e \in Editors, Standing(e), RollsBack(Root[e]), Record(e)
    PROVE  Standing(e)' /\ RollsBack(Root[e])'
<1> DEFINE r == Root[e]
<1> USE DEF Types
<1>1. /\ r \in Roots /\ pc[e] = "recording" /\ UNCHANGED <<disk, outside>>
      /\ \A p \in PathsOf(e) \ outside[r] : disk[p] = snap[e][p]
      BY EditFacts DEF Record, At, Keep, env, Standing
<1>2. ASSUME record' = [record EXCEPT ![r] = NewRecord(e)] PROVE RollsBack(r)'
  <2>1. record'[r] = NewRecord(e)
        BY <1>1, <1>2 DEF FilesTyped
  <2>2. /\ DOMAIN record'[r].entries = PathsOf(e)
        /\ \A p \in PathsOf(e) : record'[r].entries[p].orig = snap[e][p]
        BY <2>1 DEF NewRecord
  <2>3. QED BY <1>1, <2>2 DEF RollsBack, Known
<1>3. RollsBack(r)'
  <2>1. UNCHANGED record \/ record' = [record EXCEPT ![r] = NewRecord(e)]
        BY DEF Record
  <2>2. QED BY <1>1, <1>2, <2>1, SameRollsBack
<1>4. Finish(e, "refused") \/ (pc'[e] = "editing" /\ record' = [record EXCEPT ![r] = NewRecord(e)])
      BY DEF Record, GoTo, CallsTyped
<1>5. CASE Finish(e, "refused")
      BY <1>3, <1>5, FinishStands
<1>6. CASE pc'[e] = "editing" /\ record' = [record EXCEPT ![r] = NewRecord(e)]
  <2>1. record'[r] = NewRecord(e)
        BY <1>1, <1>6 DEF FilesTyped
  <2>2. ASSUME Kind[e] = "patch", NEW i \in 1 .. Len(Edits[e])
        PROVE  record'[r].entries[Edits[e][i].path].expected = Edits[e][i].content
    <3>1. Edits[e][i].path \in PathsOf(e)
          BY EditFacts
    <3>2. record'[r].entries[Edits[e][i].path].expected = Written(e)[Edits[e][i].path]
          BY <2>1, <2>2, <3>1 DEF NewRecord
    <3>3. QED BY <2>2, <3>2, PatchWritten
  <2>3. Standing(e)'
        BY <1>6, <2>2 DEF Standing, Beginning
  <2>4. QED BY <1>3, <2>3
<1>7. QED BY <1>4, <1>5, <1>6

LEMMA WritePlainKeeps ==
    ASSUME Types, NEW e \in Editors, Standing(e), RollsBack(Root[e]), WritePlain(e)
    PROVE  Standing(e)' /\ RollsBack(Root[e])'
<1>1. Finish(e, "applied") /\ UNCHANGED record /\ pc[e] = "admitted"
      BY DEF WritePlain, At
<1>2. ~ Active(Root[e])'
      BY <1>1 DEF Standing, Active
<1>3. QED BY <1>1, <1>2, FinishStands DEF RollsBack, Active

LEMMA NotedEntries ==
    ASSUME NEW rec \in Records, NEW path \in DOMAIN rec.entries, NEW content
    PROVE  /\ DOMAIN WithNoted(rec, path, content).entries = DOMAIN rec.entries
           /\ WithNoted(rec, path, content).entries[path].orig = rec.entries[path].orig
           /\ WithNoted(rec, path, content).entries[path].expected = content
           /\ WithNoted(rec, path, content).entries[path].previous
                 = rec.entries[path].previous \union {rec.entries[path].expected}
           /\ \A p \in DOMAIN rec.entries : p # path =>
                 WithNoted(rec, path, content).entries[p] = rec.entries[p]
<1> DEFINE new == Noted(rec.entries[path], content)
<1>1. rec.entries \in [DOMAIN rec.entries -> Entry] /\ rec.entries[path] \in Entry
      BY RecordFacts
<1>2. /\ new.orig = rec.entries[path].orig /\ new.expected = content
      /\ new.previous = rec.entries[path].previous \union {rec.entries[path].expected}
      BY <1>1 DEF Noted, Entry
<1>3. WithNoted(rec, path, content).entries = [rec.entries EXCEPT ![path] = new]
      BY DEF WithNoted
<1> HIDE DEF new
<1>4. /\ DOMAIN [rec.entries EXCEPT ![path] = new] = DOMAIN rec.entries
      /\ [rec.entries EXCEPT ![path] = new][path] = new
      /\ \A p \in DOMAIN rec.entries : p # path =>
            [rec.entries EXCEPT ![path] = new][p] = rec.entries[p]
      BY <1>1
<1>5. QED BY <1>2, <1>3, <1>4

LEMMA PrepareKeeps ==
    ASSUME Types, NEW e \in Editors, Standing(e), RollsBack(Root[e]), Prepare(e)
    PROVE  Standing(e)' /\ RollsBack(Root[e])'
<1> DEFINE r       == Root[e]
           path    == Edits[e][next[e]].path
           content == Edits[e][next[e]].content
           noted   == [record EXCEPT ![r] = WithNoted(record[r], path, content)]
<1> USE DEF Types
<1>1. r \in Roots /\ record[r] \in Records /\ UNCHANGED <<disk, outside>>
      BY EditFacts DEF FilesTyped, Prepare, Keep, env
<1>2. \/ Fail(e) /\ UNCHANGED record
      \/ /\ Active(r) /\ path \in DOMAIN record[r].entries
         /\ record' = noted
         /\ Kind[e] # "patch"
         /\ Fail(e) \/ (pc'[e] = "prepared" /\ UNCHANGED next)
      BY DEF Prepare, GoTo, CallsTyped
<1>3. CASE Fail(e) /\ UNCHANGED record
      BY <1>1, <1>3, FailStands, SameRollsBack
<1>4. CASE /\ Active(r) /\ path \in DOMAIN record[r].entries
           /\ record' = noted
           /\ Kind[e] # "patch"
           /\ Fail(e) \/ (pc'[e] = "prepared" /\ UNCHANGED next)
  <2>1. record'[r] = WithNoted(record[r], path, content)
        BY <1>1, <1>4 DEF FilesTyped
  <2>2. /\ DOMAIN record'[r].entries = DOMAIN record[r].entries
        /\ record'[r].entries[path].orig = record[r].entries[path].orig
        /\ record'[r].entries[path].expected = content
        /\ record'[r].entries[path].previous
              = record[r].entries[path].previous \union {record[r].entries[path].expected}
        /\ \A p \in DOMAIN record[r].entries : p # path =>
              record'[r].entries[p] = record[r].entries[p]
    <3> DEFINE old == record[r].entries
               new == WithNoted(record[r], path, content).entries
    <3>1. /\ DOMAIN new = DOMAIN old
          /\ new[path].orig = old[path].orig /\ new[path].expected = content
          /\ new[path].previous = old[path].previous \union {old[path].expected}
          /\ \A p \in DOMAIN old : p # path => new[p] = old[p]
      <4>1. record[r] \in Records /\ path \in DOMAIN record[r].entries
            BY <1>1, <1>4
      <4> HIDE DEF r, path, content
      <4>2. QED BY <4>1, NotedEntries
    <3>2. record'[r].entries = new
          BY <2>1
    <3> HIDE DEF new
    <3>3. QED BY <3>1, <3>2
  <2>5. RollsBack(r)'
    <3>1. SUFFICES ASSUME NEW p \in DOMAIN record[r].entries, p \notin outside[r]
                   PROVE  Known(record'[r].entries[p], disk[p])
          BY <1>1, <2>2 DEF RollsBack, Known
    <3>2. Known(record[r].entries[p], disk[p])
          BY <1>4, <3>1 DEF RollsBack
    <3>3. QED BY <2>2, <3>2 DEF Known
  <2>6. Standing(e)'
    <3>1. CASE Fail(e)
          BY <3>1, FailStands
    <3>2. CASE pc'[e] = "prepared" /\ UNCHANGED next
          BY <1>4, <2>2, <3>2 DEF Standing, Beginning
    <3>3. QED BY <1>4, <3>1, <3>2
  <2>7. QED BY <2>5, <2>6
<1>5. QED BY <1>2, <1>3, <1>4

LEMMA ApplyKeeps ==
    ASSUME Types, NEW e \in Editors, Standing(e), RollsBack(Root[e]),
           ApplyBatch(e) \/ ApplyPatch(e)
    PROVE  Standing(e)' /\ RollsBack(Root[e])'
<1> DEFINE r       == Root[e]
           path    == Edits[e][next[e]].path
           content == Edits[e][next[e]].content
<1> USE DEF Types
<1>1. UNCHANGED record /\ next[e] \in 1 .. Len(Edits[e])
      BY EditFacts DEF ApplyBatch, ApplyPatch, At, Within, CallsTyped
<1>2. r \in Roots /\ path \in Paths /\ content \in Contents
      BY <1>1, EditFacts
<1>3. path \in DOMAIN record[r].entries => Known(record[r].entries[path], content)
      BY <1>1 DEF ApplyBatch, ApplyPatch, At, Standing, Known
<1>4. RollsBack(r)'
  <2>1. Keep \/ Write(r, path, content)
        BY DEF ApplyBatch, ApplyPatch
  <2>2. CASE Keep
        BY <1>1, <2>2, SameRollsBack DEF Keep, env
  <2>3. CASE Write(r, path, content)
        BY <1>1, <1>2, <1>3, <2>3, WriteRollsBack
  <2>4. QED BY <2>1, <2>2, <2>3
<1>5. \/ Fail(e)
      \/ pc'[e] = "editing" /\ (Kind[e] = "patch" => pc[e] = "editing" \/ pc[e] = "prepared")
      BY DEF ApplyBatch, ApplyPatch, At, GoTo, CallsTyped
<1>6. Standing(e)'
  <2>1. CASE Fail(e)
        BY <2>1, FailStands
  <2>2. CASE ApplyPatch(e) /\ UNCHANGED pc
        BY <1>1, <2>2 DEF ApplyPatch, At, Standing, Beginning
  <2>3. CASE ApplyBatch(e) /\ pc'[e] = "editing"
        BY <1>1, <2>3 DEF ApplyBatch, At, Standing, Beginning
  <2>4. QED BY <1>5, <2>1, <2>2, <2>3 DEF ApplyPatch
<1>7. QED BY <1>4, <1>6

LEMMA CompleteKeeps ==
    ASSUME Types, NEW e \in Editors, Standing(e), RollsBack(Root[e]), Complete(e)
    PROVE  Standing(e)' /\ RollsBack(Root[e])'
<1>1. Root[e] \in Roots /\ UNCHANGED <<disk, outside>>
      BY EditFacts DEF Complete, Keep, env
<1>2. \/ UNCHANGED record \/ CleanedUp(Root[e], "committed")
      \/ record' = [record EXCEPT ![Root[e]] = Decided(record[Root[e]], "committed")]
      BY DEF Complete
<1>3. RollsBack(Root[e])'
      BY <1>1, <1>2, CleanedUpDecides, SameRollsBack
<1>4. Finish(e, "applied") \/ Fail(e)
      BY DEF Complete
<1>5. QED BY <1>3, <1>4, FinishStands, FailStands
-----------------------------------------------------------------------------
RInv == Exclusive /\ (\A e \in Editors : Standing(e)) /\ (\A r \in Roots : RollsBack(r))

LEMMA StepRolls ==
    ASSUME Types, Shared = {}, RInv, NEW e \in Editors, Step(e)
    PROVE  RInv'
<1>1. Root[e] \in Roots /\ Standing(e) /\ RollsBack(Root[e])
      BY EditFacts DEF RInv
<1>2. Standing(e)' /\ RollsBack(Root[e])'
      BY <1>1, RecoveryKeeps, BeginKeeps, RecordKeeps, WritePlainKeeps, PrepareKeeps, ApplyKeeps,
         CompleteKeeps DEF Step, Begin, Edit
<1>3. Exclusive' /\ \A f \in Editors : f # e => Standing(f)'
      BY OthersStand DEF RInv
<1>4. \A r \in Roots : r # Root[e] => RollsBack(r)'
      BY OthersRollBack DEF RInv
<1>5. QED BY <1>2, <1>3, <1>4 DEF RInv

LEMMA CrashRolls ==
    ASSUME RInv, Crash
    PROVE  RInv'
<1>1. /\ \A e \in Editors : pc'[e] \in Resting
      /\ UNCHANGED <<disk, record, outside>>
      BY DEF Crash, Resting
<1>2. \A e \in Editors : Standing(e)'
      BY <1>1 DEF Standing, Beginning, Resting
<1>3. QED BY <1>1, <1>2, SameRollsBack DEF RInv, Exclusive

LEMMA OutsiderRolls ==
    ASSUME Types, RInv, NEW p \in Paths, NEW content \in Contents, Outsider(p, content)
    PROVE  RInv'
<1>1. /\ \A q \in Paths : q # p => disk'[q] = disk[q]
      /\ \A r \in Roots : outside'[r] = outside[r] \union {p}
      /\ UNCHANGED <<record, pc, goal, next, snap>>
      BY DEF Outsider, call, Types, FilesTyped
<1>2. \A e \in Editors : Root[e] \in Roots /\ PathsOf(e) \subseteq Paths
      BY EditFacts
<1>3. ASSUME NEW e \in Editors PROVE Standing(e)'
  <2>1. Standing(e) /\ (Beginning(e)' <=> Beginning(e)) /\ (Active(Root[e])' <=> Active(Root[e]))
        BY <1>1 DEF RInv, Beginning, Active
  <2>2. QED BY <1>1, <1>2, <2>1 DEF Standing
<1>4. \A r \in Roots : DOMAIN record[r].entries \subseteq Paths
      BY RecordFacts DEF Types, FilesTyped
<1>5. \A r \in Roots : RollsBack(r)'
      BY <1>1, <1>4 DEF RInv, RollsBack, Active, Known
<1>6. QED BY <1>1, <1>3, <1>5 DEF RInv, Exclusive

LEMMA RollsInit == Init => RInv
BY RestingStands DEF Init, RInv, Exclusive, Resting, RollsBack, Active, NoRecord

LEMMA RollsNext == Shared = {} /\ Types /\ RInv /\ [Next]_vars => RInv'
<1> SUFFICES ASSUME Shared = {}, Types, RInv, [Next]_vars PROVE RInv'
    OBVIOUS
<1>1. CASE UNCHANGED vars
      BY <1>1 DEF vars, RInv, Exclusive, Standing, Beginning, RollsBack, Active, Known
<1>2. ASSUME NEW e \in Editors, Step(e) PROVE RInv'
      BY <1>2, StepRolls
<1>3. QED BY <1>1, <1>2, CrashRolls, OutsiderRolls DEF Next, Step

LEMMA RollsImply == RInv => Recoverable
BY DEF RInv, RollsBack, Recoverable

(* Where the queue lets one call at a time into a workspace, an interrupted *)
(* edit can always be rolled back (assertRecoverableState does not refuse   *)
(* it for anything the edit itself did): its record knows the content of    *)
(* each of its files that nobody else changed, after any failed write and   *)
(* any number of crashes.                                                   *)
THEOREM EditsRecoverable == ASSUME Shared = {} PROVE Spec => []Recoverable
<1>1. QED
      BY TypesInit, TypesNext, RollsInit, RollsNext, RollsImply, PTL DEF Spec
-----------------------------------------------------------------------------
LEMMA RestoresKnown ==
    ASSUME Types, [Next]_vars, NEW e \in Editors, NEW p \in Paths,
           pc[e] = "restoring", meddling' = meddling, disk'[p] # disk[p]
    PROVE  Known(record[Root[e]].entries[p], disk[p])
<1>1. ~ (UNCHANGED vars) /\ ~ Crash
      BY DEF vars, Crash
<1>2. \A q \in Paths, content \in Contents : ~ Outsider(q, content)
      BY DEF Outsider, Types, EnvTyped
<1>3. PICK f \in Editors : Step(f)
      BY <1>1, <1>2 DEF Next, Step
<1>4. f = e
      BY <1>3, StepOthers DEF Turn, MidSegment
<1>5. ~ Begin(e) /\ ~ Edit(e) /\ ~ Recover(e) /\ ~ RecoverDone(e)
      BY DEF Begin, Enter, BeginBatch, PlanPatch, BeginPatch, Decline, Record, Edit, WritePlain,
             Prepare, ApplyBatch, ApplyPatch, Complete, Recover, RecoverRefused, RecoverNothing,
             RecoverDecided, RecoverPlan, RecoverDone, At, Keep
<1>6. PICK q \in Paths : RestoreEntry(e, q)
      BY <1>3, <1>4, <1>5 DEF Step, Recovery
<1>7. ~ Keep
      BY DEF Keep
<1>8. /\ Known(record[Root[e]].entries[q], disk[q])
      /\ Write(Root[e], q, record[Root[e]].entries[q].orig)
      BY <1>6, <1>7 DEF RestoreEntry
<1>9. q = p
      BY <1>8 DEF Write, Types, FilesTyped
<1>10. QED BY <1>8, <1>9

(* Restoring replaces only what the edit, or its record, put there, though *)
(* other programs may change a file between the check and the restore: it  *)
(* is checked again in the step that writes.                               *)
THEOREM RestoresOwn == Spec => RollbackKeepsOthers
<1>1. Types /\ [Next]_vars =>
        [\A e \in Editors, p \in Paths :
            pc[e] = "restoring" /\ meddling' = meddling /\ disk'[p] # disk[p] =>
               Known(record[Root[e]].entries[p], disk[p])]_vars
      BY RestoresKnown
<1>2. QED
      BY <1>1, TypesInit, TypesNext, PTL DEF Spec, RollbackKeepsOthers
-----------------------------------------------------------------------------
(* What calls report.  Between its record and its decision a call is alone *)
(* with its record, and knows how far it has come.                         *)
Unfinished(e) == pc[e] \in {"editing", "prepared"}

Backing(e) == goal[e] = "rollback" /\ pc[e] \in {"recover", "restoring"}

(* The record of e's workspace is the one e wrote. *)
Mine(e) ==
    LET entries == record[Root[e]].entries
    IN DOMAIN entries = PathsOf(e) /\ \A p \in PathsOf(e) : entries[p].orig = snap[e][p]

(* content is what p holds when the edits before the n-th are done. *)
Reached(e, n, p, content) ==
    \/ \E i \in 1 .. Len(Edits[e]) :
          /\ i < n /\ Edits[e][i].path = p /\ Edits[e][i].content = content
          /\ \A j \in 1 .. Len(Edits[e]) : i < j /\ j < n => Edits[e][j].path # p
    \/ /\ content = snap[e][p]
       /\ \A i \in 1 .. Len(Edits[e]) : i < n => Edits[e][i].path # p

(* In its edits a call has its record, and its files are as far as it is;  *)
(* when it rolls back the record is still its own; what a recovery is done *)
(* with holds its original content.                                        *)
Doing(e) ==
    /\ Unfinished(e) =>
         /\ Active(Root[e]) /\ Mine(e)
         /\ \A p \in PathsOf(e) \ outside[Root[e]] : Reached(e, next[e], p, disk[p])
    /\ Backing(e) => Mine(e) /\ record[Root[e]].status \in {"active", "committed"}
    /\ pc[e] = "restoring" =>
         /\ Active(Root[e])
         /\ \A p \in DOMAIN record[Root[e]].entries \ todo[e] :
               p \notin outside[Root[e]] => disk[p] = record[Root[e]].entries[p].orig
    /\ Unfinished(e) \/ Backing(e) \/ next[e] = 1

(* An active record has the files of a call of its workspace. *)
Owned(r) ==
    Active(r) => \E e \in Editors : Root[e] = r /\ DOMAIN record[r].entries = PathsOf(e)

DInv == (\A e \in Editors : Doing(e)) /\ (\A r \in Roots : Owned(r))

LEMMA QuietDoes ==
    ASSUME NEW e \in Editors, next'[e] = 1,
           \/ pc'[e] \in {"idle", "done", "admitted", "planned", "recording"}
           \/ pc'[e] = "recover" /\ goal'[e] # "rollback"
    PROVE  Doing(e)'
BY DEF Doing, Unfinished, Backing

LEMMA FinishDoes ==
    ASSUME Types, NEW e \in Editors, NEW effect, Finish(e, effect)
    PROVE  Doing(e)'
<1>1. pc'[e] = "done" /\ next'[e] = 1
      BY DEF Finish, GoTo, Types, CallsTyped
<1>2. QED BY <1>1, QuietDoes

LEMMA FailDoes ==
    ASSUME Types, NEW e \in Editors, Fail(e),
           Mine(e)', record'[Root[e]].status \in {"active", "committed"}
    PROVE  Doing(e)'
<1>1. pc'[e] = "recover" /\ goal'[e] = "rollback"
      BY DEF Fail, StartRecovery, GoTo, Types, CallsTyped
<1>2. QED BY <1>1 DEF Doing, Unfinished, Backing

LEMMA SameOwned ==
    ASSUME NEW r, Owned(r), record'[r] = record[r] \/ ~ Active(r)'
    PROVE  Owned(r)'
BY DEF Owned, Active

LEMMA ReturnDoes ==
    ASSUME Types, NEW e \in Editors, Doing(e), pc[e] \in {"recover", "restoring"},
           NEW committed, RecoveryReturns(e, committed)
    PROVE  Doing(e)'
<1>1. CASE goal[e] = "rollback"
      BY <1>1, FinishDoes DEF RecoveryReturns
<1>2. CASE goal[e] # "rollback"
  <2>1. next[e] = 1
        BY <1>2 DEF Doing, Unfinished, Backing
  <2>2. pc'[e] \in {"recording", "admitted"} /\ next'[e] = 1
        BY <1>2, <2>1 DEF RecoveryReturns, GoTo, Types, CallsTyped
  <2>3. QED BY <2>2, QuietDoes
<1>3. QED BY <1>1, <1>2

(* An entry is restored. *)
LEMMA RestoreDoes ==
    ASSUME Types, NEW e \in Editors, Doing(e), NEW p \in Paths, RestoreEntry(e, p),
           ~ RecoveryThrows(e)
    PROVE  Doing(e)'
<1> DEFINE r == Root[e]
           orig == record[r].entries[p].orig
<1> USE DEF Types
<1>1. /\ pc[e] = "restoring" /\ pc'[e] = "restoring" /\ UNCHANGED <<record, goal, next, snap>>
      /\ p \in DOMAIN record[r].entries
      /\ todo'[e] = todo[e] \ {p}
      /\ IF disk[p] = orig THEN Keep ELSE Write(r, p, orig)
      BY DEF RestoreEntry, At, Within, CallsTyped
<1>2. r \in Roots /\ DOMAIN record[r].entries \subseteq Paths
      BY EditFacts, RecordFacts DEF FilesTyped
<1>3. disk'[p] = orig /\ outside'[r] = outside[r] /\ \A q \in Paths : q # p => disk'[q] = disk[q]
      BY <1>1, <1>2 DEF Keep, env, Write, FilesTyped, EnvTyped
<1>4. Active(r)' /\ Mine(e)' = Mine(e) /\ Backing(e)' = Backing(e)
      BY <1>1 DEF Doing, Active, Mine, Backing
<1>5. \A q \in DOMAIN record[r].entries \ todo'[e] :
         q \notin outside[r] => disk'[q] = record[r].entries[q].orig
  <2>1. SUFFICES ASSUME NEW q \in DOMAIN record[r].entries, q \notin todo'[e], q \notin outside[r],
                        q # p
                 PROVE  disk'[q] = record[r].entries[q].orig
        BY <1>3
  <2>2. q \notin todo[e]
        BY <1>1, <2>1
  <2>3. QED BY <1>1, <1>2, <1>3, <2>1, <2>2 DEF Doing
<1>6. QED BY <1>1, <1>3, <1>4, <1>5 DEF Doing, Unfinished, Backing

LEMMA RecoveryDoes ==
    ASSUME Types, NEW e \in Editors, Doing(e), Owned(Root[e]), Recovery(e)
    PROVE  Doing(e)' /\ Owned(Root[e])'
<1> DEFINE r == Root[e]
<1> USE DEF Types
<1>1. r \in Roots
      BY EditFacts
<1>2. CASE RecoverRefused(e)
      BY <1>2, FinishDoes, SameOwned DEF RecoverRefused, RecoveryThrows
<1>3. CASE RecoverNothing(e)
      BY <1>3, ReturnDoes, SameOwned DEF RecoverNothing, At
<1>4. CASE RecoverDecided(e)
  <2>1. ~ Active(r)'
        BY <1>1, <1>4, CleanedUpDecides DEF RecoverDecided, Active
  <2>2. QED BY <1>4, <2>1, ReturnDoes, SameOwned DEF RecoverDecided, At
<1>5. CASE RecoverPlan(e)
  <2>1. /\ pc[e] = "recover" /\ pc'[e] = "restoring" /\ Active(r)
        /\ UNCHANGED <<goal, next, snap, record, disk, outside>>
        /\ todo'[e] = DOMAIN record[r].entries
        BY <1>5 DEF RecoverPlan, At, GoTo, CallsTyped, env
  <2>2. Mine(e)' = Mine(e) /\ Active(r)' /\ Backing(e)' = Backing(e)
        BY <2>1 DEF Mine, Active, Backing
  <2>3. QED BY <2>1, <2>2, SameOwned DEF Doing, Unfinished
<1>6. ASSUME NEW p \in Paths, RestoreEntry(e, p) PROVE Doing(e)' /\ Owned(r)'
      BY <1>6, RestoreDoes, FinishDoes, SameOwned DEF RestoreEntry, RecoveryThrows
<1>7. CASE RecoverDone(e)
  <2>1. pc[e] = "restoring"
        BY <1>7 DEF RecoverDone, At
  <2>2. RecoveryReturns(e, FALSE) \/ RecoveryThrows(e)
        BY <1>7 DEF RecoverDone
  <2>3. Doing(e)'
        BY <2>1, <2>2, ReturnDoes, FinishDoes DEF RecoveryThrows
  <2>4. record'[r] = record[r] \/ ~ Active(r)'
        BY <1>1, <1>7, CleanedUpDecides DEF RecoverDone
  <2>5. QED BY <2>3, <2>4, SameOwned
<1>8. QED BY <1>2, <1>3, <1>4, <1>5, <1>6, <1>7 DEF Recovery, Recover
-----------------------------------------------------------------------------
LEMMA BeginDoes ==
    ASSUME Types, NEW e \in Editors, Doing(e), Owned(Root[e]),
           Enter(e) \/ BeginBatch(e) \/ PlanPatch(e) \/ BeginPatch(e) \/ Decline(e)
    PROVE  Doing(e)' /\ Owned(Root[e])'
<1>1. UNCHANGED record
      BY DEF Enter, BeginBatch, PlanPatch, BeginPatch, Decline
<1>2. CASE Decline(e)
      BY <1>1, <1>2, FinishDoes, SameOwned DEF Decline
<1>3. CASE ~ Decline(e)
  <2>1. pc[e] \in {"idle", "admitted", "planned"} /\ UNCHANGED next
        BY <1>3 DEF Enter, BeginBatch, PlanPatch, BeginPatch, At
  <2>2. next'[e] = 1
        BY <2>1 DEF Doing, Unfinished, Backing
  <2>3. pc'[e] = "planned" \/ (pc'[e] = "recover" /\ goal'[e] # "rollback")
        BY <1>3 DEF Enter, BeginBatch, PlanPatch, BeginPatch, StartRecovery, GoTo, Types, CallsTyped
  <2>4. QED BY <1>1, <2>2, <2>3, QuietDoes, SameOwned
<1>4. QED BY <1>2, <1>3

LEMMA RecordDoes ==
    ASSUME Types, NEW e \in Editors, Doing(e), Owned(Root[e]), Standing(e), Record(e)
    PROVE  Doing(e)' /\ Owned(Root[e])'
<1> DEFINE r == Root[e]
<1> USE DEF Types
<1>1. /\ r \in Roots /\ pc[e] = "recording" /\ UNCHANGED <<disk, outside>>
      /\ \A p \in PathsOf(e) \ outside[r] : disk[p] = snap[e][p]
      /\ next[e] = 1
      BY EditFacts DEF Record, At, Keep, env, Standing, Doing, Unfinished, Backing
<1>2. ASSUME record' = [record EXCEPT ![r] = NewRecord(e)]
      PROVE  /\ Active(r)' /\ Owned(r)'
             /\ DOMAIN record'[r].entries = PathsOf(e)
             /\ \A p \in PathsOf(e) : record'[r].entries[p].orig = snap[e][p]
  <2>1. record'[r] = NewRecord(e)
        BY <1>1, <1>2 DEF FilesTyped
  <2>2. QED BY <2>1 DEF NewRecord, Active, Owned
<1>3. Owned(r)'
      BY <1>2, SameOwned DEF Record
<1>4. CASE Finish(e, "refused")
      BY <1>3, <1>4, FinishDoes
<1>5. CASE ~ Finish(e, "refused")
  <2>1. /\ pc'[e] = "editing" /\ record' = [record EXCEPT ![r] = NewRecord(e)]
        /\ UNCHANGED <<next, snap>>
        BY <1>5 DEF Record, GoTo, CallsTyped
  <2>2. Mine(e)'
        BY <1>2, <2>1 DEF Mine
  <2>3. ASSUME NEW p \in PathsOf(e), p \notin outside[r] PROVE Reached(e, next[e], p, disk[p])
        BY <1>1, <2>3, EditFacts DEF Reached
  <2>4. \A p \in PathsOf(e) \ outside'[r] : Reached(e, next[e], p, disk[p])'
        BY <1>1, <2>1, <2>3 DEF Reached
  <2>5. QED BY <1>2, <1>3, <2>1, <2>2, <2>4 DEF Doing, Unfinished, Backing
<1>6. QED BY <1>4, <1>5

LEMMA WritePlainDoes ==
    ASSUME Types, NEW e \in Editors, Owned(Root[e]), WritePlain(e)
    PROVE  Doing(e)' /\ Owned(Root[e])'
BY FinishDoes, SameOwned DEF WritePlain

LEMMA PrepareDoes ==
    ASSUME Types, NEW e \in Editors, Doing(e), Owned(Root[e]), Prepare(e)
    PROVE  Doing(e)' /\ Owned(Root[e])'
<1> DEFINE r       == Root[e]
           path    == Edits[e][next[e]].path
           content == Edits[e][next[e]].content
           noted   == [record EXCEPT ![r] = WithNoted(record[r], path, content)]
<1> USE DEF Types
<1>1. /\ r \in Roots /\ record[r] \in Records /\ UNCHANGED <<disk, outside, next, snap>>
      /\ Unfinished(e)
      BY EditFacts DEF FilesTyped, Prepare, Keep, env, At, Unfinished, Fail
<1>2. \/ UNCHANGED record
      \/ path \in DOMAIN record[r].entries /\ record' = noted
      BY DEF Prepare
<1>3. Active(r) /\ Mine(e) /\ \A p \in PathsOf(e) \ outside[r] : Reached(e, next[e], p, disk[p])
      BY <1>1 DEF Doing
<1>4. /\ record'[r].status = record[r].status
      /\ DOMAIN record'[r].entries = DOMAIN record[r].entries
      /\ \A p \in DOMAIN record[r].entries : record'[r].entries[p].orig = record[r].entries[p].orig
  <2>1. CASE UNCHANGED record
        BY <2>1
  <2>2. CASE path \in DOMAIN record[r].entries /\ record' = noted
    <3>1. record'[r] = WithNoted(record[r], path, content)
          BY <1>1, <2>2 DEF FilesTyped
    <3>2. record'[r].status = record[r].status
          BY <3>1 DEF WithNoted
    <3> HIDE DEF r, path, content
    <3>3. QED BY <1>1, <2>2, <3>1, <3>2, NotedEntries
  <2>3. QED BY <1>2, <2>1, <2>2
<1>5. Active(r)' /\ Mine(e)' /\ Owned(r)'
      BY <1>1, <1>3, <1>4 DEF Active, Mine, Owned
<1>6. \A p \in PathsOf(e) \ outside'[r] : Reached(e, next[e], p, disk[p])'
      BY <1>1, <1>3 DEF Reached
<1>7. Fail(e) \/ pc'[e] = "prepared"
      BY DEF Prepare, GoTo, CallsTyped
<1>8. Doing(e)'
  <2>1. CASE Fail(e)
        BY <1>5, <2>1, FailDoes DEF Active
  <2>2. CASE pc'[e] = "prepared"
        BY <1>5, <1>6, <2>2 DEF Doing, Unfinished, Backing
  <2>3. QED BY <1>7, <2>1, <2>2
<1>9. QED BY <1>5, <1>8

(* The next edit is done. *)
LEMMA ReachedNext ==
    ASSUME NEW e \in Editors, NEW n \in 1 .. Len(Edits[e]), NEW p, NEW content,
           IF p = Edits[e][n].path THEN content = Edits[e][n].content
           ELSE Reached(e, n, p, content)
    PROVE  Reached(e, n + 1, p, content)
<1>1. Len(Edits[e]) \in Nat
      BY EditFacts
<1>2. CASE p = Edits[e][n].path
      BY <1>1, <1>2 DEF Reached
<1>3. CASE p # Edits[e][n].path
      BY <1>1, <1>3 DEF Reached
<1>4. QED BY <1>2, <1>3

LEMMA ApplyDoes ==
    ASSUME Types, NEW e \in Editors, Doing(e), Owned(Root[e]), ApplyBatch(e) \/ ApplyPatch(e)
    PROVE  Doing(e)' /\ Owned(Root[e])'
<1> DEFINE r       == Root[e]
           path    == Edits[e][next[e]].path
           content == Edits[e][next[e]].content
<1> USE DEF Types
<1>1. UNCHANGED <<record, snap>> /\ next[e] \in 1 .. Len(Edits[e]) /\ Unfinished(e)
      BY EditFacts DEF ApplyBatch, ApplyPatch, At, Within, CallsTyped, Unfinished, Fail
<1>2. r \in Roots /\ path \in Paths /\ content \in Contents /\ PathsOf(e) \subseteq Paths
      BY <1>1, EditFacts
<1>3. Active(r) /\ Mine(e) /\ \A p \in PathsOf(e) \ outside[r] : Reached(e, next[e], p, disk[p])
      BY <1>1 DEF Doing
<1>4. Active(r)' /\ Mine(e)' /\ Owned(r)'
      BY <1>1, <1>3, SameOwned DEF Active, Mine
<1>5. CASE Fail(e)
      BY <1>4, <1>5, FailDoes DEF Active
<1>6. CASE ~ Fail(e)
  <2>1. /\ Write(r, path, content) /\ pc'[e] = "editing"
        /\ next'[e] = next[e] + 1
        BY <1>1, <1>6 DEF ApplyBatch, ApplyPatch, At, GoTo, CallsTyped
  <2>2. /\ outside'[r] = outside[r]
        /\ disk'[path] = content /\ \A p \in Paths : p # path => disk'[p] = disk[p]
        BY <1>2, <2>1 DEF Write, FilesTyped, EnvTyped
  <2>3. ASSUME NEW p \in PathsOf(e), p \notin outside[r]
        PROVE  Reached(e, next[e] + 1, p, disk'[p])
    <3>1. IF p = path THEN disk'[p] = content ELSE Reached(e, next[e], p, disk'[p])
          BY <1>2, <1>3, <2>2, <2>3
    <3>2. QED BY <1>1, <3>1, ReachedNext
  <2>4. \A p \in PathsOf(e) \ outside'[r] : Reached(e, next[e], p, disk[p])'
        BY <1>1, <2>1, <2>2, <2>3 DEF Reached
  <2>5. QED BY <1>4, <2>1, <2>4 DEF Doing, Unfinished, Backing
<1>7. QED BY <1>4, <1>5, <1>6

LEMMA CompleteDoes ==
    ASSUME Types, NEW e \in Editors, Doing(e), Owned(Root[e]), Complete(e)
    PROVE  Doing(e)' /\ Owned(Root[e])'
<1> DEFINE r == Root[e]
<1>1. r \in Roots /\ Active(r) /\ Mine(e)
      BY EditFacts DEF Complete, At, Doing, Unfinished
<1>2. CASE Finish(e, "applied")
  <2>1. Doing(e)'
        BY <1>2, FinishDoes
  <2>2. record'[r] = record[r] \/ ~ Active(r)'
        BY <1>1, <1>2, CleanedUpDecides DEF Complete
  <2>3. QED BY <2>1, <2>2, SameOwned
<1>3. CASE Fail(e) /\ UNCHANGED record
      BY <1>1, <1>3, FailDoes, SameOwned DEF Fail, Mine, Active
<1>4. CASE Fail(e) /\ record' = [record EXCEPT ![r] = Decided(record[r], "committed")]
  <2>1. record'[r].status = "committed" /\ record'[r].entries = record[r].entries
        BY <1>1, <1>4 DEF Decided, Types, FilesTyped
  <2>2. Mine(e)' /\ ~ Active(r)'
        BY <1>1, <1>4, <2>1 DEF Mine, Active, Fail
  <2>3. QED BY <1>4, <2>1, <2>2, FailDoes, SameOwned
<1>5. QED BY <1>2, <1>3, <1>4 DEF Complete
-----------------------------------------------------------------------------
LEMMA OthersDo ==
    ASSUME Types, Shared = {}, Exclusive, \A f \in Editors : Doing(f), NEW e \in Editors, Step(e),
           NEW f \in Editors, f # e
    PROVE  Doing(f)'
<1>1. /\ pc'[f] = pc[f] /\ goal'[f] = goal[f] /\ next'[f] = next[f] /\ snap'[f] = snap[f]
      /\ pc[e] \notin Resting \/ Enter(e)
      /\ pc[f] \notin {"recover", "restoring", "prepared"}
      BY StepOthers DEF Others, Turn, MidSegment
<1>2. CASE Root[f] = Root[e]
  <2>1. pc[f] \in Resting
        BY <1>1, <1>2 DEF Enter, MayEnter, Exclusive
  <2>2. next[f] = 1
        BY <2>1 DEF Doing, Unfinished, Backing, Resting
  <2>3. QED BY <1>1, <2>1, <2>2, QuietDoes DEF Resting
<1>3. CASE Root[f] # Root[e]
  <2>1. /\ Root[f] \in Roots /\ PathsOf(f) \subseteq Paths
        /\ record'[Root[f]] = record[Root[f]]
        /\ outside[Root[f]] \subseteq outside'[Root[f]]
        /\ \A p \in Paths : p \notin outside'[Root[f]] => disk'[p] = disk[p]
        BY <1>3, EditFacts, StepElsewhere DEF Elsewhere
  <2>2. Unfinished(f)' = Unfinished(f) /\ ~ Backing(f) /\ ~ Backing(f)'
        BY <1>1 DEF Unfinished, Backing
  <2>3. Mine(f)' = Mine(f) /\ Active(Root[f])' = Active(Root[f])
        BY <1>1, <2>1 DEF Mine, Active
  <2>4. ASSUME Unfinished(f), NEW p \in PathsOf(f) \ outside'[Root[f]]
        PROVE  Reached(f, next[f], p, disk[p])'
    <3>1. Reached(f, next[f], p, disk[p]) /\ disk'[p] = disk[p]
          BY <2>1, <2>4 DEF Doing
    <3>2. QED BY <1>1, <3>1 DEF Reached
  <2>5. Doing(f)
        OBVIOUS
  <2>6. QED BY <1>1, <2>2, <2>3, <2>4, <2>5 DEF Doing
<1>4. QED BY <1>2, <1>3

LEMMA StepDoes ==
    ASSUME Types, Shared = {}, RInv, DInv, NEW e \in Editors, Step(e)
    PROVE  DInv'
<1>1. Root[e] \in Roots /\ Doing(e) /\ Owned(Root[e]) /\ Standing(e)
      BY EditFacts DEF DInv, RInv
<1>2. Doing(e)' /\ Owned(Root[e])'
      BY <1>1, RecoveryDoes, BeginDoes, RecordDoes, WritePlainDoes, PrepareDoes, ApplyDoes,
         CompleteDoes DEF Step, Begin, Edit
<1>3. \A f \in Editors : f # e => Doing(f)'
      BY OthersDo DEF DInv, RInv
<1>4. \A r \in Roots : r # Root[e] => Owned(r)'
      BY StepElsewhere, SameOwned DEF DInv, Elsewhere
<1>5. QED BY <1>2, <1>3, <1>4 DEF DInv

LEMMA CrashDoes ==
    ASSUME DInv, Crash
    PROVE  DInv'
<1>1. /\ \A e \in Editors : pc'[e] \in {"idle", "done"} /\ next'[e] = 1
      /\ UNCHANGED record
      BY DEF Crash
<1>2. QED BY <1>1, QuietDoes, SameOwned DEF DInv

LEMMA OutsiderDoes ==
    ASSUME Types, DInv, NEW p \in Paths, NEW content \in Contents, Outsider(p, content)
    PROVE  DInv'
<1>1. /\ \A q \in Paths : q # p => disk'[q] = disk[q]
      /\ \A r \in Roots : outside'[r] = outside[r] \union {p}
      /\ UNCHANGED <<record, pc, goal, next, snap, todo>>
      BY DEF Outsider, call, Types, FilesTyped
<1>2. ASSUME NEW e \in Editors PROVE Doing(e)'
  <2>1. /\ Doing(e) /\ Unfinished(e)' = Unfinished(e) /\ Backing(e)' = Backing(e)
        /\ Mine(e)' = Mine(e) /\ Active(Root[e])' = Active(Root[e])
        BY <1>1 DEF DInv, Unfinished, Backing, Mine, Active
  <2>2. Root[e] \in Roots /\ PathsOf(e) \subseteq Paths
        BY EditFacts
  <2>3. DOMAIN record[Root[e]].entries \subseteq Paths
        BY <2>2, RecordFacts DEF Types, FilesTyped
  <2>4. ASSUME Unfinished(e), NEW q \in PathsOf(e) \ outside'[Root[e]]
        PROVE  Reached(e, next[e], q, disk[q])'
    <3>1. Reached(e, next[e], q, disk[q]) /\ disk'[q] = disk[q]
          BY <1>1, <2>1, <2>2, <2>4 DEF Doing
    <3>2. QED BY <1>1, <3>1 DEF Reached
  <2>5. ASSUME pc[e] = "restoring", NEW q \in DOMAIN record[Root[e]].entries \ todo[e],
               q \notin outside'[Root[e]]
        PROVE  disk'[q] = record[Root[e]].entries[q].orig
        BY <1>1, <2>1, <2>2, <2>3, <2>5 DEF Doing
  <2>6. QED BY <1>1, <2>1, <2>4, <2>5 DEF Doing
<1>3. QED BY <1>1, <1>2, SameOwned DEF DInv

LEMMA DoesInit == Init => DInv
<1> SUFFICES ASSUME Init PROVE DInv
    OBVIOUS
<1>1. \A e \in Editors : pc[e] = "idle" /\ next[e] = 1
      BY DEF Init
<1>2. \A e \in Editors : Doing(e)
      BY <1>1 DEF Doing, Unfinished, Backing
<1>3. QED BY <1>2 DEF Init, DInv, Owned, Active, NoRecord

LEMMA DoesNext == Shared = {} /\ Types /\ RInv /\ DInv /\ [Next]_vars => DInv'
<1> SUFFICES ASSUME Shared = {}, Types, RInv, DInv, [Next]_vars PROVE DInv'
    OBVIOUS
<1>1. CASE UNCHANGED vars
  <2>1. ASSUME NEW e \in Editors PROVE Doing(e)'
    <3>1. Doing(e)
          BY DEF DInv
    <3>2. QED BY <1>1, <3>1 DEF vars, Doing, Unfinished, Backing, Mine, Active, Reached
  <2>2. QED BY <1>1, <2>1 DEF vars, DInv, Owned, Active
<1>2. ASSUME NEW e \in Editors, Step(e) PROVE DInv'
      BY <1>2, StepDoes
<1>3. QED BY <1>1, <1>2, CrashDoes, OutsiderDoes DEF Next, Step
-----------------------------------------------------------------------------
(* A call reports once, at its end. *)
LEMMA FinishReports ==
    ASSUME Types, NEW e \in Editors, NEW effect, Finish(e, effect)
    PROVE  report'[e] = effect /\ \A f \in Editors : f # e => report'[f] = report[f]
BY DEF Finish, Types, CallsTyped

LEMMA StepReports ==
    ASSUME Types, NEW e \in Editors, Step(e)
    PROVE  UNCHANGED report \/ \E effect : Finish(e, effect)
<1>1. \A committed : RecoveryReturns(e, committed) =>
         UNCHANGED report \/ \E effect : Finish(e, effect)
      BY DEF RecoveryReturns
<1>2. RecoveryThrows(e) => \E effect : Finish(e, effect)
      BY DEF RecoveryThrows
<1>3. CASE Recover(e)
      BY <1>1, <1>2, <1>3 DEF Recover, RecoverRefused, RecoverNothing, RecoverDecided, RecoverPlan
<1>4. CASE (\E p \in Paths : RestoreEntry(e, p)) \/ RecoverDone(e)
      BY <1>1, <1>2, <1>4 DEF RestoreEntry, RecoverDone
<1>5. CASE Begin(e)
      BY <1>5 DEF Begin, Enter, BeginBatch, PlanPatch, BeginPatch, Decline, Record
<1>6. CASE Edit(e)
      BY <1>6 DEF Edit, WritePlain, Prepare, ApplyBatch, ApplyPatch, Complete, Fail
<1>7. QED BY <1>3, <1>4, <1>5, <1>6 DEF Step, Recovery

(* When all edits are done a file holds what the last one for it wrote. *)
LEMMA ReachedTarget ==
    ASSUME NEW e \in Editors, NEW n \in Nat, n > Len(Edits[e]), NEW p \in PathsOf(e), NEW content,
           Reached(e, n, p, content)
    PROVE  content = Target(e)[p]
<1> DEFINE Last(i) == /\ Edits[e][i].path = p
                      /\ \A j \in i + 1 .. Len(Edits[e]) : Edits[e][j].path # p
           k == CHOOSE i \in 1 .. Len(Edits[e]) : Last(i)
<1>1. Len(Edits[e]) \in Nat
      BY EditFacts
<1>2. \E i \in 1 .. Len(Edits[e]) : Edits[e][i].path = p
      BY DEF PathsOf
<1>3. PICK i \in 1 .. Len(Edits[e]) : Last(i) /\ Edits[e][i].content = content
      BY <1>1, <1>2 DEF Reached
<1>4. k \in 1 .. Len(Edits[e]) /\ Last(k)
      BY <1>3
<1>5. \A j \in 1 .. Len(Edits[e]) : Last(j) => j = i
      BY <1>1, <1>3
<1>6. k = i
      BY <1>4, <1>5
<1>7. Target(e)[p] = Edits[e][k].content
      BY DEF Target
<1>8. QED BY <1>3, <1>6, <1>7

LEMMA AppliedIsTrue ==
    ASSUME Types, NEW e \in Editors, Doing(e), Step(e), Finish(e, "applied"),
           NEW p \in PathsOf(e), p \notin outside'[Root[e]]
    PROVE  disk'[p] = Target(e)[p]
<1>1. report'[e] = "applied"
      BY FinishReports
<1>2. Complete(e) \/ WritePlain(e)
  <2>1. \A effect : Finish(e, effect) => effect = "applied"
        BY <1>1, FinishReports
  <2>2. pc'[e] = "done"
        BY DEF Finish, GoTo, Types, CallsTyped
  <2>3. ~ RecoveryThrows(e)
        BY <2>1 DEF RecoveryThrows
  <2>4. ASSUME NEW committed PROVE ~ RecoveryReturns(e, committed)
        BY <2>1, <2>2, <2>4 DEF RecoveryReturns, GoTo, Types, CallsTyped
  <2>5. ~ Recover(e)
    <3>1. ~ RecoverRefused(e) /\ ~ RecoverNothing(e) /\ ~ RecoverDecided(e)
          BY <2>3, <2>4 DEF RecoverRefused, RecoverNothing, RecoverDecided
    <3>2. ~ RecoverPlan(e)
          BY <2>2 DEF RecoverPlan, GoTo, Types, CallsTyped
    <3>3. QED BY <3>1, <3>2 DEF Recover
  <2>6. ~ RecoverDone(e) /\ \A q \in Paths : ~ RestoreEntry(e, q)
        BY <2>2, <2>3, <2>4 DEF RecoverDone, RestoreEntry, At
  <2>7. ~ Begin(e)
        BY <2>1, <2>2 DEF Begin, Enter, BeginBatch, PlanPatch, BeginPatch, Decline, Record,
                          StartRecovery, GoTo, Types, CallsTyped
  <2>8. ~ Fail(e)
        BY <2>2 DEF Fail, StartRecovery, GoTo, Types, CallsTyped
  <2>9. ~ Prepare(e) /\ ~ ApplyBatch(e) /\ ~ ApplyPatch(e)
        BY <2>2, <2>8 DEF Prepare, ApplyBatch, ApplyPatch, At, GoTo, Types, CallsTyped
  <2>10. QED BY <2>5, <2>6, <2>7, <2>9 DEF Step, Recovery, Edit
<1>3. CASE Complete(e)
  <2>1. /\ pc[e] = "editing" /\ next[e] > Len(Edits[e]) /\ UNCHANGED <<disk, outside>>
        BY <1>3 DEF Complete, At, Keep, env
  <2>2. Reached(e, next[e], p, disk[p])
        BY <2>1 DEF Doing, Unfinished
  <2>3. next[e] \in Nat
        BY DEF Types, CallsTyped
  <2>4. QED BY <2>1, <2>2, <2>3, ReachedTarget
<1>4. CASE WritePlain(e)
  <2>1. Kind[e] = "plain" /\ Write(Root[e], Edits[e][1].path, Edits[e][1].content)
        BY <1>4 DEF WritePlain
  <2>2. Len(Edits[e]) = 1
        BY <2>1, Assumptions DEF Assumptions
  <2>3. p = Edits[e][1].path /\ p \in Paths
        BY <2>2, EditFacts DEF PathsOf
  <2>4. disk'[p] = Edits[e][1].content
        BY <2>1, <2>3 DEF Write, Types, FilesTyped
  <2>5. Reached(e, 2, p, disk'[p])
        BY <2>2, <2>3, <2>4 DEF Reached
  <2>6. 2 \in Nat /\ 2 > Len(Edits[e])
        BY <2>2
  <2>7. QED BY <2>5, <2>6, ReachedTarget
<1>5. QED BY <1>2, <1>3, <1>4

LEMMA NoneIsTrue ==
    ASSUME Types, NEW e \in Editors, Doing(e), Step(e), Finish(e, "none"),
           NEW p \in PathsOf(e), p \notin outside'[Root[e]]
    PROVE  disk'[p] = snap[e][p]
<1>1. report'[e] = "none"
      BY FinishReports
<1>2. \A effect : Finish(e, effect) => effect = "none"
      BY <1>1, FinishReports
<1>3. pc'[e] = "done"
      BY DEF Finish, GoTo, Types, CallsTyped
<1>4. ~ RecoveryThrows(e)
      BY <1>2 DEF RecoveryThrows
<1>5. ~ Fail(e)
      BY <1>3 DEF Fail, StartRecovery, GoTo, Types, CallsTyped
<1>6. ~ Edit(e)
      BY <1>2, <1>3, <1>5 DEF Edit, WritePlain, Complete, Prepare, ApplyBatch, ApplyPatch, At, GoTo,
                              Types, CallsTyped
<1>7. ~ Begin(e)
      BY <1>2, <1>3 DEF Begin, Enter, BeginBatch, PlanPatch, BeginPatch, Decline, Record,
                        StartRecovery, GoTo, Types, CallsTyped
<1>8. ASSUME pc[e] \in {"recover", "restoring"}, NEW committed, RecoveryReturns(e, committed)
      PROVE  goal[e] = "rollback" /\ ~ committed
      BY <1>2, <1>3, <1>8 DEF RecoveryReturns, GoTo, Types, CallsTyped
<1>9. ~ RecoverNothing(e) /\ ~ RecoverDecided(e)
  <2>1. ASSUME pc[e] = "recover", goal[e] = "rollback"
        PROVE  record[Root[e]].status \in {"active", "committed"}
        BY <2>1 DEF Doing, Backing
  <2>2. QED BY <1>8, <2>1 DEF RecoverNothing, RecoverDecided, At, Active
<1>10. ~ Recover(e) /\ \A q \in Paths : ~ RestoreEntry(e, q)
      BY <1>3, <1>4, <1>9 DEF Recover, RecoverRefused, RecoverPlan, RestoreEntry, GoTo, At,
                              Types, CallsTyped
<1>11. RecoverDone(e)
      BY <1>6, <1>7, <1>10 DEF Step, Recovery
<1>12. /\ pc[e] = "restoring" /\ todo[e] = {} /\ RecoveryReturns(e, FALSE)
       /\ UNCHANGED <<disk, outside>>
      BY <1>4, <1>11 DEF RecoverDone, At, Keep, env
<1>13. goal[e] = "rollback"
      BY <1>8, <1>12
<1>14. Mine(e)
      BY <1>12, <1>13 DEF Doing, Backing
<1>15. QED BY <1>12, <1>14 DEF Doing, Mine

LEMMA StepTruthful ==
    ASSUME Types, RInv, DInv, [Next]_vars, NEW e \in Editors, report'[e] # report[e]
    PROVE  ReportTrue(e)
<1>1. PICK f \in Editors : Step(f)
      BY DEF Next, Step, vars, Crash, Outsider, call
<1>2. PICK effect : Finish(f, effect)
      BY <1>1, StepReports
<1>3. f = e /\ report'[e] = effect
      BY <1>2, FinishReports
<1>4. Doing(e)
      BY DEF DInv
<1>5. QED BY <1>1, <1>2, <1>3, <1>4, AppliedIsTrue, NoneIsTrue DEF ReportTrue

(* Where the calls of a workspace exclude one another, what a call tells   *)
(* its caller is so: after "applied" its files hold the edit, after "none" *)
(* what it found, in each file that nobody else changed, whatever writes   *)
(* failed and whichever recovery was needed.                               *)
THEOREM ReportsAreTrue == ASSUME Shared = {} PROVE Spec => ReportsTruthful
<1>1. Types /\ RInv /\ DInv /\ [Next]_vars =>
        [\A e \in Editors : report'[e] # report[e] => ReportTrue(e)]_vars
      BY StepTruthful
<1>2. QED
      BY <1>1, TypesInit, TypesNext, RollsInit, RollsNext, DoesInit, DoesNext, PTL
      DEF Spec, ReportsTruthful
-----------------------------------------------------------------------------
(* The edits are atomic.  The content of a path that others may rely on is *)
(* the original one in the record that covers it, if any does.             *)
Cover(r, p) == Active(r) /\ p \in DOMAIN record[r].entries \ outside[r]

Value(r, p) == IF Cover(r, p) THEN record[r].entries[p].orig ELSE disk[p]

(* One record at most covers a path. *)
Sole == \A p \in Paths, q, r \in Roots : Cover(q, p) /\ Cover(r, p) => q = r

ValueShown ==
    \A p \in Paths, r \in Roots :
        (\A q \in Roots : Cover(q, p) => q = r) => Settled[p] = Value(r, p)

(* Others may have changed p since a call of some workspace looked. *)
Touched(p) == \E e \in Editors : p \in outside[Root[e]]

LEMMA SettledValue == ValueShown
<1>1. SUFFICES ASSUME NEW p \in Paths, NEW r \in Roots, \A q \in Roots : Cover(q, p) => q = r
               PROVE  Settled[p] = Value(r, p)
      BY DEF ValueShown
<1> DEFINE Covering(q) == Active(q) /\ p \in DOMAIN record[q].entries \ outside[q]
           c == CHOOSE q \in Roots : Covering(q)
<1>2. Settled[p] = IF \E q \in Roots : Covering(q) THEN record[c].entries[p].orig ELSE disk[p]
      BY DEF Settled
<1>3. \A q \in Roots : Covering(q) <=> Cover(q, p)
      BY DEF Cover
<1>4. CASE Cover(r, p)
  <2>1. c \in Roots /\ Covering(c)
        BY <1>3, <1>4
  <2>2. c = r
        BY <1>1, <1>3, <2>1
  <2>3. \E q \in Roots : Covering(q)
        BY <1>3, <1>4
  <2> HIDE DEF c, Covering
  <2>4. QED BY <1>2, <1>4, <2>2, <2>3 DEF Value
<1>5. CASE ~ Cover(r, p)
  <2>1. ~ \E q \in Roots : Covering(q)
        BY <1>1, <1>3, <1>5
  <2> HIDE DEF c, Covering
  <2>2. QED BY <1>2, <1>5, <2>1 DEF Value
<1>6. QED BY <1>4, <1>5

LEMMA SettledValueNext == ValueShown'
BY SettledValue, PTL

LEMMA SoleCover == DInv /\ NoOverlappingActive => Sole
<1>1. SUFFICES ASSUME DInv, NoOverlappingActive, NEW p \in Paths, NEW q \in Roots, NEW r \in Roots,
                      Cover(q, p), Cover(r, p), q # r
               PROVE  FALSE
      BY DEF Sole
<1>2. PICK e \in Editors : Root[e] = q /\ DOMAIN record[q].entries = PathsOf(e)
      BY <1>1 DEF DInv, Owned, Cover
<1>3. PICK f \in Editors : Root[f] = r /\ DOMAIN record[r].entries = PathsOf(f)
      BY <1>1 DEF DInv, Owned, Cover
<1>4. PathsOf(e) \cap PathsOf(f) # {}
      BY <1>1, <1>2, <1>3 DEF Cover
<1>5. <<q, r>> \in Overlaps
      BY <1>1, <1>2, <1>3, <1>4, Assumptions DEF Assumptions
<1>6. QED BY <1>1, <1>5 DEF NoOverlappingActive, Cover

LEMMA SoleCoverNext == (DInv /\ NoOverlappingActive)' => Sole'
BY SoleCover, PTL

(* What is covered as before, and not written, has the value it had. *)
LEMMA SameSettled ==
    ASSUME Sole, Sole', NEW p \in Paths, disk'[p] = disk[p],
           \A q \in Roots : /\ Cover(q, p)' <=> Cover(q, p)
                            /\ Cover(q, p) => record'[q].entries[p] = record[q].entries[p]
    PROVE  Settled'[p] = Settled[p]
<1>1. PICK e \in Editors : TRUE
      BY Assumptions DEF Assumptions
<1>2. PICK r \in Roots : \A q \in Roots : Cover(q, p) => q = r
      BY <1>1, EditFacts DEF Sole
<1>3. Settled[p] = Value(r, p) /\ Settled'[p] = Value(r, p)'
      BY <1>2, SettledValue, SettledValueNext DEF ValueShown
<1>4. QED BY <1>2, <1>3 DEF Value

(* What a step of e does to a path that is covered by another workspace.   *)
LEMMA ForeignSettled ==
    ASSUME Types, DInv, Sole, Sole', NEW e \in Editors, Step(e), NEW p \in Paths, ~ Touched(p)',
           Value(Root[e], p)' = Value(Root[e], p)
    PROVE  Settled'[p] = Settled[p]
<1> DEFINE r == Root[e]
<1>1. /\ r \in Roots
      /\ \A q \in Roots : q # r =>
            /\ record'[q] = record[q] /\ outside[q] \subseteq outside'[q]
      BY EditFacts, StepElsewhere DEF Elsewhere
<1>2. \A q \in Roots : q # r /\ Cover(q, p)' => Cover(q, p)
      BY <1>1 DEF Cover, Active
<1>3. ASSUME NEW q \in Roots, q # r, Cover(q, p)
      PROVE  Cover(q, p)' /\ Settled'[p] = Settled[p]
  <2>1. PICK f \in Editors : Root[f] = q
        BY <1>3 DEF DInv, Owned, Cover
  <2>2. p \notin outside'[q]
        BY <2>1 DEF Touched
  <2>3. Cover(q, p)'
        BY <1>1, <1>3, <2>2 DEF Cover, Active
  <2>4. Settled[p] = Value(q, p) /\ Settled'[p] = Value(q, p)'
        BY <1>3, <2>3, SettledValue, SettledValueNext DEF ValueShown, Sole
  <2>5. QED BY <1>1, <1>3, <2>3, <2>4 DEF Value
<1>4. CASE \A q \in Roots : Cover(q, p) => q = r
  <2>1. \A q \in Roots : Cover(q, p)' => q = r
        BY <1>2, <1>4
  <2>2. Settled[p] = Value(r, p) /\ Settled'[p] = Value(r, p)'
        BY <1>1, <1>4, <2>1, SettledValue, SettledValueNext DEF ValueShown
  <2>3. QED BY <2>2
<1>5. QED BY <1>3, <1>4

(* Recording, editing, rolling back and recovering leave the value of each *)
(* path of the workspace as it is, but for those others changed.           *)
LEMMA SameValue ==
    ASSUME NEW r, NEW p, record'[r] = record[r] \/ (~ Active(r) /\ ~ Active(r)'),
           UNCHANGED disk, outside'[r] = outside[r] \/ ~ Active(r)
    PROVE  Value(r, p)' = Value(r, p)
BY DEF Value, Cover, Active

LEMMA RecoveryValue ==
    ASSUME Types, NEW e \in Editors, Doing(e), Recovery(e), NEW p \in Paths, p \notin outside'[Root[e]]
    PROVE  Value(Root[e], p)' = Value(Root[e], p)
<1> DEFINE r == Root[e]
<1> USE DEF Types
<1>1. r \in Roots /\ record[r] \in Records
      BY EditFacts DEF FilesTyped
<1>2. Keep => UNCHANGED <<disk, outside>>
      BY DEF Keep, env
<1>3. CASE RecoverRefused(e) \/ RecoverNothing(e) \/ RecoverPlan(e)
      BY <1>2, <1>3, SameValue DEF RecoverRefused, RecoverNothing, RecoverPlan, env
<1>4. CASE RecoverDecided(e)
  <2>1. ~ Active(r) /\ ~ Active(r)' /\ UNCHANGED <<disk, outside>>
        BY <1>1, <1>2, <1>4, CleanedUpDecides DEF RecoverDecided, Active
  <2>2. QED BY <2>1, SameValue
<1>5. ASSUME NEW q \in Paths, RestoreEntry(e, q) PROVE Value(r, p)' = Value(r, p)
  <2>1. /\ pc[e] = "restoring" /\ UNCHANGED record
        /\ q \in DOMAIN record[r].entries
        /\ Keep \/ Write(r, q, record[r].entries[q].orig)
        BY <1>5 DEF RestoreEntry, At, Within
  <2>2. Active(r)
        BY <2>1 DEF Doing
  <2>3. CASE Keep
        BY <1>2, <2>1, <2>3, SameValue
  <2>4. CASE Write(r, q, record[r].entries[q].orig)
    <3>1. outside'[r] = outside[r] /\ \A x \in Paths : x # q => disk'[x] = disk[x]
          BY <1>1, <2>4 DEF Write, FilesTyped, EnvTyped
    <3>2. QED BY <2>1, <2>2, <3>1 DEF Value, Cover, Active
  <2>5. QED BY <2>1, <2>3, <2>4
<1>6. CASE RecoverDone(e)
  <2>1. pc[e] = "restoring" /\ todo[e] = {} /\ UNCHANGED <<disk, outside>>
        BY <1>2, <1>6 DEF RecoverDone, At
  <2>2. Active(r) /\ (Cover(r, p) => disk[p] = record[r].entries[p].orig)
        BY <2>1 DEF Doing, Cover
  <2>3. record'[r] = record[r] \/ ~ Active(r)'
        BY <1>1, <1>6, CleanedUpDecides DEF RecoverDone
  <2>4. QED BY <2>1, <2>2, <2>3 DEF Value, Cover, Active
<1>7. QED BY <1>3, <1>4, <1>5, <1>6 DEF Recovery, Recover

LEMMA BeginValue ==
    ASSUME Types, NEW e \in Editors, Standing(e), Begin(e), NEW p \in Paths, p \notin outside'[Root[e]]
    PROVE  Value(Root[e], p)' = Value(Root[e], p)
<1> DEFINE r == Root[e]
<1> USE DEF Types
<1>1. r \in Roots /\ UNCHANGED disk
      BY EditFacts DEF Begin, Enter, BeginBatch, PlanPatch, BeginPatch, Decline, Record, Keep, env
<1>2. CASE Enter(e) \/ BeginPatch(e) \/ Decline(e)
      BY <1>1, <1>2, SameValue DEF Enter, BeginPatch, Decline, Keep, env
<1>3. CASE BeginBatch(e) \/ PlanPatch(e)
  <2>1. ~ Active(r) /\ UNCHANGED record
        BY <1>3 DEF BeginBatch, PlanPatch, At, Standing
  <2>2. QED BY <1>1, <2>1, SameValue
<1>4. CASE Record(e)
  <2>1. /\ ~ Active(r) /\ UNCHANGED outside
        /\ p \in PathsOf(e) \ outside[r] => disk[p] = snap[e][p]
        BY <1>4 DEF Record, At, Standing, Keep, env
  <2>2. UNCHANGED record \/ record' = [record EXCEPT ![r] = NewRecord(e)]
        BY <1>4 DEF Record
  <2>3. CASE UNCHANGED record
        BY <1>1, <2>1, <2>3, SameValue
  <2>4. CASE record' = [record EXCEPT ![r] = NewRecord(e)]
    <3>1. record'[r] = NewRecord(e)
          BY <1>1, <2>4 DEF FilesTyped
    <3>2. /\ DOMAIN record'[r].entries = PathsOf(e)
          /\ p \in PathsOf(e) => record'[r].entries[p].orig = snap[e][p]
          BY <3>1 DEF NewRecord
    <3>3. QED BY <1>1, <2>1, <3>2 DEF Value, Cover
  <2>5. QED BY <2>2, <2>3, <2>4
<1>5. QED BY <1>2, <1>3, <1>4 DEF Begin

LEMMA EditValue ==
    ASSUME Types, NEW e \in Editors, Doing(e), Prepare(e) \/ ApplyBatch(e) \/ ApplyPatch(e),
           NEW p \in Paths, p \notin outside'[Root[e]]
    PROVE  Value(Root[e], p)' = Value(Root[e], p)
<1> DEFINE r       == Root[e]
           path    == Edits[e][next[e]].path
           content == Edits[e][next[e]].content
           noted   == [record EXCEPT ![r] = WithNoted(record[r], path, content)]
<1> USE DEF Types
<1>1. /\ r \in Roots /\ record[r] \in Records /\ next[e] \in 1 .. Len(Edits[e])
      /\ Active(r) /\ Mine(e) /\ path \in PathsOf(e)
  <2>1. Unfinished(e) /\ r \in Roots /\ record[r] \in Records
        BY EditFacts DEF FilesTyped, Prepare, ApplyBatch, ApplyPatch, At, Unfinished
  <2>2. next[e] \in 1 .. Len(Edits[e])
    <3>1. next[e] \in 1 .. Len(Edits[e]) + 1 /\ Len(Edits[e]) \in Nat
          BY EditFacts DEF CallsTyped
    <3>2. next[e] <= Len(Edits[e])
          BY DEF Prepare, ApplyBatch, ApplyPatch, At, Within
    <3>3. QED BY <3>1, <3>2
  <2>3. QED BY <2>1, <2>2, EditFacts DEF Doing
<1>2. CASE Prepare(e)
  <2>1. UNCHANGED <<disk, outside>>
        BY <1>2 DEF Prepare, Keep, env
  <2>2. UNCHANGED record \/ (path \in DOMAIN record[r].entries /\ record' = noted)
        BY <1>2 DEF Prepare
  <2>3. CASE UNCHANGED record
        BY <2>1, <2>3, SameValue
  <2>4. CASE path \in DOMAIN record[r].entries /\ record' = noted
    <3>1. record'[r] = WithNoted(record[r], path, content)
          BY <1>1, <2>4 DEF FilesTyped
    <3>2. record'[r].status = record[r].status
          BY <3>1 DEF WithNoted
    <3>3. /\ DOMAIN record'[r].entries = DOMAIN record[r].entries
          /\ \A x \in DOMAIN record[r].entries :
                record'[r].entries[x].orig = record[r].entries[x].orig
      <4> HIDE DEF r, path, content
      <4>1. QED BY <1>1, <2>4, <3>1, NotedEntries
    <3>4. QED BY <2>1, <3>2, <3>3 DEF Value, Cover, Active
  <2>5. QED BY <2>2, <2>3, <2>4
<1>3. CASE ApplyBatch(e) \/ ApplyPatch(e)
  <2>1. UNCHANGED record /\ (Keep \/ Write(r, path, content))
        BY <1>3 DEF ApplyBatch, ApplyPatch
  <2>2. CASE Keep
        BY <2>1, <2>2, SameValue DEF Keep, env
  <2>3. CASE Write(r, path, content)
    <3>1. outside'[r] = outside[r] /\ \A x \in Paths : x # path => disk'[x] = disk[x]
          BY <1>1, <2>3 DEF Write, FilesTyped, EnvTyped
    <3>2. QED BY <1>1, <2>1, <3>1 DEF Value, Cover, Active, Mine
  <2>4. QED BY <2>1, <2>2, <2>3
<1>4. QED BY <1>2, <1>3
-----------------------------------------------------------------------------
(* Writing the decision commits. *)
LEMMA CompleteCommits ==
    ASSUME Types, DInv, Sole, Sole', NEW e \in Editors, Complete(e)
    PROVE  Abstract!Interference \/ Abstract!Commit(e)
<1> DEFINE r == Root[e]
<1>1. /\ r \in Roots /\ UNCHANGED <<disk, outside>>
      /\ Active(r) /\ Mine(e) /\ next[e] > Len(Edits[e]) /\ next[e] \in Nat
      /\ \A p \in PathsOf(e) \ outside[r] : Reached(e, next[e], p, disk[p])
      BY EditFacts DEF Complete, At, Keep, env, DInv, Doing, Unfinished, Types, CallsTyped
<1>2. \A q \in Roots : q # r => record'[q] = record[q]
  <2>1. Step(e)
        BY DEF Step, Edit
  <2>2. QED BY <2>1, StepElsewhere DEF Elsewhere
<1>3. record'[r] = record[r] \/ ~ Active(r)'
      BY <1>1, CleanedUpDecides DEF Complete, Types
<1>4. CASE record'[r] = record[r]
  <2>1. ASSUME NEW p \in Paths PROVE Settled'[p] = Settled[p]
        BY <1>1, <1>2, <1>4, <2>1, SameSettled DEF Cover, Active
  <2>2. QED BY <2>1 DEF Abstract!Interference
<1>5. CASE ~ Active(r)'
  <2>1. ASSUME NEW p \in Paths, p \notin outside'[r], p \notin PathsOf(e)
        PROVE  Settled'[p] = Settled[p]
    <3>1. \A q \in Roots : /\ Cover(q, p)' <=> Cover(q, p)
                           /\ Cover(q, p) => record'[q].entries[p] = record[q].entries[p]
          BY <1>1, <1>2, <1>5, <2>1 DEF Cover, Active, Mine
    <3>2. QED BY <1>1, <3>1, SameSettled
  <2>2. ASSUME NEW p \in Paths, p \notin outside'[r], p \in PathsOf(e)
        PROVE  Settled'[p] = Target(e)[p]
    <3>1. Cover(r, p)
          BY <1>1, <2>2 DEF Cover, Mine
    <3>2. \A q \in Roots : ~ Cover(q, p)'
          BY <1>1, <1>2, <1>5, <3>1 DEF Cover, Active, Sole
    <3>3. Settled'[p] = disk'[p]
          BY <1>1, <3>2, SettledValueNext DEF ValueShown, Value
    <3>4. disk[p] = Target(e)[p]
          BY <1>1, <2>2, ReachedTarget
    <3>5. QED BY <1>1, <3>3, <3>4
  <2>3. DOMAIN Target(e) = PathsOf(e)
        BY DEF Target
  <2>4. QED BY <2>1, <2>2, <2>3 DEF Abstract!Commit
<1>6. QED BY <1>3, <1>4, <1>5

LEMMA PlainCommits ==
    ASSUME Types, RInv, DInv, Sole, Sole', NEW e \in Editors, WritePlain(e)
    PROVE  Abstract!Commit(e)
<1> DEFINE r       == Root[e]
           path    == Edits[e][1].path
           content == Edits[e][1].content
<1>1. /\ Kind[e] = "plain" /\ Write(r, path, content) /\ UNCHANGED record /\ ~ Active(r)
      BY DEF WritePlain, At, RInv, Standing
<1>2. Len(Edits[e]) = 1
      BY <1>1, Assumptions DEF Assumptions
<1>3. PathsOf(e) = {path} /\ path \in Paths /\ r \in Roots
      BY <1>2, EditFacts DEF PathsOf
<1>4. /\ disk'[path] = content /\ \A p \in Paths : p # path => disk'[p] = disk[p]
      /\ \A q \in Roots : outside'[q] = IF q = r THEN outside[q] ELSE outside[q] \union {path}
      BY <1>1, <1>3 DEF Write, Types, FilesTyped
<1>5. ASSUME NEW p \in Paths, p # path PROVE Settled'[p] = Settled[p]
  <2>1. \A q \in Roots : p \in outside'[q] <=> p \in outside[q]
    <3>1. SUFFICES ASSUME NEW q \in Roots PROVE p \in outside'[q] <=> p \in outside[q]
          OBVIOUS
    <3>2. outside'[q] = outside[q] \/ outside'[q] = outside[q] \union {path}
          BY <1>4
    <3> HIDE DEF path
    <3>3. QED BY <1>5, <3>2
  <2>2. \A q \in Roots : Cover(q, p)' <=> Cover(q, p)
        BY <1>1, <2>1 DEF Cover, Active
  <2>3. QED BY <1>1, <1>4, <1>5, <2>2, SameSettled
<1>6. Settled'[path] = Target(e)[path]
  <2>1. \A q \in Roots : ~ Cover(q, path)'
        BY <1>1, <1>3, <1>4 DEF Cover, Active
  <2>2. Settled'[path] = content
        BY <1>3, <1>4, <2>1, SettledValueNext DEF ValueShown, Value
  <2>3. Reached(e, 2, path, content)
        BY <1>2 DEF Reached
  <2>4. 2 \in Nat /\ 2 > Len(Edits[e]) /\ path \in PathsOf(e)
        BY <1>2, <1>3
  <2>5. QED BY <2>2, <2>3, <2>4, ReachedTarget
<1>7. DOMAIN Target(e) = {path}
      BY <1>3 DEF Target
<1>8. QED BY <1>5, <1>6, <1>7 DEF Abstract!Commit

LEMMA StepAtomic ==
    ASSUME Types, RInv, DInv, Sole, Sole', NEW e \in Editors, Step(e)
    PROVE  Abstract!Next
<1>1. Doing(e) /\ Standing(e)
      BY DEF RInv, DInv
<1>2. CASE Complete(e)
      BY <1>2, CompleteCommits DEF Abstract!Next
<1>3. CASE WritePlain(e)
      BY <1>3, PlainCommits DEF Abstract!Next
<1>4. CASE ~ Complete(e) /\ ~ WritePlain(e)
  <2>1. ASSUME NEW p \in Paths, ~ Touched(p)' PROVE Settled'[p] = Settled[p]
    <3>1. p \notin outside'[Root[e]]
          BY <2>1 DEF Touched
    <3>2. Value(Root[e], p)' = Value(Root[e], p)
          BY <1>1, <1>4, <3>1, RecoveryValue, BeginValue, EditValue DEF Step, Edit
    <3>3. QED BY <2>1, <3>2, ForeignSettled
  <2>2. QED BY <2>1 DEF Abstract!Next, Abstract!Interference, Touched
<1>5. QED BY <1>2, <1>3, <1>4

LEMMA AtomicInit == Init => Abstract!Init
<1> SUFFICES ASSUME Init PROVE Abstract!Init
    OBVIOUS
<1>1. disk \in [Paths -> Contents] /\ \A r \in Roots : ~ Active(r)
      BY DEF Init, Active, NoRecord
<1>2. Settled = [p \in Paths |-> disk[p]]
      BY <1>1 DEF Settled
<1>3. QED BY <1>1, <1>2 DEF Abstract!Init

LEMMA AtomicNext ==
    ASSUME Types, RInv, DInv, NoOverlappingActive, DInv', NoOverlappingActive', [Next]_vars
    PROVE  Abstract!Next
<1>1. Sole /\ Sole'
      BY SoleCover, SoleCoverNext
<1>2. CASE UNCHANGED vars \/ Crash
  <2>1. UNCHANGED <<disk, record, outside>>
        BY <1>2 DEF vars, Crash
  <2>2. ASSUME NEW p \in Paths PROVE Settled'[p] = Settled[p]
        BY <1>1, <2>1, <2>2, SameSettled DEF Cover, Active
  <2>3. QED BY <2>2 DEF Abstract!Next, Abstract!Interference
<1>3. ASSUME NEW q \in Paths, NEW content \in Contents, Outsider(q, content) PROVE Abstract!Next
  <2>1. /\ \A p \in Paths : p # q => disk'[p] = disk[p]
        /\ \A r \in Roots : outside'[r] = outside[r] \union {q}
        /\ UNCHANGED record
        BY <1>3 DEF Outsider, Types, FilesTyped
  <2>2. ASSUME NEW p \in Paths, p # q PROVE Settled'[p] = Settled[p]
    <3>1. \A r \in Roots : Cover(r, p)' <=> Cover(r, p)
          BY <2>1, <2>2 DEF Cover, Active
    <3>2. QED BY <1>1, <2>1, <2>2, <3>1, SameSettled
  <2>3. \E e \in Editors : q \in outside'[Root[e]]
        BY <2>1, EditFacts, Assumptions DEF Assumptions
  <2>4. QED BY <2>2, <2>3 DEF Abstract!Next, Abstract!Interference
<1>4. ASSUME NEW e \in Editors, Step(e) PROVE Abstract!Next
      BY <1>1, <1>4, StepAtomic
<1>5. QED BY <1>2, <1>3, <1>4 DEF Next, Step

(* Where the calls of a workspace exclude one another, seen through their  *)
(* records the files of an edit change all at once, in the step that       *)
(* writes the decision, and change for no other reason than interference,  *)
(* whatever fails or crashes.                                              *)
THEOREM EditsAreAtomic == ASSUME Shared = {} PROVE Spec => ImplementsAtomicEdits
<1>1. Types /\ RInv /\ DInv /\ NoOverlappingActive /\ DInv' /\ NoOverlappingActive' /\ [Next]_vars
        => [Abstract!Next]_<<Settled, [e \in Editors |-> outside[Root[e]]]>>
      BY AtomicNext
<1>2. QED
      BY <1>1, TypesInit, TypesNext, RollsInit, RollsNext, DoesInit, DoesNext, ApartInit, ApartNext,
         AtomicInit, PTL
      DEF Spec, ImplementsAtomicEdits, Abstract!Spec
=============================================================================
