--------------------------- MODULE EditTransaction ---------------------------
(***************************************************************************)
(* The recovery record of multi-file edits, src/structuredPatchTransaction,*)
(* with the calls that use it: the atomic batch of executionPlanner, the   *)
(* structured patch of bridge/patch, and the recovery every mutation runs  *)
(* before it starts (tools/execution.js).                                  *)
(*                                                                         *)
(* One record file per workspace root holds, for each path, its original   *)
(* content, the content the edit expects to be there, and the earlier      *)
(* expectations.  Files and records survive a crash; calls do not.         *)
(*                                                                         *)
(* JavaScript runs a call from one await to the next: MidSegment says      *)
(* where a call is inside such a segment, and then no other call moves.    *)
(* A crash and a change by a program outside may come between any steps.   *)
(***************************************************************************)
EXTENDS Naturals, Sequences, FiniteSets

CONSTANTS
    Editors,    \* the calls
    Roots,      \* workspace roots
    Paths,      \* files, by physical path
    Contents,   \* what a file may hold
    Absent,     \* of Contents: there is no file
    Kind,       \* "batch", "patch", or "plain": a call with no transaction
    Root,       \* the workspace of a call
    Edits,      \* Edits[e]: its edits, [path, content], in order
    Shared,     \* the calls in the path scope of the queue
    Overlaps,   \* pairs of roots one of which contains the other
    MaxCrashes, MaxMeddling     \* bounds of the instance

PathsOf(e) == {Edits[e][i].path : i \in 1 .. Len(Edits[e])}

ASSUME Assumptions ==
    /\ Editors # {} /\ Absent \in Contents
    /\ Kind \in [Editors -> {"batch", "patch", "plain"}]
    /\ Root \in [Editors -> Roots]
    /\ Edits \in [Editors -> Seq([path : Paths, content : Contents])]
    /\ \A e \in Editors : Len(Edits[e]) > 0
    /\ \A e \in Editors : Kind[e] = "patch" =>       \* merged by path
         \A i, j \in 1 .. Len(Edits[e]) : Edits[e][i].path = Edits[e][j].path => i = j
    /\ \A e \in Editors : Kind[e] = "plain" => Len(Edits[e]) = 1
    /\ Shared \subseteq Editors
    /\ Overlaps \subseteq Roots \X Roots
    /\ \A q, r \in Roots : <<q, r>> \in Overlaps => <<r, q>> \in Overlaps
    /\ \A e, f \in Editors :     \* a file in two roots is in nested ones
         PathsOf(e) \cap PathsOf(f) # {} /\ Root[e] # Root[f] => <<Root[e], Root[f]>> \in Overlaps
    /\ MaxCrashes \in Nat /\ MaxMeddling \in Nat

VARIABLES
    disk,       \* what each path holds
    record,     \* the recovery record of each root
    pc,         \* where a call is
    goal,       \* why it is recovering: "preamble", "begin" or "rollback"
    next,       \* the edit it does next
    snap,       \* the contents it took for the original ones
    todo,       \* the entries its recovery still has to restore
    report,     \* the effect it told its caller
    outside,    \* outside[r]: paths others changed since a call of r looked
    crashes, meddling   \* counted for the bounds

vars == <<disk, record, pc, goal, next, snap, todo, report, outside, crashes, meddling>>
call == <<pc, goal, next, snap, todo, report>>
env  == <<outside, crashes, meddling>>

Resting == {"idle", "done"}

NoRecord == [status |-> "none", entries |-> <<>>]

Active(r) == record[r].status = "active"

(* Mutant: a root does not look at the records of the roots around it. *)
OverlapIgnored(r) == FALSE

(* assertNoOverlappingTransaction: another root's record is in the way.    *)
Overlapped(r) == \E q \in Roots \ {r} : <<q, r>> \in Overlaps /\ Active(q)

(* The queue: calls of one workspace overlap only in the path scope, and   *)
(* then their paths are different.                                         *)
MayEnter(e) ==
    \A f \in Editors \ {e} :
        \/ pc[f] \in Resting
        \/ Root[f] # Root[e]
        \/ {e, f} \subseteq Shared /\ PathsOf(e) \cap PathsOf(f) = {}

(* The steps of a call between which it does not await.                    *)
MidSegment(e) ==
    \/ pc[e] \in {"recover", "restoring", "recording", "prepared"}
    \/ pc[e] = "editing" /\ Kind[e] = "patch"

Turn(e) == \A f \in Editors \ {e} : ~ MidSegment(f)

At(e, where) == pc[e] = where /\ Turn(e)

-----------------------------------------------------------------------------
(* Recovery: recoverStructuredPatchTransaction. *)

(* assertRecoverableState: the file holds what this transaction found, or  *)
(* something it wrote or was about to write.                               *)
Known(entry, content) ==
    content \in {entry.orig, entry.expected} \union entry.previous

(* A call of root r puts content into a file; for calls of other roots it  *)
(* is a change from outside.                                               *)
Write(r, p, content) ==
    /\ disk' = [disk EXCEPT ![p] = content]
    /\ outside' = [q \in Roots |-> IF q = r THEN outside[q] ELSE outside[q] \union {p}]
    /\ UNCHANGED <<crashes, meddling>>

Keep == UNCHANGED disk /\ UNCHANGED env

GoTo(e, where) == pc' = [pc EXCEPT ![e] = where]

NoSnap(e) == [p \in PathsOf(e) |-> Absent]

(* The call ends, and what it remembered with it. *)
Finish(e, effect) ==
    /\ GoTo(e, "done")
    /\ report' = [report EXCEPT ![e] = effect]
    /\ goal' = [goal EXCEPT ![e] = "preamble"]
    /\ next' = [next EXCEPT ![e] = 1]
    /\ snap' = [snap EXCEPT ![e] = NoSnap(e)]
    /\ todo' = [todo EXCEPT ![e] = {}]

(* The recovery of e throws: the call is refused, or its rollback is left  *)
(* pending.                                                                *)
RecoveryThrows(e) == Finish(e, IF goal[e] = "rollback" THEN "unknown" ELSE "refused")

(* Mutant: what the recovery found committed is reported as rolled back. *)
RecoveryReturnsNone(e, committed) ==
    IF goal[e] = "rollback" THEN Finish(e, "none")
    ELSE /\ GoTo(e, IF goal[e] = "begin" THEN "recording" ELSE "admitted")
         /\ UNCHANGED <<goal, next, snap, todo, report>>

(* The files are as the edit found them, unless its commit was only        *)
(* reported as failed.                                                     *)
RecoveryReturns(e, committed) ==
    IF goal[e] = "rollback" THEN Finish(e, IF committed THEN "unknown" ELSE "none")
    ELSE /\ GoTo(e, IF goal[e] = "begin" THEN "recording" ELSE "admitted")
         /\ UNCHANGED <<goal, next, snap, todo, report>>

StartRecovery(e, why) ==
    /\ GoTo(e, "recover")
    /\ goal' = [goal EXCEPT ![e] = why]

Decided(rec, status) == [status |-> status, entries |-> rec.entries]

(* Removing a record that is decided is only tidying: it may fail.         *)
CleanedUp(r, status) ==
    \/ record' = [record EXCEPT ![r] = NoRecord]
    \/ record' = [record EXCEPT ![r] = Decided(record[r], status)]

RecoverRefused(e) ==
    LET r == Root[e]
    IN /\ At(e, "recover")
       /\ \/ Overlapped(r)
          \/ /\ Active(r)
             /\ \E p \in DOMAIN record[r].entries : ~ Known(record[r].entries[p], disk[p])
       /\ RecoveryThrows(e)
       /\ UNCHANGED record /\ Keep

RecoverNothing(e) ==
    /\ At(e, "recover")
    /\ ~ Overlapped(Root[e]) /\ record[Root[e]].status = "none"
    /\ RecoveryReturns(e, FALSE)
    /\ UNCHANGED record /\ Keep

RecoverDecided(e) ==
    LET r == Root[e]
    IN /\ At(e, "recover")
       /\ ~ Overlapped(r) /\ record[r].status # "none" /\ ~ Active(r)
       /\ CleanedUp(r, record[r].status)
       /\ RecoveryReturns(e, record[r].status = "committed")
       /\ Keep

RecoverPlan(e) ==
    LET r == Root[e]
    IN /\ At(e, "recover")
       /\ ~ Overlapped(r) /\ Active(r)
       /\ \A p \in DOMAIN record[r].entries : Known(record[r].entries[p], disk[p])
       /\ GoTo(e, "restoring")
       /\ todo' = [todo EXCEPT ![e] = DOMAIN record[r].entries]
       /\ UNCHANGED <<disk, record, goal, next, snap, report>> /\ UNCHANGED env

Recover(e) == RecoverRefused(e) \/ RecoverNothing(e) \/ RecoverDecided(e) \/ RecoverPlan(e)

(* Mutant: the targets are looked at once, when the restore is planned.    *)
RestoreUnchecked(e, p) ==
    LET entry == record[Root[e]].entries[p]
    IN /\ At(e, "restoring") /\ p \in todo[e]
       /\ Write(Root[e], p, entry.orig)
       /\ todo' = [todo EXCEPT ![e] = @ \ {p}]
       /\ UNCHANGED <<pc, goal, next, snap, report, record>>

(* One target, in the order of the record in the code, in any order here.  *)
(* It is checked again: a program outside may have come in between.        *)
RestoreEntry(e, p) ==
    LET entry == record[Root[e]].entries[p]
    IN /\ At(e, "restoring") /\ p \in todo[e]
       /\ \/ /\ Known(entry, disk[p])
             /\ IF disk[p] = entry.orig THEN Keep ELSE Write(Root[e], p, entry.orig)
             /\ todo' = [todo EXCEPT ![e] = @ \ {p}]
             /\ UNCHANGED <<pc, goal, next, snap, report>>
          \/ /\ disk[p] # entry.orig     \* unknown content, or a failing write
             /\ RecoveryThrows(e)
             /\ Keep
       /\ UNCHANGED record

(* Mutant: the rollback is decided before every entry is restored. *)
RecoverDoneEarly(e) ==
    LET r == Root[e]
    IN /\ At(e, "restoring")
       /\ CleanedUp(r, "rolled_back") /\ RecoveryReturns(e, FALSE)
       /\ Keep

(* The rollback is decided once the record says so; writing that may fail, *)
(* and may fail after the record is replaced.                              *)
RecoverDone(e) ==
    LET r == Root[e]
    IN /\ At(e, "restoring") /\ todo[e] = {}
       /\ \/ CleanedUp(r, "rolled_back") /\ RecoveryReturns(e, FALSE)
          \/ RecoveryThrows(e) /\ UNCHANGED record
          \/ RecoveryThrows(e) /\ record' = [record EXCEPT ![r] = Decided(record[r], "rolled_back")]
       /\ Keep

-----------------------------------------------------------------------------
(* A call. *)

(* It leaves the queue and recovers what an interrupted edit left.         *)
Enter(e) ==
    /\ At(e, "idle") /\ MayEnter(e)
    /\ StartRecovery(e, "preamble")
    /\ UNCHANGED <<next, snap, todo, report, disk, record>> /\ UNCHANGED env

Took(e) ==
    /\ snap' = [snap EXCEPT ![e] = [p \in PathsOf(e) |-> disk[p]]]
    /\ outside' = [outside EXCEPT ![Root[e]] = @ \ PathsOf(e)]
    /\ UNCHANGED <<crashes, meddling>>

(* A batch takes its snapshots and begins in one segment.                  *)
BeginBatch(e) ==
    /\ At(e, "admitted") /\ Kind[e] = "batch"
    /\ Took(e)
    /\ StartRecovery(e, "begin")
    /\ UNCHANGED <<next, todo, report, disk, record>>

(* A patch plans, awaits the bookkeeping of each path, and then begins.    *)
PlanPatch(e) ==
    /\ At(e, "admitted") /\ Kind[e] = "patch"
    /\ Took(e)
    /\ GoTo(e, "planned")
    /\ UNCHANGED <<goal, next, todo, report, disk, record>>

BeginPatch(e) ==
    /\ At(e, "planned")
    /\ StartRecovery(e, "begin")
    /\ UNCHANGED <<next, snap, todo, report, disk, record>> /\ UNCHANGED env

(* The preflight or the plan rejects the edit, or the call is cancelled.   *)
Decline(e) ==
    /\ At(e, "admitted") \/ At(e, "planned")
    /\ Finish(e, "refused")
    /\ UNCHANGED record /\ Keep

(* A call with no transaction changes its one file.                        *)
WritePlain(e) ==
    LET edit == Edits[e][1]
    IN /\ At(e, "admitted") /\ Kind[e] = "plain"
       /\ Write(Root[e], edit.path, edit.content)
       /\ Finish(e, "applied")
       /\ UNCHANGED record

(* What a patch, which names each path once, will write. *)
Written(e) ==
    [p \in PathsOf(e) |-> Edits[e][CHOOSE i \in 1 .. Len(Edits[e]) : Edits[e][i].path = p].content]

(* beginStructuredPatchTransaction: a batch expects what it found, a patch *)
(* what it will write.                                                     *)
NewRecord(e) ==
    [status  |-> "active",
     entries |-> [p \in PathsOf(e) |->
                    [orig     |-> snap[e][p],
                     expected |-> IF Kind[e] = "patch" THEN Written(e)[p] ELSE snap[e][p],
                     previous |-> {}]]]

Record(e) ==
    /\ At(e, "recording")
    /\ \/ /\ record' = [record EXCEPT ![Root[e]] = NewRecord(e)]
          /\ GoTo(e, "editing")
          /\ UNCHANGED <<goal, next, snap, todo, report>>
       \/ /\ \/ UNCHANGED record
             \/ record' = [record EXCEPT ![Root[e]] = NewRecord(e)]
          /\ Finish(e, "refused")
    /\ Keep

(* The catch of the edit: roll back.                                       *)
Fail(e) == StartRecovery(e, "rollback") /\ UNCHANGED <<next, snap, todo, report>>

(* Mutant: the state an edit replaces is forgotten when the next is noted. *)
NotedForgetting(entry, content) == [entry EXCEPT !.expected = content]

(* Mutant: the whole entry is kept as an earlier state, not its content. *)
NotedWhole(entry, content) ==
    [orig     |-> entry.orig,
     expected |-> content,
     previous |-> entry.previous \union {entry}]

Noted(entry, content) ==
    [orig     |-> entry.orig,
     expected |-> content,
     previous |-> entry.previous \union {entry.expected}]

WithNoted(rec, p, content) ==
    [status  |-> rec.status,
     entries |-> [rec.entries EXCEPT ![p] = Noted(rec.entries[p], content)]]

(* prepareStructuredPatchEntry: the record learns of the next content      *)
(* before the file does.  It throws if the record is not this one, if the  *)
(* file is not as expected, or if writing fails, late or early; the call   *)
(* may also be cancelled or its preview fail.                              *)
Prepare(e) ==
    LET r    == Root[e]
        edit == Edits[e][next[e]]
        mine == Active(r) /\ edit.path \in DOMAIN record[r].entries
        noted == [record EXCEPT ![r] = WithNoted(record[r], edit.path, edit.content)]
        asExpected == mine /\ disk[edit.path] = record[r].entries[edit.path].expected
    IN /\ At(e, "editing") /\ Kind[e] = "batch" /\ next[e] <= Len(Edits[e])
       /\ \/ /\ asExpected
             /\ record' = noted
             /\ GoTo(e, "prepared")
             /\ UNCHANGED <<goal, next, snap, todo, report>>
          \/ Fail(e) /\ UNCHANGED record
          \/ asExpected /\ Fail(e) /\ record' = noted
       /\ Keep

(* The file itself is replaced; a failure may come before or after.        *)
ApplyBatch(e) ==
    LET edit  == Edits[e][next[e]]
        Put   == Write(Root[e], edit.path, edit.content)
    IN /\ At(e, "prepared")
       /\ \/ /\ Put
             /\ GoTo(e, "editing")
             /\ next' = [next EXCEPT ![e] = @ + 1]
             /\ UNCHANGED <<goal, snap, todo, report>>
          \/ Fail(e) /\ (Keep \/ Put)
       /\ UNCHANGED record

(* A patch writes only over the content it planned from.                   *)
AsPlanned(e, p) == disk[p] = snap[e][p]

ApplyPatch(e) ==
    LET edit == Edits[e][next[e]]
        Put  == AsPlanned(e, edit.path) /\ Write(Root[e], edit.path, edit.content)
    IN /\ At(e, "editing") /\ Kind[e] = "patch" /\ next[e] <= Len(Edits[e])
       /\ \/ /\ Put
             /\ next' = [next EXCEPT ![e] = @ + 1]
             /\ UNCHANGED <<pc, goal, snap, todo, report>>
          \/ Fail(e) /\ (Keep \/ Put)
       /\ UNCHANGED record

(* completeStructuredPatchTransaction: writing the decision is the commit. *)
(* A record that is gone counts as committed.                              *)
Complete(e) ==
    LET r == Root[e]
    IN /\ At(e, "editing") /\ next[e] > Len(Edits[e])
       /\ \/ /\ IF record[r].status = "none" THEN UNCHANGED record ELSE CleanedUp(r, "committed")
             /\ Finish(e, "applied")
          \/ Fail(e) /\ UNCHANGED record
          \/ /\ record[r].status # "none"
             /\ Fail(e)
             /\ record' = [record EXCEPT ![r] = Decided(record[r], "committed")]
       /\ Keep

-----------------------------------------------------------------------------
(* The environment. *)

(* The service dies; the callers of unfinished calls may ask again.        *)
Crash ==
    /\ crashes < MaxCrashes
    /\ crashes' = crashes + 1
    /\ pc' = [e \in Editors |-> IF pc[e] = "done" THEN "done" ELSE "idle"]
    /\ goal' = [e \in Editors |-> "preamble"]
    /\ next' = [e \in Editors |-> 1]
    /\ snap' = [e \in Editors |-> NoSnap(e)]
    /\ todo' = [e \in Editors |-> {}]
    /\ UNCHANGED <<disk, record, report, outside, meddling>>

(* An editor, a shell or a git command outside Rel.AI changes a file.      *)
Outsider(p, content) ==
    /\ meddling < MaxMeddling
    /\ meddling' = meddling + 1
    /\ disk[p] # content
    /\ disk' = [disk EXCEPT ![p] = content]
    /\ outside' = [r \in Roots |-> outside[r] \union {p}]
    /\ UNCHANGED <<record, crashes>> /\ UNCHANGED call

Init ==
    /\ disk \in [Paths -> Contents]
    /\ record = [r \in Roots |-> NoRecord]
    /\ pc = [e \in Editors |-> "idle"]
    /\ goal = [e \in Editors |-> "preamble"]
    /\ next = [e \in Editors |-> 1]
    /\ snap = [e \in Editors |-> NoSnap(e)]
    /\ todo = [e \in Editors |-> {}]
    /\ report = [e \in Editors |-> "pending"]
    /\ outside = [r \in Roots |-> {}]
    /\ crashes = 0 /\ meddling = 0

Recovery(e) == Recover(e) \/ (\E p \in Paths : RestoreEntry(e, p)) \/ RecoverDone(e)

Begin(e) == Enter(e) \/ BeginBatch(e) \/ PlanPatch(e) \/ BeginPatch(e) \/ Decline(e) \/ Record(e)

Edit(e) ==
    WritePlain(e) \/ Prepare(e) \/ ApplyBatch(e) \/ ApplyPatch(e) \/ Complete(e)

Next ==
    \/ \E e \in Editors : Recovery(e) \/ Begin(e) \/ Edit(e)
    \/ Crash
    \/ \E p \in Paths, content \in Contents : Outsider(p, content)

Spec == Init /\ [][Next]_vars

-----------------------------------------------------------------------------
(* Properties. *)

Entry == [orig : Contents, expected : Contents, previous : SUBSET Contents]

Statuses == {"none", "active", "committed", "rolled_back"}

Records == [status : Statuses, entries : UNION {[D -> Entry] : D \in SUBSET Paths}]

(* Type invariant. *)
TypeOK ==
    /\ disk \in [Paths -> Contents]
    /\ record \in [Roots -> Records]
    /\ pc \in [Editors -> Resting \union {"recover", "restoring", "admitted", "planned",
                                         "recording", "editing", "prepared"}]
    /\ goal \in [Editors -> {"preamble", "begin", "rollback"}]
    /\ \A e \in Editors : next[e] \in 1 .. Len(Edits[e]) + 1
    /\ \A e \in Editors : snap[e] \in [PathsOf(e) -> Contents]
    /\ todo \in [Editors -> SUBSET Paths]
    /\ report \in [Editors -> {"pending", "applied", "none", "unknown", "refused"}]
    /\ outside \in [Roots -> SUBSET Paths]
    /\ crashes \in 0 .. MaxCrashes /\ meddling \in 0 .. MaxMeddling

(* An interrupted edit can be rolled back: whatever step fails or is cut   *)
(* short by a crash, each of its files that nobody else touched holds a    *)
(* content its record knows.                                               *)
Recoverable ==
    \A r \in Roots : Active(r) =>
        \A p \in DOMAIN record[r].entries \ outside[r] : Known(record[r].entries[p], disk[p])

(* Workspaces one of which lies in the other never edit at the same time:  *)
(* the record of the one keeps out the other, across crashes.              *)
NoOverlappingActive ==
    \A q, r \in Roots : q # r /\ <<q, r>> \in Overlaps => ~ (Active(q) /\ Active(r))

(* The contents the edits of e leave, by path.                             *)
Target(e) ==
    [p \in PathsOf(e) |->
        Edits[e][CHOOSE i \in 1 .. Len(Edits[e]) :
                    /\ Edits[e][i].path = p
                    /\ \A j \in i + 1 .. Len(Edits[e]) : Edits[e][j].path # p].content]

(* What an edit reports is so: after "applied" its files hold what it was  *)
(* asked to write, after "none" what it found, but for files that others   *)
(* changed.                                                                *)
ReportTrue(e) ==
    /\ report'[e] = "applied" =>
         \A p \in PathsOf(e) \ outside'[Root[e]] : disk'[p] = Target(e)[p]
    /\ report'[e] = "none" =>
         \A p \in PathsOf(e) \ outside'[Root[e]] : disk'[p] = snap[e][p]
ReportsTruthful == [][\A e \in Editors : report'[e] # report[e] => ReportTrue(e)]_vars

(* A rollback, or the recovery after a crash, never replaces a content     *)
(* that neither the edit nor its record put there.                         *)
RollbackKeepsOthers ==
    [][\A e \in Editors, p \in Paths :
          pc[e] = "restoring" /\ meddling' = meddling /\ disk'[p] # disk[p] =>
             Known(record[Root[e]].entries[p], disk[p])]_vars

(* The content a path would have were every interrupted edit rolled back.  *)
Settled ==
    [p \in Paths |->
        IF \E r \in Roots : Active(r) /\ p \in DOMAIN record[r].entries \ outside[r]
        THEN LET r == CHOOSE r \in Roots : Active(r) /\ p \in DOMAIN record[r].entries \ outside[r]
             IN record[r].entries[p].orig
        ELSE disk[p]]

(* Seen through its recovery records, the workspace changes as AtomicEdits *)
(* says: all files of an edit in one step, or none.                        *)
Abstract == INSTANCE AtomicEdits
    WITH files <- Settled, outside <- [e \in Editors |-> outside[Root[e]]],
         Targets <- [e \in Editors |-> Target(e)]
ImplementsAtomicEdits == Abstract!Spec
=============================================================================
