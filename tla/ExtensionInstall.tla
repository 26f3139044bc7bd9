-------------------------- MODULE ExtensionInstall --------------------------
(***************************************************************************)
(* Installing, replacing and removing one extension with its managed       *)
(* command: the operation lock of src/extensions/operationLock.js, the     *)
(* transaction marker of installTransaction.js with its recovery, and the  *)
(* moves of commitExtensionPackage and removeExtension in registry.js.     *)
(*                                                                         *)
(* Several processes share the state directory (the service, and the       *)
(* development command line).  A process that dies never comes back; the   *)
(* next start of the program is another process.  A file is moved, dropped *)
(* or written in one step, a package directory is deleted in two, between  *)
(* which it is Torn.  Any step may fail where Faulty says so; a marker     *)
(* that cannot be written as committed is still prepared.                  *)
(*                                                                         *)
(* Each transaction names its staging and backup paths afresh; the staging *)
(* and backup areas are those of the transaction the marker describes.     *)
(***************************************************************************)
EXTENDS Naturals, Sequences, FiniteSets

CONSTANTS
    Procs,     \* processes
    Versions,  \* versions of the extension
    Parts,     \* Parts[v]: the paths v occupies
    Absent,    \* the version that is nowhere: what removal asks for
    None,      \* nothing at a path
    Torn,      \* what a half-deleted directory holds
    Faulty,    \* control points at which a step may fail
    MaxLeft,   \* bound on the tickets that could not be deleted
    Fragile    \* versions whose commands may fail to be taken back

package == "package"   \* the package directory
command == "command"   \* the managed command's file
owner   == "owner"     \* the record of who owns the command

Paths   == {package, command, owner}
Targets == Versions \union {Absent}
Areas   == {"cur", "bak", "stg"}  \* in place, moved aside, staged
Nothing == [q \in Paths |-> None]

ASSUME PartsAssumption ==
    /\ Parts \in [Targets -> SUBSET Paths]
    /\ Parts[Absent] = {}
    /\ \A v \in Versions : package \in Parts[v]
    /\ \A v \in Versions : command \in Parts[v] => owner \in Parts[v]

ASSUME NothingAssumption ==
    /\ MaxLeft \in Nat
    /\ None \notin Targets /\ Torn \notin Targets /\ None # Torn
    /\ Absent \notin Versions

VARIABLES
    tickets,    \* lock files: <<process, "new" or "old">>
    uncertain,  \* has an installer with unconfirmed cleanup left its marker
    marker,     \* the transaction marker
    tree,       \* area ("cur", "bak", "stg") -> path -> what is there
    pc,         \* process -> where its call is
    job,        \* process -> what its call is to bring about; None: recovery
    seen,       \* process -> tickets it has still to judge
    todo,       \* process -> file operations of its present program
    promoted,   \* process -> paths it knows it has moved into place
    answer      \* process -> what its last call returned

locks == <<tickets, uncertain>>
disk  == <<marker, tree>>
vars  == <<locks, disk, pc, job, seen, todo, promoted, answer>>

Working == {"recovering", "preparing", "committing", "undoing", "unwinding",
            "cleaning", "done"}
Leased  == Working \union {"stuck"}

NoMarker == [phase |-> "none", existed |-> {}, entries |-> FALSE]

Init ==
    /\ tickets = {} /\ uncertain = FALSE
    /\ marker = NoMarker
    /\ tree = [a \in Areas |-> Nothing]
    /\ pc = [p \in Procs |-> "idle"]
    /\ job = [p \in Procs |-> None]
    /\ seen = [p \in Procs |-> {}]
    /\ todo = [p \in Procs |-> <<>>]
    /\ promoted = [p \in Procs |-> {}]
    /\ answer = [p \in Procs |-> "none"]

Goto(p, at) == pc' = [pc EXCEPT ![p] = at]
Reply(p, a) == answer' = [answer EXCEPT ![p] = a]

(* The call is over and its caller has its answer. *)
Forget(p) ==
    /\ job' = [job EXCEPT ![p] = None]
    /\ promoted' = [promoted EXCEPT ![p] = {}]
    /\ Reply(p, "none")
-----------------------------------------------------------------------------
(* acquireExtensionOperation: a ticket of its own, then a look at the      *)
(* others'.  It throws before that while an uncertain marker is there, and *)
(* when the process itself holds the lease.                                *)
Publish(p) ==
    /\ pc[p] = "idle" /\ ~uncertain
    /\ tickets' = tickets \union {<<p, "new">>}
    /\ Goto(p, "published")
    /\ UNCHANGED <<uncertain, disk, job, seen, todo, promoted, answer>>

Look(p) ==
    /\ pc[p] = "published"
    /\ seen' = [seen EXCEPT ![p] = tickets \ {<<p, "new">>}]
    /\ Goto(p, "judging")
    /\ UNCHANGED <<locks, disk, job, todo, promoted, answer>>

(* Mutant: only the process's own tickets count as alive. *)
AliveSelf(p, t) == t[1] = p

Alive(p, t) == pc[t[1]] # "dead"

(* A living competitor: busy.  A dead process's ticket is deleted; if that *)
(* fails, so does the call.                                                *)
Judge(p) ==
    /\ pc[p] = "judging"
    /\ \E t \in seen[p] :
         \/ /\ ~Alive(p, t)
            /\ tickets' = tickets \ {t}
            /\ seen' = [seen EXCEPT ![p] = @ \ {t}]
            /\ UNCHANGED pc
         \/ /\ Alive(p, t) \/ "judging" \in Faulty
            /\ Goto(p, "backing")
            /\ seen' = [seen EXCEPT ![p] = {}]
            /\ UNCHANGED tickets
    /\ UNCHANGED <<uncertain, disk, job, todo, promoted, answer>>

(* The finally block of an attempt that failed.  Its ticket may stay; that *)
(* MaxLeft do at most is a bound of the model.                             *)
BackOff(p) ==
    /\ pc[p] = "backing"
    /\ \/ tickets' = tickets \ {<<p, "new">>}
       \/ /\ "backing" \in Faulty
          /\ Cardinality({t \in tickets : t[2] = "old"}) < MaxLeft
          /\ tickets' = (tickets \ {<<p, "new">>}) \union {<<p, "old">>}
    /\ Goto(p, "idle")
    /\ UNCHANGED <<uncertain, disk, job, seen, todo, promoted, answer>>
-----------------------------------------------------------------------------
(* The file operations programs are made of.                               *)
Op(op, area, path) == [op |-> op, area |-> area, path |-> path]

Remove(area, path) == Op("remove", area, path)   \* rmSync(..., { force })
Aside(path)   == Op("aside", "cur", path)        \* target -> backup
Promote(path) == Op("promote", "stg", path)      \* staging -> target
PutBack(path) == Op("putback", "bak", path)      \* backup -> target, if empty
Restore(path) == Op("restore", "bak", path)      \* restorePath
Commit        == Op("commit", "marker", package) \* markExtensionInstallCommitted
Unmark        == Op("unmark", "marker", package) \* the marker is deleted

When(chosen, op) == IF chosen THEN <<op>> ELSE <<>>

(* What is done about the command, where the transaction covers it. *)
ForCommand(m, program) == IF m.entries THEN program ELSE <<>>

RemoveStaged(q)  == Remove("stg", q)
RemoveCurrent(q) == Remove("cur", q)
RemoveBackup(q)  == Remove("bak", q)

Finalize(m) ==
    <<RemoveStaged(package), RemoveBackup(package)>>
      \o ForCommand(m, <<RemoveStaged(command), RemoveStaged(owner),
                         RemoveBackup(command), RemoveBackup(owner)>>)

Rollback(m) ==
    ForCommand(m, <<RemoveStaged(command), RemoveStaged(owner),
                    Restore(command), Restore(owner)>>)
      \o <<RemoveStaged(package), Restore(package)>>

(* Mutant: the marker goes before what it describes. *)
RecoveryUnmarkedFirst(m) ==
    IF m.phase = "none" THEN <<>>
    ELSE <<Unmark>> \o (IF m.phase = "committed" THEN Finalize(m) ELSE Rollback(m))

(* recoverUnderLease: finalizeCommitted or rollbackPrepared, and unmark.   *)
Recovery(m) ==
    IF m.phase = "none" THEN <<>>
    ELSE (IF m.phase = "committed" THEN Finalize(m) ELSE Rollback(m)) \o <<Unmark>>

(* The moves of an installation and of a removal, which promotes nothing.  *)
Moves(m, v) ==
    <<Aside(package)>> \o When(package \in Parts[v], Promote(package))
      \o ForCommand(m, <<Aside(command), Aside(owner)>>
                         \o When(command \in Parts[v], Promote(command))
                         \o When(owner \in Parts[v], Promote(owner)))
      \o <<Commit>>

(* rollbackManagedCommandInstall. *)
UndoCommands(m, done) ==
    ForCommand(m, <<RemoveStaged(command), RemoveStaged(owner)>>
                    \o When(command \in done, RemoveCurrent(command))
                    \o When(owner \in done, RemoveCurrent(owner))
                    \o <<PutBack(command), PutBack(owner)>>)

(* The catch block of commitExtensionPackage. *)
Undo(m, done) ==
    <<RemoveStaged(package)>> \o UndoCommands(m, done)
      \o When(package \in done, RemoveCurrent(package)) \o <<PutBack(package), Unmark>>
-----------------------------------------------------------------------------
(* The next operation of p's program, and going on after it.               *)
Doing(p, op) == pc[p] \in Working /\ todo[p] # <<>> /\ Head(todo[p]).op = op

At(p)   == Head(todo[p]).path
Pop(p)  == todo' = [todo EXCEPT ![p] = Tail(@)]

Move(from, to, q) ==
    tree' = [tree EXCEPT ![to][q] = tree[from][q], ![from][q] = None]

(* A directory with something in it is Torn before it is gone. *)
Whole(a, q) == q = package /\ tree[a][q] \notin {None, Torn}

Lessen(a, q) == tree' = [tree EXCEPT ![a][q] = IF Whole(a, q) THEN Torn ELSE None]

Delete(p) ==
    /\ Doing(p, "remove")
    /\ LET a == Head(todo[p]).area IN
         /\ Lessen(a, At(p))
         /\ IF Whole(a, At(p)) THEN UNCHANGED todo ELSE Pop(p)
    /\ UNCHANGED <<locks, marker, pc, job, seen, promoted, answer>>

MoveAside(p) ==
    /\ Doing(p, "aside")
    /\ Move("cur", "bak", At(p))
    /\ Pop(p)
    /\ UNCHANGED <<locks, marker, pc, job, seen, promoted, answer>>

MoveIn(p) ==
    /\ Doing(p, "promote")
    /\ Move("stg", "cur", At(p))
    /\ promoted' = [promoted EXCEPT ![p] = @ \union {At(p)}]
    /\ Pop(p)
    /\ UNCHANGED <<locks, marker, pc, job, seen, answer>>

MoveBack(p) ==
    /\ Doing(p, "putback")
    /\ IF tree["cur"][At(p)] = None /\ tree["bak"][At(p)] # None
       THEN Move("bak", "cur", At(p)) ELSE UNCHANGED tree
    /\ Pop(p)
    /\ UNCHANGED <<locks, marker, pc, job, seen, promoted, answer>>

(* Mutant: what stands in the way of a backup is taken for the original.   *)
KeepsWhatIsThere(q) == q \in marker.existed

(* restorePath keeps what is in place if there is no backup and the path   *)
(* existed before.                                                         *)
Keeps(q) == tree["bak"][q] = None /\ q \in marker.existed

RestoreOne(p) ==
    /\ Doing(p, "restore")
    /\ LET q == At(p) IN
         \/ /\ Keeps(q) \/ (tree["cur"][q] = None /\ tree["bak"][q] = None)
            /\ Pop(p) /\ UNCHANGED tree
         \/ /\ ~Keeps(q) /\ tree["cur"][q] # None
            /\ Lessen("cur", q) /\ UNCHANGED todo
         \/ /\ tree["cur"][q] = None /\ tree["bak"][q] # None
            /\ Move("bak", "cur", q) /\ Pop(p)
    /\ UNCHANGED <<locks, marker, pc, job, seen, promoted, answer>>

MarkCommitted(p) ==
    /\ Doing(p, "commit")
    /\ marker' = [marker EXCEPT !.phase = "committed"]
    /\ Pop(p)
    /\ UNCHANGED <<locks, tree, pc, job, seen, promoted, answer>>

DeleteMarker(p) ==
    /\ Doing(p, "unmark")
    /\ marker' = NoMarker
    /\ Pop(p)
    /\ UNCHANGED <<locks, tree, pc, job, seen, promoted, answer>>

FileOperation(p) ==
    \/ Delete(p) \/ MoveAside(p) \/ MoveIn(p) \/ MoveBack(p) \/ RestoreOne(p)
    \/ MarkCommitted(p) \/ DeleteMarker(p)
-----------------------------------------------------------------------------
Run(p, at, program) ==
    /\ Goto(p, at)
    /\ todo' = [todo EXCEPT ![p] = program]

Finish(p, a) == Run(p, "done", <<>>) /\ Reply(p, a)

(* The lease is p's, and what an interrupted transaction left is recovered *)
(* first.  What the call wants matters only now: v, or None for a listing, *)
(* which wants nothing but the recovery.                                   *)
EnterLease(p, v) ==
    /\ pc[p] = "judging" /\ seen[p] = {}
    /\ job' = [job EXCEPT ![p] = v]
    /\ Run(p, "recovering", Recovery(marker))
    /\ UNCHANGED <<locks, disk, seen, promoted, answer>>

Recovered(p) ==
    /\ pc[p] = "recovering" /\ todo[p] = <<>>
    /\ IF job[p] = None THEN Finish(p, "none")
       ELSE Goto(p, "preparing") /\ UNCHANGED <<todo, answer>>
    /\ UNCHANGED <<locks, disk, job, seen, promoted>>

(* Downloads and helper programs, before anything is touched.  One that    *)
(* failed and may still be running leaves the uncertain marker.            *)
PrepareFails(p) ==
    /\ pc[p] = "preparing" /\ job[p] \in Versions /\ "preparing" \in Faulty
    /\ uncertain' \in {uncertain, TRUE}
    /\ Finish(p, "error")
    /\ UNCHANGED <<tickets, disk, job, seen, promoted>>

(* The transaction the marker is to describe.  A command the extension     *)
(* owns and the new version lacks is retired: moved aside, not replaced.   *)
Transaction(v) ==
    [phase   |-> "prepared",
     existed |-> {q \in Paths : tree["cur"][q] # None},
     entries |-> owner \in Parts[v] \/ tree["cur"][owner] # None]

Stage(v) == [tree EXCEPT !["stg"] = [q \in Paths |-> IF q \in Parts[v] THEN v ELSE None],
                         !["bak"] = Nothing]

(* beginExtensionInstallTransaction, and the program it protects; there is *)
(* nothing to do for removing what is not there.                           *)
Begin(p) ==
    /\ pc[p] = "preparing"
    /\ IF job[p] = Absent /\ tree["cur"][package] = None
       THEN Run(p, "cleaning", <<>>) /\ UNCHANGED disk
       ELSE /\ marker' = Transaction(job[p])
            /\ tree' = Stage(job[p])
            /\ Run(p, "committing", Moves(marker', job[p]))
    /\ UNCHANGED <<locks, job, seen, promoted, answer>>

(* Writing the marker fails, before or after it takes effect: nothing has  *)
(* moved, and an installation (not a removal) runs its catch block.        *)
BeginFails(p) ==
    /\ pc[p] = "preparing" /\ "preparing" \in Faulty
    /\ tree' = Stage(job[p])
    /\ marker' \in {marker, Transaction(job[p])}
    /\ IF job[p] = Absent THEN Finish(p, "error")
       ELSE Run(p, "unwinding", Undo(Transaction(job[p]), {})) /\ UNCHANGED answer
    /\ UNCHANGED <<locks, job, seen, promoted>>

(* The marker says committed: what was moved aside goes. *)
Committed(p) ==
    /\ pc[p] = "committing" /\ todo[p] = <<>>
    /\ Run(p, "cleaning", Recovery(marker))
    /\ UNCHANGED <<locks, disk, job, seen, promoted, answer>>

(* Cleanup is over, or is left to a later recovery. *)
Cleaned(p) ==
    /\ pc[p] = "cleaning"
    /\ todo[p] = <<>> \/ "cleaning" \in Faulty
    /\ Finish(p, "ok")
    /\ UNCHANGED <<locks, disk, job, seen, promoted>>

(* A move fails.  A removal recovers as a restart would; an installation   *)
(* that has begun on the commands takes those back first.                  *)
MoveFails(p) ==
    /\ pc[p] = "committing" /\ todo[p] # <<>> /\ "committing" \in Faulty
    /\ IF job[p] = Absent THEN Run(p, "unwinding", Recovery(marker))
       ELSE IF package \in promoted[p] /\ Head(todo[p]) # Commit
       THEN Run(p, "undoing", UndoCommands(marker, promoted[p]))
       ELSE Run(p, "unwinding", Undo(marker, promoted[p]))
    /\ UNCHANGED <<locks, disk, job, seen, promoted, answer>>

(* The commands are back, and no longer marked as promoted; or that failed *)
(* half way.  Then the outer catch block does it all again.                *)
Undone(p) ==
    /\ pc[p] = "undoing"
    /\ \/ /\ todo[p] = <<>>
          /\ promoted' = [promoted EXCEPT ![p] = {package}]
       \/ /\ todo[p] # <<>> /\ job[p] \in Fragile
          /\ UNCHANGED promoted
    /\ Run(p, "unwinding", Undo(marker, promoted'[p]))
    /\ UNCHANGED <<locks, disk, job, seen, answer>>

(* The catch block ends, or fails and leaves the marker to a recovery; so  *)
(* does a recovery.                                                        *)
Unwound(p) ==
    /\ pc[p] = "unwinding"
    /\ todo[p] = <<>> \/ "unwinding" \in Faulty
    /\ Finish(p, "error")
    /\ UNCHANGED <<locks, disk, job, seen, promoted>>

RecoveryFails(p) ==
    /\ pc[p] = "recovering" /\ todo[p] # <<>> /\ "recovering" \in Faulty
    /\ Finish(p, IF job[p] \in Targets THEN "error" ELSE "none")
    /\ UNCHANGED <<locks, disk, job, seen, promoted>>

(* release: the ticket goes, or the process keeps the lease for ever, and  *)
(* then its caller gets that error instead of the answer.                  *)
Release(p) ==
    /\ pc[p] = "done"
    /\ Forget(p)
    /\ \/ tickets' = tickets \ {<<p, "new">>} /\ Goto(p, "idle")
       \/ "done" \in Faulty /\ Goto(p, "stuck") /\ UNCHANGED tickets
    /\ UNCHANGED <<uncertain, disk, seen, todo>>

Crash(p) ==
    /\ pc[p] # "dead"
    /\ Run(p, "dead", <<>>) /\ Forget(p)
    /\ seen' = [seen EXCEPT ![p] = {}]
    /\ UNCHANGED <<locks, disk>>

Next ==
    \E p \in Procs :
        \/ Publish(p) \/ Look(p) \/ Judge(p) \/ BackOff(p)
        \/ \E v \in Targets \union {None} : EnterLease(p, v)
        \/ FileOperation(p)
        \/ Recovered(p) \/ RecoveryFails(p) \/ PrepareFails(p)
        \/ Begin(p) \/ BeginFails(p) \/ Committed(p) \/ Cleaned(p)
        \/ MoveFails(p) \/ Undone(p) \/ Unwound(p)
        \/ Release(p) \/ Crash(p)

Spec == Init /\ [][Next]_vars
-----------------------------------------------------------------------------
Programs == [op: {"remove", "aside", "promote", "putback", "restore", "commit", "unmark"},
             area: Areas \union {"marker"}, path: Paths]

(* Every variable has its type, and only a process with the lease has a    *)
(* program.                                                                *)
TypeOK ==
    /\ tickets \subseteq Procs \X {"new", "old"} /\ uncertain \in BOOLEAN
    /\ marker \in [phase: {"none", "prepared", "committed"},
                   existed: SUBSET Paths, entries: BOOLEAN]
    /\ tree \in [Areas -> [Paths -> Versions \union {None, Torn}]]
    /\ pc \in [Procs -> Leased \union {"idle", "published", "judging", "backing", "dead"}]
    /\ job \in [Procs -> Targets \union {None}]
    /\ seen \in [Procs -> SUBSET (Procs \X {"new", "old"})]
    /\ todo \in [Procs -> Seq(Programs)]
    /\ promoted \in [Procs -> SUBSET Paths]
    /\ answer \in [Procs -> {"none", "ok", "error"}]
    /\ \A p \in Procs : todo[p] # <<>> => pc[p] \in Working

(* "two entrants cannot both observe no other ticket": whatever dies, and  *)
(* whichever tickets cannot be deleted, one process at most has the lease. *)
OneInstaller == \A p, q \in Procs : pc[p] \in Leased /\ pc[q] \in Leased => p = q

(* Nothing that was moved aside outlives its marker: no later recovery     *)
(* would find it, neither to put it back nor to delete it.                 *)
NothingForgotten == marker.phase = "none" => tree["bak"] = Nothing

(* The record of what is under way is sound. *)
Sound == TypeOK /\ NothingForgotten

(* What a recovery would make of the path: what is installed.              *)
Settled(q) ==
    IF marker.phase # "prepared" \/ (q # package /\ ~marker.entries)
    THEN tree["cur"][q]
    ELSE IF tree["bak"][q] # None THEN tree["bak"][q]
    ELSE IF q \in marker.existed THEN tree["cur"][q]
    ELSE None

Store == INSTANCE PackageStore WITH
    installed <- [q \in Paths |-> Settled(q)],
    asked     <- [p \in Procs |-> IF pc[p] = "done" THEN None ELSE job[p]],
    applied   <- {p \in Procs : pc[p] \in {"committing", "cleaning"}
                                 /\ (pc[p] = "committing" => todo[p] = <<>>)}

(* Package, command and owner record change together, at the moment the    *)
(* marker says committed, and an error is returned only when nothing has   *)
(* changed: each step, recoveries and their failures included, is one of   *)
(* PackageStore ("preserve the previous installation on failure").         *)
ImplementsPackageStore == Store!Spec
=============================================================================
