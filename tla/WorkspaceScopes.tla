-------------------------- MODULE WorkspaceScopes --------------------------
(***************************************************************************)
(* Which locks a tool call takes, and in which order: the pure part of     *)
(* runWorkspaceOperation and runWorkspaceMutationBoundary in               *)
(* src/workspaceOperationQueue.js.  A request is a record                  *)
(*   [scope, mode, task, paths, bypass]                                    *)
(* with the fields the options object has: the scope asked for, read or    *)
(* write, the logical task (NoTask when the call names none), the path     *)
(* keys in the order the caller listed them, and bypassTaskLane.  Path     *)
(* keys are numbers so that the code's sort has an order to follow, and so *)
(* are tasks.                                                              *)
(***************************************************************************)
EXTENDS Naturals, Sequences, SequencesExt

READ  == "read"
WRITE == "write"

NoTask == 0

OuterKey      == <<"workspace">>
TaskKey(t)    == <<"task", t>>
MutationKey   == <<"mutation">>
PathKey(file) == <<"path", file>>

(***************************************************************************)
(* The scope really used: a call with no task identity locks the whole     *)
(* workspace, and a path scope with no path keys falls back to the         *)
(* mutation lane.                                                          *)
(***************************************************************************)
EffectiveScope(r) ==
    IF r.task = NoTask THEN "workspace"
    ELSE IF r.scope = "paths" /\ r.paths = <<>> THEN "mutation"
    ELSE IF r.scope \in {"workspace", "mutation", "paths"} THEN r.scope
    ELSE "task"

Lock(k, m) == [key |-> k, mode |-> m]

(* Mutant: the path keys are locked in the order the caller gave them. *)
PathsAsGiven(r) == r.paths

SortedPaths(r) == SetToSortSeq(ToSet(r.paths), <)

(* The nested withLock calls, outermost first. *)
LockPlan(r) ==
    LET outer == Lock(OuterKey, READ)
        lane  == Lock(TaskKey(r.task), r.mode)
        files == SortedPaths(r)
    IN CASE EffectiveScope(r) = "workspace" -> << Lock(OuterKey, r.mode) >>
         [] EffectiveScope(r) = "task"      -> << outer, lane >>
         [] EffectiveScope(r) = "mutation"  ->
              <<outer>> \o (IF r.bypass THEN <<>> ELSE <<lane>>)
                        \o << Lock(MutationKey, WRITE) >>
         [] EffectiveScope(r) = "paths"     ->
              << outer, Lock(TaskKey(r.task), WRITE), Lock(MutationKey, READ) >>
                 \o [i \in 1 .. Len(files) |-> Lock(PathKey(files[i]), WRITE)]

(* The calls that wait on mutationQueueSignal, so that a quarantine aborts *)
(* them, and that refuse to enter the queue while one is in force.         *)
UsesBlockSignal(r) ==
    \/ EffectiveScope(r) \in {"mutation", "paths"}
    \/ EffectiveScope(r) = "workspace" /\ r.mode = WRITE

(* Of these, the ones whose body looks at the quarantine again once the    *)
(* last lock is theirs; the path scope does not.                           *)
RechecksBlock(r) == UsesBlockSignal(r) /\ EffectiveScope(r) # "paths"

(* isMutationScope in tools/execution.js: the calls that get a watchdog    *)
(* that can quarantine the workspace.  It looks at the scope asked for.    *)
IsMutationScope(r) == r.scope \in {"mutation", "paths", "workspace"}
=============================================================================
