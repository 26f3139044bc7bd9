# Rel.AI: specifications of the execution core

Rel.AI is a local MCP service: ChatGPT sends tool calls through a tunnel, and
the service runs them on the repositories of one computer. It is one Node.js
service process (with worker threads and child processes) started by an Electron
host. Everything it promises about a repository (one writer at a time, edits
that are whole or not there, work that is done once and reported truthfully) is
kept by JavaScript that interleaves at every `await`, timer and event, and by
files that survive a crash. These modules specify that code, TLC checks them on
small instances, and TLAPS proves the central properties for all sizes.

Paths below are relative to the repository; lines are in `PROJECT.json`.

## 1. Inventory

| Component | State it keeps | Operations | Made correct by |
|---|---|---|---|
| **Workspace operation queue** `src/workspaceOperationQueue.js` | a Map of reader-writer locks per workspace (global, mutation lane, task lanes, paths), their queues, the quarantine of a workspace | `runWorkspaceOperation`, `runWorkspaceMutationBoundary`, block, release, bind identity; aborts, deadlines | exclusion per key, FIFO with no stranded waiter, no deadlock between levels, no mutation under quarantine |
| **Mutation watchdog** `src/tools/execution.js` | timers and the token of the running mutation | raise on overrun, keep or lift on settlement | a quarantine never outlives its reason, and never ends before it |
| **Mutation startup recovery** `src/mutationAutoRecovery.js`, `mutationProcessOwnership.js` | process records of mutations | block at startup, reconcile, unblock | a surviving process is found before a new mutation starts |
| **Host resource scheduler** `src/hostResourceScheduler.js` | lanes, leases, tickets by lane and owner, owner order | acquire (many), release (early), abort, deadline, dispose, pump | capacity, all-or-nothing, FIFO per workspace, fair between workspaces, every ticket answered |
| **Edit recovery transactions** `src/structuredPatchTransaction.js` | one record file per workspace root | begin, prepare, complete, recover, inspect | an interrupted edit is rolled back or finished, never half there |
| **Edit drivers** `src/executionPlanner.ts`, `src/bridge/patch.js` | the plan of a call, contents it saw | batch, structured patch, single edit | a report agrees with the files |
| **Operation receipts** `src/mcp/fallbackExecutions.js`, `src/mcp/transportFallback.ts` | in-memory records, journal and pointer files, retry timers | admit, run, settle, cancel, acknowledge, persist, recover, prune | started at most once, a result is never lost, copies agree |
| **Task history store** `src/taskHistoryStore.ts` | session rows, deferred writes, worker | persist, barrier, flush, reconcile, search | a deferred write never overtakes a direct one |
| **State database, durable files** `src/stateDatabase.ts`, `durableState.ts` | SQLite rows, atomic files | atomic replace, transactions | all or nothing |
| **Tool call pipeline** `src/tools.js`, `src/tools/` | composition state, activity | validate, queue, run, record | one completion per call |
| **MCP server, transports** `src/server.ts`, `src/mcp/` | sessions, event replay, connection generations | call, stream, resume | an old connection never answers for a new one |
| **Task lifecycle, activity, integrity** `src/taskEvents.js`, `taskIntegrity.ts`, ... | state of a task, ownership of changed files | start, progress, finish, claim | completion is final, files have one owner |
| **Process manager** `src/processManager.ts` | records, metadata files, reuse reservations, slots of the persistent lane, pending restorations | start or reuse, stop, read, list, restore, react to exits and failed writes | a slot per live process and no longer, no stranger signalled, one process per fingerprint |
| **Goal mode** `src/chatgptGoalMode.js` | goal records | claim turn, submit, reconcile, stop | a continuation is submitted at most once |
| **Extensions** `src/extensions/` | ticket lock files, install markers | acquire, install, recover, remove | one installer, install is atomic |
| **Secure tunnel** `electron/secure-tunnel-runtime.js`, `tunnel-recovery-supervisor.js`, `service-runtime.js` | child process, generation, retry timer | start, stop, observe, retry | one client process, a lost tunnel is retried, a stopped one stays stopped |
| **Desktop host, service process** `electron/` | requests in flight, shutdown order | request, stop, shutdown | every request is answered |
| Updater, browser and computer use, repository services and intelligence, configuration, telemetry, dashboard | see `PROJECT.json` | | |

How they interact. A tool call enters through the server, may be admitted as an
operation receipt, waits in the workspace queue (`tools/execution.js` chooses
scope and mode), runs the edit recovery preamble under its lock, then its body:
edits through the edit drivers, commands through the host scheduler. A call the
client may outlive is admitted as a receipt first, and its result is kept in the
row of its task until it was acknowledged. The tunnel and the local service are
started, restarted and stopped by the desktop host, which also retries them.
Extensions are installed by the service or by the development command line, two
processes that share nothing but files. The watchdog and the startup recovery talk to the queue through its quarantine. The
edit record and the queue are coupled in one direction only: the record relies
on the queue for exclusion, which is where finding 2 comes from.

What is hard here: continuations that run after the state they looked at has
changed; abort events, deadlines and admissions of one entry in every order;
nested locks; several indexes of one ticket; a crash between any two file
writes; failures of the very write that reports a result. The list with lines is
`hazards` in `PROJECT.json`.

## 2. Modules

### Workspace queue
* `WorkspaceScopes`: the pure part: which locks a request takes and in which
  order (`workspaceLocks`, `withPathLocks` sorting and de-duplicating paths) and
  which requests heed the quarantine.
* `WorkspaceQueue`: lock states (`obj`), the Map of them (`locks`), and callers
  with a stack of locks. A lock state is an object of its own and the Map may
  come to hold another one for the same key: the module keeps both, since that is
  what the code does. Control points follow the `await`s of `withLock`
  (`waiting`, `admitted` or `rejected` but not yet resumed, `running`,
  `unwinding`). `admitWaiting` and the dispatch of abort listeners are one action
  per iteration. Resumptions run in the order of their promises (`jobs`).
* `ReadWriteLock`: the abstract promise: a family of fair reader-writer locks that
  know nothing of plans, deadlines or quarantine; a step concerns one lock.
* `WorkspaceLocks`: `StatesAreLocks`, that the lock states implement them.

Simplifications: one physical workspace; `bindWorkspaceOperationIdentity` (alias
rebinding) is planned; a mutation boundary is nested in task-scope operations,
one at a time, as validation and completion use it; the durable process record
that decides whether a settled mutation stays quarantined is the choice between
`FinishInDoubt` and `Finish`; who is told about queue states, and error texts, are
left out. `Overrunning` names the calls whose watchdog may raise a quarantine:
`relai_exec` has none.

### Host resource scheduler
* `ResourcePool`: what it promises: a caller gets all its lanes or none, lanes
  have a limit, an early release gives a lane back once.
* `ResourceScheduler`: tickets in lane sets, in owner queues and in the owner
  order, as in the code; `pump` is one action per visited ticket, with the copies
  of the owner order it iterates over. `ImplementsPool` is the refinement.
  The re-entrancy guard of `pump` never triggers, since nothing it calls pumps.
* `ResourceTurns`: adds the count `passes` of who was served in place of a waiting
  ticket since it came and since its own workspace last had a turn in its lane, and
  states `NoDoubleOvertake` about it.

### Edit transactions
* `AtomicEdits`: an edit of several files is applied as a whole or not at all,
  and its caller is told which.
* `EditTransaction`: the record file of each root, the batch, patch and single
  edit with their control points at the `await`s, the recovery on admission,
  failing writes of the record, crashes that lose all calls and keep the files,
  and changes by other programs. `ImplementsAtomicEdits` is the refinement: the
  abstract content of a file is what recovery would leave there.

Simplifications: entries are restored in any order; removing a decided record is
part of the step that decides (a removal that fails is a crash between the
two); an edit is the content it writes; replacing one project file is one step;
a patch names each path once (the parser merges them). A program that changes a
file in the middle of an edit to an unknown content blocks the workspace: by
design of `assertRecoverableState`, and the model keeps it.

### Operation receipts
* `OperationReceipts`: the up to four copies of an operation (memory, row of the
  task, snapshot of the row that waits to be written, file), which copy a read
  takes, and every write with its outcomes: done, refused because the database is
  busy or broken, done but unreadable, and the same for the file. Admission,
  handler, settlement, cancellation, shutdown, acknowledgement, retry, repair of
  the pointer, pruning and recovery are actions; a crash leaves row, files and
  the processes an operation owns.

Simplifications: text, time and outcome of a result are who stated it and its
status; one task; a hydrated record that is cancelled throws in the code
(`controller` is missing), and the model keeps the record as the code leaves it.
Ghosts: `started`, `received`.

### Connection recovery
* `ConnectionRecovery`: the tunnel runtime, the recovery supervisor and the
  service runtime, with the part of the desktop host that joins them. A handler is
  an operator from one state of the connection to the next, because callbacks run
  inside the call that reports a status; an action is what happens between two
  waits. Starts, the restart (an attempt of the supervisor, or one for new
  settings) and the stop are threads; each knows whether its lifecycle token and
  the generation of the runtime are still its own, which is all that a comparison
  of counters in the code tells.

Simplifications: one tunnel; states `preparing`, `validating` and `starting` of
the runtime are one; delays have no length; at most two starts exist at once (one
that may be joined and one that was taken over). `wanted` records what was asked
last and whether a stop was overlooked (below), `overlap` that a client was launched while an operation that had been taken
over was still under way, and `desk.lost` that a failure met an attempt of an
older recovery or came before the runtime began.

### Extensions
* `PackageStore`: what is installed: package, command and owner record change
  together, to the version that was asked, and an error changes nothing.
* `ExtensionInstall`: processes with ticket files, the transaction marker, and the
  three areas in place, moved aside and staged. The programs of an installation,
  its rollback, a recovery and a removal are sequences of file operations; one
  action takes one operation, so a process may die, or its call fail, between any
  two. A package directory is deleted in two steps. `ImplementsPackageStore` maps
  each path to what a recovery would make of it.

Simplifications: a process that died never returns (process ids are not reused);
the call decides what it wants when it has the lease; a marker that cannot be
written as committed is still the prepared one, so a write that takes effect and
fails afterwards (`registry.js:1271`: the rollback then runs under a committed
marker) is not modelled; staged files that a process leaves before it writes its
marker leak, and nothing depends on them; one extension, one command.

### Managed processes
* `ManagedProcesses`: starts and stops with their control points at the `await`s,
  what the code knows of a process (`rec` in memory, `disk` in its metadata file)
  and, kept apart, what has become of its group (`os`), which the code sees only
  through events and probes of the PID. A start is named after the one process it
  may launch. Verdicts about a PID, the gate of a termination and the effects of
  `finishRecord` are operators on one record; a write of metadata may fail once for
  every process in `Fragile`. `job` is the restoration of slots, which outlives the
  start that asked for it.

Simplifications: process groups only (no Windows job, control group or terminal),
starts that accept a reused process, one lane; logs, pruning, the shutdown of the
manager and the cleanup at the end of a task are left out. `Recycle` gives a PID
away neither before the start that launched it has settled nor while a termination
waits for the group to go: in both cases the code probes a group that it has just
seen, within milliseconds. A service that dies between spawning a process and its
first metadata write leaves a process nobody knows; spawning and writing are one
synchronous step in the code, and in the model. `RecordsTruthful` exempts processes with
a failed write.

`MC*` modules give the constants their values; `*_proof` modules hold theorems.

## 3. Runs

| Run | Instance | Question | States |
|---|---|---|---|
| `barrier` | commit with deadline, edit with watchdog, cancellable validation with nested boundary, startup recovery | counters, queues and the Map agree, nothing strands, leaks or waits in a circle, only tidying up after a withdrawn waiter drops a lock state in use, and no mutation starts under a quarantine or after it caught it | 194 k |
| `withdrawals` | two edits naming paths in opposite orders, one cancellable, one overrunning, and a completion with nested boundary | every request ends; each lock state is a FIFO lock | 13 k |
| `race` | a waiting caller aborts | **violated**: finding 1 | |
| `lanes` | two lanes of one slot, five callers of two workspaces, each with a ticket of both lanes, shared signals, dispose, the bounds of the queue | all scheduler properties, turns between workspaces, and the refinement | 27 k |
| `edits` | batch that edits a file twice, single edit, patch in a nested root, 1 crash, 1 outside change | recoverable, truthful, atomic | 1.5 M |
| `shared_record` | two batches in path scope | **violated**: finding 2 | |
| `receipts` | an operation and the repetition of its request, two faults, one deferred event, one response on its way | run once, results final and durable as stated, written in the end | 124 k |
| `processes` | two starts of one fingerprint, one of another, two slots; one start may be cancelled, fail to launch or to be written and leave descendants; a stop, a restart | slots, records, files and processes agree, no stranger is signalled, one process per fingerprint | 1.2 M |
| `connection` | three requests of the user, two failures | one client, stop is final, legal transitions, status agrees, recovery | 51 k |
| `connection_lost` | two requests, one failure | **violated**: finding 3 | |
| `installs` | three processes, a version with binary, one with a record only, one with neither; any step may fail | one installer, nothing forgotten, atomic | 870 k |
| `install_undo` | one process, taking back a binary may fail | **violated**: finding 4 | |

Bounds. Three or four callers are enough for a holder, a waiter behind it and a
third that arrives between a decision and its continuation; callers start over,
so long histories are covered. `MaxStates` bounds the lock states of a key alive
at once, two or three: old one, current one, spare (`SpareState`, an instance check,
confirmed that the bound never keeps a caller from getting one). Lanes of one
slot make every second ticket wait. One crash and one outside change suffice to hit
every point of an edit and, together with recovery on the next call, the recovery
of a recovery. In `lanes` a caller of the workspace that fills its share is refused
in a lane that is not its first, which is where the owner bound is counted.
In `processes` two slots let two processes live and make a third start, or a restored
process, wait; the start that is cancellable, fragile, mortal and a daemon's meets every exit, the
others are what it can disturb.
In `receipts` two faults are a crash and the failed write it meets, or a write and
its repair; a fault may hit every write of the operations in `Fragile`.
In `connection` three requests are a start, what takes it over and what takes that
over; two failures are one during a recovery from another; the run
that finds finding 3 needs two and one. In `installs` three processes are the
holder, the dead one whose ticket is judged, and a competitor; a process installs
as often as it likes, so a recovery meets every remainder; symmetry
of processes is sound there because the run has no liveness property. `MaxLeft` bounds
the ticket files of living processes that could not be deleted. Versions in
`Fragile` are those whose commands may fail to be taken back: `installs` leaves the
binary out, `install_undo` puts it in. No state constraint is used.

Fairness. Synchronous code that has started ends (weak fairness on the steps of
`admitWaiting`, dispatch, `pump`). Continuations and timers run (strong fairness
where other code may disable them for a moment, since the event loop never drops
one). Operations end. Nobody is obliged to call, abort, or raise or lift a
quarantine. Retry timers of receipts fire and the database worker answers; that a
result is written in the end rests on failures being finitely many, which is what
`MaxFaults` means. In the connection one weak fairness condition on `Progress` is enough:
a wait ends and a timer fires, while the user and the failures owe nothing.
`TicketsSettle` rests on the deadline timers: a ticket of several lanes can
be overtaken without bound by tickets of another primary lane.

Deadlock checking is off only where everything may be over: `edits` (calls
happen once), `receipts` and `connection` (requests and faults are used up),
`installs` (every process may have died), `processes` (starts and stops happen once).

What the properties exempt. `DurabilityIsTruthful` and `ResultsAreFinal` exempt rows
that were reconciled: the reconciliation replaces the result by a newer
statement, on purpose, and may collide with a journal of the same revision, in
which case the read fails closed. `Recovers` and `StatusAgrees` exempt `desk.lost`
(finding 3 and the failure before the runtime began, which is announced as
retried at `service-runtime.js:296` and is not) and `overlap`; `StopIsFinal` exempts
a stop asked for while an earlier stop, already followed by a start, was
under way (`service-runtime.js:418`), and a stop that a late result undoes: the desktop
gives the result of a settings restart to the supervisor although a stop has begun since
(`desktop-host.js:1116`), and when the service has failed in between, the status it
gives is a failure, which schedules a retry. The last takes five requests and four
failures, more than the run has. These are races the modules have and no
document speaks of. Two more: the uncertain marker of an installer is looked for
before the ticket is published (`operationLock.js:23`), and cancelling a record read
back from disk throws.

## 4. Findings

1. `race`: `deleteIdleLock` deletes the lock state of a key without checking that
   it is the one it was called for. The continuation of an aborted waiter can
   delete a newer one in use, and two operations then own a key that one of
   them has for writing. What holds is that the tidying up after a withdrawn waiter is
   the only step that forgets a lock state in use (`OnlyStaleTidyingForgets`), and that
   one lock state never has two owners (`StateExclusive`): without withdrawals a key has one owner.
2. `shared_record`: edits of different files overlap in the path scope, but the
   recovery record is one per workspace. The recovery on admission of one call
   takes the active record of another for an interrupted edit and rolls it back;
   the other then finds no record and reports success.
3. `connection_lost`: a retry asked for during a start becomes stale when that start
   connects. Its restart stops the connected client and starts another; if that
   fails, the failure is left to the attempt in flight, which no longer counts
   and schedules nothing.
4. `install_undo`: when taking back a replaced command fails half way, the outer catch
   block repeats it with `targetPromoted` still set, and deletes the previous command
   that the first attempt had put back.

## 5. Proofs

The theorems about the queue hold for every number of callers, keys, lock plans
and quarantine sources, those about the scheduler for every number of lanes, callers and
workspaces, all limits and bounds, those about installations for every number of
processes, those about edits for every set of edits, nested roots, files and number
of crashes (`EditsRecoverable`, `ReportsAreTrue` and `EditsAreAtomic` where the calls of one workspace exclude one another),
those about managed processes for every set of starts and stops, every limit and number
of restarts, those about the connection for every set of starts and number of requests
and failures, those about receipts for every set of operations and requests and number of
failures, deferred events and responses. Assumptions are the named ASSUMEs of the modules: callers of the queue are
finitely many and their plans sequences of lock requests within `MaxDepth`; callers of
the scheduler are finitely many and each wants some lane, with a positive limit; starts of
processes are finitely many, `Limit` is positive, and `None` is neither a record nor
metadata; the names "restart" and "stop" are no starts, and `None` is no client; in the
receipts the absence of a copy and the pointer are no entry, record or snapshot; among the
edits a patch names a path once, a plain call one path, and workspaces that share a file are nested.

* `WorkspaceQueue_proof`: `TypeCorrect`. The inductive invariant `Shape` adds to
  `TypeOK` that a caller's stack holds lock states of the keys its plan names
  (`Placed`) and that an entry is in a queue exactly when its caller waits there,
  once (`Queued`). Without `Queued` the counters of a lock state could be changed
  by an entry of a caller that already left. `TokensAreLive` and `NoneStartsBlocked` follow
  from `QInv == Shape /\ Marked /\ TokenOwnerRuns`: `Marked` says that every signalled
  caller on its way to run has seen the quarantine, which is what makes the
  refusal at resumption reliable. `CaughtEndsUnrun` shows that who was refused or
  withdrawn only unwinds.
* `WorkspaceQueueOwners_proof`: `OwnersCounted`, `WritersExclude`, from
  `Inv == Shape /\ HoldersCounted /\ StateExclusive`. `HoldersCounted` (counter =
  cardinality of the owners) is inductive only with `Shape`; exclusion needs
  both. `OnlyStaleForgets` is the action property that bounds finding 1.
  * `NobodyWaitsInVain`: no caller waits behind a free lock, in a circle or out of its queue, and no unused lock stays in the Map (`NothingIdle`). It assumes
    `TakenInOrder(rank)`: there is a rank of keys that every plan climbs; the module
    of run `barrier`, `MCWorkspaceQueueOrder`, has TLC check that the plans of
    `WorkspaceScopes` do. The invariant `WInv` adds to `Inv` that a lock state serves the key
    it was created for (`Keyed`), every waiting caller is in its queue (`Listed`), every
    settled acquire has its continuation due (`Due`), a queue that no loop is at work on has
    a head that real owners or a deadline hold back (`Served`), an unused lock state of the Map is
    about to be deleted (`Tidy`), and only nesting operations enter a boundary (`Nested`). That
    nobody waits in a circle is then that, of finitely many waiting callers, the one
    which waits for the highest key waits for an owner that is not among them.

  * `QueueImplementsLocks`: the queue implements the abstract locks (`StatesAreLocks`). A caller
    who enters asks; an entry that is dropped at its deadline or withdrawn gives up;
    `AdmitReader` and `AdmitWriter` grant to the head of the line; a release releases; every
    other step, of plans, quarantine or the Map, changes no lock. It rests on `WInv` and on
    `LinesTyped`: an entry names a caller who waits at a depth that stays, so that whether
    it asks to read or to write does not change while it is in line.

* `ResourceScheduler_proof`: `SchedulerTypes`, `AlwaysAccounted`, `CapacityAloneDelays`,
  `OlderTicketsFirst`, `SchedulerImplementsPool`, `OvertakenOnce`: all safety of the scheduler. The
  queues of the code are filtered in place; what `Without` keeps, in which order, is a family of
  lemmas by induction over the indexes. `Base` (`TypeOK` and `QueuesAgree`) is inductive; with
  `LeasesCounted` it gives `Accounted`, where a lease outstanding is what keeps the guard of
  `releaseResource` from ever hiding a lost count, and with `NoneBoth`, that nobody has a ticket
  and a lease, the refinement and the order of an owner's tickets. That nothing free is waited for
  says nothing about the middle of a pump, so its invariant says how far the pump has come:
  between pumps every waiting ticket lacks a lane or has a deadline timer or an abort listener due
  (`Settled`, `Heard`), and in a sweep that has changed nothing so has every ticket of the
  lanes and owners gone through (`Visited`). The owners left to visit follow the order
  of the lane (`InTurn`), and no ticket of those gone through in this lane fits (`Looked`): an
  owner is served only when nobody before it in the order could be. `OvertakenOnce` needs these two, and adds
  `Behind`: a workspace that was served in place of a waiting ticket stands behind the ticket's
  workspace in the order of the lane, which the rotation to the end sees to. The count starts again
  with a turn of the ticket's own workspace, which puts that workspace behind the others although
  the ticket may have been left waiting for a
  second lane. That no workspace comes twice before the *oldest ticket* is false: another
  ticket of the same workspace, which wants fewer lanes, may take the turn.

* `ExtensionInstall_proof`: `OneLease`, `NothingOutlivesItsMarker`, `InstallsAtomically`. The inductive invariant `LockInv` says that a
  process which competes has its ticket on disk (`Published`) and that of two
  processes one at most has passed the other (`OnePasses`), where p has passed q
  if it did not see q's ticket or has found q dead. Exclusion of the holders alone
  is not inductive: two processes that are both still judging could have
  passed each other. All steps but publishing, looking, judging and entering leave
  this alone (`Quiet`).
  The other two rest on `DiskInv` as well. Its state predicate is
  `DiskOK`: the value of every path, which is what a recovery would make of it
  (`Value`), is that of one version, and what lies aside belongs to a marker that
  knows it. That is not inductive alone: whether the next file operation keeps the
  values depends on those that follow it. So `Runs` says of each point of a call
  what the rest of its program still does to the disk it finds: it ends what is marked
  (`Clears`), installs the version (`Installs`), or takes the commands back
  (`TakesBack`). A program is seen as the set of its operations (`Coming`), and
  what matters of their order as pairs that never follow one another (`Clash`). There is a
  lemma for the beginning of each program (`RecoveryClears`, `MovesInstalls`, `UndoClears`,
  ...), one for each file operation (`AsideStep`, `RestoreStep`, ...), and one for a failure
  between two (`InstallsUndoable`, `TakenUndoable`). They are about values, not variables;
  `StepOfOne` lifts them to the state, since by `LockInv` only one process touches the disk.
  `StepMeans` then says of every action that it keeps `DiskInv` and is a call, its
  effect, its answer, a death or nothing to the package store; the effect is the
  write of the committed marker (`CommitStep`) and no other step. Both theorems
  suppose `CommandsReturn`: an installation that may fail while it takes its commands back
  (`Fragile`) has no command of its own, as in run `installs`; it may have an owner
  record. Without that the refinement is false, which is what `install_undo` and its finding show.

* `EditTransaction_proof`: `EditTypes`. The inductive invariant is `Types /\ Alone`:
  an index into the edits of a call and the entries it still has to restore stay
  within its record (`Within`), and of two calls one at most is between two awaits
  (`Alone`), so that what one synchronous stretch of code has read nobody changes.
  Five more rest on it:
  * `OverlapExcluded` from `Clear`: a call that has passed
    `assertNoOverlappingTransaction` has no active record of an overlapping workspace
    in its way until its own record is written. Absence of overlap alone is not
    inductive, because the check and the record are different steps.
  * `EditsRecoverable`, assuming `Shared = {}` (every editor is a writer in the queue; `shared_record` and finding 2
    show what happens otherwise), from `RInv`: calls of one workspace exclude one
    another (`Exclusive`); from the end of its recovery to its record a call finds
    no record, its snapshot stays true, and what it is about to write its record
    knows already (`Standing`); every file of an active record that no other
    program changed has a content the record knows (`RollsBack`).
  * `RestoresOwn`: the action property `RollbackKeepsOthers`, from the types alone.
  * `ReportsAreTrue`, with `Shared = {}` as well, from `DInv`: a call that edits has its own record, active,
    and each of its files nobody else changed holds what the edits done so far left there (`Reached`); a
    call that rolls back still has its record, and never finds it reported as rolled back;
    what a recovery is done with holds its original content (`Doing`); every active record belongs to
    the files of some call (`Owned`).
  * `EditsAreAtomic`: the refinement `ImplementsAtomicEdits`, from `DInv` and `OverlapExcluded`: one
    active record at most covers a path (`Sole`), so the abstract content of a path is well defined.
    A commit is the step that writes the decision, also where the call is told it failed. The
    assumption that a file common to two workspaces lies in nested ones, which is how paths
    on disk are, is needed here and only here.

* `ManagedProcesses_proof`: `ProcessesSound`, `StrangersSpared`, `OneProcessPerKind`. What an action
  does to one process is a relation between two records (`Fits`, `FileFits`,
  `Follows`, `Decays`), stated and proved once for each operator of the model; actions are then
  sorted by what they may do at all. The invariant `Base` ties the file to the record
  (`Store`), the control point of a start to what exists of its process (`Control`), says
  that the record a stop or a restoration looks at is there to stay (`Asked`, `Restoring`) and
  that the slots in use are within the limit (`Room`). `Reuse` adds that of two starts of
  one fingerprint one is behind the other (`Turns`) and that a start whose turn has come finds nothing of its
  kind in use (`Cleared`): `OneOfAKind` alone does not say why a start may launch.

* `ConnectionRecovery_proof`: `ConnectionTypes`, `OneClientOnly`, `TableFollowed`, `StopStaysFinal`,
  `ShownAsItIs`. Handlers are operators
  on a state of the connection, so each has a lemma about the state it returns, and each
  action follows from those of the operators it calls. The invariant `Sound` says that one
  operation at most owns the runtime (`Alone`), that what the runtime reports is so
  (`Told`: it is "stopped" only without a client, and connected only with one), that a
  start which owns the runtime between its first and last step has the only client
  (`Begun`), and that an operation which stops the runtime has told it so (`Halting`). `OneClient`
  alone is not inductive: a start looks for a client several waits before it
  spawns its own, and `Begun` says why nothing has come between.
  `StopStaysFinal` rests on `Resting` as well. At all times: while the service is down nobody is
  on the way to a client (`Down`), only the start to join boots the service (`Booted`), a stop
  finds it down (`Ending`), and only during a stop somebody waits for the end of one
  (`Awaited`). After a stop: nothing is queued, to be joined or waiting (`Closed`), and the
  supervisor has neither a timer nor an attempt of its own (`Asleep`). That nothing is on its way is not
  inductive without the first three: an overtaken start still reports when the stop is over, and `Down`
  says that its report finds a stale token. One report can wake the supervisor, the
  result of a settings restart that was under way (`Quiet`): the exemption named in section 3.
  `ShownAsItIs`, `Spec => []StatusAgrees`, adds `Agreeing`, in two parts. `Woven` is about the operations
  alone: one has the token at most, and a start that has it is the one to join (`OneToken`, `Joined`); a
  restart waits for a start that is still under way (`Waiting`); while the tunnel is launched token
  and generation go together (`Same`); and the operation that launches it with the token is alone but for
  a restart that waits for it (`Sole`), which is where `overlap` comes in: a client launched beside an
  operation that was taken over is the case the property exempts. `Shown` is about
  the desktop: a connection that is shown, or a client that is monitored, belongs to no
  operation under way but a restart that has just begun (`Connected`), and what is shown
  is wrong only while a restart is under way (`Known`), because only a timer or an attempt hides a
  failure, a timer runs only while no connection is shown (`Timed`) and an attempt that
  counts has its restart under way (`Attempting`). `StatusAgrees` says nothing of the times when something is
  under way; that the end of the last operation leaves the two in agreement follows from `Woven`,
  as that operation is the only one that could have changed the tunnel. The operators that change nothing but the
  desktop, and those that report for the runtime, are compared by two relations, `Softer` and `Reporting`.

* `OperationReceipts_proof`: `ReceiptTypes`, `RequestRunsOnce`, `DurabilityIsTrue`,
  `ResultsStay`. An operation has five copies: the entry c of its row, the one s in the
  snapshot that is being written, the one p in the snapshot that will be, its file f and its record m.
  The predicate `Coherent(c, s, p, f, m)` says what they have to do with each other, and is shown
  once for every way in which the code changes them (`WriteKeeps`, `RepairKeeps`, `ReadsRow`,
  `Reconciles`, ...) as a lemma about five values; `Progress` lifts a write of one operation to the
  whole state, because the row and its snapshots, being shared, move the copies of all others too
  (`Shifts`). Its parts: what comes later in the row is not older (`Chained`); a journal is a
  result the row lacks or has overtaken (`Journaled`); a record that may be written knows every
  result and acknowledgement (`Writable`), one that was read back while running is not written
  before it follows the row (`ReadBack`), what it says of its durability holds whichever deferred
  write is done (`Claimed`), and what nobody remembers is in row or journal (`Orphaned`). Two
  parts exist for the one case in which the row is ahead of every process, a reconciliation:
  a result that replaces it is in the journal or not yet stored (`Replacing`), and only a
  record that follows the reconciliation brings its acknowledgement (`Agreed`).
  `Ledger` adds who was told what: nobody has heard of a result while the run goes on (`Open`),
  only what a client received is acknowledged in any copy (`Heeded`), and of two admitted
  operations of one request one was received (`Once`), which is what `RunsOnce` needs. Neither
  `DurabilityIsTruthful` nor `ResultsAreFinal` is inductive: that a retry writes nothing older is a
  fact about memory, and memory is lost in a crash, when journal and row have to agree by themselves.

Only model-checked: liveness (`RequestsEnd`, `TicketsSettle`, `ResultsReachTheRow`,
`Recovers`) and what needs ENABLED, and `KeyExclusion` (false in general, see finding 1).
`NoMutationStartsBlocked` is checked for task and
workspace scope; for exact edits (path scope) it rests on the theorem. The induction
theorems of the library take an operator as a parameter, which the provers cannot
instantiate; where a proof needs an induction over a finite set it uses that the
strict-subset order is well-founded, and a minimal element.

## 6. Plan

1. *Done.* Queue, scheduler, edit transactions, operation receipts, connection
   recovery, extension installation, managed processes; the safety invariants of the queue
   and the processes, all safety of the scheduler with the pool it implements, all safety of the installations with the package store they implement, all safety of the edits with the atomic edits they implement, all safety of the connection, all safety of the receipts, and that
   the queue implements fair locks, proved.
2. Identity binding in the queue and mutation process ownership, which complete the
   startup recovery.
3. Goal turns, task lifecycle and integrity, connection generations and event replay of
   the server.

### Not modelled
Parsers, ranking, rendering, telemetry, operating system process groups, SQLite and
Git themselves, sequential input checks: they hold no state that interleaves, or
belong to others. Operations without a task, completion notices and the pruning of
files in the receipts; additional tunnels and the startup retry in the connection;
catalogs, downloads and checksums in the extensions: the notes of `PROJECT.json` name
what each partly modelled component leaves out. Power loss (as opposed to the death
of a process) and the two renames that replace a file on Windows are out of scope.
