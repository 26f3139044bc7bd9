--------------------------- MODULE WorkspaceQueue ---------------------------
(***************************************************************************)
(* The hierarchical workspace/task reader-writer queue of                  *)
(* src/workspaceOperationQueue.js, for one physical workspace, with the    *)
(* mutation quarantine and the watchdog that raises it                     *)
(* (src/tools/execution.js) and the startup recovery that raises and       *)
(* lifts it (src/mutationAutoRecovery.js).                                 *)
(*                                                                         *)
(* A client is a caller that issues one request after another, always with *)
(* the same lock plan.  Its control point pc is                            *)
(*   idle       no request                                                 *)
(*   waiting    its entry is in the queue of the innermost lock state      *)
(*   admitted   the acquire promise is resolved, withLock not yet resumed  *)
(*   rejected   the acquire promise is rejected, withLock not yet resumed  *)
(*   running    the operation, or the boundary nested in it, executes      *)
(*   unwinding  the operation settled, the finally blocks are still to run *)
(*                                                                         *)
(* JavaScript runs one piece of code to completion.  The pieces modelled   *)
(* as a loop are admitWaiting, one step per iteration while pump names the *)
(* lock state, and the dispatch of an abort event to its listeners, one    *)
(* step per listener while dispatch is not empty; everything else waits    *)
(* for them (Ready), except the clock, which may pass a deadline at any    *)
(* point.  Resumptions of withLock run in the order their promises were    *)
(* settled: that is the sequence jobs.  Code outside this module (a tool   *)
(* call starting, an operation settling, a caller aborting) may run        *)
(* between any two of them; timers run only when no resumption is due.     *)
(***************************************************************************)
EXTENDS Naturals, Sequences, FiniteSets, SequencesExt

CONSTANTS
    Clients,       \* callers of runWorkspaceOperation
    Keys,          \* lock keys
    Plan,          \* Plan[c]: the locks c takes, outermost first
    Signalled,     \* clients that wait on mutationQueueSignal
    Rechecking,    \* clients whose body checks the quarantine again
    Watched,       \* clients whose operation a mutation watchdog guards
    Overrunning,   \* those of them the watchdog's timer may quarantine
    Nesting,       \* clients whose operation runs a mutation boundary
    BoundaryKey,   \* the key of the mutation lane
    Cancellable,   \* clients whose caller may abort
    Timed,         \* clients with a queue deadline
    Recovering,    \* whether the startup recovery may quarantine
    MaxDepth,      \* bound on nested locks
    MaxStates,     \* bound on the lock states of one key alive at once
    NoState        \* no lock state

READ  == "read"
WRITE == "write"

LockRequests == [key: Keys, mode: {READ, WRITE}]

ASSUME PlanAssumption ==
    /\ Plan \in [Clients -> Seq(LockRequests)]
    /\ MaxDepth \in Nat
    /\ \A c \in Clients : Len(Plan[c]) \in 1 .. MaxDepth - 1
    /\ BoundaryKey \in Keys

ASSUME ClientsAssumption ==
    /\ IsFiniteSet(Clients)
    /\ Signalled \subseteq Clients
    /\ Rechecking \subseteq Signalled
    /\ Watched \subseteq Clients
    /\ Overrunning \subseteq Watched
    /\ Nesting \subseteq Clients
    /\ Cancellable \subseteq Clients
    /\ Timed \subseteq Clients
    /\ Recovering \in BOOLEAN

Levels == 1 .. MaxDepth

(* The lock states: a key and a number. A lock state serves the key it was *)
(* created for and no other.                                               *)
Objs == Keys \X (1 .. MaxStates)

ASSUME ObjsAssumption == MaxStates \in Nat \ {0} /\ NoState \notin Objs

ASSUME OwnersAssumption == Clients \cap {"none", "unowned", "recovery"} = {}

VARIABLES
    locks,      \* key -> the lock state the Map holds, NoState if none
    obj,        \* the lock states
    stack,      \* client -> level -> the lock state taken or waited for
    depth,      \* client -> number of levels entered
    pc,         \* client -> control point
    boundary,   \* client -> has its operation entered the nested boundary
    cancelled,  \* client -> its caller aborted
    blocked,    \* client -> its block signal aborted
    expired,    \* client -> its queue deadline has passed
    jobs,       \* withLock resumptions due, oldest first
    pump,       \* the lock state admitWaiting is working on, or NoState
    sweep,      \* whether deleteIdleLock follows that admitWaiting
    dispatch,   \* clients whose abort listener has still to run
    block       \* the quarantine: "none" or who raised it

vars == <<locks, obj, stack, depth, pc, boundary, cancelled, blocked, expired,
          jobs, pump, sweep, dispatch, block>>

request == <<boundary, cancelled, blocked, expired>>
thread  == <<pump, sweep, dispatch>>

LockStates == [readers: Nat, writer: BOOLEAN, queue: Seq(Clients)]

Free == [readers |-> 0, writer |-> FALSE, queue |-> <<>>]
-----------------------------------------------------------------------------
(* Which lock, in which mode, a client takes at a level. The level after   *)
(* the plan is the mutation lane of runWorkspaceMutationBoundary.          *)
KeyAt(c, l)  == IF l <= Len(Plan[c]) THEN Plan[c][l].key ELSE BoundaryKey
ModeAt(c, l) == IF l <= Len(Plan[c]) THEN Plan[c][l].mode ELSE WRITE

InBoundary(c) == depth[c] > Len(Plan[c])

Top(c) == stack[c][depth[c]]

(* The levels whose lock the client owns: the innermost one counts only    *)
(* when its acquire was not still pending or rejected.                     *)
Holds(c, l) ==
    /\ l <= depth[c]
    /\ l = depth[c] => pc[c] \notin {"waiting", "rejected"}

Holders(o, m) ==
    {u \in Clients \X Levels :
        Holds(u[1], u[2]) /\ stack[u[1]][u[2]] = o /\ ModeAt(u[1], u[2]) = m}

Idle(o) == obj[o].readers = 0 /\ ~obj[o].writer /\ obj[o].queue = <<>>

(* No other synchronous code is in progress. *)
Ready == pump = NoState /\ dispatch = {}

(* The signal passed to the lock the client is at is aborted. *)
Aborted(c) == cancelled[c] \/ blocked[c]

(* mutationQueueSignal is part of that signal and the code has still to    *)
(* look at it; once the operation runs nothing reads it again.             *)
BlockSignalled(c) ==
    /\ pc[c] \in {"waiting", "admitted"}
    /\ c \in Signalled \/ InBoundary(c)

(* A lock state for k that no code refers to any more, the first of them.  *)
Unused(o, k) ==
    /\ o[1] = k
    /\ locks[k] # o
    /\ \A c \in Clients, l \in Levels : l <= depth[c] => stack[c][l] # o

NewObj(o, k) == Unused(o, k) /\ \A p \in Objs : Unused(p, k) => o[2] <= p[2]
-----------------------------------------------------------------------------
Init ==
    /\ locks = [k \in Keys |-> NoState]
    /\ obj = [o \in Objs |-> Free]
    /\ stack = [c \in Clients |-> [l \in Levels |-> NoState]]
    /\ depth = [c \in Clients |-> 0]
    /\ pc = [c \in Clients |-> "idle"]
    /\ boundary = [c \in Clients |-> FALSE]
    /\ cancelled = [c \in Clients |-> FALSE]
    /\ blocked = [c \in Clients |-> FALSE]
    /\ expired = [c \in Clients |-> FALSE]
    /\ jobs = <<>>
    /\ pump = NoState
    /\ sweep = FALSE
    /\ dispatch = {}
    /\ block = "none"
-----------------------------------------------------------------------------
(* lockStateFor and the synchronous part of acquire: the client's entry    *)
(* goes to the end of the queue of the Map's lock state, a new one if the  *)
(* Map has none, and admitWaiting starts.                                  *)
EnterQueue(c, o) ==
    LET l == depth[c] + 1
        k == KeyAt(c, l)
    IN /\ IF locks[k] = NoState THEN NewObj(o, k) ELSE o = locks[k]
       /\ locks' = [locks EXCEPT ![k] = o]
       /\ obj' = IF locks[k] = NoState
                 THEN [obj EXCEPT ![o] = [Free EXCEPT !.queue = <<c>>]]
                 ELSE [obj EXCEPT ![o].queue = Append(@, c)]
       /\ stack' = [stack EXCEPT ![c][l] = o]
       /\ depth' = [depth EXCEPT ![c] = l]
       /\ pc' = [pc EXCEPT ![c] = "waiting"]
       /\ pump' = o
       /\ sweep' = FALSE

(* Mutant: the entry is deleted without a look at the lock state's use. *)
DeleteLockAlways(o) == locks' = [locks EXCEPT ![o[1]] = NoState]

(* deleteIdleLock(key, o): it deletes whatever the Map holds for the key.  *)
DeleteIdleLock(o) ==
    locks' = IF Idle(o) THEN [locks EXCEPT ![o[1]] = NoState] ELSE locks

(* Where control goes when the withLock call of the innermost level ends.  *)
AfterLevel(c) == IF InBoundary(c) THEN "running"
                 ELSE IF depth[c] = 1 THEN "idle" ELSE "unwinding"

Cleared(f, c) == IF AfterLevel(c) = "idle" THEN [f EXCEPT ![c] = FALSE] ELSE f

PopLevel(c) ==
    /\ depth' = [depth EXCEPT ![c] = @ - 1]
    /\ stack' = [stack EXCEPT ![c][depth[c]] = NoState]
    /\ pc' = [pc EXCEPT ![c] = AfterLevel(c)]
    /\ boundary' = Cleared(boundary, c)
    /\ cancelled' = Cleared(cancelled, c)
    /\ blocked' = Cleared(blocked, c)
    /\ expired' = Cleared(expired, c)

(* Mutant: release lowers the reader count in both modes, unguarded. *)
ReleaseBothModes(c) ==
    LET o == Top(c)
    IN /\ obj' = [obj EXCEPT ![o].readers = @ - 1, ![o].writer = FALSE]
       /\ PopLevel(c)
       /\ pump' = o
       /\ sweep' = TRUE

(* release: give the innermost lock back, then admitWaiting, then          *)
(* deleteIdleLock.                                                         *)
ReleaseTop(c) ==
    LET o == Top(c)
    IN /\ obj' = IF ModeAt(c, depth[c]) = READ
                 THEN [obj EXCEPT ![o].readers = IF @ > 0 THEN @ - 1 ELSE 0]
                 ELSE [obj EXCEPT ![o].writer = FALSE]
       /\ PopLevel(c)
       /\ pump' = o
       /\ sweep' = TRUE
-----------------------------------------------------------------------------
(* admitWaiting, one action per way an iteration can go.                   *)
Waiter == Head(obj[pump].queue)

DropExpired ==
    /\ pump # NoState
    /\ obj[pump].queue # <<>>
    /\ expired[Waiter]
    /\ obj' = [obj EXCEPT ![pump].queue = Tail(@)]
    /\ pc' = [pc EXCEPT ![Waiter] = "rejected"]
    /\ jobs' = Append(jobs, Waiter)
    /\ UNCHANGED <<locks, stack, depth, request, thread, block>>

(* Mutant: a reader is admitted beside a writer. *)
AdmitReaderAnyway ==
    /\ pump # NoState
    /\ obj[pump].queue # <<>>
    /\ ~expired[Waiter]
    /\ ModeAt(Waiter, depth[Waiter]) = READ
    /\ obj' = [obj EXCEPT ![pump].queue = Tail(@), ![pump].readers = @ + 1]
    /\ pc' = [pc EXCEPT ![Waiter] = "admitted"]
    /\ jobs' = Append(jobs, Waiter)
    /\ UNCHANGED <<locks, stack, depth, request, thread, block>>

AdmitReader ==
    /\ pump # NoState
    /\ obj[pump].queue # <<>>
    /\ ~expired[Waiter]
    /\ ModeAt(Waiter, depth[Waiter]) = READ
    /\ ~obj[pump].writer
    /\ obj' = [obj EXCEPT ![pump].queue = Tail(@), ![pump].readers = @ + 1]
    /\ pc' = [pc EXCEPT ![Waiter] = "admitted"]
    /\ jobs' = Append(jobs, Waiter)
    /\ UNCHANGED <<locks, stack, depth, request, thread, block>>

AdmitWriter ==
    /\ pump # NoState
    /\ obj[pump].queue # <<>>
    /\ ~expired[Waiter]
    /\ ModeAt(Waiter, depth[Waiter]) = WRITE
    /\ ~obj[pump].writer
    /\ obj[pump].readers = 0
    /\ obj' = [obj EXCEPT ![pump].queue = Tail(@), ![pump].writer = TRUE]
    /\ pc' = [pc EXCEPT ![Waiter] = "admitted"]
    /\ jobs' = Append(jobs, Waiter)
    /\ pump' = NoState
    /\ sweep' = FALSE
    /\ UNCHANGED <<locks, stack, depth, request, dispatch, block>>

(* The waiter at the front must go on waiting. *)
FrontBlocked(o) ==
    /\ obj[o].queue # <<>>
    /\ ~expired[Head(obj[o].queue)]
    /\ \/ obj[o].writer
       \/ /\ ModeAt(Head(obj[o].queue), depth[Head(obj[o].queue)]) = WRITE
          /\ obj[o].readers > 0

EndAdmission ==
    /\ pump # NoState
    /\ obj[pump].queue = <<>> \/ FrontBlocked(pump)
    /\ IF sweep THEN DeleteIdleLock(pump) ELSE UNCHANGED locks
    /\ pump' = NoState
    /\ sweep' = FALSE
    /\ UNCHANGED <<obj, stack, depth, pc, request, jobs, dispatch, block>>

AdmitWaiting == DropExpired \/ AdmitReader \/ AdmitWriter \/ EndAdmission
-----------------------------------------------------------------------------
(* runWorkspaceOperation: refused while quarantined if it is a mutation,   *)
(* else it enters the queue of its first lock.                             *)
Submit(c) ==
    /\ Ready
    /\ pc[c] = "idle"
    /\ c \in Signalled => block = "none"
    /\ \E o \in Objs : EnterQueue(c, o)
    /\ UNCHANGED <<request, jobs, dispatch, block>>

(* A request whose signal is already aborted: acquire throws before it     *)
(* queues anything and the catch block tidies the Map.                     *)
RefuseAborted(c) ==
    /\ Ready
    /\ \/ pc[c] = "idle" /\ c \in Cancellable
       \/ /\ pc[c] = "running" /\ c \in Nesting /\ ~boundary[c]
          /\ cancelled[c]
    /\ LET k == KeyAt(c, depth[c] + 1)
       IN IF locks[k] = NoState THEN UNCHANGED locks ELSE DeleteIdleLock(locks[k])
    /\ boundary' = [boundary EXCEPT ![c] = pc[c] = "running"]
    /\ UNCHANGED <<obj, stack, depth, pc, cancelled, blocked, expired, jobs,
                   thread, block>>

(* runWorkspaceMutationBoundary called by the running operation, which     *)
(* owns the workspace barrier: only the mutation lane is taken, with a     *)
(* fresh block signal and no deadline.                                     *)
EnterBoundary(c) ==
    /\ Ready
    /\ pc[c] = "running"
    /\ c \in Nesting /\ ~boundary[c] /\ ~cancelled[c]
    /\ block = "none"
    /\ \E o \in Objs : EnterQueue(c, o)
    /\ boundary' = [boundary EXCEPT ![c] = TRUE]
    /\ blocked' = [blocked EXCEPT ![c] = FALSE]
    /\ UNCHANGED <<cancelled, expired, jobs, dispatch, block>>

(* The boundary's body ends and its finally block releases the lane. *)
LeaveBoundary(c) ==
    /\ Ready
    /\ pc[c] = "running"
    /\ InBoundary(c)
    /\ ReleaseTop(c)
    /\ UNCHANGED <<locks, jobs, dispatch, block>>
-----------------------------------------------------------------------------
(* withLock resumes after its acquire settled. *)
Resume(c) ==
    /\ Ready
    /\ jobs # <<>>
    /\ c = Head(jobs)
    /\ jobs' = Tail(jobs)

(* Mutant: neither signal nor quarantine is looked at after admission. *)
RefusedByDeadline(c) == expired[c]

(* Mutant: the present quarantine is looked at instead of the signal. *)
RefusedByBlockOnly(c) == cancelled[c] \/ expired[c] \/ block # "none"

(* Aborted, or past its deadline, or quarantined by now: the lock is       *)
(* given back and nothing runs.                                            *)
Refused(c) ==
    \/ Aborted(c)
    \/ expired[c]
    \/ /\ depth[c] >= Len(Plan[c])
       /\ c \in Rechecking \/ InBoundary(c)
       /\ block # "none"

(* Mutant: a refused call returns without its finally block. *)
ResumeRefusedKeepingLock(c) ==
    /\ Resume(c)
    /\ pc[c] = "admitted"
    /\ Refused(c)
    /\ PopLevel(c)
    /\ UNCHANGED <<locks, obj, thread, block>>

ResumeRefused(c) ==
    /\ Resume(c)
    /\ pc[c] = "admitted"
    /\ Refused(c)
    /\ ReleaseTop(c)
    /\ UNCHANGED <<locks, dispatch, block>>

ResumeNextLock(c) ==
    /\ Resume(c)
    /\ pc[c] = "admitted"
    /\ ~Refused(c)
    /\ depth[c] < Len(Plan[c])
    /\ \E o \in Objs : EnterQueue(c, o)
    /\ UNCHANGED <<request, dispatch, block>>

(* The operation, or the body of the boundary, starts. *)
ResumeRun(c) ==
    /\ Resume(c)
    /\ pc[c] = "admitted"
    /\ ~Refused(c)
    /\ depth[c] >= Len(Plan[c])
    /\ pc' = [pc EXCEPT ![c] = "running"]
    /\ UNCHANGED <<locks, obj, stack, depth, request, thread, block>>

(* The catch block: tidy the Map by key, then the error propagates. *)
ResumeRejected(c) ==
    /\ Resume(c)
    /\ pc[c] = "rejected"
    /\ DeleteIdleLock(Top(c))
    /\ PopLevel(c)
    /\ UNCHANGED <<obj, thread, block>>

(* One finally block of an enclosing level. *)
Unwind(c) ==
    /\ Ready
    /\ pc[c] = "unwinding"
    /\ ReleaseTop(c)
    /\ UNCHANGED <<locks, jobs, dispatch, block>>

-----------------------------------------------------------------------------
(* Mutant: a rejected entry stays in the queue. *)
WithdrawKeepingEntry(c) ==
    /\ pc' = [pc EXCEPT ![c] = "rejected"]
    /\ jobs' = Append(jobs, c)
    /\ pump' = Top(c)
    /\ sweep' = FALSE
    /\ UNCHANGED obj

(* Mutant: those behind a withdrawn entry get no chance. *)
WithdrawOnly(c) ==
    LET o == Top(c)
    IN /\ \E i \in DOMAIN obj[o].queue :
            /\ obj[o].queue[i] = c
            /\ obj' = [obj EXCEPT ![o].queue = RemoveAt(@, i)]
       /\ pc' = [pc EXCEPT ![c] = "rejected"]
       /\ jobs' = Append(jobs, c)
       /\ UNCHANGED <<pump, sweep>>

(* A waiting entry is taken out of the queue and rejected; those behind it *)
(* get their chance.                                                       *)
Withdraw(c) ==
    LET o == Top(c)
    IN /\ \E i \in DOMAIN obj[o].queue :
            /\ obj[o].queue[i] = c
            /\ obj' = [obj EXCEPT ![o].queue = RemoveAt(@, i)]
       /\ pc' = [pc EXCEPT ![c] = "rejected"]
       /\ jobs' = Append(jobs, c)
       /\ pump' = o
       /\ sweep' = FALSE

(* The caller's signal aborts. *)
Abort(c) ==
    /\ Ready
    /\ c \in Cancellable /\ ~cancelled[c]
    /\ \/ pc[c] \in {"waiting", "admitted"}
       \/ pc[c] = "running" /\ c \in Nesting /\ ~boundary[c]
    /\ cancelled' = [cancelled EXCEPT ![c] = TRUE]
    /\ dispatch' = {d \in {c} : pc[d] = "waiting"}
    /\ UNCHANGED <<locks, obj, stack, depth, pc, boundary, blocked, expired,
                   jobs, pump, sweep, block>>

(* onAbort of one waiting entry.  An earlier listener of the same event    *)
(* may have let the entry be admitted: then its listener is gone.          *)
OnAbort(c) ==
    /\ pump = NoState
    /\ c \in dispatch
    /\ dispatch' = dispatch \ {c}
    /\ IF pc[c] = "waiting"
       THEN Withdraw(c)
       ELSE UNCHANGED <<obj, pc, jobs, pump, sweep>>
    /\ UNCHANGED <<locks, stack, depth, request, block>>

(* The clock passes the client's queue deadline.  The boundary has none.   *)
Expire(c) ==
    /\ c \in Timed
    /\ pc[c] \in {"waiting", "admitted"}
    /\ ~InBoundary(c)
    /\ ~expired[c]
    /\ expired' = [expired EXCEPT ![c] = TRUE]
    /\ UNCHANGED <<locks, obj, stack, depth, pc, boundary, cancelled, blocked,
                   jobs, thread, block>>

(* The timer of a waiting entry. *)
TimerFires(c) ==
    /\ Ready
    /\ jobs = <<>>
    /\ pc[c] = "waiting"
    /\ expired[c]
    /\ Withdraw(c)
    /\ UNCHANGED <<locks, stack, depth, request, dispatch, block>>
-----------------------------------------------------------------------------
(* blockWorkspaceMutations when there is no quarantine: the current block  *)
(* signal aborts.                                                          *)
RaiseBlock(owner) ==
    /\ block = "none"
    /\ block' = owner
    /\ blocked' = [c \in Clients |-> blocked[c] \/ BlockSignalled(c)]
    /\ dispatch' = {c \in Clients : BlockSignalled(c) /\ pc[c] = "waiting"}

(* The operation was told to stop and did not within the grace period; a   *)
(* command is left to its process cleanup.                                 *)
WatchdogQuarantine(c) ==
    /\ Ready
    /\ jobs = <<>>
    /\ c \in Overrunning
    /\ pc[c] = "running"
    /\ RaiseBlock(c)
    /\ UNCHANGED <<locks, obj, stack, depth, pc, boundary, cancelled, expired,
                   jobs, pump, sweep>>

(* The operation settles and its watchdog is disposed of.  Settled safely, *)
(* the quarantine its own watchdog raised is lifted.                       *)
Finishing(c) ==
    /\ Ready
    /\ pc[c] = "running"
    /\ ~InBoundary(c)
    /\ pc' = [pc EXCEPT ![c] = "unwinding"]
    /\ UNCHANGED <<locks, obj, stack, depth, boundary, cancelled, expired,
                   jobs, pump, sweep>>

FinishSafely(c) ==
    /\ Finishing(c)
    /\ block' = IF block = c THEN "none" ELSE block
    /\ UNCHANGED <<blocked, dispatch>>

(* Mutant: the token outlives the operation in doubt. *)
FinishKeepingToken(c) ==
    /\ c \in Watched
    /\ Finishing(c)
    /\ UNCHANGED <<block, blocked, dispatch>>

(* It settles with an error that leaves open whether its processes ended:  *)
(* its own quarantine stays, and with it goes the token that could lift it.*)
FinishInDoubt(c) ==
    /\ c \in Watched
    /\ Finishing(c)
    /\ block' = IF block = c THEN "unowned" ELSE block
    /\ UNCHANGED <<blocked, dispatch>>

(* It settles saying that termination is not confirmed. *)
FinishUnconfirmed(c) ==
    /\ c \in Watched
    /\ Finishing(c)
    /\ RaiseBlock("unowned")

(* mutationAutoRecovery: records of an earlier run quarantine the          *)
(* workspace until they are reconciled.                                    *)
RecoveryQuarantine ==
    /\ Recovering
    /\ Ready
    /\ RaiseBlock("recovery")
    /\ UNCHANGED <<locks, obj, stack, depth, pc, boundary, cancelled, expired,
                   jobs, pump, sweep>>

RecoveryClear ==
    /\ Ready
    /\ block = "recovery"
    /\ block' = "none"
    /\ UNCHANGED <<locks, obj, stack, depth, pc, request, jobs, thread>>
-----------------------------------------------------------------------------
Finish(c) == FinishSafely(c) \/ FinishInDoubt(c) \/ FinishUnconfirmed(c)

Resumption(c) ==
    ResumeRefused(c) \/ ResumeNextLock(c) \/ ResumeRun(c) \/ ResumeRejected(c)

ClientStep(c) ==
    \/ Submit(c) \/ RefuseAborted(c)
    \/ EnterBoundary(c) \/ LeaveBoundary(c)
    \/ Resumption(c) \/ Unwind(c) \/ Finish(c)
    \/ Abort(c) \/ OnAbort(c) \/ Expire(c) \/ TimerFires(c)
    \/ WatchdogQuarantine(c)

Next ==
    \/ AdmitWaiting
    \/ \E c \in Clients : ClientStep(c)
    \/ RecoveryQuarantine
    \/ RecoveryClear

Spec == Init /\ [][Next]_vars

(***************************************************************************)
(* Fairness.  Synchronous code ends; the event loop runs every resumption, *)
(* timer and finally block that is due, and operations settle.  Other code *)
(* may keep the thread busy again and again in between, hence the strong   *)
(* form.  Nobody has to call, abort, or raise or lift a quarantine.        *)
(***************************************************************************)
Fairness ==
    /\ WF_vars(AdmitWaiting)
    /\ WF_vars(\E c \in Clients : OnAbort(c))
    /\ SF_vars(\E c \in Clients : Resumption(c))
    /\ \A c \in Clients : SF_vars(Unwind(c) \/ Finish(c) \/ LeaveBoundary(c))
    /\ \A c \in Timed : SF_vars(TimerFires(c))

FairSpec == Spec /\ Fairness
-----------------------------------------------------------------------------
(* Every variable has its type. *)
TypeOK ==
    /\ locks \in [Keys -> Objs \union {NoState}]
    /\ obj \in [Objs -> LockStates]
    /\ stack \in [Clients -> [Levels -> Objs \union {NoState}]]
    /\ depth \in [Clients -> 0 .. MaxDepth]
    /\ pc \in [Clients -> {"idle", "waiting", "admitted", "rejected",
                           "running", "unwinding"}]
    /\ boundary \in [Clients -> BOOLEAN]
    /\ cancelled \in [Clients -> BOOLEAN]
    /\ blocked \in [Clients -> BOOLEAN]
    /\ expired \in [Clients -> BOOLEAN]
    /\ jobs \in Seq(Clients)
    /\ pump \in Objs \union {NoState}
    /\ sweep \in BOOLEAN
    /\ dispatch \subseteq Clients
    /\ block \in Clients \union {"none", "unowned", "recovery"}

(* A lock state's queue lists exactly the clients waiting for it, each     *)
(* once: no entry is lost or left behind by a withdrawal, and admission    *)
(* meets nobody who is not waiting.                                        *)
QueueSound ==
    /\ \A o \in Objs : \A i \in DOMAIN obj[o].queue :
         LET c == obj[o].queue[i]
         IN /\ pc[c] = "waiting" /\ depth[c] > 0 /\ Top(c) = o
            /\ \A j \in DOMAIN obj[o].queue : obj[o].queue[j] = c => i = j
    /\ \A c \in Clients :
         pc[c] = "waiting" => \E i \in DOMAIN obj[Top(c)].queue : obj[Top(c)].queue[i] = c

(* The counters admitWaiting decides by agree with who really owns the     *)
(* lock state, through every refusal, rejection and release.               *)
HoldersCounted ==
    \A o \in Objs :
        /\ obj[o].readers = Cardinality(Holders(o, READ))
        /\ obj[o].writer <=> Holders(o, WRITE) # {}

(* A lock state owned for writing has no other owner: a writer admitted    *)
(* while a reader's or a writer's finally block is still to run would      *)
(* break it.                                                               *)
StateExclusive ==
    \A o \in Objs : \A u, v \in Holders(o, READ) \union Holders(o, WRITE) :
        u \in Holders(o, WRITE) => u = v

(* Two different operations never own one key at once when either is a     *)
(* writer: what "repository-global operations ... remain exclusive across  *)
(* every task" asks of the queue, whatever lock states the Map has had.    *)
KeyExclusion ==
    \A c, d \in Clients, l, m \in Levels :
        /\ c # d
        /\ l <= depth[c] /\ m <= depth[d]
        /\ Holds(c, l) /\ Holds(d, m)
        /\ KeyAt(c, l) = KeyAt(d, m)
        => ModeAt(c, l) = READ /\ ModeAt(d, m) = READ

(* Whenever no synchronous code is in progress, a waiter at the front of a *)
(* queue is there because of a present owner, or its timer is about to     *)
(* take it out: nobody waits for a lock that is free.                      *)
NoStrandedWaiter ==
    Ready => \A o \in Objs : obj[o].queue # <<>> =>
        \/ expired[Head(obj[o].queue)]
        \/ Holders(o, WRITE) # {}
        \/ /\ Holders(o, READ) # {}
           /\ ModeAt(Head(obj[o].queue), depth[Head(obj[o].queue)]) = WRITE

(* When all work that is due has been done, the Map holds no lock state    *)
(* nobody uses: the Map does not grow with every key ever locked, and      *)
(* bindWorkspaceOperationIdentity sees only operations still active.       *)
NoIdleStateKept ==
    Ready /\ jobs = <<>> => \A k \in Keys : locks[k] # NoState => ~Idle(locks[k])

(* Every plan takes its locks in the order of their ranks, and the lane of *)
(* a nested boundary comes after the plan it is nested in.                 *)
TakenInOrder(rank) ==
    \A c \in Clients, l, m \in Levels :
        /\ l < m
        /\ m <= Len(Plan[c]) + (IF c \in Nesting THEN 1 ELSE 0)
        => rank[KeyAt(c, l)] < rank[KeyAt(c, m)]

(* Whom a waiting client waits for: the owners of the lock state and those *)
(* before it in the queue.                                                 *)
Blockers(c) ==
    LET o == Top(c)
        q == obj[o].queue
    IN  {u[1] : u \in Holders(o, READ) \union Holders(o, WRITE)} \union
        {q[i] : i \in {j \in DOMAIN q : \E k \in DOMAIN q : j < k /\ q[k] = c}}

(* No callers wait for each other in a circle: barrier, lanes, path locks  *)
(* and the boundary nested in an operation are taken in one order.         *)
NoCircularWait ==
    \A group \in (SUBSET Clients) \ {{}} :
        \E c \in group : pc[c] # "waiting" \/ Blockers(c) \cap group = {}

(* No request waits behind a free lock, in a circle, or out of every queue,*)
(* and no free lock stays in the Map: every withdrawal, refusal and        *)
(* release leaves the queue behind it served and the state behind it       *)
(* tidied.                                                                 *)
NothingIdle == QueueSound /\ NoStrandedWaiter /\ NoCircularWait /\ NoIdleStateKept

(* A lock state of k that is not the one in the Map is about to be tidied: *)
(* by a waiter it rejected, or by the end of a release.                    *)
StaleTidied(k) ==
    \/ \E c \in Clients : pc[c] = "rejected" /\ Top(c)[1] = k /\ Top(c) # locks[k]
    \/ sweep /\ pump[1] = k /\ pump # locks[k]

(* The Map forgets a lock state in use only by the tidying of another lock *)
(* state of its key, so the first time by that of a rejected waiter: as    *)
(* long as no waiter is rejected, StateExclusive is the exclusion of the   *)
(* operations of a key, and the race of finding 1 is the only way to lose  *)
(* it.                                                                     *)
OnlyStaleTidyingForgets ==
    [][\A k \in Keys :
          locks[k] # NoState /\ locks'[k] # locks[k]
          => Idle(locks[k]) \/ StaleTidied(k)]_vars

(* A quarantine that names a token has its owner still running: no request *)
(* that follows in the same place can lift a quarantine it did not raise.  *)
TokenOwnerRuns == block \in Clients => pc[block] = "running"

Starts(c) == pc[c] = "admitted" /\ pc'[c] = "running" /\ depth'[c] = depth[c]

(* A mutation never starts while the workspace is quarantined, not even    *)
(* one admitted to its last lock before the quarantine was raised, and the *)
(* path scope, whose body does not check again, included.                  *)
NoMutationStartsBlocked ==
    [][\A c \in Clients :
          Starts(c) /\ (c \in Signalled \/ InBoundary(c)) => block = "none"]_vars

(* A mutation that a quarantine caught in the queue stays refused when the *)
(* quarantine is lifted before it resumes: it ends without having run.     *)
CaughtNeverStarts ==
    [][\A c \in Clients : blocked[c] /\ pc[c] # "running" => ~Starts(c)]_vars

(* Every request ends: the nested locks are always taken in one order, a   *)
(* waiting writer is not starved by readers that keep coming, and no       *)
(* withdrawal strands those behind it.                                     *)
RequestsEnd == \A c \in Clients : pc[c] # "idle" ~> pc[c] = "idle"
=============================================================================
