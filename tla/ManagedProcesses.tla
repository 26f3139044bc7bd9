-------------------------- MODULE ManagedProcesses --------------------------
(***************************************************************************)
(* The process manager (src/src/processManager.ts): starting, reusing,     *)
(* stopping and restoring processes that outlive a tool call, on a system  *)
(* with process groups and without a container (neither a Windows job nor  *)
(* a Linux control group), with pipes rather than a terminal.              *)
(*                                                                         *)
(* A start is a call of startManagedProcess, and names the one process it  *)
(* may launch.  A step is a piece of code between two awaits.  What the    *)
(* code knows of a process is its record; what has become of the process   *)
(* is os, which the code sees only through events and probes of the PID.   *)
(* The death of the service loses the records and keeps the files and the  *)
(* processes.                                                              *)
(***************************************************************************)
EXTENDS Naturals, Sequences, FiniteSets, SequencesExt

CONSTANTS
    Starts,        \* calls of startManagedProcess
    What,          \* What[s]: the reuse fingerprint of s
    Task,          \* starts whose process lives as long as its task
    Cancellable,   \* starts whose caller may cancel, or whose timer may fire
    Fragile,       \* starts whose launch, or one write of metadata, may fail
    Mortal,        \* starts whose process may exit by itself
    Daemons,       \* starts whose process may leave and keep descendants
    Accessible,    \* starts whose process the callers of stopManagedProcess own
    Stops,         \* calls of stopManagedProcess
    Limit,         \* slots of the persistent lane
    MaxRestarts,   \* deaths of the service
    None

ASSUME StartAssumption == IsFiniteSet(Starts) /\ None \notin Starts
ASSUME LimitAssumption == Limit \in Nat \ {0} /\ MaxRestarts \in Nat

VARIABLES
    pc,            \* control point of each start
    aborted,       \* starts whose signal has aborted
    awaited,       \* processReuseReservations: those each start lets go first
    restoring,     \* restoredCapacityReservation: the restorations due
    job,           \* reserveRestoredManagedProcessCapacityInternal, of the first
    rec,           \* processes: the records in memory
    disk,          \* metadata.json of each process
    os,            \* what the process group of each start really is
    stops,         \* the calls of stopManagedProcess
    spoiled,       \* processes with a write that failed
    restarts

calls   == <<pc, aborted, awaited>>
restore == <<restoring, job>>
store   == <<rec, disk, spoiled>>
vars    == <<calls, restore, store, os, stops, restarts>>

Waiting  == {"reserving", "restoring", "queued"}
Starting == {"launching", "identifying", "settling"}
Controls == {"idle", "discarding", "cleaning", "stopping", "ended"} \union Waiting \union Starting

Active   == {"starting", "running", "stopping"}
Terminal == {"stopped", "exited", "failed"}
Statuses == Active \union Terminal \union {"orphaned"}

(* The group: not launched, with its root, its root gone, gone, its PID    *)
(* given to a group of somebody else, and that group signalled.            *)
Groups  == {"none", "root", "orphans", "dead", "reused", "struck"}
Ours(p) == os[p] \in {"root", "orphans"}

(* isProcessTreeAlive: kill(-pid, 0). *)
Seen(p) == os[p] \notin {"none", "dead"}

Metadata == [status : Statuses, pid : BOOLEAN, identity : BOOLEAN,
             confirmed : BOOLEAN, rootExit : BOOLEAN, ended : BOOLEAN]

(* child: the handle of the root, which may have exited, and closed its    *)
(* pipes, and be dropped.  stop is stopPromise with the gate its           *)
(* termination began with, ending is terminationInProgress likewise.       *)
Records == [status : Statuses, pid : BOOLEAN, identity : BOOLEAN,
            confirmed : BOOLEAN, rootExit : BOOLEAN, ended : BOOLEAN,
            mine : BOOLEAN, lease : BOOLEAN,
            child : {"live", "exited", "closed", "gone"},
            stop : {"no", "sure", "verify", "flush"},
            ending : {"no", "sure", "verify"},
            broken : BOOLEAN, unsaved : BOOLEAN]

ASSUME NoneAssumption == None \notin Records /\ None \notin Metadata

NewRecord(pid) ==
    [status |-> "starting", pid |-> pid, identity |-> FALSE,
     confirmed |-> FALSE, rootExit |-> FALSE, ended |-> FALSE,
     mine |-> TRUE, lease |-> TRUE, child |-> "live", stop |-> "no",
     ending |-> "no", broken |-> FALSE, unsaved |-> FALSE]

MetadataOf(r) ==
    [status |-> r.status, pid |-> r.pid, identity |-> r.identity,
     confirmed |-> r.confirmed, rootExit |-> r.rootExit, ended |-> r.ended]

Jobs == [todo : SUBSET Starts, live : SUBSET Starts, at : Starts \union {None},
         free : 0 .. Limit, phase : {"verify", "take"}]

Known(p)    == rec[p] # None
Held        == Cardinality({p \in Starts : Known(p) /\ rec[p].lease})
Stopping(r) == r.stop # "no" \/ r.ending # "no"
InUse(r)    == r.status \in {"starting", "running"}
-----------------------------------------------------------------------------
Init ==
    /\ pc = [s \in Starts |-> "idle"]
    /\ aborted = {}
    /\ awaited = [s \in Starts |-> {}]
    /\ restoring = <<>>
    /\ job = None
    /\ rec = [p \in Starts |-> None]
    /\ disk = [p \in Starts |-> None]
    /\ spoiled = {}
    /\ os = [p \in Starts |-> "none"]
    /\ stops = [k \in Stops |-> [at |-> "idle", of |-> None]]
    /\ restarts = 0
-----------------------------------------------------------------------------
(* Writing metadata: what becomes of the record and its file, r being the  *)
(* record to write.                                                        *)

Saved(p, r)   == /\ rec' = [rec EXCEPT ![p] = r]
                 /\ disk' = [disk EXCEPT ![p] = MetadataOf(r)]
                 /\ UNCHANGED spoiled

Unsaved(p, r) == /\ p \in Fragile \ spoiled
                 /\ spoiled' = spoiled \union {p}
                 /\ rec' = [rec EXCEPT ![p] = r]
                 /\ UNCHANGED disk

(* Mutant: the group is signalled whatever has become of its launcher. *)
GateOpen(r) == "sure"

(* The gate of terminateManagedRoot: the group of a launcher that is gone, *)
(* or that another runtime launched, is verified before it is signalled.   *)
Gate(r) == IF r.pid /\ (r.rootExit \/ r.child # "live") THEN "verify" ELSE "sure"

(* handlePersistenceFailure: the process is terminated, once. *)
Broken(r) ==
    [r EXCEPT !.broken = TRUE, !.unsaved = FALSE,
              !.ending = IF r.broken \/ Stopping(r) THEN @ ELSE Gate(r)]

SafePersist(p, r) == Saved(p, r) \/ Unsaved(p, Broken(r))

(* try { persistMetadata } catch {} *)
TryPersist(p, r) == Saved(p, r) \/ Unsaved(p, r)

(* queueMetadataPersist, when it gets to write what finishRecord left. *)
Save(p) ==
    /\ Known(p) /\ rec[p].unsaved
    /\ SafePersist(p, [rec[p] EXCEPT !.unsaved = FALSE])
    /\ UNCHANGED <<calls, restore, os, stops, restarts>>
-----------------------------------------------------------------------------
(* releaseManagedProcessResource; the group is not owned any more either.  *)
Released(r) == [r EXCEPT !.lease = FALSE]

(* A group of this runtime that a probe shows to be gone (a persistent     *)
(* process only).                                                          *)
GroupGone(p, r) == p \notin Task /\ r.mine /\ r.lease /\ r.pid /\ ~ Seen(p)

(* Mutant: the exit of the root gives the slot back. *)
FinishedWithRoot(p, r, status) ==
    [Released(r) EXCEPT !.rootExit = TRUE, !.status = status, !.ended = TRUE,
                        !.confirmed = TRUE, !.child = "gone", !.unsaved = ~ r.broken]

(* finishRecord: its root has exited, or its termination is over. *)
Finished(p, r, status) ==
    LET sure == r.confirmed \/ GroupGone(p, r)
    IN  IF r.status \in Terminal /\ r.ended /\ r.confirmed THEN r
        ELSE IF Stopping(r) /\ ~ r.confirmed THEN [r EXCEPT !.rootExit = TRUE]
        ELSE IF ~ sure /\ r.pid
        THEN [r EXCEPT !.rootExit = TRUE, !.status = "orphaned", !.ended = FALSE,
                       !.child = "gone", !.unsaved = ~ r.broken]
        ELSE [Released(r) EXCEPT !.rootExit = TRUE, !.status = status, !.ended = TRUE,
                       !.confirmed = sure, !.child = "gone", !.unsaved = ~ r.broken]

(* reconcileOwnedPersistentGroupExit: the descendants of a root that       *)
(* exited are gone by now.                                                 *)
Settled(p, r) ==
    IF r.rootExit /\ ~ r.confirmed /\ ~ Stopping(r) /\ GroupGone(p, r)
    THEN Finished(p, [r EXCEPT !.confirmed = TRUE], "exited")
    ELSE r

(* readMetadata: the record of a file, of another runtime. *)
RecordOf(m) ==
    [status |-> m.status, pid |-> m.pid, identity |-> m.identity,
     confirmed |-> m.confirmed, rootExit |-> m.rootExit, ended |-> m.ended,
     mine |-> FALSE, lease |-> FALSE, child |-> "gone", stop |-> "no",
     ending |-> "no", broken |-> FALSE, unsaved |-> FALSE]

(* reconcileRestoredRecord: what has become of it is probed, after a       *)
(* restart.                                                                *)
Restored(p) ==
    LET m == disk[p]
        r == RecordOf(m)
    IN  IF m.status \in Terminal THEN r
        ELSE IF m.pid /\ Seen(p) THEN [r EXCEPT !.status = "orphaned"]
        ELSE IF p \in Task /\ ~ m.confirmed
        THEN [r EXCEPT !.status = "orphaned", !.rootExit = TRUE, !.ended = FALSE]
        ELSE [r EXCEPT !.status = "stopped", !.rootExit = TRUE, !.ended = TRUE]

(* hydrateProcessMetadata: files without a record are read, and what they  *)
(* were made is written back.                                              *)
New == {p \in Starts : ~ Known(p) /\ disk[p] # None}

Hydrated ==
    [p \in Starts |-> IF p \in New THEN Restored(p)
                      ELSE IF Known(p) THEN Settled(p, rec[p]) ELSE None]

Hydrates ==
    /\ rec' = Hydrated
    /\ \/ disk' = [p \in Starts |-> IF p \in New THEN MetadataOf(Restored(p)) ELSE disk[p]]
          /\ UNCHANGED spoiled
       \/ \E q \in New \intersect (Fragile \ spoiled) :
            /\ spoiled' = spoiled \union {q}
            /\ disk' = [p \in Starts |-> IF p \in New \ {q} THEN MetadataOf(Restored(p)) ELSE disk[p]]

(* Any listing of the processes. *)
Hydrate ==
    /\ Hydrated # rec
    /\ Hydrates
    /\ UNCHANGED <<calls, restore, os, stops, restarts>>
-----------------------------------------------------------------------------
(* verifyRestoredProcessIdentity: the verdict, unless the creation         *)
(* identity has to be read.                                                *)
Verdict(p, r) ==
    IF r.mine /\ ~ r.rootExit /\ r.child = "live" THEN "verified"
    ELSE IF ~ (r.pid /\ Seen(p)) THEN "dead"
    ELSE IF ~ r.identity THEN "unverified"
    ELSE "reading"

(* The record of a process that is not there any more. *)
Dead(r) ==
    [Released(r) EXCEPT !.confirmed = TRUE, !.rootExit = TRUE, !.status = "stopped", !.ended = TRUE]

(* What reading the identity can give: reading may fail, and of a root     *)
(* that is gone there is nothing to read.                                  *)
Readings(p) ==
    {"unverified"} \union (IF os[p] = "root" THEN {"verified"} ELSE {})
                   \union (IF os[p] \in {"reused", "struck"} THEN {"mismatch"} ELSE {})

(* The record after it was read. *)
Read(r, verdict) == IF verdict = "mismatch" THEN Released(r) ELSE r
-----------------------------------------------------------------------------
(* terminateProcessTree: how the group can be, and whether it is reported  *)
(* gone.  Descendants may refuse to die.                                   *)
Signalled(p) ==
    IF ~ Seen(p) THEN {<<os[p], TRUE>>}
    ELSE IF ~ Ours(p) THEN {<<"struck", FALSE>>}
    ELSE {<<"dead", TRUE>>} \union
         (IF p \in Daemons THEN {<<os[p], FALSE>>, <<"orphans", FALSE>>} ELSE {})

(* terminateManagedRoot, which began with the given gate. *)
Terminations(p, gate) ==
    IF gate = "sure" \/ ~ Seen(p) THEN Signalled(p)
    ELSE {<<os[p], FALSE>>} \union
         (IF rec[p].identity /\ "verified" \in Readings(p) THEN Signalled(p) ELSE {})

(* stopRecordInternal and stopRecordWithEvidence up to the termination;    *)
(* a stop in progress is joined.                                           *)
BeginStop(p, r) ==
    IF r.stop = "no" THEN SafePersist(p, [r EXCEPT !.status = "stopping", !.stop = Gate(r)])
    ELSE rec' = [rec EXCEPT ![p] = r] /\ UNCHANGED <<disk, spoiled>>

(* ... and after it. *)
EndStop(p) ==
    /\ Known(p) /\ rec[p].stop \in {"sure", "verify"}
    /\ \E t \in Terminations(p, rec[p].stop) :
         LET r == [rec[p] EXCEPT !.confirmed = t[2], !.stop = "flush"]
         IN  /\ os' = [os EXCEPT ![p] = t[1]]
             /\ IF t[2]
                THEN rec' = [rec EXCEPT ![p] = Finished(p, r, "stopped")] /\ UNCHANGED <<disk, spoiled>>
                ELSE SafePersist(p, [r EXCEPT !.status = "orphaned", !.ended = FALSE])
    /\ UNCHANGED <<calls, restore, stops, restarts>>

(* flushManagedProcessPersistence, which ends the stop. *)
Flush(p) ==
    /\ Known(p) /\ rec[p].stop = "flush"
    /\ LET r == [rec[p] EXCEPT !.unsaved = FALSE, !.stop = "no"]
       IN  IF r.broken THEN rec' = [rec EXCEPT ![p] = r] /\ UNCHANGED <<disk, spoiled>>
           ELSE Saved(p, r) \/ Unsaved(p, [r EXCEPT !.broken = TRUE])
    /\ UNCHANGED <<calls, restore, os, stops, restarts>>

(* The termination handlePersistenceFailure asked for is over. *)
EndFailure(p) ==
    /\ Known(p) /\ rec[p].ending # "no" /\ pc[p] # "discarding"
    /\ \E t \in Terminations(p, rec[p].ending) :
         LET r == [rec[p] EXCEPT !.confirmed = t[2], !.ending = "no", !.ended = t[2]]
         IN  /\ os' = [os EXCEPT ![p] = t[1]]
             /\ TryPersist(p, IF t[2] THEN [Released(r) EXCEPT !.status = "failed", !.child = "gone"]
                              ELSE [r EXCEPT !.status = "orphaned"])
    /\ UNCHANGED <<calls, restore, stops, restarts>>
-----------------------------------------------------------------------------
(* Mutant: only the starts that already launch something are awaited. *)
UnsettledLaunches(s) ==
    {t \in Starts : What[t] = What[s] /\ pc[t] \notin {"idle", "ended"} \union Waiting}

(* startManagedProcess.  acquireManagedProcessReuseReservation: the start  *)
(* waits for every one of its fingerprint that is not settled.             *)
Unsettled(s) == {t \in Starts : What[t] = What[s] /\ pc[t] \notin {"idle", "ended"}}

Ask(s) ==
    /\ pc[s] = "idle"
    /\ pc' = [pc EXCEPT ![s] = "reserving"]
    /\ awaited' = [awaited EXCEPT ![s] = Unsettled(s)]
    /\ UNCHANGED <<aborted, restore, store, os, stops, restarts>>

(* The caller cancels, or the coordination timer fires before the process  *)
(* is launched.                                                            *)
Abort(s) ==
    /\ s \in Cancellable \ aborted
    /\ pc[s] \in Waiting \union Starting
    /\ aborted' = aborted \union {s}
    /\ UNCHANGED <<pc, awaited, restore, store, os, stops, restarts>>

(* The finally block releases the reservation. *)
Goes(s, to) ==
    /\ pc' = [pc EXCEPT ![s] = to]
    /\ awaited' = [awaited EXCEPT ![s] = {}]
    /\ UNCHANGED aborted

Leaves(s) ==
    /\ pc' = [pc EXCEPT ![s] = "ended"]
    /\ awaited' = [awaited EXCEPT ![s] = {}]
    /\ aborted' = aborted \ ({s} \ ToSet(restoring))

(* The wait of an aborted start ends; a restoration it asked for goes on.  *)
GivesUp(s) ==
    /\ s \in aborted
    /\ pc[s] \in Waiting
    /\ Leaves(s)
    /\ UNCHANGED <<restore, store, os, stops, restarts>>

(* findReusableManagedProcess *)
Reusable(s, records) ==
    \E p \in Starts : What[p] = What[s] /\ records[p] # None /\ InUse(records[p])

Reserved(s) ==
    /\ pc[s] = "reserving" /\ s \notin aborted
    /\ \A t \in awaited[s] : pc[t] = "ended"
    /\ Hydrates
    /\ IF Reusable(s, Hydrated) THEN Leaves(s) /\ UNCHANGED restoring
       ELSE Goes(s, "restoring") /\ restoring' = Append(restoring, s)
    /\ UNCHANGED <<job, os, stops, restarts>>
-----------------------------------------------------------------------------
(* reserveRestoredManagedProcessCapacityInternal verifies the orphans of   *)
(* an earlier runtime one by one, then takes slots for those alive.        *)

(* It is over: the start that asked for it, if it waits, goes on or fails. *)
JobOver(works) ==
    LET s == Head(restoring)
    IN  /\ job' = None
        /\ restoring' = Tail(restoring)
        /\ IF pc[s] # "restoring" \/ s \in aborted THEN UNCHANGED calls
           ELSE IF works THEN Goes(s, "queued") ELSE Leaves(s)

(* With none left to verify, the slots that are free are for those alive;  *)
(* with no slot, or nobody, left it is over.                               *)
JobGoesOn(j) ==
    LET next == IF j.phase = "verify" /\ j.todo = {} /\ j.at = None
                THEN [j EXCEPT !.phase = "take", !.free = Limit - Held',
                               !.todo = {p \in j.live : ~ rec'[p].lease}]
                ELSE j
    IN  IF next.phase = "take" /\ (next.todo = {} \/ next.free = 0)
        THEN JobOver(Cardinality(next.live) < Limit)
        ELSE job' = next /\ UNCHANGED <<calls, restoring>>

JobBegins ==
    /\ job = None /\ restoring # <<>>
    /\ UNCHANGED store
    /\ IF Head(restoring) \in aborted
       THEN restoring' = Tail(restoring) /\ UNCHANGED <<job, calls>>
       ELSE JobGoesOn([todo |-> {p \in Starts : Known(p) /\ rec[p].status = "orphaned" /\ ~ rec[p].mine},
                       live |-> {}, at |-> None, free |-> 0, phase |-> "verify"])
    /\ UNCHANGED <<os, stops, restarts>>

JobVerifies(p) ==
    /\ job # None /\ job.phase = "verify" /\ job.at = None /\ p \in job.todo
    /\ LET verdict == Verdict(p, rec[p])
       IN  /\ IF verdict = "reading" THEN UNCHANGED store
              ELSE TryPersist(p, IF verdict = "dead" THEN Dead(rec[p]) ELSE rec[p])
           /\ JobGoesOn([job EXCEPT !.todo = @ \ {p}, !.at = IF verdict = "reading" THEN p ELSE None])
    /\ UNCHANGED <<os, stops, restarts>>

JobReads ==
    /\ job # None /\ job.at # None
    /\ \E verdict \in Readings(job.at) :
         /\ TryPersist(job.at, Read(rec[job.at], verdict))
         /\ JobGoesOn([job EXCEPT !.at = None,
                                  !.live = IF verdict = "verified" THEN @ \union {job.at} ELSE @])
    /\ UNCHANGED <<os, stops, restarts>>

(* A slot is taken, at once or when one is released within a second. *)
JobTakes(p) ==
    /\ job # None /\ job.phase = "take" /\ p \in job.todo
    /\ Held < Limit /\ Head(restoring) \notin aborted
    /\ rec' = [rec EXCEPT ![p].lease = TRUE]
    /\ JobGoesOn([job EXCEPT !.todo = @ \ {p}, !.free = @ - 1])
    /\ UNCHANGED <<disk, spoiled, os, stops, restarts>>

JobFails ==
    /\ job # None /\ job.phase = "take"
    /\ Held = Limit \/ Head(restoring) \in aborted
    /\ JobOver(FALSE)
    /\ UNCHANGED <<store, os, stops, restarts>>
-----------------------------------------------------------------------------
(* The slot is granted and, in the same step, the process is spawned,      *)
(* listed and written down.  Spawning may fail at once, or leave no PID.   *)
Launch(s) ==
    /\ pc[s] = "queued" /\ s \notin aborted /\ Held < Limit
    /\ \/ s \in Fragile /\ Leaves(s) /\ UNCHANGED <<store, os>>
       \/ \E pid \in {TRUE, s \notin Fragile} :
            /\ os' = [os EXCEPT ![s] = IF pid THEN "root" ELSE "none"]
            /\ \/ Goes(s, "launching") /\ Saved(s, NewRecord(pid))
               \/ /\ Goes(s, "discarding")
                  /\ Unsaved(s, [NewRecord(pid) EXCEPT !.broken = TRUE, !.ending = "sure"])
    /\ UNCHANGED <<restore, stops, restarts>>

(* The process that could not be written down was terminated, or not. *)
Discard(s) ==
    /\ pc[s] = "discarding"
    /\ Leaves(s)
    /\ \E t \in Terminations(s, rec[s].ending) :
         /\ os' = [os EXCEPT ![s] = t[1]]
         /\ IF t[2]
            THEN /\ rec' = [rec EXCEPT ![s] = None]
                 /\ disk' = [disk EXCEPT ![s] = None]
                 /\ UNCHANGED spoiled
            ELSE TryPersist(s, [rec[s] EXCEPT !.ending = "no", !.confirmed = FALSE,
                                              !.status = "orphaned", !.ended = FALSE])
    /\ UNCHANGED <<restore, stops, restarts>>

(* The spawn event. *)
Spawned(s) ==
    /\ pc[s] \in {"launching", "discarding"} /\ rec[s].pid /\ s \notin aborted
    /\ pc[s] = "discarding" => rec[s].status = "starting"
    /\ Goes(s, IF pc[s] = "launching" THEN "identifying" ELSE pc[s])
    /\ IF rec[s].status = "starting" THEN SafePersist(s, [rec[s] EXCEPT !.status = "running"])
       ELSE UNCHANGED store
    /\ UNCHANGED <<restore, os, stops, restarts>>

(* The error event of a process that was never there. *)
SpawnFails(s) ==
    /\ pc[s] = "launching" /\ ~ rec[s].pid /\ ~ rec[s].rootExit
    /\ rec' = [rec EXCEPT ![s] = Finished(s, rec[s], "failed")]
    /\ Goes(s, IF s \in aborted THEN pc[s] ELSE "cleaning")
    /\ UNCHANGED <<restore, disk, spoiled, os, stops, restarts>>

(* The creation identity is read and written down, if it can be read. *)
Identify(s) ==
    /\ pc[s] = "identifying"
    /\ LET r == [rec[s] EXCEPT !.identity = TRUE]
       IN  \/ os[s] = "root" /\ Saved(s, r) /\ Goes(s, "settling")
           \/ os[s] = "root" /\ Unsaved(s, r) /\ Goes(s, "cleaning")
           \/ Goes(s, "settling") /\ UNCHANGED store
    /\ UNCHANGED <<restore, os, stops, restarts>>

(* waitDuringStartup: the process is over, or the time is. *)
Settle(s) ==
    /\ pc[s] = "settling" /\ s \notin aborted
    /\ \/ (rec[s].rootExit \/ rec[s].status \notin Active) /\ Goes(s, "cleaning")
       \/ ~ rec[s].rootExit /\ Leaves(s)
    /\ UNCHANGED <<restore, store, os, stops, restarts>>

(* An abort after the launch stops the process. *)
Interrupted(s) ==
    /\ pc[s] \in {"launching", "settling"} /\ s \in aborted
    /\ Goes(s, "stopping")
    /\ BeginStop(s, rec[s])
    /\ UNCHANGED <<restore, os, stops, restarts>>

(* cleanupFailedStartup: a stop in progress is awaited first. *)
Clean(s) ==
    /\ pc[s] = "cleaning" /\ rec[s].stop = "no"
    /\ IF rec[s].confirmed \/ (~ rec[s].pid /\ rec[s].child = "gone")
       THEN Leaves(s) /\ UNCHANGED store
       ELSE Goes(s, "stopping") /\ BeginStop(s, rec[s])
    /\ UNCHANGED <<restore, os, stops, restarts>>

StartFails(s) ==
    /\ pc[s] = "stopping" /\ rec[s].stop = "no"
    /\ Leaves(s)
    /\ UNCHANGED <<restore, store, os, stops, restarts>>
-----------------------------------------------------------------------------
(* stopManagedProcess *)
StopIs(k, at, of) == stops' = [stops EXCEPT ![k] = [at |-> at, of |-> of]]

StopAsked(k, p) ==
    /\ stops[k].at = "idle" /\ Known(p) /\ p \in Accessible
    /\ LET r == Settled(p, rec[p])
           over == r.status \in Terminal /\ r.confirmed
           verdict == Verdict(p, r)
       IN  IF over \/ verdict = "reading"
           THEN /\ IF over THEN StopIs(k, "done", None) ELSE StopIs(k, "reading", p)
                /\ rec' = [rec EXCEPT ![p] = r]
                /\ UNCHANGED <<disk, spoiled>>
           ELSE IF verdict = "unverified" THEN StopIs(k, "done", None) /\ TryPersist(p, r)
           ELSE /\ StopIs(k, "waiting", p)
                /\ BeginStop(p, IF verdict = "dead" THEN Dead(r) ELSE r)
    /\ UNCHANGED <<calls, restore, os, restarts>>

StopReads(k) ==
    /\ stops[k].at = "reading"
    /\ LET p == stops[k].of
       IN  \E verdict \in Readings(p) :
             IF verdict = "verified" THEN StopIs(k, "waiting", p) /\ BeginStop(p, rec[p])
             ELSE StopIs(k, "done", None) /\ TryPersist(p, Read(rec[p], verdict))
    /\ UNCHANGED <<calls, restore, os, restarts>>

StopReturns(k) ==
    /\ stops[k].at = "waiting"
    /\ Known(stops[k].of) => rec[stops[k].of].stop = "no"
    /\ StopIs(k, "done", None)
    /\ UNCHANGED <<calls, restore, store, os, restarts>>
-----------------------------------------------------------------------------
(* The system.  A root exits, alone or with its group, or the last         *)
(* descendant does; the handle of the root notices.                        *)
Exits(p) ==
    /\ Ours(p) /\ p \in Mortal
    /\ \E g \in {"dead"} \union (IF os[p] = "root" /\ p \in Daemons THEN {"orphans"} ELSE {}) :
         os' = [os EXCEPT ![p] = g]
    /\ rec' = IF Known(p) /\ rec[p].child = "live" THEN [rec EXCEPT ![p].child = "exited"] ELSE rec
    /\ UNCHANGED <<calls, restore, disk, spoiled, stops, restarts>>

(* The close event of the root. *)
Close(p) ==
    /\ Known(p) /\ rec[p].child = "exited" /\ pc[p] # "launching"
    /\ rec' = [rec EXCEPT ![p] = Finished(p, [@ EXCEPT !.child = "closed"],
                                          IF @.status = "stopping" THEN "stopped" ELSE "exited")]
    /\ UNCHANGED <<calls, restore, disk, spoiled, os, stops, restarts>>

(* The PID is given to somebody else: not before the start that launched   *)
(* it has settled, nor while a termination waits for the group to go.      *)
Recycle(p) ==
    /\ os[p] = "dead" /\ pc[p] = "ended"
    /\ Known(p) => rec[p].child \in {"closed", "gone"} /\ ~ Stopping(rec[p])
    /\ os' = [os EXCEPT ![p] = "reused"]
    /\ UNCHANGED <<calls, restore, store, stops, restarts>>

(* The service dies and is started again. *)
Restart ==
    /\ restarts < MaxRestarts
    /\ restarts' = restarts + 1
    /\ pc' = [s \in Starts |-> IF pc[s] = "idle" THEN "idle" ELSE "ended"]
    /\ aborted' = {}
    /\ stops' = [k \in Stops |-> IF stops[k].at = "idle" THEN stops[k] ELSE [at |-> "done", of |-> None]]
    /\ rec' = [p \in Starts |-> None]
    /\ restoring' = <<>>
    /\ job' = None
    /\ awaited' = [s \in Starts |-> {}]
    /\ UNCHANGED <<disk, spoiled, os>>
-----------------------------------------------------------------------------
Start(s) ==
    \/ Ask(s) \/ Abort(s) \/ Reserved(s) \/ GivesUp(s)
    \/ Launch(s) \/ Discard(s) \/ Spawned(s) \/ SpawnFails(s) \/ Identify(s)
    \/ Settle(s) \/ Interrupted(s) \/ Clean(s) \/ StartFails(s)

Stop(k) == (\E p \in Starts : StopAsked(k, p)) \/ StopReads(k) \/ StopReturns(k)

Restore == JobBegins \/ (\E p \in Starts : JobVerifies(p) \/ JobTakes(p)) \/ JobReads \/ JobFails

Process(p) == Save(p) \/ EndStop(p) \/ Flush(p) \/ EndFailure(p)
                 \/ Exits(p) \/ Close(p) \/ Recycle(p)

Next ==
    \/ \E s \in Starts : Start(s) \/ Process(s)
    \/ \E k \in Stops : Stop(k)
    \/ Restore \/ Hydrate \/ Restart

Spec == Init /\ [][Next]_vars
-----------------------------------------------------------------------------
(* Every variable has its type. *)
TypeOK ==
    /\ pc \in [Starts -> Controls]
    /\ aborted \subseteq Starts
    /\ awaited \in [Starts -> SUBSET Starts]
    /\ restoring \in Seq(Starts)
    /\ job \in Jobs \union {None}
    /\ rec \in [Starts -> Records \union {None}]
    /\ disk \in [Starts -> Metadata \union {None}]
    /\ os \in [Starts -> Groups]
    /\ stops \in [Stops -> [at : {"idle", "reading", "waiting", "done"}, of : Starts \union {None}]]
    /\ spoiled \subseteq Starts
    /\ restarts \in 0 .. MaxRestarts

(* A live process of this runtime holds its slot, descendants that outlive *)
(* its root included, and one that is said to have ended does not: neither *)
(* the exit of a root, a stop, a failed write nor a probe gives a slot     *)
(* back early or keeps it.                                                 *)
SlotsFollowLife ==
    \A p \in Starts : Known(p) /\ rec[p].mine =>
        /\ Ours(p) => rec[p].lease
        /\ rec[p].status \in Terminal => ~ rec[p].lease

(* A termination said to be confirmed is one, and no live process is said  *)
(* to have ended or, after a restart, has no file to be found by; a        *)
(* process whose metadata could not be written is excepted from the latter.*)
RecordsTruthful ==
    /\ \A p \in Starts : Known(p) /\ rec[p].confirmed => ~ Ours(p)
    /\ \A p \in Starts : Ours(p) /\ p \notin spoiled =>
         IF Known(p) THEN rec[p].status \notin Terminal
         ELSE disk[p] # None /\ disk[p].status \notin Terminal

(* Slots, records, files and processes agree at every step. *)
Sound == TypeOK /\ SlotsFollowLife /\ RecordsTruthful

(* A group to which the PID of a process of ours was given is never        *)
(* signalled: what a termination saw before an await, or before a restart, *)
(* is looked at again before it kills.                                     *)
NoStranger == \A p \in Starts : os[p] # "struck"

(* Concurrent starts of one fingerprint never run two processes: each sees *)
(* what those before it left, whether they launched, failed or gave up.    *)
OneOfAKind ==
    \A p, q \in Starts :
        What[p] = What[q] /\ Known(p) /\ Known(q) /\ InUse(rec[p]) /\ InUse(rec[q]) => p = q
=============================================================================
