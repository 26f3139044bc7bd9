------------------------- MODULE ConnectionRecovery -------------------------
(***************************************************************************)
(* Recovery of the desktop's connection: secure-tunnel-runtime,            *)
(* tunnel-recovery-supervisor, service-runtime and the part of desktop-host*)
(* that joins them.                                                        *)
(*                                                                         *)
(* The runtime owns the tunnel client, a process that may exit, refuse the *)
(* key or stop answering.  The supervisor retries after a failure it is    *)
(* told of.  The service runtime starts, restarts and stops the local      *)
(* service and the tunnel.  Each of its operations waits several times and *)
(* looks at a lifecycle token, or at the generation of the runtime, to see *)
(* whether another operation took over while it waited.                    *)
(*                                                                         *)
(* A status callback runs inside the call that reports the status, and the *)
(* end of an operation wakes those that wait for it, so a handler is an    *)
(* operator from one state w of the connection to the next; an action is   *)
(* what happens between two waits.                                         *)
(***************************************************************************)
EXTENDS Naturals, FiniteSets

CONSTANTS
    Starts,         \* starts of the connection, those taken over included
    None,
    MaxAsks,        \* bound of the instance: what the user asks
    MaxFalls        \* bound of the instance: failures

Threads == Starts \union {"restart", "stop"}

(* A tunnel client: the operation that spawned it, whether it belongs to   *)
(* the present generation, was refused for good, and is monitored.         *)
Clients == [of : Threads, fresh : BOOLEAN, fatal : BOOLEAN, watched : BOOLEAN]

ASSUME Assumptions ==
    /\ MaxAsks \in Nat /\ MaxFalls \in Nat
    /\ {"restart", "stop"} \cap Starts = {}
    /\ None \notin Threads /\ None \notin Clients

VARIABLES
    desk,           \* what the desktop shows, and the supervisor
    rt,             \* the runtime of the tunnel
    child,          \* the tunnel client
    thread,         \* the operations under way
    starting,       \* startPromise: the start that may be joined
    queued,         \* settings restarts that wait for the restart under way
    watched,        \* whether a settings restart waits for its result
    again,          \* whether a start waits for the stop under way
    up,             \* whether the local service listens
    wanted,         \* ghost: what was asked last: to connect, to stop, or to
                    \* stop in a way that other steps overlooked
    asks,           \* requests so far
    falls,          \* failures so far
    overlap         \* ghost: whether a client was launched while an operation
                    \* that had been taken over was still under way

vars == <<desk, rt, child, thread, starting, queued, watched, again, up, wanted, asks, falls, overlap>>

TunnelStates == {"stopped", "starting", "running", "in_place", "degraded", "failed"}

(* Error codes, by what they mean to the supervisor. *)
Codes == {"ok", "transient", "terminal"}

(* A thread: where it waits; whether the lifecycle token, and the          *)
(* generation of the runtime, are still its own; the start it waits for;   *)
(* the failure it has seen.                                                *)
Idle == [pc |-> "idle", valid |-> FALSE, fresh |-> FALSE, waits |-> None, code |-> "ok"]

Now == [desk |-> desk, rt |-> rt, child |-> child, thread |-> thread, starting |-> starting,
        queued |-> queued, watched |-> watched, again |-> again, up |-> up,
        overlap |-> overlap]

Becomes(w) ==
    \E x \in {w} :
        /\ desk' = x.desk /\ rt' = x.rt /\ child' = x.child /\ thread' = x.thread
        /\ starting' = x.starting /\ queued' = x.queued /\ watched' = x.watched
        /\ again' = x.again /\ up' = x.up /\ overlap' = x.overlap

Busy(w, t) == w.thread[t].pc # "idle"

To(w, t, pc) == [w EXCEPT !.thread[t].pc = pc]

-----------------------------------------------------------------------------
(* tunnel-recovery-supervisor.  One timer, and one attempt that counts; an *)
(* attempt of an older recovery is stale and its result is not used.       *)

Cancelled(w) ==
    [w EXCEPT !.desk.timer = FALSE,
              !.desk.attempt = IF w.desk.attempt = "current" THEN "stale" ELSE w.desk.attempt]

(* scheduleDelay, with what desktop-host's onSchedule shows. *)
Delayed(w) ==
    [w EXCEPT !.desk.timer = TRUE, !.desk.lost = FALSE, !.desk.tunnel = "degraded",
              !.desk.code = "transient"]

(* scheduleInitial leaves a failure to the attempt in flight. *)
Scheduled(w) ==
    CASE w.desk.timer \/ w.desk.attempt = "current" -> w
      [] ~ w.desk.timer /\ w.desk.attempt = "stale" -> [w EXCEPT !.desk.lost = TRUE]
      [] ~ w.desk.timer /\ w.desk.attempt = "none" -> Delayed(w)

(* Mutant: a failed tunnel is not scheduled, only a degraded one. *)
ObserveOnce(w, state, code) ==
    CASE state \in {"running", "in_place"} -> Cancelled(w)
      [] state = "degraded" -> Scheduled(w)
      [] state = "failed" -> IF code = "terminal" THEN Cancelled(w) ELSE w
      [] OTHER -> w

Observe(w, state, code) ==
    CASE state \in {"running", "in_place"} -> Cancelled(w)
      [] state = "degraded" -> Scheduled(w)
      [] state = "failed" -> IF code = "terminal" THEN Cancelled(w) ELSE Scheduled(w)
      [] state = "stopped" /\ w.desk.attempt = "none" -> Cancelled(w)
      [] OTHER -> w

(* The end of the restart that an attempt of runRecovery waits for. *)
AttemptSettles(w) ==
    LET done  == [w EXCEPT !.desk.attempt = "none"]
        final == ~ w.desk.server \/ w.desk.tunnel \in {"running", "in_place"}
                 \/ w.desk.code = "terminal"
    IN CASE w.desk.attempt # "current" -> done
         [] w.desk.attempt = "current" /\ final -> [done EXCEPT !.desk.timer = FALSE]
         [] OTHER -> Delayed(done)

-----------------------------------------------------------------------------
(* desktop-host: the status shown. *)

(* Mutant: the two fields are mixed up. *)
ShowSwapped(w, state, code) ==
    [w EXCEPT !.desk.tunnel = code, !.desk.code = state]

Show(w, state, code) ==
    [w EXCEPT !.desk.tunnel = state, !.desk.code = code]

(* Mutant: a failure is never shown as one. *)
HandleTunnelStatusHidden(w, state, code) ==
    IF state = "failed" THEN Observe(w, state, code)
    ELSE Observe(Show(w, state, code), state, code)

(* A failure that will be retried is not shown as one. *)
HandleTunnelStatus(w, state, code) ==
    LET seen == Observe(w, state, code)
    IN IF state # "failed" THEN Observe(Show(w, state, code), state, code)
       ELSE IF seen.desk.attempt = "stale" THEN [seen EXCEPT !.desk.lost = TRUE]
       ELSE IF seen.desk.timer \/ seen.desk.attempt = "current" THEN seen
       ELSE Show(seen, state, code)

-----------------------------------------------------------------------------
(* secure-tunnel-runtime. *)

Update(w, state, code) ==
    HandleTunnelStatus([w EXCEPT !.rt.state = state, !.rt.code = code, !.desk.lost = FALSE],
                       state, code)

(* Only t goes on as the owner of the runtime. *)
NewGeneration(w, t) ==
    [w EXCEPT !.thread = [u \in Threads |-> [w.thread[u] EXCEPT !.fresh = (u = t)]],
              !.child = IF w.child = None THEN None ELSE [w.child EXCEPT !.fresh = FALSE],
              !.rt.report = "ok"]

(* The exit handler of the client. *)
ChildGone(w) ==
    LET gone == [w EXCEPT !.child = None]
    IN CASE w.child = None -> w
         [] w.child # None /\ w.rt.stopping -> Update(gone, "stopped", "ok")
         [] w.child # None /\ ~ w.rt.stopping /\ w.child.fresh /\ w.rt.state # "failed" ->
                Update(gone, "failed", "transient")
         [] OTHER -> gone

(* stop, until it waits for the exit of the client. *)
RuntimeStops(w, t) ==
    LET stopping == [NewGeneration(w, t) EXCEPT !.rt.stopping = TRUE, !.thread[t].pc = "stopping"]
    IN IF w.child = None THEN Update(stopping, "stopped", "ok") ELSE stopping

(* Its end: the client is gone, or that could not be confirmed. *)
RuntimeStopped(w, t, confirmed) ==
    IF ~ w.thread[t].fresh THEN w
    ELSE IF confirmed THEN Update(ChildGone(w), "stopped", "ok")
    ELSE Update(w, "failed", "terminal")

(* A stop that is no longer the owner waits for the same client. *)
MayConfirm(w, t) == (~ w.thread[t].fresh /\ w.child # None) => w.child.fresh

-----------------------------------------------------------------------------
(* service-runtime. *)

NewToken(w, t) ==
    [w EXCEPT !.thread = [u \in Threads |-> [w.thread[u] EXCEPT !.valid = (u = t)]]]

(* startServer where nothing listens: joins the start under way or begins  *)
(* one.  No member of Starts is free only where Room says so.              *)
Boot(w) ==
    IF w.starting # None \/ \A s \in Starts : Busy(w, s) THEN w
    ELSE LET s     == CHOOSE s \in Starts : ~ Busy(w, s)
             begun == NewToken([w EXCEPT !.thread[s] = [Idle EXCEPT !.pc = "boot"], !.starting = s], s)
         IN [Show(begun, "starting", "ok") EXCEPT !.desk.server = FALSE]

(* restartConnectionNow, once no start is under way. *)
RestartBody(w) ==
    RuntimeStops(NewToken([w EXCEPT !.thread["restart"] = Idle], "restart"), "restart")

RestartAwake(w) ==
    LET booted    == Boot(w)
        for(x, pc) == [x EXCEPT !.thread["restart"] = [Idle EXCEPT !.pc = pc, !.waits = x.starting]]
    IN IF ~ w.up THEN for(booted, "delegated")
       ELSE IF w.starting # None THEN for(w, "awaitStart")
       ELSE RestartBody(w)

(* restartConnection: all who ask share the restart under way. *)
Restart(w) ==
    IF Busy(w, "restart") THEN w
    ELSE IF Busy(w, "stop") THEN [w EXCEPT !.thread["restart"] = [Idle EXCEPT !.pc = "awaitStop"]]
    ELSE RestartAwake(w)

(* The end of a restart: its attempt first, then a settings restart that   *)
(* watches it, then those that were queued behind it.                      *)
RestartEnds(w) ==
    LET settled  == AttemptSettles([w EXCEPT !.thread["restart"] = Idle])
        shown(x) == Observe(x, x.desk.tunnel, x.desk.code)
        watcher  == IF w.watched \/ "revoked" \in w.queued THEN shown(settled) ELSE settled
        free     == [watcher EXCEPT !.watched = "valid" \in w.queued, !.queued = {}]
    IN IF "valid" \in w.queued THEN Restart(free) ELSE free

(* The stop, once a start of the local service is out of the way. *)
StopServices(w) == RuntimeStops([w EXCEPT !.up = FALSE], "stop")

StartEnds(w, s) ==
    LET free == [w EXCEPT !.thread[s] = Idle, !.starting = IF w.starting = s THEN None ELSE w.starting]
        next == IF free.thread["restart"].waits # s THEN free
                ELSE IF free.thread["restart"].pc = "delegated" THEN RestartEnds(free)
                ELSE RestartBody(free)
    IN IF next.thread["stop"].pc = "startup" /\ next.thread["stop"].waits = s
       THEN StopServices(next) ELSE next

Ends(w, t) == IF t = "restart" THEN RestartEnds(w) ELSE StartEnds(w, t)

(* What startTunnel's handler of errors shows. *)
TunnelError(w, t, code) ==
    IF ~ w.thread[t].valid THEN Ends(w, t)
    ELSE LET state == IF code = "terminal" THEN "failed" ELSE "degraded"
         IN Ends([Show(w, state, code) EXCEPT !.desk.server = TRUE], t)

(* startServer. *)
StartServer(w) ==
    IF Busy(w, "stop") THEN [w EXCEPT !.again = TRUE]
    ELSE IF ~ w.up THEN Boot(w)
    ELSE IF w.rt.state = "running" \/ w.child # None THEN w
    ELSE Restart(w)

(* Mutant: a restart queued behind the one under way survives the stop. *)
BeginStopQueueKept(w) ==
    LET revoked == [NewToken(w, None) EXCEPT !.starting = None,
                       !.thread["stop"] = [Idle EXCEPT !.pc = "startup", !.waits = w.starting]]
    IN IF Busy(w, "stop") THEN w
       ELSE IF w.starting # None /\ w.thread[w.starting].pc = "boot" THEN revoked
       ELSE StopServices(revoked)

(* stop: no operation goes on with the token it has. *)
BeginStop(w) ==
    LET revoked == [NewToken(w, None) EXCEPT !.starting = None,
                       !.queued = IF w.queued = {} THEN {} ELSE {"revoked"},
                       !.thread["stop"] = [Idle EXCEPT !.pc = "startup", !.waits = w.starting]]
    IN IF Busy(w, "stop") THEN w
       ELSE IF w.starting # None /\ w.thread[w.starting].pc = "boot" THEN revoked
       ELSE StopServices(revoked)

(* Its end, and those that wait for it. *)
StopDone(w) ==
    LET free  == [Show(w, "stopped", "ok") EXCEPT !.desk.server = FALSE,
                    !.thread["stop"] = Idle, !.again = FALSE]
        woken == IF free.thread["restart"].pc = "awaitStop" THEN RestartAwake(free) ELSE free
    IN IF w.again THEN Boot(woken) ELSE woken

-----------------------------------------------------------------------------
(* Steps. *)

(* A step that may begin a start waits, in an instance, for a free one. *)
Room == starting # None \/ \E s \in Starts : ~ Busy(Now, s)

Asked(want) == asks < MaxAsks /\ asks' = asks + 1 /\ wanted' = want /\ UNCHANGED falls

(* Failures are counted. *)
Counts(failed) ==
    /\ falls' = falls + (IF failed THEN 1 ELSE 0)
    /\ falls' <= MaxFalls
    /\ UNCHANGED asks

(* A step that nobody asks for.  The desktop observes the result of a       *)
(* settings restart though a stop has begun, and may schedule a retry.      *)
Goes(w) ==
    LET late == /\ (watched \/ queued # {}) /\ Busy(Now, "restart") /\ ~ Busy(w, "restart")
                /\ ~ desk.timer /\ w.desk.timer
    IN /\ Becomes(w)
       /\ wanted' = IF wanted = "no" /\ late THEN "overlooked" ELSE wanted

UserStarts == Asked("yes") /\ Room /\ Becomes(StartServer(Now))

(* retryNow: joins the attempt that counts, or begins one. *)
Attempted(w) == Restart([Cancelled(w) EXCEPT !.desk.attempt = "current"])

UserRetries ==
    /\ Asked("yes") /\ Room
    /\ Becomes(IF desk.attempt = "current" THEN Now ELSE Attempted(Now))

(* New settings: the retries are cancelled, and a restart begins after the *)
(* one under way.                                                          *)
UserChangesSettings ==
    LET w == Cancelled(Now)
    IN /\ desk.server /\ Asked("yes") /\ Room
       /\ Becomes(IF Busy(w, "restart") THEN [w EXCEPT !.queued = w.queued \union {"valid"}]
                  ELSE [Restart(w) EXCEPT !.watched = TRUE])

UserStops == Asked(IF Busy(Now, "stop") /\ wanted # "no" THEN "overlooked" ELSE "no") /\ Room /\ Becomes(BeginStop(Cancelled(Now)))

TimerFires ==
    /\ desk.timer /\ Room /\ Counts(FALSE)
    /\ Goes(Attempted(Now))

(* The local service exits; the desktop stops what is left and starts      *)
(* again.                                                                  *)
ServiceExits ==
    LET shown == [Show([Now EXCEPT !.up = FALSE], "failed", "transient") EXCEPT !.desk.server = FALSE]
    IN /\ desk.server /\ (up \/ thread["stop"].pc = "stopping") /\ Room
       /\ falls < MaxFalls /\ falls' = falls + 1 /\ wanted' = "yes" /\ UNCHANGED asks
       /\ Becomes([BeginStop(Cancelled(shown)) EXCEPT !.again = TRUE])

(* The local service has started and answers, or has not. *)
BootEnds(s) ==
    /\ thread[s].pc = "boot"
    /\ \E listens \in BOOLEAN :
        /\ Counts(~ listens) /\ (~ listens => thread[s].valid)
        /\ Goes(
            IF ~ thread[s].valid THEN StartEnds(Now, s)
            ELSE IF listens
            THEN [Show(To(Now, s, "launch"), "starting", "ok") EXCEPT !.up = TRUE, !.desk.server = TRUE]
            ELSE StartEnds([Show(Now, "failed", "transient") EXCEPT !.desk.server = FALSE], s))

TakenOver(t) ==
    /\ thread[t].pc \in {"boot", "launch", "prepare", "wait", "cleanup"}
                       \union (IF t = "restart" THEN {"stopping"} ELSE {})
    /\ ~ thread[t].valid

(* A failure before the runtime has begun is not observed. *)
Unseen(w) == [w EXCEPT !.desk.lost = ~ w.desk.timer /\ w.desk.attempt # "current"]

(* startTunnel, and the runtime's start until it waits: the key is missing, *)
(* the profile cannot be written or a client is left, or the start begins.  *)
Launches(t) ==
    /\ thread[t].pc = "launch"
    /\ \E outcome \in {"ok", "terminal", "transient"} :
        LET over == \E u \in Threads \ {t} : TakenOver(u)
            w    == [Now EXCEPT !.overlap = overlap \/ (thread[t].valid /\ over)]
        IN /\ Counts(outcome # "ok") /\ (outcome # "ok" => thread[t].valid)
           /\ Goes(
                IF ~ thread[t].valid THEN Ends(w, t)
                ELSE IF outcome = "terminal" THEN TunnelError(w, t, "terminal")
                ELSE IF outcome = "transient" \/ child # None THEN TunnelError(Unseen(w), t, "transient")
                ELSE Update([NewGeneration(To(w, t, "prepare"), t) EXCEPT !.rt.stopping = FALSE],
                            "starting", "ok"))

(* Mutant: the client is spawned though the start was cancelled. *)
SpawnsAnyway(t) ==
    /\ thread[t].pc = "prepare"
    /\ \E found \in BOOLEAN :
        /\ Counts(~ found)
        /\ Goes(
            IF ~ found THEN TunnelError(Update(Now, "failed", "terminal"), t, "terminal")
            ELSE [To(Now, t, "wait") EXCEPT
                    !.child = [of |-> t, fresh |-> thread[t].fresh, fatal |-> FALSE, watched |-> FALSE]])

(* The executable was looked up: the client is spawned. *)
Spawns(t) ==
    /\ thread[t].pc = "prepare"
    /\ \E found \in BOOLEAN :
        /\ Counts(~ found)
        /\ Goes(
            IF ~ thread[t].fresh THEN Ends(Now, t)
            ELSE IF ~ found THEN TunnelError(Update(Now, "failed", "terminal"), t, "terminal")
            ELSE [To(Now, t, "wait") EXCEPT
                    !.child = [of |-> t, fresh |-> TRUE, fatal |-> FALSE, watched |-> FALSE]])

Own(t) == child # None /\ child.of = t

(* The client is connected, or lives and recovers by itself. *)
Connects(t, state) ==
    /\ thread[t].pc = "wait" /\ thread[t].fresh /\ Own(t) /\ ~ child.fatal
    /\ Counts(state # "running")
    /\ LET connected == [Update(Now, state, IF state = "running" THEN "ok" ELSE "transient")
                           EXCEPT !.child.watched = TRUE]
       IN Goes(IF ~ thread[t].valid THEN Ends(connected, t)
                  ELSE Ends([Show(connected, state, connected.rt.code) EXCEPT !.desk.server = TRUE], t))

(* The wait fails: the client is gone or refused, was left without an      *)
(* answer, or belongs to a start that was cancelled.  It is to be killed.  *)
WaitFails(t) ==
    /\ thread[t].pc = "wait"
    /\ \E code \in {"transient", "terminal"} :
        /\ Counts(thread[t].fresh /\ Own(t) /\ ~ child.fatal)
        /\ (thread[t].code = "terminal" \/ ~ thread[t].fresh \/ ~ Own(t)) => code = "transient"
        /\ Goes([To(Now, t, "cleanup") EXCEPT
                       !.thread[t].code = IF thread[t].code = "terminal" THEN "terminal" ELSE code])

(* It was killed, or that could not be confirmed. *)
CleanupEnds(t) ==
    /\ thread[t].pc = "cleanup"
    /\ \E confirmed \in BOOLEAN :
        LET w == IF Own(t) /\ confirmed THEN ChildGone(Now) ELSE Now
        IN /\ Counts(~ confirmed) /\ (~ confirmed => Own(t))
           /\ Goes(IF ~ thread[t].fresh THEN Ends(w, t)
                      ELSE TunnelError(Update(w, "failed", thread[t].code), t, thread[t].code))

(* secureTunnelRuntime.stop has ended, for a restart or for the stop. *)
RestartGoesOn ==
    /\ thread["restart"].pc = "stopping" /\ MayConfirm(Now, "restart")
    /\ \E confirmed \in BOOLEAN :
        LET w == RuntimeStopped(Now, "restart", confirmed)
        IN /\ Counts(~ confirmed) /\ (~ confirmed => child # None /\ thread["restart"].fresh)
           /\ Goes(IF ~ thread["restart"].valid \/ Busy(w, "stop") \/ ~ up THEN RestartEnds(w)
                      ELSE Show(To(w, "restart", "launch"), "starting", "ok"))

StopEnds ==
    /\ thread["stop"].pc = "stopping" /\ MayConfirm(Now, "stop") /\ Room
    /\ \E confirmed \in BOOLEAN :
        /\ Counts(~ confirmed) /\ (~ confirmed => child # None /\ thread["stop"].fresh)
        /\ Goes(StopDone(RuntimeStopped(Now, "stop", confirmed)))

(* The local service did not start in time: it is disposed of. *)
StopGivesUpOnStart ==
    /\ thread["stop"].pc = "startup" /\ Counts(FALSE)
    /\ Goes(StopServices(Now))

(* The client exits by itself, or because it is being killed. *)
ChildExits ==
    /\ child # None
    /\ Counts(child.fresh /\ ~ child.fatal /\ rt.report = "ok" /\ thread[child.of].pc # "cleanup")
    /\ Goes(ChildGone(Now))

(* The client logs that its key, or its tunnel, was refused: it is killed. *)
ClientRefused ==
    /\ child # None /\ child.fresh /\ ~ child.fatal /\ Counts(TRUE)
    /\ LET w == Update([Now EXCEPT !.child.fatal = TRUE], "failed", "terminal")
       IN Goes(IF thread[child.of].pc = "wait" THEN [w EXCEPT !.thread[child.of].code = "terminal"] ELSE w)

(* Mutant: the monitor goes on after a fatal failure was logged. *)
MonitoringOn == child # None /\ child.watched /\ child.fresh /\ ~ rt.stopping /\ rt.report = "ok"

(* monitorTunnel goes on with this client. *)
Monitoring == child # None /\ child.watched /\ child.fresh /\ ~ child.fatal
              /\ ~ rt.stopping /\ rt.report = "ok"

(* A probe finds the client connected, recovering by itself, or silent. *)
Probes(state) ==
    /\ Monitoring /\ state # rt.state
    /\ Counts(state # "running")
    /\ Goes(Update(Now, state, IF state = "running" THEN "ok" ELSE "transient"))

(* It stays silent, or its key was refused: it is killed, and the failure  *)
(* is reported when that has ended.                                        *)
MonitorKills(code) ==
    /\ Monitoring /\ Counts(TRUE)
    /\ Goes([Now EXCEPT !.rt.report = code])

MonitorReports ==
    /\ rt.report # "ok"
    /\ \E confirmed \in BOOLEAN :
        LET w == IF confirmed THEN ChildGone(Now) ELSE [Now EXCEPT !.child.watched = FALSE]
        IN /\ Counts(~ confirmed) /\ (~ confirmed => child # None)
           /\ Goes(Update([w EXCEPT !.rt.report = "ok"], "failed", rt.report))

-----------------------------------------------------------------------------

Init ==
    /\ desk = [timer |-> FALSE, attempt |-> "none", tunnel |-> "stopped", code |-> "ok",
               lost |-> FALSE, server |-> FALSE]
    /\ rt = [state |-> "stopped", code |-> "ok", stopping |-> FALSE, report |-> "ok"]
    /\ child = None
    /\ thread = [t \in Threads |-> Idle]
    /\ starting = None /\ queued = {} /\ watched = FALSE /\ again = FALSE /\ up = FALSE
    /\ wanted = "no" /\ asks = 0 /\ falls = 0 /\ overlap = FALSE

UserNext == UserStarts \/ UserRetries \/ UserChangesSettings \/ UserStops

TunnelNext(t) ==
    \/ Launches(t)
    \/ Spawns(t)
    \/ \E state \in {"running", "in_place"} : Connects(t, state)
    \/ WaitFails(t)
    \/ CleanupEnds(t)

ClientNext ==
    \/ ChildExits
    \/ ClientRefused
    \/ \E state \in {"running", "in_place", "degraded"} : Probes(state)
    \/ \E code \in {"transient", "terminal"} : MonitorKills(code)
    \/ MonitorReports

Next ==
    \/ UserNext
    \/ TimerFires
    \/ ServiceExits
    \/ \E s \in Starts : BootEnds(s)
    \/ \E t \in Starts \union {"restart"} : TunnelNext(t)
    \/ RestartGoesOn
    \/ StopEnds
    \/ StopGivesUpOnStart
    \/ ClientNext

Progress ==
    \/ TimerFires
    \/ \E s \in Starts : BootEnds(s)
    \/ \E t \in Starts \union {"restart"} : TunnelNext(t)
    \/ RestartGoesOn
    \/ StopEnds
    \/ MonitorReports

(* A wait ends, one way or another, and a timer fires.  One condition for  *)
(* all of them will do: apart from failures, which are counted, none of    *)
(* these steps can be taken again and again.                               *)
Spec == Init /\ [][Next]_vars /\ WF_vars(Progress)

-----------------------------------------------------------------------------
(* Properties. *)

(* Every variable has its type. *)
TypeOK ==
    /\ desk \in [timer : BOOLEAN, attempt : {"none", "current", "stale"}, tunnel : TunnelStates,
                 code : Codes, lost : BOOLEAN, server : BOOLEAN]
    /\ rt \in [state : TunnelStates, code : Codes, stopping : BOOLEAN, report : Codes]
    /\ child \in {None} \union Clients
    /\ thread \in [Threads -> [pc : {"idle", "boot", "launch", "prepare", "wait", "cleanup", "delegated",
                                     "awaitStop", "awaitStart", "stopping", "startup"},
                               valid : BOOLEAN, fresh : BOOLEAN, waits : Starts \union {None},
                               code : Codes]]
    /\ starting \in Starts \union {None}
    /\ queued \subseteq {"valid", "revoked"}
    /\ watched \in BOOLEAN /\ again \in BOOLEAN /\ up \in BOOLEAN /\ wanted \in {"no", "yes", "overlooked"}
    /\ asks \in 0..MaxAsks /\ falls \in 0..MaxFalls /\ overlap \in BOOLEAN

Spawning == \E t \in Threads : thread[t].pc = "prepare" /\ thread'[t].pc = "wait"

(* One client: whatever starts, restarts and stops overlap, a client is    *)
(* spawned only when none is left.  The runtime looks for a client when a  *)
(* start begins; what else may have happened when the executable is found  *)
(* is up to the generation.                                                *)
OneClient == [][Spawning => child = None]_vars

(* Once a stop has begun no client is spawned before the user, or the      *)
(* desktop after an exit of the service, asks for one: not by a start, an  *)
(* attempt or a queued restart that was waiting when it began.             *)
StopIsFinal == [][Spawning => wanted # "no"]_vars

(* TUNNEL_TRANSITIONS; starting stands for three states. *)
Legal(from) ==
    CASE from = "stopped" -> {"stopped", "starting"}
      [] from = "starting" -> {"starting", "running", "in_place", "failed", "stopped"}
      [] from = "failed" -> {"failed", "starting", "stopped"}
      [] OTHER -> {"running", "in_place", "degraded", "failed", "stopped"}

(* assertTunnelLifecycleTransition never throws: callbacks of the client,  *)
(* of its monitor and of its log cannot undo what another has reported.    *)
TransitionsLegal == [][rt'.state \in Legal(rt.state)]_vars

AllIdle == \A t \in Threads : ~ Busy(Now, t)

(* When nothing is under way, the desktop does not show a connection that  *)
(* the runtime has lost, although some failures are left to an attempt.    *)
StatusAgrees == (desk.tunnel = "running" /\ AllIdle /\ ~ desk.lost /\ ~ overlap) => rt.state = "running"

(* A tunnel that failed while the user wants it is connected again, or the *)
(* reason why it cannot be is found: unless the failure met an attempt of  *)
(* an older recovery, or came before the runtime began.                    *)
Recovers ==
    (rt.state = "failed" /\ rt.code = "transient" /\ up)
        ~> \/ rt.state \in {"running", "in_place"}
           \/ "terminal" \in {rt.code, desk.code}
           \/ ~ up \/ wanted # "yes"
           \/ desk.lost \/ overlap

(* Violated by the code.  An unexpected failure of the tunnel schedules a  *)
(* recovery: a timer runs or something is under way.                       *)
FailuresAreRetried ==
    (rt.state = "failed" /\ rt.code = "transient" /\ up /\ wanted = "yes") => desk.timer \/ ~ AllIdle

=============================================================================
