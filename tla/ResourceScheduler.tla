------------------------- MODULE ResourceScheduler -------------------------
(***************************************************************************)
(* createFairResourceScheduler of src/hostResourceScheduler.js: admission  *)
(* to the host's resource lanes, fair among owners (workspaces), with      *)
(* tickets that need several lanes at once.                                *)
(*                                                                         *)
(* A caller issues one acquireMany after another, always for the same      *)
(* lanes and the same owner.  pump and the loops over a release or over    *)
(* the listeners of an abort event are synchronous: while one of them is   *)
(* in progress only the clock moves.  pump is one step per owner visited,  *)
(* and pumping, lane, visit and progress are its local state.              *)
(***************************************************************************)
EXTENDS Naturals, Sequences, FiniteSets, SequencesExt

CONSTANTS
    LaneOrder,         \* the lanes, in the order of the Map
    Heavy,             \* the lane that is always primary
    Limit,             \* Limit[l]: slots of a lane
    Callers,           \* those who call acquireMany
    Owners,            \* owner keys
    Owner,             \* Owner[c]: the owner key c passes
    Resources,         \* Resources[c]: the lanes c asks for, in its order
    Signals,           \* abort signals
    Signal,            \* Signal[c]: the signal c passes
    MaxQueued,         \* maxQueued
    MaxQueuedPerOwner, \* maxQueuedPerOwner
    Disposable,        \* whether dispose may be called
    Nobody             \* no caller

Lanes == Range(LaneOrder)

ASSUME LanesAssumption ==
    /\ LaneOrder \in Seq(Lanes) /\ LaneOrder # <<>>
    /\ Limit \in [Lanes -> Nat \ {0}]

ASSUME CallersAssumption ==
    /\ IsFiniteSet(Callers) /\ Nobody \notin Callers
    /\ Owner \in [Callers -> Owners]
    /\ Resources \in [Callers -> Seq(Lanes)]
    /\ \A c \in Callers : Resources[c] # <<>>
    /\ Signal \in [Callers -> Signals]
    /\ MaxQueued \in Nat /\ MaxQueuedPerOwner \in Nat
    /\ Disposable \in BOOLEAN

VARIABLES
    queued,    \* callers whose ticket is queued
    held,      \* caller -> lanes its lease still has
    active,    \* lane -> slots in use
    waiting,   \* lane -> callers counted in the lane's queue
    owners,    \* lane -> owner -> its tickets with this primary lane
    order,     \* lane -> owners with tickets, next to be served first
    aborted,   \* signals that are aborted
    expired,   \* queued callers whose deadline has passed
    pumping,   \* is pump in progress
    lane,      \* index of the lane pump inspects
    visit,     \* owners it has still to visit there
    progress,  \* has this sweep admitted or rejected anybody
    releasing, \* the caller whose release() is in progress
    dispatch,  \* callers whose abort listener has still to run
    disposed   \* has dispose been called

pumpState == <<pumping, lane, visit, progress>>
queues    == <<queued, waiting, owners, order>>
vars == <<queued, held, active, waiting, owners, order, aborted, expired,
          pumping, lane, visit, progress, releasing, dispatch, disposed>>
-----------------------------------------------------------------------------
Wanted(c)  == Range(Resources[c])
Primary(c) == IF Heavy \in Wanted(c) THEN Heavy ELSE Resources[c][1]

(* No synchronous code is in progress. *)
Ready == ~pumping /\ releasing = Nobody /\ dispatch = {}

Init ==
    /\ queued = {}
    /\ held = [c \in Callers |-> {}]
    /\ active = [l \in Lanes |-> 0]
    /\ waiting = [l \in Lanes |-> {}]
    /\ owners = [l \in Lanes |-> [w \in Owners |-> <<>>]]
    /\ order = [l \in Lanes |-> <<>>]
    /\ aborted = {}
    /\ expired = {}
    /\ pumping = FALSE /\ lane = 1 /\ visit = <<>> /\ progress = FALSE
    /\ releasing = Nobody
    /\ dispatch = {}
    /\ disposed = FALSE

(* The first lines of pump; rotated is the owners' order it finds.         *)
StartPump(rotated) ==
    IF disposed THEN UNCHANGED pumpState
    ELSE /\ pumping' = TRUE
         /\ lane' = 1
         /\ visit' = rotated[LaneOrder[1]]
         /\ progress' = FALSE
-----------------------------------------------------------------------------
(* s without the members of S.                                             *)
Without(s, S) ==
    LET kept[i \in 0 .. Len(s)] ==
          IF i = 0 THEN <<>>
          ELSE IF s[i] \in S THEN kept[i - 1] ELSE Append(kept[i - 1], s[i])
    IN kept[Len(s)]

(* Mutant: an owner without tickets stays in the order. *)
TakeOutKeepingOwner(S, o) ==
    /\ queued' = queued \ S
    /\ expired' = expired \ S
    /\ waiting' = [l \in Lanes |-> waiting[l] \ {c \in S : l \in Wanted(c)}]
    /\ owners' = [l \in Lanes |-> [w \in Owners |-> Without(owners[l][w], S)]]
    /\ order' = o

(* remove, for each ticket in S: out of the queue of every lane it wants   *)
(* and of its owner's list; an owner without tickets leaves the order o.   *)
TakeOut(S, o) ==
    /\ queued' = queued \ S
    /\ expired' = expired \ S
    /\ waiting' = [l \in Lanes |-> waiting[l] \ {c \in S : l \in Wanted(c)}]
    /\ owners' = [l \in Lanes |-> [w \in Owners |-> Without(owners[l][w], S)]]
    /\ order' = [l \in Lanes |->
                    Without(o[l], {w \in Owners :
                       /\ owners'[l][w] = <<>>
                       /\ \E c \in S : Primary(c) = l /\ Owner[c] = w})]

(* Some lane's queue, or the owner's share of it, is at its bound.         *)
Full(c) ==
    \E l \in Wanted(c) :
        \/ Cardinality(waiting[l]) >= MaxQueued
        \/ Cardinality({d \in waiting[l] : Owner[d] = Owner[c]}) >= MaxQueuedPerOwner

(* acquireMany: the ticket is queued and pump runs.                        *)
AcquireMany(c) ==
    LET p == Primary(c)
        w == Owner[c]
    IN /\ Ready /\ ~disposed
       /\ c \notin queued /\ held[c] = {}
       /\ Signal[c] \notin aborted
       /\ ~Full(c)
       /\ queued' = queued \union {c}
       /\ waiting' = [l \in Lanes |->
                         IF l \in Wanted(c) THEN waiting[l] \union {c} ELSE waiting[l]]
       /\ owners' = [owners EXCEPT ![p][w] = Append(@, c)]
       /\ order' = IF owners[p][w] = <<>> THEN [order EXCEPT ![p] = Append(@, w)]
                   ELSE order
       /\ StartPump(order')
       /\ UNCHANGED <<held, active, aborted, expired, releasing, dispatch, disposed>>
-----------------------------------------------------------------------------
(* rejectionFor and the capacity half of allowed.                          *)
Rejectable(c) == Signal[c] \in aborted \/ c \in expired

(* Mutant: only the primary lane's capacity is looked at. *)
FitsPrimary(c) == active[Primary(c)] < Limit[Primary(c)]

Fits(c) == \A l \in Wanted(c) : active[l] < Limit[l]

(* The tickets of the owner being visited, oldest first; how many of them  *)
(* the inner loop looks at, and which of those it rejects.                 *)
Candidates == owners[LaneOrder[lane]][Head(visit)]

Allowed(i) == ~Rejectable(Candidates[i]) /\ Fits(Candidates[i])

(* Mutant: the newest ticket that may go is taken. *)
NewestAllowed(i) ==
    /\ Allowed(i)
    /\ \A j \in DOMAIN Candidates : j > i => ~Allowed(j)

FirstAllowed(i) ==
    /\ Allowed(i)
    /\ \A j \in DOMAIN Candidates : j < i => ~Allowed(j)

(* Mutant: the served owner keeps its turn. *)
NotRotated == order

(* The owner that is served goes to the end of its lane's order.           *)
Rotated ==
    LET l == LaneOrder[lane]
        w == Head(visit)
    IN [order EXCEPT ![l] = Append(Without(@, {w}), w)]

(* pump visits an owner and finds a ticket that may go: admit.             *)
AdmitOldest ==
    /\ pumping /\ visit # <<>>
    /\ \E i \in DOMAIN Candidates :
         LET c == Candidates[i]
             R == {Candidates[j] : j \in {j \in 1 .. i - 1 : Rejectable(Candidates[j])}}
         IN /\ FirstAllowed(i)
            /\ TakeOut(R \union {c}, Rotated)
            /\ held' = [held EXCEPT ![c] = Wanted(c)]
            /\ active' = [l \in Lanes |->
                             IF l \in Wanted(c) THEN active[l] + 1 ELSE active[l]]
    /\ visit' = <<>>
    /\ progress' = TRUE
    /\ UNCHANGED <<aborted, pumping, lane, releasing, dispatch, disposed>>

(* It finds none: those past their deadline or aborted are rejected, the   *)
(* others go on waiting.                                                   *)
PassOver ==
    LET R == {c \in Range(Candidates) : Rejectable(c)}
    IN /\ pumping /\ visit # <<>>
       /\ \A i \in DOMAIN Candidates : ~Allowed(i)
       /\ TakeOut(R, order)
       /\ visit' = Tail(visit)
       /\ progress' = (progress \/ R # {})
       /\ UNCHANGED <<held, active, aborted, pumping, lane, releasing, dispatch,
                      disposed>>

NextLane ==
    /\ pumping /\ visit = <<>>
    /\ lane < Len(LaneOrder)
    /\ lane' = lane + 1
    /\ visit' = order[LaneOrder[lane + 1]]
    /\ UNCHANGED <<queues, held, active, aborted, expired, pumping, progress,
                   releasing, dispatch, disposed>>

NextSweep ==
    /\ pumping /\ visit = <<>>
    /\ lane = Len(LaneOrder)
    /\ progress
    /\ progress' = FALSE
    /\ lane' = 1
    /\ visit' = order[LaneOrder[1]]
    /\ UNCHANGED <<queues, held, active, aborted, expired, pumping, releasing,
                   dispatch, disposed>>

EndPump ==
    /\ pumping /\ visit = <<>>
    /\ lane = Len(LaneOrder)
    /\ ~progress
    /\ pumping' = FALSE
    /\ lane' = 1
    /\ UNCHANGED <<queues, held, active, aborted, expired, visit, progress,
                   releasing, dispatch, disposed>>

Pump == AdmitOldest \/ PassOver \/ NextLane \/ NextSweep \/ EndPump
-----------------------------------------------------------------------------
(* Mutant: a lane may be given back twice, and the count is not guarded. *)
GiveBackTwice(c, l) ==
    /\ held' = [held EXCEPT ![c] = @ \ {l}]
    /\ active' = [active EXCEPT ![l] = @ - 1]
    /\ StartPump(order)

(* Mutant: the freed slot is offered to nobody. *)
GiveBackSilently(c, l) ==
    /\ l \in held[c]
    /\ held' = [held EXCEPT ![c] = @ \ {l}]
    /\ active' = [active EXCEPT ![l] = IF @ > 0 THEN @ - 1 ELSE 0]
    /\ UNCHANGED pumpState

(* releaseResource: a lane the lease still has is given back; pump runs.   *)
GiveBack(c, l) ==
    /\ l \in held[c]
    /\ held' = [held EXCEPT ![c] = @ \ {l}]
    /\ active' = [active EXCEPT ![l] = IF @ > 0 THEN @ - 1 ELSE 0]
    /\ StartPump(order)

ReleaseResource(c, l) ==
    /\ Ready
    /\ GiveBack(c, l)
    /\ UNCHANGED <<queues, aborted, expired, releasing, dispatch, disposed>>

(* release: the lanes the lease still has, one after another in the order  *)
(* they were asked for, each with its pump; the caller is done after the   *)
(* last.                                                                   *)
Release(c) ==
    /\ \/ Ready
       \/ ~pumping /\ releasing = c
    /\ held[c] # {}
    /\ \E i \in DOMAIN Resources[c] :
         /\ \A j \in 1 .. i - 1 : Resources[c][j] \notin held[c]
         /\ GiveBack(c, Resources[c][i])
         /\ releasing' = IF held'[c] = {} THEN Nobody ELSE c
    /\ UNCHANGED <<queues, aborted, expired, dispatch, disposed>>
-----------------------------------------------------------------------------
(* A signal aborts: the listener of every ticket queued with it will run.  *)
Abort(s) ==
    /\ Ready
    /\ s \notin aborted
    /\ aborted' = aborted \union {s}
    /\ dispatch' = {c \in queued : Signal[c] = s}
    /\ UNCHANGED <<queues, held, active, expired, pumpState, releasing, disposed>>

(* Callers whose signal aborted call again with a signal of their own.     *)
Renew(s) ==
    /\ Ready
    /\ s \in aborted
    /\ \A c \in queued : Signal[c] # s
    /\ aborted' = aborted \ {s}
    /\ UNCHANGED <<queues, held, active, expired, pumpState, releasing, dispatch,
                   disposed>>

(* rejectTicket and pump, as a listener or a timer runs them: a ticket     *)
(* that has left the queue is left alone.                                  *)
RejectAndPump(c) ==
    /\ IF c \in queued THEN TakeOut({c}, order) ELSE UNCHANGED <<queues, expired>>
    /\ StartPump(order')

OnAbort(c) ==
    /\ ~pumping
    /\ c \in dispatch
    /\ dispatch' = dispatch \ {c}
    /\ IF c \in queued THEN RejectAndPump(c)
       ELSE UNCHANGED <<queues, expired, pumpState>>
    /\ UNCHANGED <<held, active, aborted, releasing, disposed>>

(* The clock passes a queued ticket's deadline. *)
Expire(c) ==
    /\ c \in queued /\ c \notin expired
    /\ expired' = expired \union {c}
    /\ UNCHANGED <<queues, held, active, aborted, pumpState, releasing, dispatch,
                   disposed>>

(* Mutant: a deadline is left to the next pump. *)
TimerNever(c) == FALSE /\ UNCHANGED vars

TimerFires(c) ==
    /\ Ready
    /\ c \in queued /\ c \in expired
    /\ RejectAndPump(c)
    /\ UNCHANGED <<held, active, aborted, releasing, dispatch, disposed>>

(* dispose: every queued ticket is rejected. *)
Dispose ==
    /\ Disposable /\ Ready /\ ~disposed
    /\ disposed' = TRUE
    /\ TakeOut(queued, order)
    /\ UNCHANGED <<held, active, aborted, pumpState, releasing, dispatch>>

Next ==
    \/ Pump
    \/ Dispose
    \/ \E s \in Signals : Abort(s) \/ Renew(s)
    \/ \E c \in Callers :
         \/ AcquireMany(c) \/ Release(c) \/ OnAbort(c)
         \/ Expire(c) \/ TimerFires(c)
         \/ \E l \in Lanes : ReleaseResource(c, l)

Spec == Init /\ [][Next]_vars

(* Synchronous code ends and timers fire; other code may come in between.  *)
(* Nobody has to release a lease.                                          *)
Fairness ==
    /\ WF_vars(Pump)
    /\ WF_vars(\E c \in Callers : OnAbort(c))
    /\ WF_vars(\E c \in Callers : releasing = c /\ Release(c))
    /\ \A c \in Callers : WF_vars(Expire(c)) /\ SF_vars(TimerFires(c))

FairSpec == Spec /\ Fairness
-----------------------------------------------------------------------------
(* Every variable has its type. *)
TypeOK ==
    /\ queued \subseteq Callers
    /\ held \in [Callers -> SUBSET Lanes]
    /\ active \in [Lanes -> Nat]
    /\ waiting \in [Lanes -> SUBSET Callers]
    /\ owners \in [Lanes -> [Owners -> Seq(Callers)]]
    /\ order \in [Lanes -> Seq(Owners)]
    /\ aborted \subseteq Signals
    /\ expired \subseteq queued
    /\ pumping \in BOOLEAN
    /\ lane \in 1 .. Len(LaneOrder)
    /\ visit \in Seq(Owners)
    /\ progress \in BOOLEAN
    /\ releasing \in Callers \union {Nobody}
    /\ dispatch \subseteq Callers
    /\ disposed \in BOOLEAN

Leases(l) == {c \in Callers : l \in held[c]}

(* The slots in use are the leases outstanding and never exceed the limit, *)
(* early releaseResource, release and release after dispose included.      *)
LeasesCounted ==
    \A l \in Lanes : active[l] = Cardinality(Leases(l)) /\ active[l] <= Limit[l]

(* The three queues of a lane agree: a queued ticket is counted in exactly *)
(* the lanes it wants, and stands once in its owner's list at its primary  *)
(* lane; the order names the owners with tickets there, once each; and no  *)
(* queue, and no owner's share of it, outgrows its bound, though a ticket  *)
(* is counted in several lanes and lives in only one.                      *)
QueuesAgree ==
    \A l \in Lanes :
        /\ waiting[l] = {c \in queued : l \in Wanted(c)}
        /\ \A w \in Owners :
             /\ Range(owners[l][w]) = {c \in queued : Primary(c) = l /\ Owner[c] = w}
             /\ IsInjective(owners[l][w])
        /\ Range(order[l]) = {w \in Owners : owners[l][w] # <<>>}
        /\ IsInjective(order[l])
        /\ Cardinality(waiting[l]) <= MaxQueued
        /\ \A w \in Owners :
             Cardinality({c \in waiting[l] : Owner[c] = w}) <= MaxQueuedPerOwner

(* Slots, leases, tickets and the indexes of the queue agree at every step.*)
Accounted == LeasesCounted /\ QueuesAgree

(* When no synchronous code is in progress no ticket waits for lanes that  *)
(* are all free ("Only occupied concurrency slots delay work"), and no      *)
(* aborted request has left one behind, however many tickets the signal    *)
(* carried and whatever the pumps between their listeners did.             *)
OnlyCapacityDelays ==
    Ready => \A c \in queued : Signal[c] \notin aborted /\ (c \in expired \/ ~Fits(c))

Before(c, d) ==
    \E l \in Lanes, w \in Owners : \E i, j \in DOMAIN owners[l][w] :
        i < j /\ owners[l][w][i] = c /\ owners[l][w][j] = d

(* "same-primary tickets with identical resource sets retain FIFO          *)
(* admission": when a ticket is granted, an older one of its owner that    *)
(* wants the same lanes does not stay queued.                              *)
FifoAdmission ==
    [][\A c, d \in Callers :
          /\ Before(c, d) /\ Wanted(c) = Wanted(d)
          /\ held[d] = {} /\ held'[d] # {}
          => c \notin queued']_vars

(* Every ticket is admitted, rejected or refused in the end, even if no    *)
(* lease is ever given back.                                               *)
TicketsSettle == \A c \in Callers : c \in queued ~> c \notin queued

Pool == INSTANCE ResourcePool WITH
    Wants <- [c \in Callers |-> Wanted(c)],
    waiting <- queued

(* Each step of the scheduler, pump's included, is a step of the pool:     *)
(* nobody holds a lane while waiting for another.                          *)
ImplementsPool == Pool!Spec
=============================================================================
