--------------------- MODULE ConnectionRecovery_proof ---------------------
(***************************************************************************)
(* Proofs about ConnectionRecovery.  The handlers are operators from one   *)
(* state of the connection to the next, and call each other, so each part  *)
(* says first of each what it keeps of a state w; an action follows from   *)
(* the operators it is made of.  The parts: the runtime and its client,    *)
(* what is under way after a stop, and what the desktop shows.             *)
(***************************************************************************)
EXTENDS ConnectionRecovery, TLAPS

Desks == [timer : BOOLEAN, attempt : {"none", "current", "stale"}, tunnel : TunnelStates,
          code : Codes, lost : BOOLEAN, server : BOOLEAN]

Runtimes == [state : TunnelStates, code : Codes, stopping : BOOLEAN, report : Codes]

Waits == {"idle", "boot", "launch", "prepare", "wait", "cleanup", "delegated",
          "awaitStop", "awaitStart", "stopping", "startup"}

Operations == [pc : Waits, valid : BOOLEAN, fresh : BOOLEAN, waits : Starts \union {None},
               code : Codes]

(* The states of a connection. *)
Connections ==
    [desk : Desks, rt : Runtimes, child : {None} \union Clients, thread : [Threads -> Operations],
     starting : Starts \union {None}, queued : SUBSET {"valid", "revoked"}, watched : BOOLEAN,
     again : BOOLEAN, up : BOOLEAN, overlap : BOOLEAN]

Live == {"running", "in_place", "degraded"}

(* One operation at most owns the runtime. *)
Alone(w) == \A t, u \in Threads : w.thread[t].fresh /\ w.thread[u].fresh => t = u

(* What the runtime reports is so. *)
Told(w) ==
    /\ w.rt.state \in Live => w.child # None /\ (w.child.fresh \/ w.rt.stopping)
    /\ w.rt.state = "stopped" => w.child = None
    /\ w.rt.report # "ok" => w.rt.state # "stopped" /\ ~ w.rt.stopping
    /\ w.child # None /\ w.child.watched /\ w.child.fresh /\ ~ w.child.fatal
       /\ ~ w.rt.stopping /\ w.rt.report = "ok" => w.rt.state \in Live

(* The operation that owns the runtime has the only client, and finds it   *)
(* as it left it.                                                          *)
Begun(w) ==
    \A t \in Threads :
        w.thread[t].fresh /\ w.thread[t].pc \in {"prepare", "wait", "cleanup"} =>
            /\ w.rt.state \in {"starting", "failed"} /\ w.rt.report = "ok" /\ ~ w.rt.stopping
            /\ w.thread[t].pc = "prepare" => w.child = None /\ w.rt.state = "starting"
            /\ w.child # None => w.child.of = t /\ w.child.fresh /\ ~ w.child.watched
            /\ w.thread[t].pc = "wait" /\ w.child # None /\ ~ w.child.fatal => w.rt.state = "starting"

(* One that stops the runtime has told it so. *)
Halting(w) ==
    \A t \in Threads : w.thread[t].fresh /\ w.thread[t].pc = "stopping" => w.rt.stopping

Sound(w) == w \in Connections /\ Alone(w) /\ Told(w) /\ Begun(w) /\ Halting(w)

(* From w to x only the desk changes. *)
DeskOnly(w, x) ==
    /\ x \in Connections
    /\ x.rt = w.rt /\ x.child = w.child /\ x.thread = w.thread /\ x.starting = w.starting
    /\ x.queued = w.queued /\ x.watched = w.watched /\ x.again = w.again /\ x.up = w.up
    /\ x.overlap = w.overlap

(* From w to x operations may end, or turn to something that does not need *)
(* the runtime, and the runtime is left alone.                             *)
Yields(w, x) ==
    /\ x \in Connections
    /\ x.rt = w.rt /\ x.child = w.child
    /\ \A t \in Threads :
          /\ x.thread[t].fresh =>
                /\ w.thread[t].fresh
                /\ x.thread[t].pc \in {w.thread[t].pc} \union (Waits \ {"prepare", "wait", "cleanup", "stopping"})
          /\ x.thread[t].pc = "wait" => w.thread[t].pc = "wait"

NoSpawn(w, x) == \A t \in Threads : x.thread[t].pc = "wait" => w.thread[t].pc = "wait"

(* From w to x the runtime goes on or stops, and no client is spawned.     *)
Calm(w, x) == x.rt.state \in {w.rt.state, "stopped"} /\ NoSpawn(w, x)

(* It makes a transition of the table. *)
Turns(w, x) == x.rt.state \in Legal(w.rt.state) /\ NoSpawn(w, x)
-----------------------------------------------------------------------------
(* The desk. *)

LEMMA Fields ==
    ASSUME NEW w \in Connections
    PROVE  /\ w.desk \in Desks /\ w.rt \in Runtimes /\ w.child \in {None} \union Clients
           /\ w.thread \in [Threads -> Operations] /\ w.starting \in Starts \union {None}
           /\ w.queued \subseteq {"valid", "revoked"} /\ w.watched \in BOOLEAN
           /\ w.again \in BOOLEAN /\ w.up \in BOOLEAN /\ w.overlap \in BOOLEAN
PROOF BY DEF Connections

LEMMA DeskSet ==
    ASSUME NEW w \in Connections, NEW d \in Desks
    PROVE  DeskOnly(w, [w EXCEPT !.desk = d])
PROOF BY DEF Connections, DeskOnly

LEMMA DeskTwice ==
    ASSUME NEW w, NEW x, NEW y, DeskOnly(w, x), DeskOnly(x, y)
    PROVE  DeskOnly(w, y)
PROOF BY DEF DeskOnly

LEMMA DeskSame == ASSUME NEW w \in Connections PROVE DeskOnly(w, w)
PROOF BY DEF DeskOnly

LEMMA DeskYields ==
    ASSUME NEW w \in Connections, NEW x, DeskOnly(w, x)
    PROVE  Yields(w, x)
PROOF BY DEF DeskOnly, Yields

LEMMA YieldsTwice ==
    ASSUME NEW w, NEW x, NEW y, Yields(w, x), Yields(x, y)
    PROVE  Yields(w, y)
PROOF BY DEF Yields

LEMMA SoundYields ==
    ASSUME NEW w, NEW x, Sound(w), Yields(w, x)
    PROVE  Sound(x) /\ Calm(w, x)
PROOF
<1>1. Alone(x)
  BY DEF Sound, Yields, Alone
<1>2. Told(x)
  BY DEF Sound, Yields, Told
<1>3. Begun(x)
  BY DEF Sound, Yields, Begun
<1>4. Halting(x)
  BY DEF Sound, Yields, Halting
<1> QED BY <1>1, <1>2, <1>3, <1>4 DEF Sound, Yields, Calm, NoSpawn

LEMMA CalmTwice ==
    ASSUME NEW w, NEW x, NEW y, Calm(w, x), Calm(x, y)
    PROVE  Calm(w, y)
PROOF BY DEF Calm, NoSpawn

LEMMA CalmTurns ==
    ASSUME NEW w \in Connections, NEW x, Calm(w, x)
    PROVE  Turns(w, x)
PROOF BY DEF Calm, Turns, Legal, Connections, Runtimes, TunnelStates

LEMMA TurnsCalm ==
    ASSUME NEW w, NEW x, NEW y, Turns(w, x), Calm(x, y)
    PROVE  Turns(w, y)
PROOF BY DEF Calm, Turns, Legal, NoSpawn

LEMMA CancelledDesk == ASSUME NEW w \in Connections PROVE DeskOnly(w, Cancelled(w))
PROOF BY DEF Connections, Desks, DeskOnly, Cancelled

LEMMA DelayedDesk == ASSUME NEW w \in Connections PROVE DeskOnly(w, Delayed(w))
PROOF BY DEF Connections, Desks, DeskOnly, Delayed, TunnelStates, Codes

LEMMA LostDesk ==
    ASSUME NEW w \in Connections, NEW b \in BOOLEAN
    PROVE  DeskOnly(w, [w EXCEPT !.desk.lost = b])
PROOF BY DEF Connections, Desks, DeskOnly

LEMMA ServerDesk ==
    ASSUME NEW w \in Connections, NEW b \in BOOLEAN
    PROVE  DeskOnly(w, [w EXCEPT !.desk.server = b])
PROOF BY DEF Connections, Desks, DeskOnly

LEMMA AttemptDesk ==
    ASSUME NEW w \in Connections, NEW a \in {"none", "current", "stale"}
    PROVE  DeskOnly(w, [w EXCEPT !.desk.attempt = a])
PROOF BY DEF Connections, Desks, DeskOnly

LEMMA ScheduledDesk == ASSUME NEW w \in Connections PROVE DeskOnly(w, Scheduled(w))
PROOF
<1>1. w.desk.attempt \in {"none", "current", "stale"} /\ w.desk.timer \in BOOLEAN
  BY DEF Connections, Desks
<1>2. Scheduled(w) \in {w, [w EXCEPT !.desk.lost = TRUE], Delayed(w)}
  BY <1>1 DEF Scheduled
<1> QED BY <1>2, DeskSame, LostDesk, DelayedDesk

LEMMA ObserveDesk ==
    ASSUME NEW w \in Connections, NEW state, NEW code
    PROVE  DeskOnly(w, Observe(w, state, code))
PROOF
<1>1. Observe(w, state, code) \in {w, Cancelled(w), Scheduled(w)}
  BY DEF Observe
<1> QED BY <1>1, DeskSame, CancelledDesk, ScheduledDesk

LEMMA ShowDesk ==
    ASSUME NEW w \in Connections, NEW state \in TunnelStates, NEW code \in Codes
    PROVE  DeskOnly(w, Show(w, state, code))
PROOF BY DEF Connections, Desks, DeskOnly, Show

LEMMA SettlesDesk == ASSUME NEW w \in Connections PROVE DeskOnly(w, AttemptSettles(w))
PROOF
<1> DEFINE done == [w EXCEPT !.desk.attempt = "none"]
<1>1. DeskOnly(w, done)
  BY AttemptDesk
<1>2. done \in Connections
  BY <1>1 DEF DeskOnly
<1>3. DeskOnly(done, [done EXCEPT !.desk.timer = FALSE])
  BY <1>2 DEF Connections, Desks, DeskOnly
<1>4. DeskOnly(done, Delayed(done))
  BY <1>2, DelayedDesk
<1>5. AttemptSettles(w) \in {done, [done EXCEPT !.desk.timer = FALSE], Delayed(done)}
  BY DEF AttemptSettles
<1>6. DeskOnly(w, [done EXCEPT !.desk.timer = FALSE])
  BY <1>1, <1>3, DeskTwice
<1>7. DeskOnly(w, Delayed(done))
  BY <1>1, <1>4, DeskTwice
<1> HIDE DEF done
<1> QED BY <1>1, <1>5, <1>6, <1>7

LEMMA HandleDesk ==
    ASSUME NEW w \in Connections, NEW state \in TunnelStates, NEW code \in Codes
    PROVE  DeskOnly(w, HandleTunnelStatus(w, state, code))
PROOF
<1> DEFINE seen == Observe(w, state, code)
           shown == Show(w, state, code)
<1>1. DeskOnly(w, seen) /\ DeskOnly(w, shown)
  BY ObserveDesk, ShowDesk
<1>2. seen \in Connections /\ shown \in Connections
  BY <1>1 DEF DeskOnly
<1>3. /\ DeskOnly(shown, Observe(shown, state, code))
      /\ DeskOnly(seen, [seen EXCEPT !.desk.lost = TRUE])
      /\ DeskOnly(seen, Show(seen, state, code))
  BY <1>2, ObserveDesk, ShowDesk, LostDesk
<1>4. HandleTunnelStatus(w, state, code) \in
          {Observe(shown, state, code), [seen EXCEPT !.desk.lost = TRUE], seen, Show(seen, state, code)}
  BY DEF HandleTunnelStatus
<1>5. DeskOnly(w, Observe(shown, state, code))
  BY <1>1, <1>3, DeskTwice
<1>6. DeskOnly(w, [seen EXCEPT !.desk.lost = TRUE])
  BY <1>1, <1>3, DeskTwice
<1>7. DeskOnly(w, Show(seen, state, code))
  BY <1>1, <1>3, DeskTwice
<1> HIDE DEF seen, shown
<1> QED BY <1>1, <1>4, <1>5, <1>6, <1>7
-----------------------------------------------------------------------------
(* The runtime. *)

(* Update changes the runtime's state and code, and the desk. *)
Updated(w, x, state, code) ==
    /\ x \in Connections
    /\ x.rt = [w.rt EXCEPT !.state = state, !.code = code]
    /\ x.child = w.child /\ x.thread = w.thread /\ x.starting = w.starting
    /\ x.queued = w.queued /\ x.watched = w.watched /\ x.again = w.again /\ x.up = w.up
    /\ x.overlap = w.overlap

LEMMA UpdateForm ==
    ASSUME NEW w \in Connections, NEW state \in TunnelStates, NEW code \in Codes
    PROVE  Updated(w, Update(w, state, code), state, code)
PROOF
<1> DEFINE y == [w EXCEPT !.rt.state = state, !.rt.code = code, !.desk.lost = FALSE]
<1>1. Updated(w, y, state, code)
  BY DEF Connections, Desks, Runtimes, Updated
<1>2. DeskOnly(y, Update(w, state, code))
  <2>1. y \in Connections
    BY <1>1 DEF Updated
  <2> HIDE DEF y
  <2>2. DeskOnly(y, HandleTunnelStatus(y, state, code))
    BY <2>1, HandleDesk
  <2> QED BY <2>2 DEF Update, y
<1> HIDE DEF y
<1> QED BY <1>1, <1>2 DEF Updated, DeskOnly

LEMMA GenerationForm ==
    ASSUME NEW w \in Connections, NEW t \in Threads
    PROVE  LET x == NewGeneration(w, t)
           IN /\ x \in Connections
              /\ x.thread = [u \in Threads |-> [w.thread[u] EXCEPT !.fresh = (u = t)]]
              /\ x.child = IF w.child = None THEN None ELSE [w.child EXCEPT !.fresh = FALSE]
              /\ x.rt = [w.rt EXCEPT !.report = "ok"]
              /\ x.desk = w.desk /\ x.starting = w.starting
              /\ x.queued = w.queued /\ x.watched = w.watched /\ x.again = w.again /\ x.up = w.up
              /\ x.overlap = w.overlap
PROOF
<1>1. [u \in Threads |-> [w.thread[u] EXCEPT !.fresh = (u = t)]] \in [Threads -> Operations]
  BY DEF Connections, Operations
<1>2. w.child # None => [w.child EXCEPT !.fresh = FALSE] \in Clients
  BY DEF Connections, Clients
<1>3. [w.rt EXCEPT !.report = "ok"] \in Runtimes
  BY DEF Connections, Runtimes, Codes
<1> QED BY <1>1, <1>2, <1>3 DEF Connections, NewGeneration

LEMMA ChildGoneSound ==
    ASSUME NEW w, Sound(w)
    PROVE  LET x == ChildGone(w)
           IN /\ Sound(x) /\ Turns(w, x) /\ x.child = None /\ x.thread = w.thread
              /\ x.rt.stopping = w.rt.stopping /\ x.rt.report = w.rt.report
PROOF
<1> DEFINE gone == [w EXCEPT !.child = None]
<1>1. gone \in Connections /\ gone.rt = w.rt /\ gone.thread = w.thread /\ gone.child = None
  BY DEF Sound, Connections
<1>2. w \in Connections /\ w.rt \in Runtimes /\ (w.child # None => w.child \in Clients)
  BY DEF Sound, Connections
<1>3. CASE w.child = None
  <2>1. ChildGone(w) = w
    BY <1>3 DEF ChildGone
  <2> QED BY <2>1, <1>2, <1>3 DEF Turns, NoSpawn, Legal, Runtimes, TunnelStates
<1>4. CASE w.child # None /\ w.rt.stopping
  <2> DEFINE x == Update(gone, "stopped", "ok")
  <2>1. ChildGone(w) = x
    BY <1>4 DEF ChildGone
  <2>2. Updated(gone, x, "stopped", "ok")
    BY <1>1, UpdateForm DEF TunnelStates, Codes
  <2>3. /\ x \in Connections /\ x.thread = w.thread /\ x.child = None
        /\ x.rt = [w.rt EXCEPT !.state = "stopped", !.code = "ok"]
    BY <2>2, <1>1 DEF Updated
  <2> HIDE DEF x, gone
  <2>4. x.rt.state = "stopped" /\ x.rt.stopping /\ x.rt.report = w.rt.report
    BY <2>3, <1>2, <1>4 DEF Runtimes
  <2>5. Alone(x) /\ Told(x) /\ Begun(x) /\ Halting(x)
    BY <2>3, <2>4, <1>4 DEF Sound, Alone, Told, Begun, Halting, Live
  <2> QED BY <2>1, <2>3, <2>4, <2>5, <1>4 DEF Sound, Turns, NoSpawn, Legal
<1>5. CASE w.child # None /\ ~ w.rt.stopping /\ w.child.fresh /\ w.rt.state # "failed"
  <2> DEFINE x == Update(gone, "failed", "transient")
  <2>1. ChildGone(w) = x
    BY <1>5 DEF ChildGone
  <2>2. Updated(gone, x, "failed", "transient")
    BY <1>1, UpdateForm DEF TunnelStates, Codes
  <2>3. /\ x \in Connections /\ x.thread = w.thread /\ x.child = None
        /\ x.rt = [w.rt EXCEPT !.state = "failed", !.code = "transient"]
    BY <2>2, <1>1 DEF Updated
  <2> HIDE DEF x, gone
  <2>4. x.rt.state = "failed" /\ x.rt.stopping = w.rt.stopping /\ x.rt.report = w.rt.report
    BY <2>3, <1>2 DEF Runtimes
  <2>5. Alone(x) /\ Told(x) /\ Begun(x) /\ Halting(x)
    BY <2>3, <2>4, <1>5 DEF Sound, Alone, Told, Begun, Halting, Live
  <2>6. w.rt.state # "stopped"
    BY <1>5 DEF Sound, Told
  <2> QED BY <2>1, <2>3, <2>4, <2>5, <2>6, <1>2 DEF Sound, Turns, NoSpawn, Legal, Runtimes, TunnelStates
<1>6. CASE w.child # None /\ ~ w.rt.stopping /\ ~ (w.child.fresh /\ w.rt.state # "failed")
  <2>1. ChildGone(w) = gone
    BY <1>6 DEF ChildGone
  <2> HIDE DEF gone
  <2>2. Alone(gone) /\ Begun(gone) /\ Halting(gone)
    BY <1>1 DEF Sound, Alone, Begun, Halting
  <2>3. Told(gone)
    BY <1>1, <1>6 DEF Sound, Told, Live
  <2> QED BY <2>1, <2>2, <2>3, <1>1, <1>2 DEF Sound, Turns, NoSpawn, Legal, Runtimes, TunnelStates
<1> QED BY <1>3, <1>4, <1>5, <1>6

LEMMA StopsForm ==
    ASSUME NEW w \in Connections, NEW t \in Threads
    PROVE  LET x == RuntimeStops(w, t)
           IN /\ x \in Connections
              /\ \A u \in Threads :
                    /\ x.thread[u].fresh = (u = t)
                    /\ x.thread[u].pc = IF u = t THEN "stopping" ELSE w.thread[u].pc
                    /\ x.thread[u].valid = w.thread[u].valid /\ x.thread[u].waits = w.thread[u].waits
              /\ x.child = IF w.child = None THEN None ELSE [w.child EXCEPT !.fresh = FALSE]
              /\ x.rt.stopping /\ x.rt.report = "ok"
              /\ x.rt.state = IF w.child = None THEN "stopped" ELSE w.rt.state
              /\ x.starting = w.starting /\ x.queued = w.queued /\ x.watched = w.watched
              /\ x.again = w.again /\ x.up = w.up /\ x.overlap = w.overlap
PROOF
<1> DEFINE g == NewGeneration(w, t)
           y == [g EXCEPT !.rt.stopping = TRUE, !.thread[t].pc = "stopping"]
           x == Update(y, "stopped", "ok")
<1>1. /\ g \in Connections
      /\ g.thread = [u \in Threads |-> [w.thread[u] EXCEPT !.fresh = (u = t)]]
      /\ g.rt = [w.rt EXCEPT !.report = "ok"]
  BY GenerationForm
<1>2. /\ g.child = IF w.child = None THEN None ELSE [w.child EXCEPT !.fresh = FALSE]
      /\ g.starting = w.starting
      /\ g.queued = w.queued /\ g.watched = w.watched /\ g.again = w.again /\ g.up = w.up
      /\ g.overlap = w.overlap
  BY GenerationForm
<1>3. w.thread \in [Threads -> Operations] /\ w.rt \in Runtimes
  BY DEF Connections
<1>0. RuntimeStops(w, t) = IF w.child = None THEN x ELSE y
  BY DEF RuntimeStops
<1> HIDE DEF g
<1>4. \A u \in Threads :
         /\ g.thread[u] \in Operations /\ g.thread[u].fresh = (u = t)
         /\ g.thread[u].pc = w.thread[u].pc
         /\ g.thread[u].valid = w.thread[u].valid /\ g.thread[u].waits = w.thread[u].waits
  <2> TAKE u \in Threads
  <2>1. w.thread[u] \in Operations /\ g.thread[u] = [w.thread[u] EXCEPT !.fresh = (u = t)]
    BY <1>1, <1>3
  <2> QED BY <2>1 DEF Operations
<1>5. g.rt \in Runtimes /\ g.rt.state = w.rt.state /\ g.rt.report = "ok"
  BY <1>1, <1>3 DEF Runtimes, Codes
<1>6. /\ y.thread = [g.thread EXCEPT ![t].pc = "stopping"]
      /\ y.rt = [g.rt EXCEPT !.stopping = TRUE]
      /\ y.child = g.child /\ y.starting = g.starting
      /\ y.queued = g.queued /\ y.watched = g.watched /\ y.again = g.again /\ y.up = g.up
      /\ y.overlap = g.overlap
  BY <1>1 DEF Connections
<1> HIDE DEF y
<1>7. y.rt \in Runtimes /\ y.rt.stopping /\ y.rt.report = "ok" /\ y.rt.state = w.rt.state
  BY <1>5, <1>6 DEF Runtimes
<1>8. \A u \in Threads :
         /\ y.thread[u] \in Operations /\ y.thread[u].fresh = (u = t)
         /\ y.thread[u].pc = IF u = t THEN "stopping" ELSE w.thread[u].pc
         /\ y.thread[u].valid = w.thread[u].valid /\ y.thread[u].waits = w.thread[u].waits
  <2>1. g.thread \in [Threads -> Operations]
    BY <1>1 DEF Connections
  <2>2. \A u \in Threads : y.thread[u] = IF u = t THEN [g.thread[t] EXCEPT !.pc = "stopping"] ELSE g.thread[u]
    BY <2>1, <1>6
  <2> QED BY <2>2, <1>4 DEF Operations, Waits
<1>9. y \in Connections
  <2>1. y.thread \in [Threads -> Operations]
    BY <1>1, <1>6, <1>8 DEF Connections
  <2> QED BY <2>1, <1>1, <1>7 DEF Connections, y
<1>11. Updated(y, x, "stopped", "ok")
  BY <1>9, UpdateForm DEF TunnelStates, Codes
<1> HIDE DEF x
<1> DEFINE z == IF w.child = None THEN x ELSE y
<1>12. /\ z \in Connections
       /\ z.rt.stopping /\ z.rt.report = "ok"
       /\ z.rt.state = IF w.child = None THEN "stopped" ELSE w.rt.state
  BY <1>7, <1>9, <1>11 DEF Updated, Runtimes
<1>13. z.thread = y.thread /\ z.child = y.child
  BY <1>11 DEF Updated
<1>14. /\ z.starting = w.starting /\ z.queued = w.queued /\ z.watched = w.watched
       /\ z.again = w.again /\ z.up = w.up /\ z.overlap = w.overlap
  BY <1>2, <1>6, <1>11 DEF Updated
<1>15. z.child = IF w.child = None THEN None ELSE [w.child EXCEPT !.fresh = FALSE]
  BY <1>2, <1>6, <1>13
<1> HIDE DEF z
<1>16. RuntimeStops(w, t) = z
  BY <1>0 DEF z
<1> QED BY <1>8, <1>12, <1>13, <1>14, <1>15, <1>16

LEMMA StopsSound ==
    ASSUME NEW w, Sound(w), NEW t \in Threads
    PROVE  Sound(RuntimeStops(w, t)) /\ Calm(w, RuntimeStops(w, t))
PROOF
<1> DEFINE x == RuntimeStops(w, t)
<1>1. w \in Connections /\ w.thread \in [Threads -> Operations] /\ w.child \in {None} \union Clients
  BY DEF Sound, Connections
<1>2. /\ x \in Connections
      /\ \A u \in Threads :
            /\ x.thread[u].fresh = (u = t)
            /\ x.thread[u].pc = IF u = t THEN "stopping" ELSE w.thread[u].pc
            /\ x.thread[u].valid = w.thread[u].valid /\ x.thread[u].waits = w.thread[u].waits
      /\ x.child = IF w.child = None THEN None ELSE [w.child EXCEPT !.fresh = FALSE]
      /\ x.rt.stopping /\ x.rt.report = "ok"
      /\ x.rt.state = IF w.child = None THEN "stopped" ELSE w.rt.state
  BY <1>1, StopsForm
<1> HIDE DEF x
<1>3. \A u \in Threads : /\ x.thread[u].fresh <=> u = t
                         /\ x.thread[u].pc = IF u = t THEN "stopping" ELSE w.thread[u].pc
  BY <1>2
<1>4. Alone(x) /\ Begun(x) /\ Halting(x)
  BY <1>2, <1>3 DEF Alone, Begun, Halting
<1>5. Told(x)
  <2>1. w.child # None => w.child \in Clients /\ x.child # None
    <3>1. w.child # None => [w.child EXCEPT !.fresh = FALSE] \in Clients
      BY <1>1 DEF Clients
    <3> QED BY <3>1, <1>1, <1>2, Assumptions
  <2> QED BY <2>1, <1>2 DEF Told, Sound, Live, Clients
<1>6. Calm(w, x)
  BY <1>2, <1>3 DEF Calm, NoSpawn
<1> QED BY <1>2, <1>4, <1>5, <1>6 DEF Sound, x

(* What the end of a stop makes of the runtime, as its owner or not. *)
LEMMA StoppedSound ==
    ASSUME NEW w, Sound(w), NEW t \in Threads, w.thread[t].pc = "stopping",
           NEW confirmed \in BOOLEAN, ~ confirmed => w.child # None
    PROVE  LET x == RuntimeStopped(w, t, confirmed)
           IN Sound(x) /\ Turns(w, x) /\ x.thread = w.thread
PROOF
<1> DEFINE g == ChildGone(w)
<1>1. w \in Connections /\ w.rt \in Runtimes
  BY DEF Sound, Connections
<1>2. CASE ~ w.thread[t].fresh
  <2>1. RuntimeStopped(w, t, confirmed) = w
    BY <1>2 DEF RuntimeStopped
  <2> QED BY <2>1, <1>1 DEF Turns, NoSpawn, Legal, Runtimes, TunnelStates
<1>3. CASE w.thread[t].fresh /\ confirmed
  <2> DEFINE x == Update(g, "stopped", "ok")
  <2>1. RuntimeStopped(w, t, confirmed) = x
    BY <1>3 DEF RuntimeStopped
  <2>2. /\ Sound(g) /\ g.child = None /\ g.thread = w.thread
        /\ g.rt.stopping = w.rt.stopping
    BY ChildGoneSound
  <2> HIDE DEF g
  <2>3. g \in Connections /\ g.rt \in Runtimes
    BY <2>2 DEF Sound, Connections
  <2>4. Updated(g, x, "stopped", "ok")
    BY <2>3, UpdateForm DEF TunnelStates, Codes
  <2>5. g.rt.stopping /\ g.rt.report = "ok"
    BY <1>3, <2>2, <2>3 DEF Sound, Halting, Told
  <2>6. /\ x \in Connections /\ x.thread = w.thread /\ x.child = None
        /\ x.rt.state = "stopped" /\ x.rt.stopping /\ x.rt.report = "ok"
    BY <2>2, <2>3, <2>4, <2>5 DEF Updated, Runtimes
  <2> HIDE DEF x
  <2>7. Alone(x) /\ Told(x) /\ Halting(x)
    BY <2>6, <2>2 DEF Sound, Alone, Told, Halting, Live
  <2>8. Begun(x)
    BY <2>6, <1>3 DEF Sound, Alone, Begun
  <2> QED BY <2>1, <2>6, <2>7, <2>8, <1>1 DEF Sound, Turns, NoSpawn, Legal, Runtimes, TunnelStates
<1>4. CASE w.thread[t].fresh /\ ~ confirmed
  <2> DEFINE x == Update(w, "failed", "terminal")
  <2>1. RuntimeStopped(w, t, confirmed) = x
    BY <1>4 DEF RuntimeStopped
  <2>2. Updated(w, x, "failed", "terminal")
    BY <1>1, UpdateForm DEF TunnelStates, Codes
  <2>3. /\ x \in Connections /\ x.thread = w.thread /\ x.child = w.child /\ w.child # None
        /\ x.rt.state = "failed" /\ x.rt.stopping = w.rt.stopping /\ x.rt.report = w.rt.report
    BY <1>1, <1>4, <2>2 DEF Updated, Runtimes
  <2>4. w.rt.stopping /\ w.rt.state # "stopped"
    BY <1>4, <2>3 DEF Sound, Halting, Told
  <2> HIDE DEF x
  <2>5. Alone(x) /\ Told(x) /\ Halting(x)
    BY <2>3, <2>4 DEF Sound, Alone, Told, Halting, Live
  <2>6. Begun(x)
    BY <2>3, <1>4 DEF Sound, Alone, Begun
  <2> QED BY <2>1, <2>3, <2>4, <2>5, <2>6, <1>1 DEF Sound, Turns, NoSpawn, Legal, Runtimes, TunnelStates
<1> QED BY <1>2, <1>3, <1>4
-----------------------------------------------------------------------------
(* The service runtime. *)

(* Thread t turns to another operation, that does not own the runtime; the *)
(* fields that the runtime does not know may change with it.               *)
LEMMA TurnedYields ==
    ASSUME NEW w \in Connections, NEW x \in Connections, NEW t \in Threads,
           NEW op \in Operations, op.pc # "wait", ~ op.fresh,
           x.thread = [w.thread EXCEPT ![t] = op], x.rt = w.rt, x.child = w.child
    PROVE  Yields(w, x)
PROOF BY DEF Connections, Yields

LEMMA IdleOperation ==
    ASSUME NEW pc \in Waits, NEW waits \in Starts \union {None}
    PROVE  /\ Idle \in Operations /\ ~ Idle.fresh /\ ~ Idle.valid /\ Idle.pc = "idle"
           /\ [Idle EXCEPT !.pc = pc] \in Operations /\ ~ [Idle EXCEPT !.pc = pc].fresh
           /\ [Idle EXCEPT !.pc = pc].pc = pc /\ ~ [Idle EXCEPT !.pc = pc].valid
           /\ [Idle EXCEPT !.pc = pc, !.waits = waits] \in Operations
           /\ ~ [Idle EXCEPT !.pc = pc, !.waits = waits].fresh
           /\ [Idle EXCEPT !.pc = pc, !.waits = waits].pc = pc
           /\ ~ [Idle EXCEPT !.pc = pc, !.waits = waits].valid
PROOF BY DEF Idle, Operations, Waits, Codes

LEMMA IdleIsIdle == Idle \in Operations /\ ~ Idle.fresh /\ ~ Idle.valid /\ Idle.pc = "idle"
PROOF BY IdleOperation DEF Waits

LEMMA TokenYields ==
    ASSUME NEW w \in Connections, NEW t
    PROVE  /\ Yields(w, NewToken(w, t))
           /\ NewToken(w, t).thread = [u \in Threads |-> [w.thread[u] EXCEPT !.valid = (u = t)]]
           /\ NewToken(w, t) = [w EXCEPT !.thread = NewToken(w, t).thread]
PROOF
<1>1. [u \in Threads |-> [w.thread[u] EXCEPT !.valid = (u = t)]] \in [Threads -> Operations]
  BY DEF Connections, Operations
<1>2. \A u \in Threads : /\ [w.thread[u] EXCEPT !.valid = (u = t)].fresh = w.thread[u].fresh
                         /\ [w.thread[u] EXCEPT !.valid = (u = t)].pc = w.thread[u].pc
                         /\ w.thread[u].pc \in Waits
  BY DEF Connections, Operations
<1> QED BY <1>1, <1>2 DEF Connections, NewToken, Yields

LEMMA BootYields == ASSUME NEW w \in Connections PROVE Yields(w, Boot(w))
PROOF
<1>1. CASE w.starting # None \/ \A s \in Starts : Busy(w, s)
  BY <1>1 DEF Boot, Yields, Connections
<1>2. CASE ~ (w.starting # None \/ \A s \in Starts : Busy(w, s))
  <2> DEFINE s == CHOOSE s \in Starts : ~ Busy(w, s)
             y == [w EXCEPT !.thread[s] = [Idle EXCEPT !.pc = "boot"], !.starting = s]
             z == NewToken(y, s)
             v == Show(z, "starting", "ok")
  <2>1. s \in Starts /\ s \in Threads
    BY <1>2 DEF Threads
  <2>2. Boot(w) = [v EXCEPT !.desk.server = FALSE]
    BY <1>2 DEF Boot
  <2> HIDE DEF s
  <2>3. y \in Connections /\ Yields(w, y)
    <3>1. [Idle EXCEPT !.pc = "boot"] \in Operations /\ ~ [Idle EXCEPT !.pc = "boot"].fresh
          /\ [Idle EXCEPT !.pc = "boot"].pc = "boot"
      BY IdleOperation DEF Waits
    <3>2. y \in Connections /\ y.thread = [w.thread EXCEPT ![s] = [Idle EXCEPT !.pc = "boot"]]
          /\ y.rt = w.rt /\ y.child = w.child
      BY <3>1, <2>1 DEF Connections
    <3> QED BY <3>1, <3>2, <2>1, TurnedYields
  <2> HIDE DEF y
  <2>4. Yields(y, z)
    BY <2>3, TokenYields
  <2>5. z \in Connections
    BY <2>4 DEF Yields
  <2> HIDE DEF z
  <2>6. DeskOnly(z, v)
    BY <2>5, ShowDesk DEF TunnelStates, Codes
  <2>7. v \in Connections
    BY <2>6 DEF DeskOnly
  <2> HIDE DEF v
  <2>8. DeskOnly(v, [v EXCEPT !.desk.server = FALSE])
    BY <2>7, ServerDesk
  <2>9. Yields(y, [v EXCEPT !.desk.server = FALSE])
    BY <2>4, <2>5, <2>6, <2>7, <2>8, DeskTwice, DeskYields, YieldsTwice
  <2> QED BY <2>2, <2>3, <2>9, YieldsTwice
<1> QED BY <1>1, <1>2

(* What is kept from w to x by all that the service runtime does. *)
Keeps(w, x) == Sound(x) /\ Calm(w, x)

LEMMA KeepsTwice ==
    ASSUME NEW w, NEW x, NEW y, Keeps(w, x), Keeps(x, y)
    PROVE  Keeps(w, y)
PROOF BY CalmTwice DEF Keeps

LEMMA KeepsSame == ASSUME NEW w, Sound(w) PROVE Keeps(w, w)
PROOF BY DEF Keeps, Calm, NoSpawn

LEMMA YieldsKeeps ==
    ASSUME NEW w, Sound(w), NEW x, Yields(w, x)
    PROVE  Keeps(w, x)
PROOF BY SoundYields DEF Keeps

LEMMA DeskKeeps ==
    ASSUME NEW w, Sound(w), NEW x, DeskOnly(w, x)
    PROVE  Keeps(w, x)
PROOF BY DeskYields, YieldsKeeps DEF Sound

(* Fields that the runtime does not know. *)
LEMMA AsideKeeps ==
    ASSUME NEW w, Sound(w), NEW x \in Connections,
           x.rt = w.rt, x.child = w.child, x.thread = w.thread
    PROVE  Keeps(w, x)
PROOF
<1>1. Yields(w, x)
  BY DEF Sound, Yields
<1> QED BY <1>1, YieldsKeeps

(* Thread t turns to something that does not need the runtime. *)
LEMMA TurnedKeeps ==
    ASSUME NEW w, Sound(w), NEW t \in Threads, NEW op \in Operations, op.pc # "wait", ~ op.fresh
    PROVE  Keeps(w, [w EXCEPT !.thread[t] = op])
PROOF
<1> DEFINE x == [w EXCEPT !.thread[t] = op]
<1>1. w \in Connections
  BY DEF Sound
<1>2. x \in Connections /\ x.rt = w.rt /\ x.child = w.child /\ x.thread = [w.thread EXCEPT ![t] = op]
  BY <1>1 DEF Connections
<1> HIDE DEF x
<1>3. Yields(w, x)
  BY <1>1, <1>2, TurnedYields
<1> QED BY <1>3, YieldsKeeps DEF x

LEMMA BootKeeps == ASSUME NEW w, Sound(w) PROVE Keeps(w, Boot(w))
PROOF BY BootYields, YieldsKeeps DEF Sound

LEMMA StopsKeeps == ASSUME NEW w, Sound(w), NEW t \in Threads PROVE Keeps(w, RuntimeStops(w, t))
PROOF BY StopsSound DEF Keeps

LEMMA RestartBodyKeeps == ASSUME NEW w, Sound(w) PROVE Keeps(w, RestartBody(w))
PROOF
<1> DEFINE y == [w EXCEPT !.thread["restart"] = Idle]
           z == NewToken(y, "restart")
<1>1. Keeps(w, y)
  BY IdleOperation, TurnedKeeps DEF Threads, Waits
<1>2. RestartBody(w) = RuntimeStops(z, "restart")
  BY DEF RestartBody
<1> HIDE DEF y
<1>3. Keeps(y, z)
  <2>1. y \in Connections /\ Sound(y)
    BY <1>1 DEF Keeps, Sound
  <2> QED BY <2>1, TokenYields, YieldsKeeps
<1> HIDE DEF z
<1>4. Keeps(z, RuntimeStops(z, "restart"))
  BY <1>3, StopsKeeps DEF Keeps, Threads
<1> QED BY <1>1, <1>2, <1>3, <1>4, KeepsTwice

LEMMA RestartAwakeKeeps == ASSUME NEW w, Sound(w) PROVE Keeps(w, RestartAwake(w))
PROOF
<1>1. ASSUME NEW x, Sound(x), NEW pc \in {"delegated", "awaitStart"}
      PROVE  Keeps(x, [x EXCEPT !.thread["restart"] = [Idle EXCEPT !.pc = pc, !.waits = x.starting]])
  <2>1. x.starting \in Starts \union {None}
    BY <1>1 DEF Sound, Connections
  <2> QED BY <1>1, <2>1, IdleOperation, TurnedKeeps DEF Threads, Waits
<1>2. CASE ~ w.up
  <2> DEFINE b == Boot(w)
  <2>1. Keeps(w, b)
    BY BootKeeps
  <2>2. RestartAwake(w) = [b EXCEPT !.thread["restart"] = [Idle EXCEPT !.pc = "delegated", !.waits = b.starting]]
    BY <1>2 DEF RestartAwake
  <2> HIDE DEF b
  <2>3. Keeps(b, [b EXCEPT !.thread["restart"] = [Idle EXCEPT !.pc = "delegated", !.waits = b.starting]])
    BY <1>1, <2>1 DEF Keeps
  <2> QED BY <2>1, <2>2, <2>3, KeepsTwice
<1>3. CASE w.up /\ w.starting # None
  <2>1. RestartAwake(w) = [w EXCEPT !.thread["restart"] = [Idle EXCEPT !.pc = "awaitStart", !.waits = w.starting]]
    BY <1>3 DEF RestartAwake
  <2> QED BY <1>1, <2>1
<1>4. CASE w.up /\ w.starting = None
  BY <1>4, RestartBodyKeeps DEF RestartAwake
<1> QED BY <1>2, <1>3, <1>4

LEMMA RestartKeeps == ASSUME NEW w, Sound(w) PROVE Keeps(w, Restart(w))
PROOF
<1>1. Keeps(w, [w EXCEPT !.thread["restart"] = [Idle EXCEPT !.pc = "awaitStop"]])
  BY IdleOperation, TurnedKeeps DEF Threads, Waits
<1>2. Restart(w) \in {w, [w EXCEPT !.thread["restart"] = [Idle EXCEPT !.pc = "awaitStop"]], RestartAwake(w)}
  BY DEF Restart
<1> QED BY <1>1, <1>2, KeepsSame, RestartAwakeKeeps

LEMMA RestartEndsKeeps == ASSUME NEW w, Sound(w) PROVE Keeps(w, RestartEnds(w))
PROOF
<1> DEFINE idle == [w EXCEPT !.thread["restart"] = Idle]
           settled == AttemptSettles(idle)
           seen == Observe(settled, settled.desk.tunnel, settled.desk.code)
           watcher == IF w.watched \/ "revoked" \in w.queued THEN seen ELSE settled
           free == [watcher EXCEPT !.watched = "valid" \in w.queued, !.queued = {}]
<1>1. Keeps(w, idle)
  BY IdleOperation, TurnedKeeps DEF Threads, Waits
<1>2. RestartEnds(w) = IF "valid" \in w.queued THEN Restart(free) ELSE free
  BY DEF RestartEnds
<1> HIDE DEF idle
<1>3. Keeps(idle, settled)
  BY <1>1, SettlesDesk, DeskKeeps DEF Keeps, Sound
<1> HIDE DEF settled
<1>4. Keeps(settled, seen)
  BY <1>3, ObserveDesk, DeskKeeps DEF Keeps, Sound
<1> HIDE DEF seen
<1>5. Keeps(w, watcher)
  <2>1. Keeps(w, settled)
    BY <1>1, <1>3, KeepsTwice
  <2>2. Keeps(w, seen)
    BY <2>1, <1>4, KeepsTwice
  <2> QED BY <2>1, <2>2
<1> HIDE DEF watcher
<1>6. Keeps(watcher, free)
  <2>1. watcher \in Connections
    BY <1>5 DEF Keeps, Sound
  <2>2. free \in Connections /\ free.rt = watcher.rt /\ free.child = watcher.child /\ free.thread = watcher.thread
    <3>1. ASSUME NEW b \in BOOLEAN
          PROVE  LET x == [watcher EXCEPT !.watched = b, !.queued = {}]
                 IN x \in Connections /\ x.rt = watcher.rt /\ x.child = watcher.child /\ x.thread = watcher.thread
      BY <2>1 DEF Connections
    <3>2. ("valid" \in w.queued) \in BOOLEAN
      OBVIOUS
    <3> QED BY <3>1, <3>2
  <2> HIDE DEF free
  <2> QED BY <1>5, <2>2, AsideKeeps DEF Keeps
<1> HIDE DEF free
<1>7. Keeps(w, free)
  BY <1>5, <1>6, KeepsTwice
<1>8. Keeps(w, Restart(free))
  <2>1. Keeps(free, Restart(free))
    BY <1>7, RestartKeeps DEF Keeps
  <2> QED BY <1>7, <2>1, KeepsTwice
<1> QED BY <1>2, <1>7, <1>8

LEMMA StopServicesKeeps == ASSUME NEW w, Sound(w) PROVE Keeps(w, StopServices(w))
PROOF
<1> DEFINE x == [w EXCEPT !.up = FALSE]
<1>1. x \in Connections /\ x.rt = w.rt /\ x.child = w.child /\ x.thread = w.thread
  BY DEF Sound, Connections
<1>2. StopServices(w) = RuntimeStops(x, "stop")
  BY DEF StopServices
<1> HIDE DEF x
<1>3. Keeps(w, x)
  BY <1>1, AsideKeeps
<1>4. Keeps(x, RuntimeStops(x, "stop"))
  BY <1>3, StopsKeeps DEF Keeps, Threads
<1> QED BY <1>2, <1>3, <1>4, KeepsTwice

LEMMA StartEndsKeeps == ASSUME NEW w, Sound(w), NEW s \in Starts PROVE Keeps(w, StartEnds(w, s))
PROOF
<1> DEFINE free == [w EXCEPT !.thread[s] = Idle, !.starting = IF w.starting = s THEN None ELSE w.starting]
           next == IF free.thread["restart"].waits # s THEN free
                   ELSE IF free.thread["restart"].pc = "delegated" THEN RestartEnds(free)
                   ELSE RestartBody(free)
<1>1. Keeps(w, free)
  <2>1. w \in Connections /\ s \in Threads
    BY DEF Sound, Threads
  <2>2. free \in Connections /\ free.rt = w.rt /\ free.child = w.child
        /\ free.thread = [w.thread EXCEPT ![s] = Idle]
    BY <2>1, IdleOperation DEF Connections, Waits
  <2> HIDE DEF free
  <2>3. Yields(w, free)
    BY <2>1, <2>2, IdleIsIdle, TurnedYields
  <2> QED BY <2>3, YieldsKeeps
<1>2. StartEnds(w, s) = IF next.thread["stop"].pc = "startup" /\ next.thread["stop"].waits = s
                        THEN StopServices(next) ELSE next
  BY DEF StartEnds
<1> HIDE DEF free
<1>3. Keeps(w, RestartEnds(free)) /\ Keeps(w, RestartBody(free))
  <2>1. Keeps(free, RestartEnds(free)) /\ Keeps(free, RestartBody(free))
    BY <1>1, RestartEndsKeeps, RestartBodyKeeps DEF Keeps
  <2> QED BY <1>1, <2>1, KeepsTwice
<1>4. next \in {free, RestartEnds(free), RestartBody(free)}
  OBVIOUS
<1> HIDE DEF next
<1>5. Keeps(w, next)
  BY <1>1, <1>3, <1>4
<1>6. Keeps(next, StopServices(next))
  BY <1>5, StopServicesKeeps DEF Keeps
<1>7. Keeps(w, StopServices(next))
  BY <1>5, <1>6, KeepsTwice
<1> QED BY <1>2, <1>5, <1>7

LEMMA EndsKeeps ==
    ASSUME NEW w, Sound(w), NEW t \in Starts \union {"restart"}
    PROVE  Keeps(w, Ends(w, t))
PROOF BY RestartEndsKeeps, StartEndsKeeps DEF Ends

LEMMA TunnelErrorKeeps ==
    ASSUME NEW w, Sound(w), NEW t \in Starts \union {"restart"}, NEW code \in Codes
    PROVE  Keeps(w, TunnelError(w, t, code))
PROOF
<1> DEFINE state == IF code = "terminal" THEN "failed" ELSE "degraded"
           y == Show(w, state, code)
           z == [y EXCEPT !.desk.server = TRUE]
<1>1. TunnelError(w, t, code) \in {Ends(w, t), Ends(z, t)}
  BY DEF TunnelError
<1>2. w \in Connections /\ state \in TunnelStates
  BY DEF Sound, TunnelStates
<1> HIDE DEF state
<1>3. DeskOnly(w, y)
  BY <1>2, ShowDesk
<1> HIDE DEF y
<1>4. DeskOnly(y, z)
  BY <1>3, ServerDesk DEF DeskOnly
<1> HIDE DEF z
<1>5. Keeps(w, z)
  BY <1>3, <1>4, DeskTwice, DeskKeeps
<1>6. Keeps(z, Ends(z, t))
  BY <1>5, EndsKeeps DEF Keeps
<1>7. Keeps(w, Ends(z, t))
  BY <1>5, <1>6, KeepsTwice
<1> QED BY <1>1, <1>7, EndsKeeps

LEMMA StartServerKeeps == ASSUME NEW w, Sound(w) PROVE Keeps(w, StartServer(w))
PROOF
<1> DEFINE x == [w EXCEPT !.again = TRUE]
<1>1. x \in Connections /\ x.rt = w.rt /\ x.child = w.child /\ x.thread = w.thread
  BY DEF Sound, Connections
<1>2. StartServer(w) \in {x, Boot(w), w, Restart(w)}
  BY DEF StartServer
<1> HIDE DEF x
<1>3. Keeps(w, x)
  BY <1>1, AsideKeeps
<1> QED BY <1>2, <1>3, BootKeeps, KeepsSame, RestartKeeps

LEMMA BeginStopKeeps == ASSUME NEW w, Sound(w) PROVE Keeps(w, BeginStop(w))
PROOF
<1> DEFINE op == [Idle EXCEPT !.pc = "startup", !.waits = w.starting]
           n == NewToken(w, None)
           revoked == [n EXCEPT !.starting = None,
                         !.queued = IF w.queued = {} THEN {} ELSE {"revoked"},
                         !.thread["stop"] = op]
<1>1. w \in Connections /\ w.starting \in Starts \union {None}
  BY DEF Sound, Connections
<1>2. op \in Operations /\ ~ op.fresh /\ op.pc = "startup"
  BY <1>1, IdleOperation DEF Waits
<1>3. BeginStop(w) \in {w, revoked, StopServices(revoked)}
  BY DEF BeginStop
<1> HIDE DEF op
<1>4. Yields(w, n)
  BY <1>1, TokenYields
<1> HIDE DEF n
<1>5. Yields(n, revoked)
  <2>1. n \in Connections
    BY <1>4 DEF Yields
  <2>2. revoked \in Connections /\ revoked.rt = n.rt /\ revoked.child = n.child
        /\ revoked.thread = [n.thread EXCEPT !["stop"] = op]
    BY <2>1, <1>2 DEF Connections
  <2> HIDE DEF revoked
  <2> QED BY <2>1, <2>2, <1>2, TurnedYields DEF Threads
<1> HIDE DEF revoked
<1>6. Keeps(w, revoked)
  BY <1>4, <1>5, YieldsTwice, YieldsKeeps
<1>7. Keeps(revoked, StopServices(revoked))
  BY <1>6, StopServicesKeeps DEF Keeps
<1>8. Keeps(w, StopServices(revoked))
  BY <1>6, <1>7, KeepsTwice
<1> QED BY <1>3, <1>6, <1>8, KeepsSame

LEMMA StopDoneKeeps == ASSUME NEW w, Sound(w) PROVE Keeps(w, StopDone(w))
PROOF
<1> DEFINE y == Show(w, "stopped", "ok")
           free == [y EXCEPT !.desk.server = FALSE, !.thread["stop"] = Idle, !.again = FALSE]
           woken == IF free.thread["restart"].pc = "awaitStop" THEN RestartAwake(free) ELSE free
<1>1. DeskOnly(w, y)
  BY ShowDesk DEF Sound, TunnelStates, Codes
<1>2. StopDone(w) = IF w.again THEN Boot(woken) ELSE woken
  BY DEF StopDone
<1> HIDE DEF y
<1>3. Keeps(w, y)
  BY <1>1, DeskKeeps
<1>4. Yields(y, free)
  <2>1. y \in Connections /\ "stop" \in Threads
    BY <1>1 DEF DeskOnly, Threads
  <2>2. free \in Connections /\ free.rt = y.rt /\ free.child = y.child
        /\ free.thread = [y.thread EXCEPT !["stop"] = Idle]
    BY <2>1, IdleOperation DEF Connections, Desks, Waits
  <2> HIDE DEF free
  <2> QED BY <2>1, <2>2, IdleIsIdle, TurnedYields
<1> HIDE DEF free
<1>5. Keeps(w, free)
  <2>1. Keeps(y, free)
    BY <1>3, <1>4, YieldsKeeps DEF Keeps
  <2> QED BY <2>1, <1>3, KeepsTwice
<1>6. Keeps(w, woken)
  <2>1. Keeps(free, RestartAwake(free))
    BY <1>5, RestartAwakeKeeps DEF Keeps
  <2>2. Keeps(w, RestartAwake(free))
    BY <2>1, <1>5, KeepsTwice
  <2> QED BY <2>2, <1>5
<1> HIDE DEF woken
<1>7. Keeps(woken, Boot(woken))
  BY <1>6, BootKeeps DEF Keeps
<1>8. Keeps(w, Boot(woken))
  BY <1>6, <1>7, KeepsTwice
<1> QED BY <1>2, <1>6, <1>8
-----------------------------------------------------------------------------
(* The steps of the tunnel. *)

(* What a step makes of the connection, unless it spawns a client. *)
Moves(w, x) == Sound(x) /\ Turns(w, x)

LEMMA KeepsMoves == ASSUME NEW w, Sound(w), NEW x, Keeps(w, x) PROVE Moves(w, x)
PROOF BY CalmTurns DEF Keeps, Moves, Sound

LEMMA MovesOn ==
    ASSUME NEW w, NEW x, NEW y, Moves(w, x), Keeps(x, y)
    PROVE  Moves(w, y)
PROOF BY TurnsCalm DEF Keeps, Moves

(* An operation that ends has nothing left to keep. *)
Loosed(w, t) == [w EXCEPT !.thread[t] = Idle]

LEMMA LoosedForm ==
    ASSUME NEW w \in Connections, NEW t \in Threads
    PROVE  LET x == Loosed(w, t)
           IN /\ x \in Connections /\ x.rt = w.rt /\ x.child = w.child
              /\ x.thread = [w.thread EXCEPT ![t] = Idle]
              /\ \A u \in Threads : x.thread[u] = IF u = t THEN Idle ELSE w.thread[u]
PROOF
<1>1. w.thread \in [Threads -> Operations]
  BY DEF Connections
<1>2. Loosed(w, t) \in Connections
  BY IdleIsIdle DEF Connections, Loosed
<1>3. Loosed(w, t).thread = [w.thread EXCEPT ![t] = Idle] /\ Loosed(w, t).rt = w.rt /\ Loosed(w, t).child = w.child
  BY DEF Connections, Loosed
<1> QED BY <1>1, <1>2, <1>3

(* StartEnds, once s is free. *)
Freed(w, s) ==
    [w EXCEPT !.thread[s] = Idle, !.starting = IF w.starting = s THEN None ELSE w.starting]

Woken(free, s) ==
    LET next == IF free.thread["restart"].waits # s THEN free
                ELSE IF free.thread["restart"].pc = "delegated" THEN RestartEnds(free)
                ELSE RestartBody(free)
    IN IF next.thread["stop"].pc = "startup" /\ next.thread["stop"].waits = s
       THEN StopServices(next) ELSE next

LEMMA EndsLoosed ==
    ASSUME NEW w \in Connections, NEW t \in Starts \union {"restart"}
    PROVE  Ends(w, t) = Ends(Loosed(w, t), t)
PROOF
<1> DEFINE x == Loosed(w, t)
<1>1. t \in Threads
  BY DEF Threads
<1>2. [x EXCEPT !.thread[t] = Idle] = x
  BY <1>1 DEF Connections, Loosed
<1>3. x.watched = w.watched /\ x.queued = w.queued /\ x.starting = w.starting
  BY DEF Connections, Loosed
<1>4. CASE t = "restart"
  <2>1. [x EXCEPT !.thread["restart"] = Idle] = [w EXCEPT !.thread["restart"] = Idle]
    BY <1>2, <1>4 DEF Loosed
  <2> HIDE DEF x
  <2>2. RestartEnds(w) = RestartEnds(x)
    BY <2>1, <1>3 DEF RestartEnds
  <2> QED BY <2>2, <1>4 DEF Ends, x
<1>5. CASE t # "restart"
  <2>1. Freed(x, t) = Freed(w, t)
    BY <1>1, <1>3 DEF Connections, Loosed, Freed
  <2> HIDE DEF x
  <2>2. StartEnds(w, t) = Woken(Freed(w, t), t) /\ StartEnds(x, t) = Woken(Freed(x, t), t)
    BY DEF StartEnds, Woken, Freed
  <2>3. StartEnds(w, t) = StartEnds(x, t)
    BY <2>1, <2>2
  <2> QED BY <2>3, <1>5 DEF Ends, x
<1> QED BY <1>4, <1>5

LEMMA LaunchSound ==
    ASSUME NEW w, Sound(w), NEW t \in Threads, w.child = None
    PROVE  Moves(w, Update([NewGeneration(To(w, t, "prepare"), t) EXCEPT !.rt.stopping = FALSE],
                           "starting", "ok"))
PROOF
<1> DEFINE y == To(w, t, "prepare")
           g == NewGeneration(y, t)
           z == [g EXCEPT !.rt.stopping = FALSE]
           x == Update(z, "starting", "ok")
<1>1. w \in Connections /\ w.thread \in [Threads -> Operations] /\ w.rt \in Runtimes
  BY DEF Sound, Connections
<1>2. /\ y.child = None /\ y.rt = w.rt /\ y.thread = [w.thread EXCEPT ![t].pc = "prepare"]
  BY <1>1 DEF To, Connections
<1>3. y \in Connections
  <2>1. [w.thread[t] EXCEPT !.pc = "prepare"] \in Operations
    BY <1>1 DEF Operations, Waits
  <2> QED BY <2>1, <1>1 DEF To, Connections
<1> HIDE DEF y
<1>4. /\ g \in Connections /\ g.child = None /\ g.rt = [w.rt EXCEPT !.report = "ok"]
      /\ g.thread = [u \in Threads |-> [y.thread[u] EXCEPT !.fresh = (u = t)]]
  <2>1. /\ g \in Connections /\ g.rt = [y.rt EXCEPT !.report = "ok"]
        /\ g.thread = [u \in Threads |-> [y.thread[u] EXCEPT !.fresh = (u = t)]]
        /\ g.child = IF y.child = None THEN None ELSE [y.child EXCEPT !.fresh = FALSE]
    BY <1>3, GenerationForm
  <2> HIDE DEF g
  <2> QED BY <2>1, <1>2
<1> HIDE DEF g
<1>5. /\ z \in Connections /\ z.child = None /\ z.thread = g.thread
      /\ z.rt = [g.rt EXCEPT !.stopping = FALSE]
  BY <1>4 DEF Connections, Runtimes
<1> HIDE DEF z
<1>6. Updated(z, x, "starting", "ok")
  BY <1>5, UpdateForm DEF TunnelStates, Codes
<1> HIDE DEF x
<1>7. /\ x \in Connections /\ x.child = None /\ x.thread = g.thread
      /\ x.rt.state = "starting" /\ ~ x.rt.stopping /\ x.rt.report = "ok"
  BY <1>1, <1>4, <1>5, <1>6 DEF Updated, Runtimes
<1>8. \A u \in Threads : /\ x.thread[u].fresh <=> u = t
                         /\ x.thread[u].pc = IF u = t THEN "prepare" ELSE w.thread[u].pc
  <2> TAKE u \in Threads
  <2>1. w.thread[u] \in Operations
    BY <1>1
  <2>2. y.thread[u] = IF u = t THEN [w.thread[t] EXCEPT !.pc = "prepare"] ELSE w.thread[u]
    BY <1>1, <1>2
  <2>3. x.thread[u] = [y.thread[u] EXCEPT !.fresh = (u = t)]
    BY <1>4, <1>7
  <2>4. y.thread[u] \in Operations /\ y.thread[u].pc = IF u = t THEN "prepare" ELSE w.thread[u].pc
    BY <2>1, <2>2 DEF Operations, Waits
  <2> QED BY <2>3, <2>4 DEF Operations
<1>9. Alone(x) /\ Told(x) /\ Begun(x) /\ Halting(x)
  BY <1>7, <1>8 DEF Alone, Told, Begun, Halting, Live
<1>10. w.rt.state \in TunnelStates \ Live
  BY <1>1 DEF Sound, Told, Runtimes
<1> QED BY <1>7, <1>8, <1>9, <1>10 DEF Moves, Sound, Turns, NoSpawn, Legal, Live, TunnelStates, x, z, g, y

(* A spawn: the only step that lets an operation wait for a client. *)
LEMMA SpawnSound ==
    ASSUME NEW w, Sound(w), NEW t \in Threads, w.thread[t].fresh, w.thread[t].pc = "prepare"
    PROVE  LET x == [To(w, t, "wait") EXCEPT
                        !.child = [of |-> t, fresh |-> TRUE, fatal |-> FALSE, watched |-> FALSE]]
           IN Sound(x) /\ x.rt = w.rt
PROOF
<1> DEFINE client == [of |-> t, fresh |-> TRUE, fatal |-> FALSE, watched |-> FALSE]
           x == [To(w, t, "wait") EXCEPT !.child = client]
<1>1. w \in Connections /\ w.thread \in [Threads -> Operations]
  BY DEF Sound, Connections
<1>2. client \in Clients /\ client # None
  <2>1. client \in Clients
    BY DEF Clients
  <2> HIDE DEF client
  <2> QED BY <2>1, Assumptions
<1>3. client.of = t /\ client.fresh /\ ~ client.fatal /\ ~ client.watched
  OBVIOUS
<1> HIDE DEF client
<1>4. x.child = client /\ x.rt = w.rt /\ x.thread = [w.thread EXCEPT ![t].pc = "wait"]
  BY <1>1 DEF To, Connections
<1>5. x \in Connections
  <2>1. [w.thread[t] EXCEPT !.pc = "wait"] \in Operations
    BY <1>1 DEF Operations, Waits
  <2> QED BY <2>1, <1>1, <1>2 DEF To, Connections
<1> HIDE DEF x
<1>6. \A u \in Threads : /\ x.thread[u].fresh = w.thread[u].fresh
                         /\ x.thread[u].pc = IF u = t THEN "wait" ELSE w.thread[u].pc
  <2> TAKE u \in Threads
  <2>1. w.thread[u] \in Operations
    BY <1>1
  <2>2. x.thread[u] = IF u = t THEN [w.thread[t] EXCEPT !.pc = "wait"] ELSE w.thread[u]
    BY <1>1, <1>4
  <2> QED BY <2>1, <2>2 DEF Operations
<1>7. w.rt.state = "starting" /\ w.rt.report = "ok" /\ ~ w.rt.stopping
  BY DEF Sound, Begun
<1>8. Alone(x) /\ Halting(x)
  BY <1>4, <1>6 DEF Sound, Alone, Halting
<1>9. Told(x)
  BY <1>2, <1>3, <1>4, <1>7 DEF Told, Live
<1>10. Begun(x)
  BY <1>3, <1>4, <1>6, <1>7 DEF Sound, Alone, Begun
<1> QED BY <1>4, <1>5, <1>8, <1>9, <1>10 DEF Sound, x, client

(* The client of t is connected, and t ends. *)
LEMMA ConnectedEnds ==
    ASSUME NEW w, Sound(w), NEW t \in Starts \union {"restart"},
           w.thread[t].fresh, w.thread[t].pc = "wait",
           w.child # None, ~ w.child.fatal,
           NEW d \in Connections, d.thread = w.thread, d.child = [w.child EXCEPT !.watched = TRUE],
           d.rt.state \in {"running", "in_place"}, d.rt.stopping = w.rt.stopping,
           d.rt.report = w.rt.report
    PROVE  Moves(w, Ends(d, t))
PROOF
<1> DEFINE x == Loosed(d, t)
<1>1. t \in Threads /\ w \in Connections /\ w.child \in Clients
  BY DEF Threads, Sound, Connections
<1>2. /\ x \in Connections /\ x.rt = d.rt /\ x.child = d.child
      /\ \A u \in Threads : x.thread[u] = IF u = t THEN Idle ELSE w.thread[u]
  <2>1. /\ x \in Connections /\ x.rt = d.rt /\ x.child = d.child
        /\ \A u \in Threads : x.thread[u] = IF u = t THEN Idle ELSE d.thread[u]
    BY <1>1, LoosedForm
  <2> HIDE DEF x
  <2> QED BY <2>1
<1>3. Ends(d, t) = Ends(x, t)
  BY EndsLoosed
<1> HIDE DEF x
<1>4. w.rt.state = "starting" /\ w.rt.report = "ok" /\ ~ w.rt.stopping
  BY <1>1 DEF Sound, Begun
<1>5. /\ x.child \in Clients /\ x.child # None /\ x.child.fresh = w.child.fresh
  <2>1. x.child \in Clients /\ x.child.fresh = w.child.fresh
    BY <1>1, <1>2 DEF Clients
  <2> QED BY <2>1, Assumptions
<1>6. \A u \in Threads \ {t} : ~ w.thread[u].fresh
  BY <1>1 DEF Sound, Alone
<1>7. \A u \in Threads : ~ x.thread[u].fresh /\ (x.thread[u].pc = "wait" => w.thread[u].pc = "wait")
  BY <1>2, <1>6, IdleIsIdle
<1>8. w.child.fresh
  BY <1>1 DEF Sound, Begun
<1>9. Alone(x) /\ Begun(x) /\ Halting(x)
  BY <1>7 DEF Alone, Begun, Halting
<1>10. Told(x)
  BY <1>2, <1>4, <1>5, <1>8 DEF Told, Live
<1>11. Moves(w, x)
  BY <1>2, <1>4, <1>7, <1>9, <1>10 DEF Moves, Sound, Turns, NoSpawn, Legal
<1>12. Keeps(x, Ends(x, t))
  BY <1>11, EndsKeeps DEF Moves
<1> QED BY <1>3, <1>11, <1>12, MovesOn

(* The start that owns the runtime ends with a failure.                    *)
LEMMA FailedEnds ==
    ASSUME NEW w, Sound(w), NEW t \in Starts \union {"restart"},
           w.thread[t].fresh, w.thread[t].pc \in {"prepare", "cleanup"},
           NEW code \in Codes, NEW seen \in Codes
    PROVE  LET y == TunnelError(Update(w, "failed", code), t, seen)
           IN Sound(y) /\ y.rt.state \in {"failed", "stopped"} /\ NoSpawn(w, y)
PROOF
<1> DEFINE d == Update(w, "failed", code)
           shown == Show(d, IF seen = "terminal" THEN "failed" ELSE "degraded", seen)
           served == [shown EXCEPT !.desk.server = TRUE]
<1>1. t \in Threads /\ w \in Connections /\ w.rt \in Runtimes
  BY DEF Threads, Sound, Connections
<1>2. TunnelError(d, t, seen) \in {Ends(d, t), Ends(served, t)}
  BY DEF TunnelError
<1>3. Updated(w, d, "failed", code)
  BY <1>1, UpdateForm DEF TunnelStates, Codes
<1> HIDE DEF d
<1>4. /\ d \in Connections /\ d.thread = w.thread /\ d.child = w.child
      /\ d.rt = [w.rt EXCEPT !.state = "failed", !.code = code]
  BY <1>3 DEF Updated
<1>5. /\ served \in Connections /\ served.thread = d.thread /\ served.child = d.child /\ served.rt = d.rt
  <2>1. DeskOnly(d, shown)
    BY <1>4, ShowDesk DEF TunnelStates
  <2> HIDE DEF shown
  <2>2. DeskOnly(shown, served)
    BY <2>1, ServerDesk DEF DeskOnly
  <2> QED BY <2>1, <2>2 DEF DeskOnly
<1> HIDE DEF served
<1>6. w.rt.report = "ok" /\ ~ w.rt.stopping /\ (w.child # None => ~ w.child.watched)
  BY <1>1 DEF Sound, Begun
<1>7. \A u \in Threads \ {t} : ~ w.thread[u].fresh
  BY <1>1 DEF Sound, Alone
<1>8. ASSUME NEW e \in {d, served}
      PROVE  Sound(Ends(e, t)) /\ Ends(e, t).rt.state \in {"failed", "stopped"} /\ NoSpawn(w, Ends(e, t))
  <2> DEFINE x == Loosed(e, t)
  <2>1. e \in Connections /\ e.thread = w.thread /\ e.child = w.child
        /\ e.rt = [w.rt EXCEPT !.state = "failed", !.code = code]
    BY <1>4, <1>5
  <2>2. /\ x \in Connections /\ x.rt = e.rt /\ x.child = w.child
        /\ \A u \in Threads : x.thread[u] = IF u = t THEN Idle ELSE w.thread[u]
    <3>1. /\ x \in Connections /\ x.rt = e.rt /\ x.child = e.child
          /\ \A u \in Threads : x.thread[u] = IF u = t THEN Idle ELSE e.thread[u]
      BY <1>1, <2>1, LoosedForm
    <3> HIDE DEF x
    <3> QED BY <3>1, <2>1
  <2>3. Ends(e, t) = Ends(x, t)
    BY <2>1, EndsLoosed
  <2> HIDE DEF x
  <2>4. x.rt.state = "failed" /\ x.rt.report = "ok" /\ ~ x.rt.stopping
    BY <1>1, <1>6, <2>1, <2>2 DEF Runtimes
  <2>5. \A u \in Threads : ~ x.thread[u].fresh /\ (x.thread[u].pc = "wait" => w.thread[u].pc = "wait")
    BY <1>7, <2>2, IdleIsIdle
  <2>6. Alone(x) /\ Begun(x) /\ Halting(x) /\ Told(x)
    BY <1>6, <2>2, <2>4, <2>5 DEF Alone, Begun, Halting, Told, Live
  <2>7. Keeps(x, Ends(x, t))
    BY <2>2, <2>6, EndsKeeps DEF Sound
  <2> QED BY <2>3, <2>4, <2>5, <2>7 DEF Keeps, Calm, NoSpawn
<1> QED BY <1>2, <1>8 DEF d
-----------------------------------------------------------------------------
(* The actions. *)

LEMMA NowType ==
    ASSUME Sound(Now)
    PROVE  /\ Now \in Connections
           /\ desk \in Desks /\ rt \in Runtimes /\ child \in {None} \union Clients
           /\ thread \in [Threads -> Operations] /\ starting \in Starts \union {None}
           /\ queued \subseteq {"valid", "revoked"} /\ watched \in BOOLEAN
           /\ again \in BOOLEAN /\ up \in BOOLEAN /\ overlap \in BOOLEAN
PROOF BY DEF Sound, Connections, Now

LEMMA NowFields ==
    /\ Now.desk = desk /\ Now.rt = rt /\ Now.child = child /\ Now.thread = thread
    /\ Now.starting = starting /\ Now.queued = queued /\ Now.watched = watched
    /\ Now.again = again /\ Now.up = up /\ Now.overlap = overlap
PROOF BY DEF Now

(* The state of the connection after a step is the one its action names.   *)
LEMMA BecomesNow ==
    ASSUME NEW w \in Connections, Becomes(w)
    PROVE  Now' = w
PROOF BY DEF Becomes, Now, Connections

(* What a step does to the connection. *)
Stepped ==
    /\ Sound(Now)'
    /\ rt'.state \in Legal(rt.state)
    /\ Spawning => child = None /\ \E t \in Threads : thread[t].fresh /\ thread[t].pc = "prepare"

LEMMA MovesStep ==
    ASSUME Sound(Now), NEW w, Moves(Now, w), Becomes(w)
    PROVE  Stepped
PROOF
<1>1. Now' = w
  BY BecomesNow DEF Moves, Sound
<1>2. rt' = w.rt /\ thread' = w.thread
  BY DEF Becomes
<1>3. ~ Spawning
  BY <1>2, NowFields DEF Moves, Turns, NoSpawn, Spawning
<1>4. rt'.state \in Legal(rt.state)
  BY <1>2, NowFields DEF Moves, Turns
<1> QED BY <1>1, <1>3, <1>4 DEF Moves, Stepped

LEMMA KeepsStep ==
    ASSUME Sound(Now), NEW w, Keeps(Now, w), Becomes(w)
    PROVE  Stepped
PROOF BY KeepsMoves, MovesStep

LEMMA CancelledKeeps == ASSUME NEW w, Sound(w) PROVE Keeps(w, Cancelled(w))
PROOF BY CancelledDesk, DeskKeeps DEF Sound

LEMMA AttemptedKeeps == ASSUME NEW w, Sound(w) PROVE Keeps(w, Attempted(w))
PROOF
<1> DEFINE x == Cancelled(w)
           y == [x EXCEPT !.desk.attempt = "current"]
<1>1. Keeps(w, x)
  BY CancelledKeeps
<1>2. Attempted(w) = Restart(y)
  BY DEF Attempted
<1> HIDE DEF x
<1>3. Keeps(x, y)
  BY <1>1, AttemptDesk, DeskKeeps DEF Keeps, Sound
<1> HIDE DEF y
<1>4. Keeps(y, Restart(y))
  BY <1>3, RestartKeeps DEF Keeps
<1> QED BY <1>1, <1>2, <1>3, <1>4, KeepsTwice

LEMMA UserSteps == ASSUME Sound(Now), UserNext PROVE Stepped
PROOF
<1>1. CASE UserStarts
  BY <1>1, StartServerKeeps, KeepsStep DEF UserStarts
<1>2. CASE UserRetries
  <2>1. Keeps(Now, IF desk.attempt = "current" THEN Now ELSE Attempted(Now))
    BY KeepsSame, AttemptedKeeps
  <2> QED BY <1>2, <2>1, KeepsStep DEF UserRetries
<1>3. CASE UserChangesSettings
  <2> DEFINE w == Cancelled(Now)
             x == [w EXCEPT !.queued = w.queued \union {"valid"}]
             r == Restart(w)
             y == [r EXCEPT !.watched = TRUE]
  <2>1. Becomes(IF Busy(w, "restart") THEN x ELSE y)
    BY <1>3 DEF UserChangesSettings
  <2>2. Keeps(Now, w)
    BY CancelledKeeps
  <2> HIDE DEF w
  <2>3. Keeps(w, x)
    <3>1. w \in Connections
      BY <2>2 DEF Keeps, Sound
    <3>2. x \in Connections /\ x.rt = w.rt /\ x.child = w.child /\ x.thread = w.thread
      BY <3>1 DEF Connections
    <3> HIDE DEF x
    <3> QED BY <2>2, <3>2, AsideKeeps DEF Keeps
  <2> HIDE DEF x
  <2>4. Keeps(w, r)
    BY <2>2, RestartKeeps DEF Keeps
  <2> HIDE DEF r
  <2>5. Keeps(r, y)
    <3>1. r \in Connections
      BY <2>4 DEF Keeps, Sound
    <3>2. y \in Connections /\ y.rt = r.rt /\ y.child = r.child /\ y.thread = r.thread
      BY <3>1 DEF Connections
    <3> HIDE DEF y
    <3> QED BY <2>4, <3>2, AsideKeeps DEF Keeps
  <2> HIDE DEF y
  <2>6. Keeps(Now, x)
    BY <2>2, <2>3, KeepsTwice
  <2>7. Keeps(Now, r)
    BY <2>2, <2>4, KeepsTwice
  <2>8. Keeps(Now, y)
    BY <2>5, <2>7, KeepsTwice
  <2> QED BY <2>1, <2>6, <2>8, KeepsStep
<1>4. CASE UserStops
  <2> DEFINE w == Cancelled(Now)
  <2>1. Becomes(BeginStop(w)) /\ Keeps(Now, w)
    BY <1>4, CancelledKeeps DEF UserStops
  <2> HIDE DEF w
  <2>2. Keeps(w, BeginStop(w))
    BY <2>1, BeginStopKeeps DEF Keeps
  <2> QED BY <2>1, <2>2, KeepsTwice, KeepsStep
<1> QED BY <1>1, <1>2, <1>3, <1>4 DEF UserNext

LEMMA TimerStep == ASSUME Sound(Now), TimerFires PROVE Stepped
PROOF BY AttemptedKeeps, KeepsStep DEF Goes, TimerFires

LEMMA ExitStep == ASSUME Sound(Now), ServiceExits PROVE Stepped
PROOF
<1> DEFINE d == [Now EXCEPT !.up = FALSE]
           s == Show(d, "failed", "transient")
           shown == [s EXCEPT !.desk.server = FALSE]
           c == Cancelled(shown)
           b == BeginStop(c)
           x == [b EXCEPT !.again = TRUE]
<1>1. Becomes(x)
  BY DEF ServiceExits
<1>2. d \in Connections /\ d.rt = Now.rt /\ d.child = Now.child /\ d.thread = Now.thread
  BY DEF Sound, Connections
<1> HIDE DEF d
<1>3. Keeps(Now, d)
  BY <1>2, AsideKeeps
<1>4. DeskOnly(d, s)
  BY <1>2, ShowDesk DEF TunnelStates, Codes
<1> HIDE DEF s
<1>5. DeskOnly(s, shown)
  BY <1>4, ServerDesk DEF DeskOnly
<1> HIDE DEF shown
<1>6. DeskOnly(shown, c)
  BY <1>5, CancelledDesk DEF DeskOnly
<1> HIDE DEF c
<1>7. DeskOnly(d, c)
  BY <1>4, <1>5, <1>6, DeskTwice
<1>8. Keeps(d, c)
  BY <1>3, <1>7, DeskKeeps DEF Keeps
<1>9. Keeps(c, b)
  BY <1>8, BeginStopKeeps DEF Keeps
<1> HIDE DEF b
<1>10. Keeps(b, x)
  <2>1. b \in Connections
    BY <1>9 DEF Keeps, Sound
  <2>2. x \in Connections /\ x.rt = b.rt /\ x.child = b.child /\ x.thread = b.thread
    BY <2>1 DEF Connections
  <2> HIDE DEF x
  <2> QED BY <1>9, <2>2, AsideKeeps DEF Keeps
<1> HIDE DEF x
<1>11. Keeps(Now, c)
  BY <1>3, <1>8, KeepsTwice
<1>12. Keeps(Now, b)
  BY <1>9, <1>11, KeepsTwice
<1>13. Keeps(Now, x)
  BY <1>10, <1>12, KeepsTwice
<1> QED BY <1>1, <1>13, KeepsStep

(* Thread t goes on to launch.                                             *)
LEMMA ToLaunchYields ==
    ASSUME NEW w \in Connections, NEW t \in Threads
    PROVE  Yields(w, To(w, t, "launch"))
PROOF
<1> DEFINE x == To(w, t, "launch")
<1>1. w.thread \in [Threads -> Operations] /\ [w.thread[t] EXCEPT !.pc = "launch"] \in Operations
  BY DEF Connections, Operations, Waits
<1>2. x \in Connections /\ x.rt = w.rt /\ x.child = w.child /\ x.thread = [w.thread EXCEPT ![t].pc = "launch"]
  BY <1>1 DEF Connections, To
<1> HIDE DEF x
<1>3. \A u \in Threads : /\ x.thread[u].fresh = w.thread[u].fresh
                         /\ x.thread[u].pc = IF u = t THEN "launch" ELSE w.thread[u].pc
  <2> TAKE u \in Threads
  <2>1. x.thread[u] = IF u = t THEN [w.thread[t] EXCEPT !.pc = "launch"] ELSE w.thread[u]
    BY <1>1, <1>2
  <2>2. w.thread[u] \in Operations
    BY <1>1
  <2> QED BY <2>1, <2>2 DEF Operations
<1>4. Yields(w, x)
  BY <1>2, <1>3 DEF Yields, Waits
<1> QED BY <1>4 DEF x

LEMMA BootStep == ASSUME Sound(Now), NEW s \in Starts, BootEnds(s) PROVE Stepped
PROOF
<1> DEFINE l == To(Now, s, "launch")
           m == Show(l, "starting", "ok")
           x == [m EXCEPT !.up = TRUE, !.desk.server = TRUE]
           f == Show(Now, "failed", "transient")
           g == [f EXCEPT !.desk.server = FALSE]
<1>1. Becomes(StartEnds(Now, s)) \/ Becomes(x) \/ Becomes(StartEnds(g, s))
  BY DEF Goes, BootEnds
<1>2. Now \in Connections /\ s \in Threads
  BY DEF Sound, Threads
<1>3. Yields(Now, l)
  BY <1>2, ToLaunchYields
<1> HIDE DEF l
<1>4. DeskOnly(l, m)
  BY <1>3, ShowDesk DEF Yields, TunnelStates, Codes
<1> HIDE DEF m
<1>5. Yields(m, x)
  <2>1. m \in Connections
    BY <1>4 DEF DeskOnly
  <2>2. x \in Connections /\ x.rt = m.rt /\ x.child = m.child /\ x.thread = m.thread
    BY <2>1 DEF Connections, Desks
  <2> HIDE DEF x
  <2> QED BY <2>2 DEF Yields
<1> HIDE DEF x
<1>6. Keeps(Now, x)
  <2>1. Yields(l, m)
    BY <1>3, <1>4, DeskYields DEF Yields
  <2>2. Yields(Now, m)
    BY <1>3, <2>1, YieldsTwice
  <2>3. Yields(Now, x)
    BY <1>5, <2>2, YieldsTwice
  <2> QED BY <2>3, YieldsKeeps
<1>7. DeskOnly(Now, f)
  BY <1>2, ShowDesk DEF TunnelStates, Codes
<1> HIDE DEF f
<1>8. DeskOnly(f, g)
  BY <1>7, ServerDesk DEF DeskOnly
<1> HIDE DEF g
<1>9. Keeps(Now, g)
  BY <1>7, <1>8, DeskTwice, DeskKeeps
<1>10. Keeps(g, StartEnds(g, s))
  BY <1>9, StartEndsKeeps DEF Keeps
<1>11. Keeps(Now, StartEnds(g, s))
  BY <1>9, <1>10, KeepsTwice
<1> QED BY <1>1, <1>6, <1>11, StartEndsKeeps, KeepsStep

LEMMA LaunchStep ==
    ASSUME Sound(Now), NEW t \in Starts \union {"restart"}, Launches(t)
    PROVE  Stepped
PROOF
<1>1. PICK over \in BOOLEAN :
         LET w == [Now EXCEPT !.overlap = over]
         IN \/ Becomes(Ends(w, t))
            \/ Becomes(TunnelError(w, t, "terminal"))
            \/ Becomes(TunnelError(Unseen(w), t, "transient"))
            \/ /\ child = None
               /\ Becomes(Update([NewGeneration(To(w, t, "prepare"), t) EXCEPT !.rt.stopping = FALSE],
                            "starting", "ok"))
  <2>1. (overlap \/ (thread[t].valid /\ \E u \in Threads \ {t} : TakenOver(u))) \in BOOLEAN
    OBVIOUS
  <2> QED BY <2>1 DEF Goes, Launches
<1> DEFINE w == [Now EXCEPT !.overlap = over]
           v == Unseen(w)
<1>2. t \in Threads
  BY DEF Threads
<1>3. w \in Connections /\ w.rt = Now.rt /\ w.child = Now.child /\ w.thread = Now.thread
  BY DEF Sound, Connections
<1>4. \/ Becomes(Ends(w, t))
      \/ Becomes(TunnelError(w, t, "terminal"))
      \/ Becomes(TunnelError(v, t, "transient"))
      \/ /\ child = None
         /\ Becomes(Update([NewGeneration(To(w, t, "prepare"), t) EXCEPT !.rt.stopping = FALSE],
                           "starting", "ok"))
  BY <1>1
<1> HIDE DEF w
<1>5. Keeps(Now, w)
  BY <1>3, AsideKeeps
<1>6. Keeps(w, v)
  <2>1. v \in Connections /\ v.rt = w.rt /\ v.child = w.child /\ v.thread = w.thread
    BY <1>3 DEF Unseen, Connections, Desks
  <2> HIDE DEF v
  <2> QED BY <1>5, <2>1, AsideKeeps DEF Keeps
<1> HIDE DEF v
<1>7. Keeps(Now, v)
  BY <1>5, <1>6, KeepsTwice
<1>8. Keeps(Now, Ends(w, t))
  <2>1. Keeps(w, Ends(w, t))
    BY <1>5, EndsKeeps DEF Keeps
  <2> QED BY <1>5, <2>1, KeepsTwice
<1>9. Keeps(Now, TunnelError(w, t, "terminal"))
  <2>1. Keeps(w, TunnelError(w, t, "terminal"))
    BY <1>5, TunnelErrorKeeps DEF Keeps, Codes
  <2> QED BY <1>5, <2>1, KeepsTwice
<1>10. Keeps(Now, TunnelError(v, t, "transient"))
  <2>1. Keeps(v, TunnelError(v, t, "transient"))
    BY <1>7, TunnelErrorKeeps DEF Keeps, Codes
  <2> QED BY <1>7, <2>1, KeepsTwice
<1>11. ASSUME child = None
       PROVE  Moves(Now, Update([NewGeneration(To(w, t, "prepare"), t) EXCEPT !.rt.stopping = FALSE],
                                "starting", "ok"))
  <2>1. Sound(w) /\ w.child = None
    BY <1>3, <1>5, <1>11, NowFields DEF Keeps
  <2>2. Moves(w, Update([NewGeneration(To(w, t, "prepare"), t) EXCEPT !.rt.stopping = FALSE],
                        "starting", "ok"))
    BY <1>2, <2>1, LaunchSound
  <2> QED BY <1>3, <2>2 DEF Moves, Turns, NoSpawn
<1> QED BY <1>4, <1>8, <1>9, <1>10, <1>11, KeepsStep, MovesStep

LEMMA SpawnStep ==
    ASSUME Sound(Now), NEW t \in Starts \union {"restart"}, Spawns(t)
    PROVE  Stepped
PROOF
<1>1. t \in Threads /\ thread[t].pc = "prepare"
  BY DEF Goes, Spawns, Threads
<1>2. CASE ~ thread[t].fresh
  <2>1. Becomes(Ends(Now, t))
    BY <1>2 DEF Goes, Spawns
  <2> QED BY <2>1, EndsKeeps, KeepsStep
<1>3. CASE thread[t].fresh /\ Becomes(TunnelError(Update(Now, "failed", "terminal"), t, "terminal"))
  <2> DEFINE y == TunnelError(Update(Now, "failed", "terminal"), t, "terminal")
  <2>1. Sound(y) /\ y.rt.state \in {"failed", "stopped"} /\ NoSpawn(Now, y)
    BY <1>1, <1>3, NowFields, FailedEnds DEF Codes
  <2>2. Now.rt.state = "starting"
    BY <1>1, <1>3, NowFields DEF Sound, Begun
  <2> HIDE DEF y
  <2>3. Moves(Now, y)
    BY <2>1, <2>2 DEF Moves, Turns, Legal
  <2> QED BY <1>3, <2>3, MovesStep DEF y
<1>4. CASE /\ thread[t].fresh
           /\ Becomes([To(Now, t, "wait") EXCEPT
                         !.child = [of |-> t, fresh |-> TRUE, fatal |-> FALSE, watched |-> FALSE]])
  <2> DEFINE x == [To(Now, t, "wait") EXCEPT
                      !.child = [of |-> t, fresh |-> TRUE, fatal |-> FALSE, watched |-> FALSE]]
  <2>1. Sound(x) /\ x.rt = Now.rt
    BY <1>1, <1>4, NowFields, SpawnSound
  <2>2. child = None
    BY <1>1, <1>4, NowFields DEF Sound, Begun
  <2> HIDE DEF x
  <2>3. Now' = x
    BY <1>4, <2>1, BecomesNow DEF Sound, x
  <2>4. rt' = rt
    BY <1>4, <2>1, NowFields DEF Becomes, x
  <2>5. rt'.state \in Legal(rt.state)
    BY <2>4, NowType DEF Legal, Runtimes, TunnelStates
  <2> QED BY <1>1, <1>4, <2>1, <2>2, <2>3, <2>5 DEF Stepped
<1> QED BY <1>2, <1>3, <1>4 DEF Goes, Spawns

LEMMA ConnectStep ==
    ASSUME Sound(Now), NEW t \in Starts \union {"restart"},
           NEW state \in {"running", "in_place"}, Connects(t, state)
    PROVE  Stepped
PROOF
<1> DEFINE code == IF state = "running" THEN "ok" ELSE "transient"
           u == Update(Now, state, code)
           c == [u EXCEPT !.child.watched = TRUE]
           h == Show(c, state, c.rt.code)
           d == [h EXCEPT !.desk.server = TRUE]
<1>1. /\ thread[t].pc = "wait" /\ thread[t].fresh /\ child # None /\ ~ child.fatal
      /\ Becomes(Ends(c, t)) \/ Becomes(Ends(d, t))
  BY DEF Goes, Connects, Own
<1>2. code \in Codes /\ state \in TunnelStates
  BY DEF Codes, TunnelStates
<1> HIDE DEF code
<1>3. Now \in Connections /\ rt \in Runtimes /\ child \in Clients
  BY <1>1, NowType
<1>4. Updated(Now, u, state, code)
  BY <1>2, <1>3, UpdateForm
<1> HIDE DEF u
<1>5. /\ u \in Connections /\ u.child = child /\ u.thread = thread
      /\ u.rt = [rt EXCEPT !.state = state, !.code = code]
  BY <1>4, NowFields DEF Updated
<1>6. /\ c.child = [child EXCEPT !.watched = TRUE] /\ c.thread = thread /\ c.rt = u.rt
  BY <1>5 DEF Connections
<1>7. c \in Connections
  <2>1. [u.child EXCEPT !.watched = TRUE] \in Clients
    BY <1>3, <1>5 DEF Clients
  <2> QED BY <1>5, <2>1 DEF Connections
<1>8. c.rt.state = state /\ c.rt.code \in Codes /\ c.rt.stopping = rt.stopping /\ c.rt.report = rt.report
  BY <1>2, <1>3, <1>5, <1>6 DEF Runtimes
<1> HIDE DEF c
<1>9. DeskOnly(c, h)
  BY <1>2, <1>7, <1>8, ShowDesk
<1> HIDE DEF h
<1>10. DeskOnly(h, d)
  BY <1>9, ServerDesk DEF DeskOnly
<1> HIDE DEF d
<1>11. d \in Connections /\ d.rt = c.rt /\ d.child = c.child /\ d.thread = c.thread
  BY <1>9, <1>10 DEF DeskOnly
<1>12. Moves(Now, Ends(c, t))
  BY <1>1, <1>6, <1>7, <1>8, NowFields, ConnectedEnds
<1>13. Moves(Now, Ends(d, t))
  BY <1>1, <1>6, <1>8, <1>11, NowFields, ConnectedEnds
<1> QED BY <1>1, <1>12, <1>13, MovesStep

LEMMA WaitStep ==
    ASSUME Sound(Now), NEW t \in Starts \union {"restart"}, WaitFails(t)
    PROVE  Stepped
PROOF
<1>1. PICK code \in Codes :
         Becomes([To(Now, t, "cleanup") EXCEPT !.thread[t].code = code])
  BY DEF Goes, WaitFails, Codes
<1> DEFINE l == To(Now, t, "cleanup")
           x == [l EXCEPT !.thread[t].code = code]
<1>2. t \in Threads /\ Now \in Connections /\ thread[t].pc = "wait" /\ thread \in [Threads -> Operations]
  BY NowType DEF Goes, Threads, WaitFails
<1>3. l.rt = rt /\ l.child = child /\ l.thread = [thread EXCEPT ![t].pc = "cleanup"]
  BY NowFields DEF To, Now
<1>4. [thread[t] EXCEPT !.pc = "cleanup"] \in Operations
  BY <1>2 DEF Operations, Waits
<1>5. l \in Connections /\ l.thread \in [Threads -> Operations]
  <2>1. l.thread \in [Threads -> Operations]
    BY <1>2, <1>3, <1>4
  <2> QED BY <1>2, <2>1 DEF Connections, To
<1> HIDE DEF l
<1>6. [l.thread[t] EXCEPT !.code = code] \in Operations
  BY <1>2, <1>5 DEF Operations
<1>7. x \in Connections /\ x.rt = l.rt /\ x.child = l.child /\ x.thread = [l.thread EXCEPT ![t].code = code]
  BY <1>5, <1>6 DEF Connections
<1> HIDE DEF x
<1>8. \A u \in Threads : /\ x.thread[u].fresh = thread[u].fresh
                         /\ x.thread[u].pc = IF u = t THEN "cleanup" ELSE thread[u].pc
  <2> TAKE u \in Threads
  <2>1. x.thread[u] = IF u = t THEN [l.thread[t] EXCEPT !.code = code] ELSE l.thread[u]
    BY <1>2, <1>5, <1>7
  <2>2. l.thread[u] = IF u = t THEN [thread[t] EXCEPT !.pc = "cleanup"] ELSE thread[u]
    BY <1>2, <1>3
  <2>3. thread[u] \in Operations /\ l.thread[u] \in Operations
    BY <1>2, <1>5
  <2>4. l.thread[u].fresh = thread[u].fresh /\ l.thread[u].pc = IF u = t THEN "cleanup" ELSE thread[u].pc
    BY <2>2, <2>3 DEF Operations
  <2> QED BY <2>1, <2>3, <2>4 DEF Operations
<1>9. Alone(x) /\ Halting(x) /\ Told(x)
  BY <1>3, <1>7, <1>8, NowFields DEF Sound, Alone, Halting, Told
<1>10. Begun(x)
  BY <1>2, <1>3, <1>7, <1>8, NowFields DEF Sound, Begun
<1>11. Moves(Now, x)
  <2>1. NoSpawn(Now, x)
    BY <1>8, NowFields DEF NoSpawn
  <2>2. x.rt.state \in Legal(Now.rt.state)
    BY <1>3, <1>7, NowType, NowFields DEF Legal, Runtimes, TunnelStates
  <2> QED BY <1>7, <1>9, <1>10, <2>1, <2>2 DEF Moves, Sound, Turns
<1> QED BY <1>1, <1>11, MovesStep DEF x, l

LEMMA CleanupStep ==
    ASSUME Sound(Now), NEW t \in Starts \union {"restart"}, CleanupEnds(t)
    PROVE  Stepped
PROOF
<1>1. PICK w \in {Now, ChildGone(Now)} :
         Becomes(IF ~ thread[t].fresh THEN Ends(w, t)
                 ELSE TunnelError(Update(w, "failed", thread[t].code), t, thread[t].code))
  BY DEF Goes, CleanupEnds
<1>2. t \in Threads /\ thread[t].pc = "cleanup" /\ thread[t].code \in Codes
  BY NowType DEF Goes, Threads, CleanupEnds, Operations
<1>3. Sound(w) /\ Turns(Now, w) /\ w.thread = thread
  BY ChildGoneSound, NowFields, KeepsSame, KeepsMoves DEF Moves
<1>4. CASE ~ thread[t].fresh
  <2>1. Moves(Now, Ends(w, t))
    BY <1>3, EndsKeeps, MovesOn DEF Moves
  <2> QED BY <1>1, <1>4, <2>1, MovesStep
<1>5. CASE thread[t].fresh
  <2> DEFINE y == TunnelError(Update(w, "failed", thread[t].code), t, thread[t].code)
  <2>1. Sound(y) /\ y.rt.state \in {"failed", "stopped"} /\ NoSpawn(w, y)
    BY <1>2, <1>3, <1>5, FailedEnds
  <2>2. Now.rt.state \in {"starting", "failed"}
    BY <1>2, <1>5, NowFields DEF Sound, Begun
  <2>3. Becomes(y)
    BY <1>1, <1>5
  <2> HIDE DEF y
  <2>4. Moves(Now, y)
    BY <1>3, <2>1, <2>2, NowFields DEF Moves, Turns, NoSpawn, Legal
  <2> QED BY <2>3, <2>4, MovesStep
<1> QED BY <1>4, <1>5

LEMMA RestartStep == ASSUME Sound(Now), RestartGoesOn PROVE Stepped
PROOF
<1>1. PICK confirmed \in BOOLEAN :
         LET w == RuntimeStopped(Now, "restart", confirmed)
         IN /\ ~ confirmed => child # None
            /\ \/ Becomes(RestartEnds(w))
               \/ Becomes(Show(To(w, "restart", "launch"), "starting", "ok"))
  BY DEF Goes, RestartGoesOn
<1> DEFINE w == RuntimeStopped(Now, "restart", confirmed)
           l == To(w, "restart", "launch")
           x == Show(l, "starting", "ok")
<1>2. Moves(Now, w)
  BY <1>1, NowFields, StoppedSound DEF Goes, RestartGoesOn, Moves, Threads
<1>3. Becomes(RestartEnds(w)) \/ Becomes(x)
  BY <1>1
<1> HIDE DEF w
<1>4. Yields(w, l)
  BY <1>2, ToLaunchYields DEF Moves, Sound, Threads
<1> HIDE DEF l
<1>5. Yields(l, x)
  BY <1>4, ShowDesk, DeskYields DEF Yields, TunnelStates, Codes
<1> HIDE DEF x
<1>6. Keeps(w, x)
  BY <1>2, <1>4, <1>5, YieldsTwice, YieldsKeeps DEF Moves
<1>7. Keeps(w, RestartEnds(w))
  BY <1>2, RestartEndsKeeps DEF Moves
<1> QED BY <1>2, <1>3, <1>6, <1>7, MovesOn, MovesStep

LEMMA StopStep == ASSUME Sound(Now), StopEnds PROVE Stepped
PROOF
<1>1. PICK confirmed \in BOOLEAN :
         /\ ~ confirmed => child # None
         /\ Becomes(StopDone(RuntimeStopped(Now, "stop", confirmed)))
  BY DEF Goes, StopEnds
<1> DEFINE w == RuntimeStopped(Now, "stop", confirmed)
<1>2. Moves(Now, w)
  BY <1>1, NowFields, StoppedSound DEF Goes, StopEnds, Moves, Threads
<1>3. Becomes(StopDone(w))
  BY <1>1
<1> HIDE DEF w
<1>4. Keeps(w, StopDone(w))
  BY <1>2, StopDoneKeeps DEF Moves
<1> QED BY <1>2, <1>3, <1>4, MovesOn, MovesStep

LEMMA GiveUpStep == ASSUME Sound(Now), StopGivesUpOnStart PROVE Stepped
PROOF BY StopServicesKeeps, KeepsStep DEF Goes, StopGivesUpOnStart

(* The steps of the client and of those that watch it. *)
LEMMA ExitsStep == ASSUME Sound(Now), ChildExits PROVE Stepped
PROOF BY ChildGoneSound, MovesStep DEF Goes, ChildExits, Moves

LEMMA RefusedStep == ASSUME Sound(Now), ClientRefused PROVE Stepped
PROOF
<1> DEFINE f == [Now EXCEPT !.child.fatal = TRUE]
           w == Update(f, "failed", "terminal")
           x == [w EXCEPT !.thread[child.of].code = "terminal"]
<1>1. child # None /\ child.fresh /\ (Becomes(w) \/ Becomes(x))
  BY DEF Goes, ClientRefused
<1>2. Now \in Connections /\ child \in Clients /\ rt \in Runtimes /\ thread \in [Threads -> Operations]
  BY <1>1, NowType
<1>3. [child EXCEPT !.fatal = TRUE] \in Clients
  BY <1>2 DEF Clients
<1>4. f.child = [child EXCEPT !.fatal = TRUE] /\ f.rt = rt /\ f.thread = thread
  BY DEF Now
<1>5. f \in Connections
  BY <1>2, <1>3, NowFields DEF Connections
<1> HIDE DEF f
<1>6. Updated(f, w, "failed", "terminal")
  BY <1>5, UpdateForm DEF TunnelStates, Codes
<1> HIDE DEF w
<1>7. /\ w \in Connections /\ w.thread = thread /\ w.child = [child EXCEPT !.fatal = TRUE]
      /\ w.rt = [rt EXCEPT !.state = "failed", !.code = "terminal"]
  BY <1>4, <1>6 DEF Updated
<1>8. x \in Connections /\ x.rt = w.rt /\ x.child = w.child /\ x.thread = [thread EXCEPT ![child.of].code = "terminal"]
  <2>1. child.of \in Threads
    BY <1>2 DEF Clients
  <2>2. [thread[child.of] EXCEPT !.code = "terminal"] \in Operations
    BY <1>2, <2>1 DEF Operations, Codes
  <2> QED BY <1>2, <1>7, <2>1, <2>2 DEF Connections
<1> HIDE DEF x
<1>9. \A u \in Threads : x.thread[u].fresh = thread[u].fresh /\ x.thread[u].pc = thread[u].pc
  <2> TAKE u \in Threads
  <2>1. x.thread[u] = IF u = child.of THEN [thread[u] EXCEPT !.code = "terminal"] ELSE thread[u]
    BY <1>2, <1>8
  <2>2. thread[u] \in Operations
    BY <1>2
  <2> QED BY <2>1, <2>2 DEF Operations
<1>10. rt.state # "stopped"
  BY <1>1, NowFields DEF Sound, Told
<1>11. /\ w.rt.state = "failed" /\ w.rt.report = rt.report /\ w.rt.stopping = rt.stopping
       /\ w.child # None /\ w.child.fatal /\ w.child.of = child.of /\ w.child.fresh = child.fresh
       /\ w.child.watched = child.watched
  <2>1. w.child \in Clients
    BY <1>3, <1>7
  <2> QED BY <2>1, <1>2, <1>7, Assumptions DEF Clients, Runtimes
<1>12. ASSUME NEW z \in Connections, z.rt = w.rt, z.child = w.child,
              \A u \in Threads : z.thread[u].fresh = thread[u].fresh /\ z.thread[u].pc = thread[u].pc
       PROVE  Moves(Now, z)
  <2>1. Alone(z) /\ Halting(z)
    BY <1>11, <1>12, NowFields DEF Sound, Alone, Halting
  <2>2. Told(z)
    BY <1>10, <1>11, <1>12, NowFields DEF Sound, Told, Live
  <2>3. Begun(z)
    BY <1>1, <1>11, <1>12, NowFields DEF Sound, Begun
  <2>4. NoSpawn(Now, z) /\ z.rt.state \in Legal(Now.rt.state)
    BY <1>2, <1>10, <1>11, <1>12, NowFields DEF NoSpawn, Legal, Runtimes, TunnelStates
  <2> QED BY <1>12, <2>1, <2>2, <2>3, <2>4 DEF Moves, Sound, Turns
<1>13. Moves(Now, w) /\ Moves(Now, x)
  BY <1>7, <1>8, <1>9, <1>12
<1> QED BY <1>1, <1>13, MovesStep

(* A client that is watched has no start waiting for it.                   *)
LEMMA WatchedIsDone ==
    ASSUME NEW w, Sound(w), w.child # None, w.child.watched
    PROVE  \A t \in Threads : ~ (w.thread[t].fresh /\ w.thread[t].pc \in {"prepare", "wait", "cleanup"})
PROOF BY DEF Sound, Begun

LEMMA ProbeStep ==
    ASSUME Sound(Now), NEW state \in {"running", "in_place", "degraded"}, Probes(state)
    PROVE  Stepped
PROOF
<1> DEFINE code == IF state = "running" THEN "ok" ELSE "transient"
           x == Update(Now, state, code)
<1>1. Becomes(x) /\ child # None /\ child.watched /\ child.fresh /\ ~ rt.stopping /\ rt.report = "ok"
      /\ ~ child.fatal
  BY DEF Goes, Probes, Monitoring
<1>2. code \in Codes /\ state \in TunnelStates /\ Now \in Connections /\ rt \in Runtimes
  BY NowType DEF Codes, TunnelStates
<1> HIDE DEF code
<1>3. Updated(Now, x, state, code)
  BY <1>2, UpdateForm
<1> HIDE DEF x
<1>4. /\ x \in Connections /\ x.child = child /\ x.thread = thread
      /\ x.rt.state = state /\ x.rt.stopping = rt.stopping /\ x.rt.report = rt.report
  BY <1>2, <1>3, NowFields DEF Updated, Runtimes
<1>5. rt.state \in Live
  BY <1>1, NowFields DEF Sound, Told
<1>6. Alone(x) /\ Told(x) /\ Halting(x)
  BY <1>1, <1>4, NowFields DEF Sound, Alone, Told, Halting, Live
<1>7. Begun(x)
  BY <1>1, <1>4, NowFields, WatchedIsDone DEF Begun
<1>8. Moves(Now, x)
  BY <1>4, <1>5, <1>6, <1>7, NowFields DEF Moves, Sound, Turns, NoSpawn, Legal, Live
<1> QED BY <1>1, <1>8, MovesStep

LEMMA KillStep ==
    ASSUME Sound(Now), NEW code \in {"transient", "terminal"}, MonitorKills(code)
    PROVE  Stepped
PROOF
<1> DEFINE x == [Now EXCEPT !.rt.report = code]
<1>1. Becomes(x) /\ child # None /\ child.watched /\ child.fresh /\ ~ rt.stopping
  BY DEF Goes, MonitorKills, Monitoring
<1>2. Now \in Connections /\ rt \in Runtimes
  BY NowType
<1>3. x.child = child /\ x.thread = thread /\ x.rt = [rt EXCEPT !.report = code]
  BY DEF Now
<1>4. x \in Connections
  BY <1>2 DEF Connections, Runtimes, Codes
<1> HIDE DEF x
<1>5. x.rt.state = rt.state /\ ~ x.rt.stopping /\ x.rt.report = code
  BY <1>1, <1>2, <1>3 DEF Runtimes
<1>6. Alone(x) /\ Told(x) /\ Halting(x)
  BY <1>1, <1>3, <1>5, NowFields DEF Sound, Alone, Told, Halting, Live
<1>7. Begun(x)
  BY <1>1, <1>3, NowFields, WatchedIsDone DEF Begun
<1>8. Moves(Now, x)
  BY <1>2, <1>3, <1>4, <1>5, <1>6, <1>7, NowFields DEF Moves, Sound, Turns, NoSpawn, Legal, Runtimes, TunnelStates
<1> QED BY <1>1, <1>8, MovesStep

LEMMA ReportStep == ASSUME Sound(Now), MonitorReports PROVE Stepped
PROOF
<1> DEFINE unwatched == [Now EXCEPT !.child.watched = FALSE]
<1>1. PICK confirmed \in BOOLEAN :
         LET w == IF confirmed THEN ChildGone(Now) ELSE unwatched
         IN /\ ~ confirmed => child # None
            /\ Becomes(Update([w EXCEPT !.rt.report = "ok"], "failed", rt.report))
  BY DEF Goes, MonitorReports
<1> DEFINE w == IF confirmed THEN ChildGone(Now) ELSE unwatched
           y == [w EXCEPT !.rt.report = "ok"]
           x == Update(y, "failed", rt.report)
<1>2. Becomes(x) /\ rt.report # "ok" /\ (~ confirmed => child # None)
  BY <1>1 DEF Goes, MonitorReports
<1>3. Now \in Connections /\ rt \in Runtimes /\ ~ rt.stopping /\ rt.state # "stopped"
  BY <1>2, NowType, NowFields DEF Sound, Told
<1>4. /\ w \in Connections /\ w.thread = thread /\ w.rt.stopping = rt.stopping
      /\ w.child # None => ~ w.child.watched
  <2>1. CASE confirmed
    <3>1. LET g == ChildGone(Now)
          IN Sound(g) /\ g.child = None /\ g.thread = Now.thread /\ g.rt.stopping = Now.rt.stopping
      BY ChildGoneSound
    <3>2. w = ChildGone(Now)
      BY <2>1
    <3> HIDE DEF w
    <3> QED BY <3>1, <3>2, NowFields DEF Sound
  <2>2. CASE ~ confirmed
    <3>1. child \in Clients
      BY <1>2, <2>2, NowType
    <3>2. [child EXCEPT !.watched = FALSE] \in Clients /\ ~ [child EXCEPT !.watched = FALSE].watched
      BY <3>1 DEF Clients
    <3>3. unwatched.child = [child EXCEPT !.watched = FALSE] /\ unwatched.rt = rt /\ unwatched.thread = thread
      BY DEF Now
    <3>4. unwatched \in Connections
      BY <1>3, <3>2, NowFields DEF Connections
    <3>5. w = unwatched
      BY <2>2
    <3> HIDE DEF w, unwatched
    <3> QED BY <3>2, <3>3, <3>4, <3>5
  <2> QED BY <2>1, <2>2
<1> HIDE DEF w
<1>5. y.rt = [w.rt EXCEPT !.report = "ok"] /\ y.child = w.child /\ y.thread = thread
  BY <1>4 DEF Connections
<1>6. y \in Connections /\ w.rt \in Runtimes
  BY <1>4 DEF Connections, Runtimes, Codes
<1> HIDE DEF y
<1>7. Updated(y, x, "failed", rt.report)
  BY <1>3, <1>6, UpdateForm DEF TunnelStates, Runtimes
<1> HIDE DEF x
<1>8. /\ x \in Connections /\ x.child = w.child /\ x.thread = thread
      /\ x.rt.state = "failed" /\ ~ x.rt.stopping /\ x.rt.report = "ok"
  BY <1>3, <1>4, <1>5, <1>6, <1>7 DEF Updated, Runtimes
<1>9. \A t \in Threads : thread[t].fresh => thread[t].pc \notin {"prepare", "wait", "cleanup", "stopping"}
  BY <1>2, <1>3, NowFields DEF Sound, Begun, Halting
<1>10. Alone(x) /\ Told(x) /\ Halting(x) /\ Begun(x)
  BY <1>4, <1>8, <1>9, NowFields DEF Sound, Alone, Told, Halting, Begun, Live
<1>11. Moves(Now, x)
  BY <1>3, <1>8, <1>10, NowFields DEF Moves, Sound, Turns, NoSpawn, Legal, Runtimes, TunnelStates
<1> QED BY <1>2, <1>11, MovesStep
-----------------------------------------------------------------------------
(* The theorems. *)

LEMMA NextSteps == ASSUME Sound(Now), [Next]_vars PROVE Stepped
PROOF
<1>1. CASE UserNext
  BY <1>1, UserSteps
<1>2. CASE \E s \in Starts : BootEnds(s)
  BY <1>2, BootStep
<1>3. ASSUME NEW t \in Starts \union {"restart"}, TunnelNext(t)
      PROVE  Stepped
  BY <1>3, LaunchStep, SpawnStep, ConnectStep, WaitStep, CleanupStep DEF TunnelNext
<1>4. CASE ClientNext
  BY <1>4, ExitsStep, RefusedStep, ProbeStep, KillStep, ReportStep DEF ClientNext
<1>5. CASE UNCHANGED vars
  <2>1. /\ desk' = desk /\ rt' = rt /\ child' = child /\ thread' = thread /\ starting' = starting
        /\ queued' = queued /\ watched' = watched /\ again' = again /\ up' = up /\ overlap' = overlap
    BY <1>5 DEF vars
  <2>2. Now' = Now
    BY <2>1 DEF Now
  <2>3. ~ Spawning
    BY <2>1 DEF Spawning
  <2>4. rt'.state \in Legal(rt.state)
    BY <2>1, NowType DEF Legal, Runtimes, TunnelStates
  <2> QED BY <2>2, <2>3, <2>4 DEF Stepped
<1>6. CASE TimerFires \/ ServiceExits \/ RestartGoesOn \/ StopEnds \/ StopGivesUpOnStart
  BY <1>6, TimerStep, ExitStep, RestartStep, StopStep, GiveUpStep
<1> QED BY <1>1, <1>2, <1>3, <1>4, <1>5, <1>6 DEF Next

LEMMA InitSound == Init => Sound(Now)
PROOF
<1> SUFFICES ASSUME Init PROVE Sound(Now)
  OBVIOUS
<1>1. \A t \in Threads : thread[t] = Idle
  BY DEF Init
<1>2. thread \in [Threads -> Operations]
  BY <1>1, IdleIsIdle DEF Init
<1>3. desk \in Desks /\ rt \in Runtimes
  BY DEF Init, Desks, Runtimes, TunnelStates, Codes
<1>4. Now \in Connections
  BY <1>2, <1>3 DEF Init, Now, Connections
<1>5. Alone(Now) /\ Begun(Now) /\ Halting(Now)
  BY <1>1, IdleIsIdle, NowFields DEF Alone, Begun, Halting
<1>6. Told(Now)
  BY NowFields DEF Init, Told, Live
<1> QED BY <1>4, <1>5, <1>6 DEF Sound

(* Whatever starts, restarts, stops and failures overlap, every variable   *)
(* keeps its type; with it, one operation at most owns the runtime, and    *)
(* what the runtime reports is so.                                         *)
THEOREM ConnectionTypes == Spec => []TypeOK
PROOF
<1> DEFINE Counted == /\ wanted \in {"no", "yes", "overlooked"}
                      /\ asks \in 0 .. MaxAsks /\ falls \in 0 .. MaxFalls
<1>1. Init => Sound(Now) /\ Counted
  BY InitSound, Assumptions DEF Init
<1>2. Sound(Now) /\ Counted /\ [Next]_vars => Sound(Now)' /\ Counted'
  <2> SUFFICES ASSUME Sound(Now), Counted, [Next]_vars PROVE Sound(Now)' /\ Counted'
    OBVIOUS
  <2>1. Sound(Now)'
    BY NextSteps DEF Stepped
  <2>2. Counted'
    <3>1. CASE UNCHANGED vars
      BY <3>1 DEF vars
    <3>2. CASE UserNext
      BY <3>2, Assumptions DEF UserNext, UserStarts, UserRetries, UserChangesSettings, UserStops, Asked
    <3>3. CASE ServiceExits
      BY <3>3, Assumptions DEF ServiceExits
    <3>4. ASSUME NEW b, Counts(b), NEW w, Goes(w) PROVE Counted'
      BY <3>4, Assumptions DEF Counts, Goes
    <3>5. ASSUME Next, ~ UserNext, ~ ServiceExits PROVE (\E b : Counts(b)) /\ \E w : Goes(w)
      <4>1. CASE TimerFires
        BY <4>1 DEF TimerFires
      <4>2. ASSUME NEW s \in Starts, BootEnds(s) PROVE (\E b : Counts(b)) /\ \E w : Goes(w)
        BY <4>2 DEF BootEnds
      <4>3. ASSUME NEW t \in Starts \union {"restart"}, TunnelNext(t)
            PROVE  (\E b : Counts(b)) /\ \E w : Goes(w)
        <5>1. CASE Launches(t)
          BY <5>1, Zenon DEF Launches
        <5>2. CASE Spawns(t)
          BY <5>2, Zenon DEF Spawns
        <5>3. CASE \E state \in {"running", "in_place"} : Connects(t, state)
          BY <5>3, Zenon DEF Connects
        <5>4. CASE WaitFails(t)
          BY <5>4, Zenon DEF WaitFails
        <5>5. CASE CleanupEnds(t)
          BY <5>5, Zenon DEF CleanupEnds
        <5> QED BY <4>3, <5>1, <5>2, <5>3, <5>4, <5>5 DEF TunnelNext
      <4>4. CASE RestartGoesOn
        BY <4>4, Zenon DEF RestartGoesOn
      <4>5. CASE StopEnds \/ StopGivesUpOnStart
        BY <4>5, Zenon DEF StopEnds, StopGivesUpOnStart
      <4>6. CASE ClientNext
        BY <4>6, Zenon DEF ClientNext, ChildExits, ClientRefused, Probes, MonitorKills, MonitorReports
      <4> QED BY <3>5, <4>1, <4>2, <4>3, <4>4, <4>5, <4>6 DEF Next
    <3> QED BY <3>1, <3>2, <3>3, <3>4, <3>5
  <2> QED BY <2>1, <2>2
<1>3. Sound(Now) /\ Counted => TypeOK
  BY NowType DEF TypeOK, Desks, Runtimes, Clients, Operations, Waits
<1> QED BY <1>1, <1>2, <1>3, PTL DEF Spec

(* Whatever overlaps, a client is spawned only when none is left: the      *)
(* start that finds the executable still owns the runtime only if nothing  *)
(* was launched or stopped since it looked for one.                        *)
THEOREM OneClientOnly == Spec => OneClient
PROOF
<1>1. Sound(Now) /\ [Next]_vars => Sound(Now)'
  BY NextSteps DEF Stepped
<1>2. Sound(Now) /\ [Next]_vars => [Spawning => child = None]_vars
  BY NextSteps DEF Stepped
<1> QED BY InitSound, <1>1, <1>2, PTL DEF Spec, OneClient

(* assertTunnelLifecycleTransition never throws: every change of the       *)
(* runtime's state is in its table.                                        *)
THEOREM TableFollowed == Spec => TransitionsLegal
PROOF
<1>1. Sound(Now) /\ [Next]_vars => Sound(Now)'
  BY NextSteps DEF Stepped
<1>2. Sound(Now) /\ [Next]_vars => [rt'.state \in Legal(rt.state)]_vars
  BY NextSteps DEF Stepped
<1> QED BY InitSound, <1>1, <1>2, PTL DEF Spec, TransitionsLegal

-----------------------------------------------------------------------------
(* A stop is final.  As above: first what the operators keep of a state,   *)
(* then the steps.                                                         *)

(* While the local service is down nobody is on the way to a client, and   *)
(* what is left of one is not watched any more.                            *)
Down(w) ==
    ~ w.up =>
        /\ w.rt.report = "ok"
        /\ w.child # None => ~ w.child.fresh
        /\ \A t \in Threads :
              /\ w.thread[t].fresh => w.thread[t].pc \notin {"prepare", "wait", "cleanup"}
              /\ w.thread[t].pc = "launch" => ~ w.thread[t].valid

(* Who boots the service, with a token of its own, is the start to join,   *)
(* and it boots a service that is down.                                    *)
Booted(w) ==
    /\ \A t \in Threads : w.thread[t].valid /\ w.thread[t].pc = "boot" => w.starting = t
    /\ w.starting # None /\ w.thread[w.starting].pc = "boot" => ~ w.up

(* A stop finds the service down and nobody that boots it. *)
Ending(w) ==
    Busy(w, "stop") => ~ w.up /\ \A t \in Threads : w.thread[t].pc = "boot" => ~ w.thread[t].valid

Orderly(w) == w \in Connections /\ Down(w) /\ Booted(w) /\ Ending(w)

(* Only during a stop somebody waits for its end. *)
Awaited(w) == w.again \/ w.thread["restart"].pc = "awaitStop" => Busy(w, "stop")

(* After a stop: nothing is asked for or waits for the end of the stop. *)
Settled(w) ==
    /\ "valid" \notin w.queued /\ ~ w.again /\ w.thread["restart"].pc # "awaitStop"
    /\ w.starting = None

Closed(w) == Settled(w) /\ ~ w.up

(* From w to an orderly x nobody begins to wait, and a closed connection   *)
(* stays closed.                                                           *)
Onward(w, x) ==
    /\ Orderly(x)
    /\ Awaited(w) => Awaited(x)
    /\ Closed(w) => Closed(x)

(* The supervisor has nothing to do. *)
Asleep(w) == ~ w.desk.timer /\ w.desk.attempt # "current"

(* From w to x the supervisor gets nothing to do. *)
Calmer(w, x) ==
    /\ x.desk.timer => w.desk.timer
    /\ x.desk.attempt = "current" => w.desk.attempt = "current"

(* From w to x the tunnel is reported on, and no operation moves. *)
Reports(w, x) ==
    /\ x \in Connections
    /\ x.thread = w.thread /\ x.starting = w.starting /\ x.queued = w.queued
    /\ x.watched = w.watched /\ x.again = w.again /\ x.up = w.up
    /\ x.rt.report = w.rt.report /\ x.child \in {None, w.child}

LEMMA OnwardTwice ==
    ASSUME NEW w, NEW x, NEW y, Onward(w, x), Onward(x, y)
    PROVE  Onward(w, y)
PROOF BY DEF Onward

LEMMA OnwardSame == ASSUME NEW w, Orderly(w) PROVE Onward(w, w)
PROOF BY DEF Onward

LEMMA ReportsTwice ==
    ASSUME NEW w, NEW x, NEW y, Reports(w, x), Reports(x, y)
    PROVE  Reports(w, y)
PROOF BY DEF Reports

LEMMA ReportsSame == ASSUME NEW w \in Connections PROVE Reports(w, w)
PROOF BY DEF Reports

LEMMA DeskReports == ASSUME NEW w, NEW x, DeskOnly(w, x) PROVE Reports(w, x)
PROOF BY DEF DeskOnly, Reports

LEMMA UpdateReports ==
    ASSUME NEW w \in Connections, NEW state \in TunnelStates, NEW code \in Codes
    PROVE  Reports(w, Update(w, state, code))
PROOF
<1> DEFINE x == Update(w, state, code)
<1>1. Updated(w, x, state, code)
  BY UpdateForm
<1> HIDE DEF x
<1>2. x.rt.report = w.rt.report
  BY <1>1 DEF Updated, Connections, Runtimes
<1> QED BY <1>1, <1>2 DEF Updated, Reports, x

LEMMA ReportsOrderly ==
    ASSUME NEW w, Orderly(w), NEW x, Reports(w, x)
    PROVE  Onward(w, x)
PROOF
<1>1. Down(x)
  BY DEF Orderly, Down, Reports
<1>2. Booted(x)
  BY DEF Orderly, Booted, Reports
<1>3. Ending(x)
  BY DEF Orderly, Ending, Reports, Busy
<1>4. (Awaited(w) => Awaited(x)) /\ (Closed(w) => Closed(x))
  BY DEF Awaited, Busy, Closed, Settled, Reports
<1> QED BY <1>1, <1>2, <1>3, <1>4 DEF Onward, Orderly, Reports

(* Operation t turns to something else than to boot or to launch. *)
LEMMA TurnedOrderly ==
    ASSUME NEW w, Orderly(w), NEW t \in Threads \ {"stop"},
           NEW op \in Operations, ~ op.fresh, ~ op.valid, op.pc \notin {"boot", "awaitStop"}
    PROVE  LET x == [w EXCEPT !.thread[t] = op]
           IN Onward(w, x)
PROOF
<1> DEFINE x == [w EXCEPT !.thread[t] = op]
<1>1. /\ x \in Connections /\ x.rt = w.rt /\ x.child = w.child /\ x.starting = w.starting
      /\ x.again = w.again /\ x.up = w.up /\ x.queued = w.queued
      /\ \A u \in Threads : x.thread[u] = IF u = t THEN op ELSE w.thread[u]
  BY DEF Orderly, Connections
<1> HIDE DEF x
<1>2. Down(x)
  BY <1>1 DEF Orderly, Down
<1>3. Booted(x)
  BY <1>1, Assumptions DEF Orderly, Booted, Connections, Threads
<1>4. Ending(x)
  BY <1>1 DEF Orderly, Ending, Busy, Threads
<1>5. (Awaited(w) => Awaited(x)) /\ (Closed(w) => Closed(x))
  BY <1>1 DEF Awaited, Busy, Closed, Settled, Threads
<1> QED BY <1>1, <1>2, <1>3, <1>4, <1>5 DEF Onward, Orderly, x

LEMMA TokenForm ==
    ASSUME NEW w \in Connections, NEW t
    PROVE  LET x == NewToken(w, t)
           IN /\ x \in Connections /\ x.rt = w.rt /\ x.child = w.child /\ x.starting = w.starting
              /\ x.again = w.again /\ x.up = w.up /\ x.queued = w.queued /\ x.desk = w.desk
              /\ x.watched = w.watched
              /\ \A u \in Threads : /\ x.thread[u].fresh = w.thread[u].fresh
                                    /\ x.thread[u].pc = w.thread[u].pc
                                    /\ x.thread[u].waits = w.thread[u].waits
                                    /\ x.thread[u].valid = (u = t)
PROOF
<1> DEFINE x == NewToken(w, t)
<1>1. Yields(w, x) /\ x.thread = [u \in Threads |-> [w.thread[u] EXCEPT !.valid = (u = t)]]
      /\ x = [w EXCEPT !.thread = x.thread]
  BY TokenYields
<1> HIDE DEF x
<1>2. x \in Connections
  BY <1>1 DEF Yields
<1>3. \A u \in Threads : /\ x.thread[u].fresh = w.thread[u].fresh
                         /\ x.thread[u].pc = w.thread[u].pc
                         /\ x.thread[u].waits = w.thread[u].waits
                         /\ x.thread[u].valid = (u = t)
  BY <1>1 DEF Connections, Operations
<1>4. /\ x.rt = w.rt /\ x.child = w.child /\ x.starting = w.starting
      /\ x.again = w.again /\ x.up = w.up /\ x.queued = w.queued /\ x.desk = w.desk
      /\ x.watched = w.watched
  BY <1>1 DEF Connections
<1> QED BY <1>2, <1>3, <1>4 DEF x

(* Only t keeps a token, and it is not about to launch. *)
LEMMA TokenOrderly ==
    ASSUME NEW w, Orderly(w), NEW t, t \in Threads => w.thread[t].pc \notin {"launch", "boot"}
    PROVE  LET x == NewToken(w, t)
           IN Onward(w, x) /\ x.desk = w.desk
PROOF
<1> DEFINE x == NewToken(w, t)
<1>1. w \in Connections
  BY DEF Orderly
<1>2. /\ x \in Connections /\ x.rt = w.rt /\ x.child = w.child /\ x.starting = w.starting
      /\ x.again = w.again /\ x.up = w.up /\ x.queued = w.queued /\ x.desk = w.desk
      /\ \A u \in Threads : /\ x.thread[u].fresh = w.thread[u].fresh
                            /\ x.thread[u].pc = w.thread[u].pc
                            /\ x.thread[u].valid = (u = t)
  BY <1>1, TokenForm
<1> HIDE DEF x
<1>3. Down(x)
  BY <1>2 DEF Orderly, Down
<1>4. Booted(x)
  <2>1. w.starting \in Starts \union {None} /\ Starts \subseteq Threads /\ Booted(w)
    BY DEF Orderly, Connections, Threads
  <2>2. \A u \in Threads : ~ (x.thread[u].valid /\ x.thread[u].pc = "boot")
    BY <1>2
  <2> QED BY <2>1, <2>2, <1>2 DEF Booted
<1>5. Ending(x)
  BY <1>2 DEF Orderly, Ending, Busy, Threads
<1>6. (Awaited(w) => Awaited(x)) /\ (Closed(w) => Closed(x))
  BY <1>2 DEF Awaited, Busy, Closed, Settled, Threads
<1> QED BY <1>2, <1>3, <1>4, <1>5, <1>6 DEF Onward, Orderly, x

-----------------------------------------------------------------------------
(* The service runtime. *)

LEMMA BootOrderly ==
    ASSUME NEW w, Orderly(w), ~ w.up, ~ Busy(w, "stop")
    PROVE  Orderly(Boot(w)) /\ Boot(w).up = w.up /\ Boot(w).again = w.again
           /\ Boot(w).thread["stop"].pc = w.thread["stop"].pc
           /\ Boot(w).thread["restart"].pc = w.thread["restart"].pc
PROOF
<1>0. w \in Connections
  BY DEF Orderly
<1>1. CASE w.starting # None \/ \A s \in Starts : Busy(w, s)
  BY <1>1 DEF Boot
<1>2. CASE ~ (w.starting # None \/ \A s \in Starts : Busy(w, s))
  <2> DEFINE s == CHOOSE s \in Starts : ~ Busy(w, s)
             op == [Idle EXCEPT !.pc = "boot"]
             y == [w EXCEPT !.thread[s] = op, !.starting = s]
             z == NewToken(y, s)
             v == Show(z, "starting", "ok")
             x == [v EXCEPT !.desk.server = FALSE]
  <2>1. s \in Starts /\ s \in Threads /\ s # "stop" /\ s # "restart" /\ s # None
    BY <1>2, Assumptions DEF Threads
  <2>2. Boot(w) = x
    BY <1>2 DEF Boot
  <2> HIDE DEF s
  <2>3. op \in Operations /\ ~ op.fresh /\ ~ op.valid /\ op.pc = "boot"
    BY IdleOperation DEF Waits
  <2> HIDE DEF op
  <2>4. /\ y \in Connections /\ y.rt = w.rt /\ y.child = w.child /\ y.starting = s
        /\ y.again = w.again /\ y.up = w.up
        /\ \A u \in Threads : y.thread[u] = IF u = s THEN op ELSE w.thread[u]
    BY <1>0, <2>1, <2>3 DEF Connections
  <2> HIDE DEF y
  <2>5. /\ z \in Connections /\ z.rt = y.rt /\ z.child = y.child /\ z.starting = y.starting
        /\ z.again = y.again /\ z.up = y.up
        /\ \A u \in Threads : /\ z.thread[u].fresh = y.thread[u].fresh
                              /\ z.thread[u].pc = y.thread[u].pc
                              /\ z.thread[u].valid = (u = s)
    BY <2>4, TokenForm
  <2> HIDE DEF z
  <2>6. Down(z)
    <3>1. z.rt = w.rt /\ z.child = w.child /\ Down(w)
      BY <2>4, <2>5 DEF Orderly
    <3>2. ASSUME NEW u \in Threads
          PROVE  /\ z.thread[u].fresh => w.thread[u].fresh /\ z.thread[u].pc = w.thread[u].pc
                 /\ z.thread[u].valid => z.thread[u].pc = "boot"
      <4>1. CASE u = s
        BY <4>1, <2>1, <2>3, <2>4, <2>5
      <4>2. CASE u # s
        <5>1. z.thread[u].fresh = w.thread[u].fresh /\ z.thread[u].pc = w.thread[u].pc
          BY <4>2, <2>4, <2>5
        <5>2. z.thread[u].valid = FALSE
          BY <4>2, <2>5
        <5> QED BY <5>1, <5>2
      <4> QED BY <4>1, <4>2
    <3> QED BY <3>1, <3>2 DEF Down
  <2>7. Booted(z)
    BY <2>1, <2>3, <2>4, <2>5 DEF Booted
  <2>8. Ending(z)
    BY <2>1, <2>3, <2>4, <2>5 DEF Orderly, Ending, Busy, Threads
  <2>9. DeskOnly(z, v)
    BY <2>5, ShowDesk DEF TunnelStates, Codes
  <2>10. v \in Connections
    BY <2>9 DEF DeskOnly
  <2> HIDE DEF v
  <2>11. DeskOnly(v, x)
    BY <2>10, ServerDesk
  <2>12. Reports(z, x)
    BY <2>9, <2>11, DeskTwice, DeskReports
  <2>13. Orderly(x)
    BY <2>5, <2>6, <2>7, <2>8, <2>12, ReportsOrderly DEF Orderly, Onward
  <2>14. /\ x.up = w.up /\ x.again = w.again /\ x.thread["stop"].pc = w.thread["stop"].pc
         /\ x.thread["restart"].pc = w.thread["restart"].pc
    BY <2>1, <2>4, <2>5, <2>12 DEF Reports, Threads
  <2> QED BY <2>2, <2>13, <2>14
<1> QED BY <1>1, <1>2
-----------------------------------------------------------------------------
(* What the supervisor is told. *)

(* A report that schedules nothing. *)
Harmless(state, code) ==
    state \in {"running", "in_place", "stopped", "starting"} \/ (state = "failed" /\ code = "terminal")

LEMMA CalmerTwice ==
    ASSUME NEW w, NEW x, NEW y, Calmer(w, x), Calmer(x, y)
    PROVE  Calmer(w, y)
PROOF BY DEF Calmer

LEMMA CalmerAsleep ==
    ASSUME NEW w, NEW x, Asleep(w), Calmer(w, x)
    PROVE  Asleep(x)
PROOF BY DEF Calmer, Asleep

LEMMA CancelledCalmer == ASSUME NEW w \in Connections PROVE Calmer(w, Cancelled(w)) /\ Asleep(Cancelled(w))
PROOF BY DEF Connections, Desks, Cancelled, Calmer, Asleep

LEMMA ShowCalmer ==
    ASSUME NEW w \in Connections, NEW state, NEW code
    PROVE  Calmer(w, Show(w, state, code))
PROOF BY DEF Connections, Desks, Show, Calmer

LEMMA ServerCalmer ==
    ASSUME NEW w \in Connections, NEW b
    PROVE  Calmer(w, [w EXCEPT !.desk.server = b]) /\ Calmer(w, [w EXCEPT !.desk.lost = b])
PROOF BY DEF Connections, Desks, Calmer

LEMMA ObserveCalmer ==
    ASSUME NEW w \in Connections, NEW state, NEW code, Harmless(state, code)
    PROVE  Calmer(w, Observe(w, state, code))
PROOF
<1>1. Observe(w, state, code) \in {w, Cancelled(w)}
  BY DEF Observe, Harmless
<1>2. Calmer(w, w)
  BY DEF Calmer
<1> QED BY <1>1, <1>2, CancelledCalmer

LEMMA HandleCalmer ==
    ASSUME NEW w \in Connections, NEW state \in TunnelStates, NEW code \in Codes, Harmless(state, code)
    PROVE  Calmer(w, HandleTunnelStatus(w, state, code))
PROOF
<1> DEFINE seen == Observe(w, state, code)
           shown == Show(w, state, code)
<1>1. DeskOnly(w, seen) /\ DeskOnly(w, shown)
  BY ObserveDesk, ShowDesk
<1>2. seen \in Connections /\ shown \in Connections
  BY <1>1 DEF DeskOnly
<1>3. /\ Calmer(w, seen) /\ Calmer(w, shown)
      /\ Calmer(shown, Observe(shown, state, code))
      /\ Calmer(seen, [seen EXCEPT !.desk.lost = TRUE])
      /\ Calmer(seen, Show(seen, state, code))
  BY <1>2, ObserveCalmer, ShowCalmer, ServerCalmer
<1>4. HandleTunnelStatus(w, state, code) \in
          {Observe(shown, state, code), [seen EXCEPT !.desk.lost = TRUE], seen, Show(seen, state, code)}
  BY DEF HandleTunnelStatus
<1>5. Calmer(w, Observe(shown, state, code))
  BY <1>3, CalmerTwice
<1>6. Calmer(w, [seen EXCEPT !.desk.lost = TRUE])
  BY <1>3, CalmerTwice
<1>7. Calmer(w, Show(seen, state, code))
  BY <1>3, CalmerTwice
<1> HIDE DEF seen, shown
<1> QED BY <1>3, <1>4, <1>5, <1>6, <1>7

LEMMA UpdateCalmer ==
    ASSUME NEW w \in Connections, NEW state \in TunnelStates, NEW code \in Codes, Harmless(state, code)
    PROVE  Calmer(w, Update(w, state, code))
PROOF
<1> DEFINE y == [w EXCEPT !.rt.state = state, !.rt.code = code, !.desk.lost = FALSE]
<1>1. y \in Connections /\ Calmer(w, y)
  BY DEF Connections, Desks, Runtimes, Calmer
<1> HIDE DEF y
<1>2. Calmer(y, HandleTunnelStatus(y, state, code))
  BY <1>1, HandleCalmer
<1>3. Calmer(w, HandleTunnelStatus(y, state, code))
  BY <1>1, <1>2, CalmerTwice
<1> QED BY <1>3 DEF Update, y

LEMMA StopsCalmer ==
    ASSUME NEW w \in Connections, NEW t \in Threads
    PROVE  Calmer(w, RuntimeStops(w, t))
PROOF
<1> DEFINE g == NewGeneration(w, t)
           y == [g EXCEPT !.rt.stopping = TRUE, !.thread[t].pc = "stopping"]
<1>1. g \in Connections /\ g.desk = w.desk
  BY GenerationForm
<1>2. RuntimeStops(w, t) \in {y, Update(y, "stopped", "ok")}
  BY DEF RuntimeStops
<1> HIDE DEF g
<1>3. y \in Connections /\ y.desk = w.desk
  <2>1. g.thread[t] \in Operations /\ g.rt \in Runtimes /\ g.thread \in [Threads -> Operations]
    BY <1>1 DEF Connections
  <2>2. [g.thread[t] EXCEPT !.pc = "stopping"] \in Operations /\ [g.rt EXCEPT !.stopping = TRUE] \in Runtimes
    BY <2>1 DEF Operations, Waits, Runtimes
  <2>3. [g.thread EXCEPT ![t] = [g.thread[t] EXCEPT !.pc = "stopping"]] \in [Threads -> Operations]
    BY <2>1, <2>2
  <2> QED BY <1>1, <2>2, <2>3 DEF Connections
<1> HIDE DEF y
<1>4. Calmer(y, Update(y, "stopped", "ok"))
  BY <1>3, UpdateCalmer DEF Harmless, TunnelStates, Codes
<1> QED BY <1>2, <1>3, <1>4 DEF Calmer

-----------------------------------------------------------------------------
(* Operations of the service runtime, again. *)

LEMMA RestartBodyOrderly ==
    ASSUME NEW w, Orderly(w)
    PROVE  LET x == RestartBody(w)
           IN /\ Onward(w, x) /\ Calmer(w, x) /\ x.up = w.up /\ x.again = w.again
              /\ x.thread["restart"].pc = "stopping" /\ x.thread["stop"].pc = w.thread["stop"].pc
PROOF
<1> DEFINE y == [w EXCEPT !.thread["restart"] = Idle]
           z == NewToken(y, "restart")
           x == RuntimeStops(z, "restart")
<1>0. w \in Connections /\ "restart" \in Threads \ {"stop"}
  BY DEF Orderly, Threads
<1>1. /\ Onward(w, y) /\ y.desk = w.desk /\ y.thread["restart"].pc = "idle"
      /\ y.up = w.up /\ y.again = w.again /\ y.thread["stop"] = w.thread["stop"]
  <2>1. Onward(w, y)
    BY <1>0, IdleIsIdle, TurnedOrderly
  <2>2. /\ y.desk = w.desk /\ y.thread["restart"] = Idle
        /\ y.up = w.up /\ y.again = w.again /\ y.thread["stop"] = w.thread["stop"]
    BY <1>0 DEF Connections, Threads
  <2> QED BY <2>1, <2>2, IdleIsIdle
<1>2. RestartBody(w) = x
  BY DEF RestartBody
<1> HIDE DEF y
<1>3. Onward(y, z) /\ z.desk = y.desk
  BY <1>1, TokenOrderly DEF Onward
<1>4. /\ z.thread["restart"].pc = "idle" /\ \A u \in Threads : z.thread[u].valid = (u = "restart")
      /\ z.up = y.up /\ z.again = y.again /\ z.thread["stop"].pc = y.thread["stop"].pc
  BY <1>0, <1>1, TokenForm DEF Onward, Orderly, Threads
<1> HIDE DEF z
<1>5. z \in Connections /\ Orderly(z)
  BY <1>3 DEF Onward, Orderly
<1>6. /\ x \in Connections
      /\ \A u \in Threads :
            /\ x.thread[u].fresh = (u = "restart")
            /\ x.thread[u].pc = IF u = "restart" THEN "stopping" ELSE z.thread[u].pc
            /\ x.thread[u].valid = z.thread[u].valid
      /\ x.child = IF z.child = None THEN None ELSE [z.child EXCEPT !.fresh = FALSE]
      /\ x.rt.report = "ok"
      /\ x.starting = z.starting /\ x.queued = z.queued
      /\ x.again = z.again /\ x.up = z.up
  BY <1>0, <1>5, StopsForm
<1>7. Calmer(z, x)
  BY <1>0, <1>5, StopsCalmer
<1> HIDE DEF x
<1>8. Down(x)
  <2>1. x.child # None => ~ x.child.fresh
    BY <1>5, <1>6 DEF Connections, Clients
  <2>2. ASSUME NEW u \in Threads
        PROVE  /\ x.thread[u].fresh => x.thread[u].pc = "stopping"
               /\ x.thread[u].valid => x.thread[u].pc = "stopping"
    BY <1>4, <1>6
  <2> QED BY <1>6, <2>1, <2>2 DEF Down
<1>9. Booted(x)
  <2>1. ASSUME NEW u \in Threads, x.thread[u].valid PROVE x.thread[u].pc = "stopping"
    BY <1>4, <1>6, <2>1
  <2>2. x.starting # None => x.starting \in Threads /\ x.thread[x.starting].pc = z.thread[x.starting].pc
    BY <1>5, <1>6, Assumptions DEF Connections, Threads
  <2> QED BY <2>1, <2>2, <1>5, <1>6 DEF Orderly, Booted
<1>10. Ending(x)
  <2>1. ASSUME NEW u \in Threads, x.thread[u].valid PROVE x.thread[u].pc = "stopping"
    BY <1>4, <1>6, <2>1
  <2>2. x.thread["stop"].pc = z.thread["stop"].pc /\ x.thread["restart"].pc = "stopping"
    BY <1>6 DEF Threads
  <2> QED BY <2>1, <2>2, <1>5, <1>6 DEF Orderly, Ending, Busy
<1>11. Onward(z, x)
  <2>1. (Closed(z) => Closed(x)) /\ (Awaited(z) => Awaited(x))
    BY <1>0, <1>6 DEF Awaited, Busy, Closed, Settled, Threads
  <2> QED BY <2>1, <1>6, <1>8, <1>9, <1>10 DEF Onward, Orderly
<1>12. Onward(w, x)
  BY <1>1, <1>3, <1>11, OnwardTwice
<1>13. /\ Calmer(w, x) /\ x.up = w.up /\ x.again = w.again
       /\ x.thread["restart"].pc = "stopping" /\ x.thread["stop"].pc = w.thread["stop"].pc
  BY <1>0, <1>1, <1>3, <1>4, <1>6, <1>7 DEF Calmer, Threads
<1> QED BY <1>2, <1>12, <1>13

LEMMA StopServicesOrderly ==
    ASSUME NEW w \in Connections,
           \A u \in Threads : w.thread[u].valid => w.thread[u].pc \notin {"launch", "boot"}
    PROVE  LET x == StopServices(w)
           IN /\ Orderly(x) /\ Awaited(x) /\ (Settled(w) => Closed(x)) /\ Calmer(w, x)
              /\ Busy(x, "stop") /\ x.thread["restart"].pc = w.thread["restart"].pc
PROOF
<1> DEFINE z == [w EXCEPT !.up = FALSE]
           x == RuntimeStops(z, "stop")
<1>1. /\ z \in Connections /\ z.child = w.child /\ z.thread = w.thread /\ z.starting = w.starting
      /\ z.queued = w.queued /\ z.again = w.again /\ ~ z.up /\ z.desk = w.desk
  BY DEF Connections
<1>2. StopServices(w) = x
  BY DEF StopServices
<1> HIDE DEF z
<1>3. "stop" \in Threads /\ "restart" \in Threads
  BY DEF Threads
<1>6. /\ x \in Connections
      /\ \A u \in Threads :
            /\ x.thread[u].fresh = (u = "stop")
            /\ x.thread[u].pc = IF u = "stop" THEN "stopping" ELSE z.thread[u].pc
            /\ x.thread[u].valid = z.thread[u].valid
      /\ x.child = IF z.child = None THEN None ELSE [z.child EXCEPT !.fresh = FALSE]
      /\ x.rt.report = "ok"
      /\ x.starting = z.starting /\ x.queued = z.queued
      /\ x.again = z.again /\ x.up = z.up
  BY <1>1, <1>3, StopsForm
<1>7. Calmer(z, x)
  BY <1>1, <1>3, StopsCalmer
<1> HIDE DEF x
<1>4. ASSUME NEW u \in Threads, x.thread[u].valid PROVE x.thread[u].pc \notin {"launch", "boot"}
  BY <1>1, <1>6, <1>4
<1>5. x.thread["stop"].pc = "stopping" /\ x.thread["restart"].pc = w.thread["restart"].pc /\ ~ x.up
  BY <1>1, <1>3, <1>6
<1>8. Down(x)
  <2>1. x.child # None => ~ x.child.fresh
    BY <1>1, <1>6 DEF Connections, Clients
  <2>2. ASSUME NEW u \in Threads PROVE x.thread[u].fresh => x.thread[u].pc = "stopping"
    BY <1>6
  <2> QED BY <1>4, <1>6, <2>1, <2>2 DEF Down
<1>9. Booted(x)
  BY <1>4, <1>5 DEF Booted
<1>10. Ending(x)
  BY <1>4, <1>5 DEF Ending, Busy
<1>11. Awaited(x) /\ (Settled(w) => Closed(x))
  BY <1>1, <1>5, <1>6 DEF Awaited, Busy, Closed, Settled
<1> QED BY <1>1, <1>2, <1>5, <1>6, <1>7, <1>8, <1>9, <1>10, <1>11 DEF Orderly, Calmer, Busy

LEMMA RestartAwakeOrderly ==
    ASSUME NEW w, Orderly(w), ~ Busy(w, "stop"), ~ w.again
    PROVE  LET x == RestartAwake(w)
           IN Orderly(x) /\ Awaited(x) /\ ~ x.again /\ ~ Busy(x, "stop") /\ x.up = w.up
PROOF
<1>1. ASSUME NEW y, Orderly(y), ~ Busy(y, "stop"), ~ y.again, NEW pc \in {"delegated", "awaitStart"}
      PROVE  LET x == [y EXCEPT !.thread["restart"] = [Idle EXCEPT !.pc = pc, !.waits = y.starting]]
             IN Orderly(x) /\ Awaited(x) /\ ~ x.again /\ ~ Busy(x, "stop") /\ x.up = y.up
  <2> DEFINE op == [Idle EXCEPT !.pc = pc, !.waits = y.starting]
             x == [y EXCEPT !.thread["restart"] = op]
  <2>1. y \in Connections /\ y.starting \in Starts \union {None}
    BY <1>1 DEF Orderly, Connections
  <2>2. op \in Operations /\ ~ op.fresh /\ ~ op.valid /\ op.pc = pc
    <3>1. pc \in Waits
      BY DEF Waits
    <3> QED BY <2>1, <3>1, IdleOperation
  <2> HIDE DEF op
  <2>3. Orderly(x)
    BY <1>1, <2>2, TurnedOrderly DEF Onward, Threads
  <2>4. ~ x.again /\ ~ Busy(x, "stop") /\ x.thread["restart"].pc = pc /\ x.up = y.up
    BY <1>1, <2>1, <2>2 DEF Connections, Threads, Busy
  <2> QED BY <2>3, <2>4 DEF Awaited, op
<1>2. CASE ~ w.up
  <2> DEFINE b == Boot(w)
  <2>1. Orderly(b) /\ ~ b.again /\ ~ Busy(b, "stop") /\ b.up = w.up
    BY <1>2, BootOrderly DEF Busy
  <2>2. RestartAwake(w) = [b EXCEPT !.thread["restart"] = [Idle EXCEPT !.pc = "delegated", !.waits = b.starting]]
    BY <1>2 DEF RestartAwake
  <2> HIDE DEF b
  <2> QED BY <1>1, <2>1, <2>2
<1>3. CASE w.up /\ w.starting # None
  <2>1. RestartAwake(w) = [w EXCEPT !.thread["restart"] = [Idle EXCEPT !.pc = "awaitStart", !.waits = w.starting]]
    BY <1>3 DEF RestartAwake
  <2> QED BY <1>1, <2>1
<1>4. CASE w.up /\ w.starting = None
  <2>1. RestartAwake(w) = RestartBody(w)
    BY <1>4 DEF RestartAwake
  <2> QED BY <2>1, RestartBodyOrderly DEF Onward, Awaited, Busy
<1> QED BY <1>2, <1>3, <1>4

LEMMA RestartOrderly ==
    ASSUME NEW w, Orderly(w), Awaited(w)
    PROVE  LET x == Restart(w) IN Orderly(x) /\ Awaited(x)
PROOF
<1>1. CASE Busy(w, "restart")
  BY <1>1 DEF Restart
<1>2. CASE ~ Busy(w, "restart") /\ Busy(w, "stop")
  <2> DEFINE op == [Idle EXCEPT !.pc = "awaitStop"]
             x == [w EXCEPT !.thread["restart"] = op]
  <2>1. op \in Operations /\ ~ op.fresh /\ ~ op.valid /\ op.pc = "awaitStop"
    BY IdleOperation DEF Waits
  <2> HIDE DEF op
  <2>2. /\ x \in Connections /\ x.rt = w.rt /\ x.child = w.child /\ x.starting = w.starting
        /\ x.again = w.again /\ x.up = w.up /\ x.queued = w.queued
        /\ \A u \in Threads : x.thread[u] = IF u = "restart" THEN op ELSE w.thread[u]
    BY <2>1 DEF Orderly, Connections, Threads
  <2>3. Restart(w) = x
    BY <1>2 DEF Restart, op
  <2> HIDE DEF x
  <2>4. Down(x)
    BY <2>1, <2>2 DEF Orderly, Down
  <2>5. Booted(x)
    BY <2>1, <2>2, Assumptions DEF Orderly, Booted, Connections, Threads
  <2>6. Ending(x)
    BY <2>1, <2>2 DEF Orderly, Ending, Busy, Threads
  <2>7. Awaited(x)
    BY <1>2, <2>2 DEF Awaited, Busy, Threads
  <2> QED BY <2>2, <2>3, <2>4, <2>5, <2>6, <2>7 DEF Orderly
<1>3. CASE ~ Busy(w, "restart") /\ ~ Busy(w, "stop")
  <2>1. ~ w.again
    BY <1>3 DEF Awaited
  <2>2. Restart(w) = RestartAwake(w)
    BY <1>3 DEF Restart
  <2> QED BY <1>3, <2>1, <2>2, RestartAwakeOrderly
<1> QED BY <1>1, <1>2, <1>3

(* From w to x only the result of a settings restart may schedule a retry. *)
Quiet(w, x) ==
    /\ x.desk.attempt # "current"
    /\ x.desk.timer => (w.watched \/ w.queued # {}) /\ Busy(w, "restart") /\ ~ Busy(x, "restart")

LEMMA RestartEndsOrderly ==
    ASSUME NEW w, Orderly(w), Awaited(w)
    PROVE  LET x == RestartEnds(w)
           IN Onward(w, x) /\ (Closed(w) /\ Asleep(w) /\ Busy(w, "restart") => Quiet(w, x))
PROOF
<1> DEFINE idle == [w EXCEPT !.thread["restart"] = Idle]
           settled == AttemptSettles(idle)
           seen == Observe(settled, settled.desk.tunnel, settled.desk.code)
           shown == w.watched \/ "revoked" \in w.queued
           watcher == IF shown THEN seen ELSE settled
           free == [watcher EXCEPT !.watched = "valid" \in w.queued, !.queued = {}]
<1>1. Onward(w, idle) /\ idle.desk = w.desk /\ idle.thread["restart"].pc = "idle"
  <2>1. Onward(w, idle)
    BY IdleIsIdle, TurnedOrderly DEF Threads
  <2>2. idle.desk = w.desk /\ idle.thread["restart"] = Idle
    BY DEF Orderly, Connections, Threads
  <2> QED BY <2>1, <2>2, IdleIsIdle
<1>2. RestartEnds(w) = IF "valid" \in w.queued THEN Restart(free) ELSE free
  BY DEF RestartEnds
<1> HIDE DEF idle
<1>3. idle \in Connections
  BY <1>1 DEF Onward, Orderly
<1>4. /\ DeskOnly(idle, settled)
      /\ Asleep(idle) => Asleep(settled)
  <2>1. DeskOnly(idle, settled)
    BY <1>3, SettlesDesk
  <2>2. idle.desk.attempt # "current" => settled = [idle EXCEPT !.desk.attempt = "none"]
    BY DEF AttemptSettles
  <2>3. LET y == [idle EXCEPT !.desk.attempt = "none"]
        IN y.desk.timer = idle.desk.timer /\ y.desk.attempt = "none"
    BY <1>3 DEF Connections, Desks
  <2> QED BY <2>1, <2>2, <2>3 DEF Asleep
<1> HIDE DEF settled
<1>5. settled \in Connections
  BY <1>4 DEF DeskOnly
<1>6. /\ DeskOnly(settled, seen)
      /\ settled.desk.attempt # "current" => seen.desk.attempt # "current"
  <2>1. seen \in {settled, Cancelled(settled), Scheduled(settled)}
    BY DEF Observe
  <2>2. settled.desk.attempt \in {"none", "current", "stale"} /\ settled.desk.timer \in BOOLEAN
        /\ settled.desk \in Desks
    BY <1>5 DEF Connections, Desks
  <2>3. Scheduled(settled) \in {settled, [settled EXCEPT !.desk.lost = TRUE], Delayed(settled)}
    BY <2>2 DEF Scheduled
  <2>4. [settled EXCEPT !.desk.lost = TRUE].desk.attempt = settled.desk.attempt
        /\ Delayed(settled).desk.attempt = settled.desk.attempt
        /\ (settled.desk.attempt # "current" => Cancelled(settled).desk.attempt # "current")
    BY <1>5, <2>2 DEF Connections, Desks, Delayed, Cancelled
  <2>5. DeskOnly(settled, seen)
    BY <1>5, ObserveDesk
  <2> QED BY <2>1, <2>3, <2>4, <2>5
<1> HIDE DEF seen
<1>7. DeskOnly(idle, watcher) /\ watcher.desk = IF shown THEN seen.desk ELSE settled.desk
  BY <1>4, <1>6, DeskTwice
<1> HIDE DEF watcher
<1>8. Onward(idle, watcher)
  BY <1>1, <1>7, DeskReports, ReportsOrderly DEF Onward
<1>9. Onward(w, watcher)
  BY <1>1, <1>8, OnwardTwice
<1>10. Onward(w, free) /\ free.desk = watcher.desk /\ free.thread = watcher.thread
  <2>1. watcher \in Connections
    BY <1>8 DEF Onward, Orderly
  <2>2. ASSUME NEW b \in BOOLEAN
        PROVE  LET x == [watcher EXCEPT !.watched = b, !.queued = {}]
               IN /\ x \in Connections /\ x.rt = watcher.rt /\ x.child = watcher.child
                  /\ x.thread = watcher.thread /\ x.starting = watcher.starting
                  /\ x.again = watcher.again /\ x.up = watcher.up /\ x.queued = {}
                  /\ x.desk = watcher.desk
    BY <2>1 DEF Connections
  <2>3. ("valid" \in w.queued) \in BOOLEAN
    OBVIOUS
  <2>4. /\ free \in Connections /\ free.rt = watcher.rt /\ free.child = watcher.child
        /\ free.thread = watcher.thread /\ free.starting = watcher.starting
        /\ free.again = watcher.again /\ free.up = watcher.up /\ free.queued = {}
        /\ free.desk = watcher.desk
    BY <2>2, <2>3
  <2> HIDE DEF free
  <2>5. Down(watcher) /\ Booted(watcher) /\ Ending(watcher)
    BY <1>8 DEF Onward, Orderly
  <2>6. Down(free) /\ Booted(free) /\ Ending(free)
    BY <2>4, <2>5 DEF Down, Booted, Ending, Busy
  <2>7. (Awaited(watcher) => Awaited(free)) /\ (Closed(watcher) => Closed(free))
    BY <2>4 DEF Awaited, Busy, Closed, Settled
  <2>8. Onward(watcher, free)
    BY <2>4, <2>6, <2>7 DEF Onward, Orderly
  <2> QED BY <1>9, <2>4, <2>8, OnwardTwice
<1> HIDE DEF free
<1>11. CASE "valid" \in w.queued
  <2>1. Orderly(free) /\ Awaited(free) /\ ~ Closed(w)
    BY <1>10, <1>11 DEF Onward, Closed, Settled
  <2>2. Orderly(Restart(free)) /\ Awaited(Restart(free))
    BY <2>1, RestartOrderly
  <2> QED BY <1>2, <1>11, <2>1, <2>2 DEF Onward
<1>12. CASE "valid" \notin w.queued
  <2>1. free.thread["restart"].pc = "idle"
    BY <1>1, <1>7, <1>10 DEF DeskOnly
  <2>2. ASSUME Asleep(w) PROVE free.desk.attempt # "current" /\ (free.desk.timer => shown)
    BY <1>1, <1>4, <1>6, <1>7, <1>10, <2>2 DEF Asleep
  <2>3. Asleep(w) /\ Busy(w, "restart") => Quiet(w, free)
    BY <2>1, <2>2 DEF Quiet, Busy
  <2> QED BY <1>2, <1>10, <1>12, <2>3
<1> QED BY <1>11, <1>12

LEMMA GivesUpOrderly ==
    ASSUME NEW w, Orderly(w), Busy(w, "stop")
    PROVE  LET x == StopServices(w)
           IN Onward(w, x) /\ Awaited(x) /\ Calmer(w, x) /\ x.thread["restart"].pc = w.thread["restart"].pc
PROOF
<1>1. w \in Connections /\ \A u \in Threads : w.thread[u].valid => w.thread[u].pc \notin {"launch", "boot"}
  BY DEF Orderly, Ending, Down
<1> QED BY <1>1, StopServicesOrderly DEF Onward, Closed

LEMMA QuietFirst ==
    ASSUME NEW w, NEW x, NEW y, Quiet(w, x), Calmer(x, y), x.thread["restart"].pc = y.thread["restart"].pc
    PROVE  Quiet(w, y)
PROOF BY DEF Quiet, Calmer, Busy

LEMMA CalmerQuiet ==
    ASSUME NEW w, NEW x, Asleep(w), Calmer(w, x)
    PROVE  Quiet(w, x)
PROOF BY DEF Quiet, Calmer, Asleep

LEMMA StartEndsOrderly ==
    ASSUME NEW w, Orderly(w), Awaited(w), NEW s \in Starts
    PROVE  LET x == StartEnds(w, s)
           IN Onward(w, x) /\ (Closed(w) /\ Asleep(w) => Quiet(w, x))
PROOF
<1> DEFINE free == [w EXCEPT !.thread[s] = Idle, !.starting = IF w.starting = s THEN None ELSE w.starting]
           next == IF free.thread["restart"].waits # s THEN free
                   ELSE IF free.thread["restart"].pc = "delegated" THEN RestartEnds(free)
                   ELSE RestartBody(free)
<1>1. s \in Threads /\ s # "restart" /\ s # "stop" /\ s # None /\ w \in Connections
  BY Assumptions DEF Threads, Orderly
<1>2. StartEnds(w, s) = IF next.thread["stop"].pc = "startup" /\ next.thread["stop"].waits = s
                        THEN StopServices(next) ELSE next
  BY DEF StartEnds
<1>3. /\ Onward(w, free) /\ free.desk = w.desk /\ free.watched = w.watched /\ free.queued = w.queued
      /\ free.thread["restart"] = w.thread["restart"]
  <2>1. /\ free \in Connections /\ free.rt = w.rt /\ free.child = w.child
        /\ free.starting = (IF w.starting = s THEN None ELSE w.starting)
        /\ free.again = w.again /\ free.up = w.up /\ free.queued = w.queued
        /\ free.watched = w.watched /\ free.desk = w.desk
        /\ \A u \in Threads : free.thread[u] = IF u = s THEN Idle ELSE w.thread[u]
    <3>1. w.thread \in [Threads -> Operations] /\ Idle \in Operations
      BY <1>1, IdleIsIdle DEF Connections
    <3>2. [w.thread EXCEPT ![s] = Idle] \in [Threads -> Operations]
      BY <1>1, <3>1
    <3>3. w.starting \in Starts \union {None}
      BY <1>1 DEF Connections
    <3>4. ASSUME NEW a \in Starts \union {None}
          PROVE  LET x == [w EXCEPT !.thread[s] = Idle, !.starting = a]
                 IN /\ x \in Connections /\ x.rt = w.rt /\ x.child = w.child /\ x.starting = a
                    /\ x.again = w.again /\ x.up = w.up /\ x.queued = w.queued
                    /\ x.watched = w.watched /\ x.desk = w.desk
                    /\ x.thread = [w.thread EXCEPT ![s] = Idle]
      BY <1>1, <3>2, <3>4 DEF Connections
    <3> DEFINE a == IF w.starting = s THEN None ELSE w.starting
    <3>5. a \in Starts \union {None}
      BY <3>3
    <3>6. free = [w EXCEPT !.thread[s] = Idle, !.starting = a]
      OBVIOUS
    <3> HIDE DEF a, free
    <3>7. free.thread = [w.thread EXCEPT ![s] = Idle]
      BY <3>4, <3>5, <3>6
    <3>8. \A u \in Threads : free.thread[u] = IF u = s THEN Idle ELSE w.thread[u]
      BY <3>1, <3>7
    <3> QED BY <3>4, <3>5, <3>6, <3>8 DEF a
  <2> HIDE DEF free
  <2>2. Down(free)
    BY <2>1, IdleIsIdle DEF Orderly, Down
  <2>3. Booted(free)
    BY <1>1, <2>1, IdleIsIdle, Assumptions DEF Orderly, Booted, Connections, Threads
  <2>4. Ending(free)
    BY <1>1, <2>1, IdleIsIdle DEF Orderly, Ending, Busy, Threads
  <2>5. (Awaited(w) => Awaited(free)) /\ (Closed(w) => Closed(free))
    BY <1>1, <2>1 DEF Awaited, Busy, Closed, Settled, Threads
  <2> QED BY <1>1, <2>1, <2>2, <2>3, <2>4, <2>5 DEF Onward, Orderly, Threads
<1> HIDE DEF free
<1>4. Orderly(free) /\ Awaited(free) /\ (Closed(w) => Closed(free)) /\ (Asleep(w) => Asleep(free))
  BY <1>3 DEF Onward, Asleep
<1>5. Onward(free, next) /\ (Closed(free) /\ Asleep(free) => Quiet(free, next))
  <2>1. CASE free.thread["restart"].waits # s
    <3>1. next = free
      BY <2>1
    <3> HIDE DEF next
    <3> QED BY <1>4, <3>1, OnwardSame DEF Quiet, Asleep
  <2>2. CASE free.thread["restart"].waits = s /\ free.thread["restart"].pc = "delegated"
    <3>1. next = RestartEnds(free) /\ Busy(free, "restart")
      BY <2>2 DEF Busy
    <3> HIDE DEF next
    <3> QED BY <1>4, <3>1, RestartEndsOrderly
  <2>3. CASE free.thread["restart"].waits = s /\ free.thread["restart"].pc # "delegated"
    <3>1. next = RestartBody(free)
      BY <2>3
    <3> HIDE DEF next
    <3>2. Onward(free, next) /\ Calmer(free, next)
      BY <1>4, <3>1, RestartBodyOrderly
    <3> QED BY <3>2, CalmerQuiet
  <2> QED BY <2>1, <2>2, <2>3
<1> HIDE DEF next
<1>6. Orderly(next) /\ Awaited(next) /\ Onward(w, next) /\ (Closed(w) /\ Asleep(w) => Quiet(w, next))
  BY <1>3, <1>4, <1>5, OnwardTwice DEF Onward, Quiet, Busy
<1>7. ASSUME next.thread["stop"].pc = "startup"
      PROVE  LET x == StopServices(next)
             IN Onward(w, x) /\ (Closed(w) /\ Asleep(w) => Quiet(w, x))
  <2> DEFINE x == StopServices(next)
  <2>1. Busy(next, "stop")
    BY <1>7 DEF Busy
  <2>2. Onward(next, x) /\ Calmer(next, x) /\ x.thread["restart"].pc = next.thread["restart"].pc
    BY <1>6, <2>1, GivesUpOrderly
  <2> HIDE DEF x
  <2>3. Onward(w, x)
    BY <1>6, <2>2, OnwardTwice
  <2>4. Closed(w) /\ Asleep(w) => Quiet(w, x)
    BY <1>6, <2>2, QuietFirst
  <2> QED BY <2>3, <2>4 DEF x
<1> QED BY <1>2, <1>6, <1>7

LEMMA EndsOrderly ==
    ASSUME NEW w, Orderly(w), Awaited(w), NEW t \in Starts \union {"restart"}, Busy(w, t)
    PROVE  LET x == Ends(w, t)
           IN Onward(w, x) /\ (Closed(w) /\ Asleep(w) => Quiet(w, x))
PROOF
<1>1. CASE t = "restart"
  BY <1>1, RestartEndsOrderly DEF Ends
<1>2. CASE t # "restart"
  BY <1>2, StartEndsOrderly DEF Ends
<1> QED BY <1>1, <1>2

(* An operation ends after a report. *)
LEMMA ReportedEnds ==
    ASSUME NEW w, Orderly(w), Awaited(w), NEW y, Reports(w, y),
           NEW t \in Starts \union {"restart"}, Busy(w, t)
    PROVE  LET x == Ends(y, t)
           IN Onward(w, x) /\ (Closed(w) /\ Asleep(w) /\ Calmer(w, y) => Quiet(w, x))
PROOF
<1> DEFINE x == Ends(y, t)
<1>1. Onward(w, y) /\ Busy(y, t)
  BY ReportsOrderly DEF Reports, Busy
<1>2. Orderly(y) /\ Awaited(y) /\ (Closed(w) => Closed(y))
  BY <1>1 DEF Onward
<1>3. Onward(y, x) /\ (Closed(y) /\ Asleep(y) => Quiet(y, x))
  BY <1>1, <1>2, EndsOrderly
<1> HIDE DEF x
<1>4. Onward(w, x)
  BY <1>1, <1>3, OnwardTwice
<1>5. ASSUME Closed(w), Asleep(w), Calmer(w, y) PROVE Quiet(w, x)
  <2>1. Quiet(y, x)
    BY <1>2, <1>3, <1>5, CalmerAsleep
  <2> QED BY <2>1 DEF Quiet, Reports, Busy
<1> QED BY <1>4, <1>5 DEF x

LEMMA TunnelErrorOrderly ==
    ASSUME NEW w, Orderly(w), Awaited(w), NEW y, Reports(w, y),
           NEW t \in Starts \union {"restart"}, Busy(w, t), NEW code \in Codes
    PROVE  Onward(w, TunnelError(y, t, code))
PROOF
<1> DEFINE state == IF code = "terminal" THEN "failed" ELSE "degraded"
           s == Show(y, state, code)
           z == [s EXCEPT !.desk.server = TRUE]
<1>1. TunnelError(y, t, code) \in {Ends(y, t), Ends(z, t)}
  BY DEF TunnelError
<1>2. y \in Connections /\ state \in TunnelStates
  BY DEF Reports, TunnelStates
<1> HIDE DEF state
<1>3. DeskOnly(y, s)
  BY <1>2, ShowDesk
<1> HIDE DEF s
<1>4. DeskOnly(s, z)
  BY <1>3, ServerDesk DEF DeskOnly
<1> HIDE DEF z
<1>5. Reports(w, z)
  BY <1>3, <1>4, DeskTwice, DeskReports, ReportsTwice
<1> QED BY <1>1, <1>5, ReportedEnds

LEMMA StartServerOrderly ==
    ASSUME NEW w, Orderly(w), Awaited(w)
    PROVE  LET x == StartServer(w) IN Orderly(x) /\ Awaited(x)
PROOF
<1>1. CASE Busy(w, "stop")
  <2> DEFINE x == [w EXCEPT !.again = TRUE]
  <2>1. /\ x \in Connections /\ x.rt = w.rt /\ x.child = w.child /\ x.starting = w.starting
        /\ x.up = w.up /\ x.queued = w.queued /\ x.thread = w.thread
    BY DEF Orderly, Connections
  <2>2. StartServer(w) = x
    BY <1>1 DEF StartServer
  <2> HIDE DEF x
  <2>3. Orderly(x)
    BY <2>1 DEF Orderly, Down, Booted, Ending, Busy
  <2>4. Awaited(x)
    BY <1>1, <2>1 DEF Awaited, Busy
  <2> QED BY <2>2, <2>3, <2>4
<1>2. CASE ~ Busy(w, "stop") /\ ~ w.up
  <2>1. StartServer(w) = Boot(w)
    BY <1>2 DEF StartServer
  <2> QED BY <1>2, <2>1, BootOrderly DEF Awaited, Busy
<1>3. CASE ~ Busy(w, "stop") /\ w.up
  <2>1. StartServer(w) \in {w, Restart(w)}
    BY <1>3 DEF StartServer
  <2> QED BY <2>1, RestartOrderly
<1> QED BY <1>1, <1>2, <1>3

(* What joins a stop, or waits for a start that boots, finds the           *)
(* connection orderly; a stop that takes all down makes it so.             *)
LEMMA BeginStopOrderly ==
    ASSUME NEW w \in Connections, Awaited(w),
           Busy(w, "stop") \/ (w.starting # None /\ w.thread[w.starting].pc = "boot") => Orderly(w)
    PROVE  LET x == BeginStop(w)
           IN /\ Orderly(x) /\ Awaited(x) /\ Busy(x, "stop") /\ Calmer(w, x)
              /\ ~ Busy(w, "stop") => Closed(x)
PROOF
<1> DEFINE op == [Idle EXCEPT !.pc = "startup", !.waits = w.starting]
           n == NewToken(w, None)
           q == IF w.queued = {} THEN {} ELSE {"revoked"}
           revoked == [n EXCEPT !.starting = None, !.queued = q, !.thread["stop"] = op]
<1>1. CASE Busy(w, "stop")
  <2>1. BeginStop(w) = w
    BY <1>1 DEF BeginStop
  <2> QED BY <1>1, <2>1 DEF Calmer
<1>2. CASE ~ Busy(w, "stop")
  <2>1. op \in Operations /\ ~ op.valid /\ ~ op.fresh /\ op.pc = "startup"
    <3>1. w.starting \in Starts \union {None} /\ "startup" \in Waits
      BY DEF Connections, Waits
    <3> QED BY <3>1, IdleOperation
  <2> HIDE DEF op
  <2>2. None \notin Threads /\ "stop" \in Threads /\ "restart" \in Threads
    BY Assumptions DEF Threads
  <2>3. /\ n \in Connections /\ n.rt = w.rt /\ n.child = w.child
        /\ n.again = w.again /\ n.up = w.up /\ n.desk = w.desk
        /\ \A u \in Threads : /\ n.thread[u].fresh = w.thread[u].fresh
                              /\ n.thread[u].pc = w.thread[u].pc
                              /\ n.thread[u].valid = FALSE
    <3>1. /\ n \in Connections /\ n.rt = w.rt /\ n.child = w.child
          /\ n.again = w.again /\ n.up = w.up /\ n.desk = w.desk
          /\ \A u \in Threads : /\ n.thread[u].fresh = w.thread[u].fresh
                                /\ n.thread[u].pc = w.thread[u].pc
                                /\ n.thread[u].valid = (u = None)
      BY TokenForm
    <3> HIDE DEF n
    <3>2. \A u \in Threads : (u = None) = FALSE
      BY <2>2
    <3> QED BY <3>1, <3>2
  <2> HIDE DEF n
  <2>4. q \subseteq {"valid", "revoked"} /\ "valid" \notin q
    OBVIOUS
  <2> HIDE DEF q
  <2>5. /\ revoked \in Connections /\ revoked.rt = n.rt /\ revoked.child = n.child
        /\ revoked.again = n.again /\ revoked.up = n.up /\ revoked.desk = n.desk
        /\ revoked.starting = None /\ revoked.queued = q
        /\ \A u \in Threads : revoked.thread[u] = IF u = "stop" THEN op ELSE n.thread[u]
    BY <2>1, <2>2, <2>3, <2>4 DEF Connections
  <2>6. BeginStop(w) = IF w.starting # None /\ w.thread[w.starting].pc = "boot" THEN revoked
                       ELSE StopServices(revoked)
    BY <1>2 DEF BeginStop, op, n, q
  <2> HIDE DEF revoked
  <2>7. ASSUME NEW u \in Threads
        PROVE  /\ revoked.thread[u].valid = FALSE
               /\ u # "stop" => revoked.thread[u].pc = w.thread[u].pc
               /\ revoked.thread[u].fresh => w.thread[u].fresh /\ revoked.thread[u].pc = w.thread[u].pc
    <3>1. CASE u = "stop"
      <4>1. revoked.thread[u] = op
        BY <2>5, <3>1
      <4>2. op.valid = FALSE /\ op.fresh = FALSE
        BY <2>1 DEF Operations
      <4> QED BY <3>1, <4>1, <4>2
    <3>2. CASE u # "stop"
      <4>1. revoked.thread[u] = n.thread[u]
        BY <2>5, <3>2
      <4> QED BY <2>3, <4>1
    <3> QED BY <3>1, <3>2
  <2>8. Settled(revoked) /\ Busy(revoked, "stop")
    <3>1. ~ w.again /\ w.thread["restart"].pc # "awaitStop"
      BY <1>2 DEF Awaited
    <3>2. revoked.thread["restart"].pc = w.thread["restart"].pc
      BY <2>2, <2>7
    <3>3. revoked.thread["stop"].pc = "startup"
      BY <2>1, <2>2, <2>5
    <3> QED BY <2>3, <2>4, <2>5, <3>1, <3>2, <3>3 DEF Settled, Busy
  <2>9. Calmer(w, revoked)
    BY <2>3, <2>5 DEF Calmer
  <2>10. CASE w.starting # None /\ w.thread[w.starting].pc = "boot"
    <3>1. Orderly(w) /\ ~ w.up
      BY <2>10 DEF Orderly, Booted
    <3>2. Down(revoked)
      BY <2>3, <2>5, <2>7, <3>1 DEF Orderly, Down
    <3>3. Booted(revoked)
      BY <2>5, <2>7 DEF Booted
    <3>4. Ending(revoked)
      BY <2>3, <2>5, <2>7, <3>1 DEF Ending
    <3>5. Awaited(revoked) /\ Closed(revoked)
      BY <2>3, <2>5, <2>8, <3>1 DEF Awaited, Closed
    <3> QED BY <2>5, <2>6, <2>8, <2>9, <2>10, <3>2, <3>3, <3>4, <3>5 DEF Orderly
  <2>11. CASE ~ (w.starting # None /\ w.thread[w.starting].pc = "boot")
    <3> DEFINE x == StopServices(revoked)
    <3>1. /\ Orderly(x) /\ Awaited(x) /\ (Settled(revoked) => Closed(x)) /\ Calmer(revoked, x)
          /\ Busy(x, "stop")
      BY <2>5, <2>7, StopServicesOrderly
    <3>2. BeginStop(w) = x
      BY <2>6, <2>11
    <3> HIDE DEF x
    <3> QED BY <2>8, <2>9, <3>1, <3>2, CalmerTwice
  <2> QED BY <2>10, <2>11
<1> QED BY <1>1, <1>2

LEMMA StopDoneOrderly ==
    ASSUME NEW w, Orderly(w), Busy(w, "stop")
    PROVE  LET x == StopDone(w)
           IN Orderly(x) /\ Awaited(x) /\ (Closed(w) => Closed(x) /\ Calmer(w, x))
PROOF
<1> DEFINE y == Show(w, "stopped", "ok")
           z == [y EXCEPT !.desk.server = FALSE]
           free == [z EXCEPT !.thread["stop"] = Idle, !.again = FALSE]
           woken == IF free.thread["restart"].pc = "awaitStop" THEN RestartAwake(free) ELSE free
<1>0. w \in Connections
  BY DEF Orderly
<1>1. DeskOnly(w, y) /\ Calmer(w, y)
  BY <1>0, ShowDesk, ShowCalmer DEF TunnelStates, Codes
<1>2. StopDone(w) = IF w.again THEN Boot(woken) ELSE woken
  BY DEF StopDone
<1> HIDE DEF y
<1>3. DeskOnly(y, z) /\ Calmer(y, z)
  BY <1>1, ServerDesk, ServerCalmer DEF DeskOnly
<1>4. Onward(w, z) /\ Calmer(w, z) /\ DeskOnly(w, z)
  BY <1>1, <1>3, DeskTwice, DeskReports, ReportsOrderly, CalmerTwice
<1> HIDE DEF z
<1>5. /\ Orderly(free) /\ ~ free.again /\ ~ Busy(free, "stop") /\ ~ free.up /\ free.desk = z.desk
      /\ free.thread["restart"] = w.thread["restart"]
      /\ Closed(w) => Closed(free)
  <2>1. z \in Connections /\ "stop" \in Threads /\ "restart" \in Threads /\ Down(z) /\ Booted(z)
    BY <1>4 DEF Onward, Orderly, Threads
  <2>2. /\ free \in Connections /\ free.rt = z.rt /\ free.child = z.child /\ free.starting = z.starting
        /\ free.queued = z.queued /\ ~ free.again /\ free.up = z.up /\ free.desk = z.desk
        /\ \A u \in Threads : free.thread[u] = IF u = "stop" THEN Idle ELSE z.thread[u]
    BY <2>1, IdleIsIdle DEF Connections
  <2> HIDE DEF free
  <2>3. ~ z.up /\ z.thread = w.thread
    BY <1>4 DEF Orderly, Ending, DeskOnly
  <2>4. Down(free)
    BY <2>1, <2>2, IdleIsIdle DEF Down
  <2>5. Booted(free)
    BY <2>1, <2>2, <2>3, IdleIsIdle DEF Booted
  <2>6. free.thread["stop"].pc = "idle"
    BY <2>1, <2>2, IdleIsIdle
  <2>7. Ending(free)
    BY <2>6 DEF Ending, Busy
  <2>8. Closed(z) => Closed(free)
    BY <2>1, <2>2 DEF Closed, Settled
  <2> QED BY <1>4, <2>1, <2>2, <2>3, <2>4, <2>5, <2>6, <2>7, <2>8 DEF Onward, Orderly, Busy
<1> HIDE DEF free
<1>6. /\ Orderly(woken) /\ Awaited(woken) /\ ~ woken.again /\ ~ Busy(woken, "stop") /\ ~ woken.up
      /\ Closed(w) => woken = free
  <2>1. CASE free.thread["restart"].pc = "awaitStop"
    <3>1. woken = RestartAwake(free)
      BY <2>1
    <3>2. ~ Closed(w)
      BY <1>5, <2>1 DEF Closed, Settled
    <3> HIDE DEF woken
    <3> QED BY <1>5, <3>1, <3>2, RestartAwakeOrderly
  <2>2. CASE free.thread["restart"].pc # "awaitStop"
    <3>1. woken = free
      BY <2>2
    <3> HIDE DEF woken
    <3> QED BY <1>5, <2>2, <3>1 DEF Awaited
  <2> QED BY <2>1, <2>2
<1> HIDE DEF woken
<1>7. Orderly(Boot(woken)) /\ Awaited(Boot(woken))
  BY <1>6, BootOrderly DEF Awaited, Busy
<1>8. Closed(w) => ~ w.again /\ Closed(free) /\ Calmer(w, free)
  BY <1>4, <1>5 DEF Closed, Settled, Calmer
<1> QED BY <1>2, <1>6, <1>7, <1>8
-----------------------------------------------------------------------------
(* The steps, again. *)

(* After a stop the connection is closed and the supervisor has nothing to *)
(* do.                                                                     *)
Resting ==
    /\ Orderly(Now) /\ Awaited(Now)
    /\ wanted = "no" => Closed(Now) /\ Asleep(Now)

LEMMA GoesRests ==
    ASSUME Resting, NEW x, Orderly(x), Awaited(x),
           Closed(Now) /\ Asleep(Now) => Closed(x) /\ Quiet(Now, x), Goes(x)
    PROVE  Resting'
PROOF
<1>1. Becomes(x) /\ Now' = x
  BY BecomesNow DEF Goes, Orderly
<1>2. ASSUME wanted' = "no" PROVE Closed(x) /\ Asleep(x)
  <2>1. /\ wanted = "no"
        /\ ~ (/\ (watched \/ queued # {}) /\ Busy(Now, "restart") /\ ~ Busy(x, "restart")
              /\ ~ desk.timer /\ x.desk.timer)
    BY <1>2 DEF Goes
  <2>2. Closed(Now) /\ Asleep(Now)
    BY <2>1 DEF Resting
  <2> QED BY <2>1, <2>2, NowFields DEF Asleep, Quiet
<1> QED BY <1>1, <1>2 DEF Resting

LEMMA OnwardRests ==
    ASSUME Resting, NEW x, Onward(Now, x), Closed(Now) /\ Asleep(Now) => Quiet(Now, x), Goes(x)
    PROVE  Resting'
PROOF BY GoesRests DEF Resting, Onward

LEMMA CalmRests ==
    ASSUME Resting, NEW x, Onward(Now, x), Closed(Now) => Calmer(Now, x), Goes(x)
    PROVE  Resting'
PROOF BY CalmerQuiet, OnwardRests

(* While the service is up, what the owner of the runtime and the client   *)
(* do disturbs nothing.                                                    *)
LEMMA UpRests ==
    ASSUME Resting, up, NEW x \in Connections, x.up, x.starting = starting, x.again = again,
           \A u \in Threads :
              /\ x.thread[u].valid = thread[u].valid
              /\ x.thread[u].pc = thread[u].pc
                 \/ (u # "stop" /\ x.thread[u].pc \notin {"boot", "awaitStop"})
    PROVE  Onward(Now, x)
PROOF
<1>1. Down(x)
  BY DEF Down
<1>2. starting \in Starts \union {None}
  BY NowFields DEF Resting, Orderly, Connections
<1>3. Booted(x)
  <2>1. Booted(Now)
    BY DEF Resting, Orderly
  <2>2. starting # None => starting \in Threads /\ thread[starting].pc # "boot"
    BY <1>2, <2>1, NowFields DEF Booted, Threads
  <2> QED BY <2>1, <2>2, NowFields DEF Booted
<1>4. ~ Busy(Now, "stop") /\ "stop" \in Threads /\ "restart" \in Threads
  BY NowFields DEF Resting, Orderly, Ending, Threads
<1>5. ~ Busy(x, "stop")
  BY <1>4, NowFields DEF Busy
<1>6. Awaited(x)
  BY <1>4, NowFields DEF Resting, Awaited
<1>7. ~ Closed(Now)
  BY NowFields DEF Closed
<1> QED BY <1>1, <1>3, <1>5, <1>6, <1>7 DEF Onward, Orderly, Ending

LEMMA AttemptedOrderly ==
    ASSUME NEW w, Orderly(w), Awaited(w)
    PROVE  LET x == Attempted(w) IN Orderly(x) /\ Awaited(x)
PROOF
<1> DEFINE x == Cancelled(w)
           y == [x EXCEPT !.desk.attempt = "current"]
<1>1. DeskOnly(w, x)
  BY CancelledDesk DEF Orderly
<1>2. Attempted(w) = Restart(y)
  BY DEF Attempted
<1> HIDE DEF x
<1>3. DeskOnly(x, y)
  BY <1>1, AttemptDesk DEF DeskOnly
<1> HIDE DEF y
<1>4. Onward(w, y)
  BY <1>1, <1>3, DeskTwice, DeskReports, ReportsOrderly
<1> QED BY <1>2, <1>4, RestartOrderly DEF Onward

LEMMA CancelledOrderly ==
    ASSUME NEW w, Orderly(w)
    PROVE  LET x == Cancelled(w) IN Onward(w, x) /\ Asleep(x)
PROOF BY CancelledDesk, CancelledCalmer, DeskReports, ReportsOrderly DEF Orderly

LEMMA AskedRests ==
    ASSUME NEW x, Orderly(x), Awaited(x), Becomes(x), wanted' = "no" => Closed(x) /\ Asleep(x)
    PROVE  Resting'
PROOF
<1>1. Now' = x
  BY BecomesNow DEF Orderly
<1> QED BY <1>1 DEF Resting

LEMMA UserRests == ASSUME Resting, UserNext PROVE Resting'
PROOF
<1>0. Orderly(Now) /\ Awaited(Now)
  BY DEF Resting
<1>1. CASE UserStarts
  BY <1>0, <1>1, StartServerOrderly, AskedRests DEF UserStarts, Asked
<1>2. CASE UserRetries
  <2> DEFINE x == IF desk.attempt = "current" THEN Now ELSE Attempted(Now)
  <2>1. Orderly(x) /\ Awaited(x)
    BY <1>0, AttemptedOrderly
  <2>2. Becomes(x) /\ wanted' = "yes"
    BY <1>2 DEF UserRetries, Asked
  <2> HIDE DEF x
  <2> QED BY <2>1, <2>2, AskedRests
<1>3. CASE UserChangesSettings
  <2> DEFINE w == Cancelled(Now)
             x == [w EXCEPT !.queued = w.queued \union {"valid"}]
             r == Restart(w)
             y == [r EXCEPT !.watched = TRUE]
  <2>1. Becomes(IF Busy(w, "restart") THEN x ELSE y) /\ wanted' = "yes"
    BY <1>3 DEF UserChangesSettings, Asked
  <2>2. Orderly(w) /\ Awaited(w)
    BY <1>0, CancelledOrderly DEF Onward
  <2> HIDE DEF w
  <2>3. Orderly(r) /\ Awaited(r)
    BY <2>2, RestartOrderly
  <2> HIDE DEF r
  <2>4. Orderly(x) /\ Awaited(x)
    <3>1. /\ x \in Connections /\ x.rt = w.rt /\ x.child = w.child /\ x.starting = w.starting
          /\ x.up = w.up /\ x.again = w.again /\ x.thread = w.thread
      BY <2>2 DEF Orderly, Connections
    <3> HIDE DEF x
    <3> QED BY <2>2, <3>1 DEF Orderly, Awaited, Down, Booted, Ending, Busy
  <2>5. Orderly(y) /\ Awaited(y)
    <3>1. /\ y \in Connections /\ y.rt = r.rt /\ y.child = r.child /\ y.starting = r.starting
          /\ y.up = r.up /\ y.again = r.again /\ y.thread = r.thread
      BY <2>3 DEF Orderly, Connections
    <3> HIDE DEF y
    <3> QED BY <2>3, <3>1 DEF Orderly, Awaited, Down, Booted, Ending, Busy
  <2> HIDE DEF x, y
  <2> QED BY <2>1, <2>4, <2>5, AskedRests
<1>4. CASE UserStops
  <2> DEFINE w == Cancelled(Now)
             x == BeginStop(w)
  <2>1. /\ Becomes(x)
        /\ wanted' = IF Busy(Now, "stop") /\ wanted # "no" THEN "overlooked" ELSE "no"
    BY <1>4 DEF UserStops, Asked
  <2>2. Onward(Now, w) /\ Asleep(w) /\ w.thread = thread
    BY <1>0, CancelledOrderly, CancelledDesk, NowFields DEF DeskOnly, Orderly
  <2>3. Busy(w, "stop") => x = w
    BY DEF BeginStop
  <2> HIDE DEF w
  <2>4. /\ Orderly(x) /\ Awaited(x) /\ Calmer(w, x)
        /\ ~ Busy(w, "stop") => Closed(x)
    <3>1. w \in Connections /\ Awaited(w) /\ Orderly(w)
      BY <1>0, <2>2 DEF Onward, Orderly
    <3> QED BY <3>1, BeginStopOrderly
  <2> HIDE DEF x
  <2>5. Asleep(x)
    BY <2>2, <2>4, CalmerAsleep
  <2>6. ASSUME wanted' = "no" PROVE Closed(x)
    <3>1. CASE Busy(Now, "stop")
      <4>1. wanted = "no"
        BY <2>1, <2>6, <3>1
      <4>2. Closed(w)
        BY <2>2, <4>1 DEF Resting, Onward
      <4> QED BY <2>2, <2>3, <3>1, <4>2, NowFields DEF Busy
    <3>2. CASE ~ Busy(Now, "stop")
      BY <2>2, <2>4, <3>2, NowFields DEF Busy
    <3> QED BY <3>1, <3>2
  <2> QED BY <2>1, <2>4, <2>5, <2>6, AskedRests
<1> QED BY <1>1, <1>2, <1>3, <1>4 DEF UserNext

LEMMA TimerRests == ASSUME Resting, TimerFires PROVE Resting'
PROOF
<1>1. Orderly(Attempted(Now)) /\ Awaited(Attempted(Now)) /\ Goes(Attempted(Now))
  BY AttemptedOrderly DEF Resting, TimerFires
<1>2. ~ Asleep(Now)
  BY NowFields DEF Asleep, TimerFires
<1> QED BY <1>1, <1>2, GoesRests

LEMMA ExitRests == ASSUME Resting, ServiceExits PROVE Resting'
PROOF
<1> DEFINE d == [Now EXCEPT !.up = FALSE]
           s == Show(d, "failed", "transient")
           shown == [s EXCEPT !.desk.server = FALSE]
           c == Cancelled(shown)
           b == BeginStop(c)
           x == [b EXCEPT !.again = TRUE]
<1>1. Becomes(x) /\ wanted' = "yes"
  BY DEF ServiceExits
<1>2. Now \in Connections /\ Orderly(Now) /\ Awaited(Now)
  BY DEF Resting, Orderly
<1>3. /\ d \in Connections /\ d.rt = rt /\ d.child = child /\ d.thread = thread /\ d.starting = starting
      /\ d.again = again /\ ~ d.up
  BY <1>2, NowFields DEF Connections
<1> HIDE DEF d
<1>4. DeskOnly(d, s)
  BY <1>3, ShowDesk DEF TunnelStates, Codes
<1> HIDE DEF s
<1>5. DeskOnly(s, shown)
  BY <1>4, ServerDesk DEF DeskOnly
<1> HIDE DEF shown
<1>6. DeskOnly(shown, c)
  BY <1>5, CancelledDesk DEF DeskOnly
<1> HIDE DEF c
<1>7. Reports(d, c)
  BY <1>4, <1>5, <1>6, DeskTwice, DeskReports
<1>8. c \in Connections /\ c.thread = thread /\ c.starting = starting /\ c.again = again
  BY <1>3, <1>7 DEF Reports
<1>9. Awaited(c)
  BY <1>2, <1>8, NowFields DEF Awaited, Busy
<1>10. ASSUME Busy(c, "stop") \/ (c.starting # None /\ c.thread[c.starting].pc = "boot")
       PROVE  Orderly(c)
  <2>1. ~ up
    BY <1>2, <1>8, <1>10, NowFields DEF Orderly, Ending, Booted, Busy
  <2>2. Orderly(d)
    BY <1>2, <1>3, <2>1, NowFields DEF Orderly, Down, Booted, Ending, Busy
  <2> QED BY <1>7, <2>2, ReportsOrderly DEF Onward
<1>11. Orderly(b) /\ Awaited(b) /\ Busy(b, "stop")
  BY <1>8, <1>9, <1>10, BeginStopOrderly
<1> HIDE DEF b
<1>12. Orderly(x) /\ Awaited(x)
  <2>1. /\ x \in Connections /\ x.rt = b.rt /\ x.child = b.child /\ x.starting = b.starting
        /\ x.up = b.up /\ x.thread = b.thread
    BY <1>11 DEF Orderly, Connections
  <2> HIDE DEF x
  <2> QED BY <1>11, <2>1 DEF Orderly, Awaited, Down, Booted, Ending, Busy
<1> HIDE DEF x
<1> QED BY <1>1, <1>12, AskedRests

(* Thread t goes on to pc. *)
LEMMA ToForm ==
    ASSUME NEW w \in Connections, NEW t \in Threads, NEW pc \in Waits
    PROVE  LET x == To(w, t, pc)
           IN /\ x \in Connections /\ x.rt = w.rt /\ x.child = w.child /\ x.starting = w.starting
              /\ x.again = w.again /\ x.up = w.up /\ x.queued = w.queued /\ x.desk = w.desk
              /\ x.watched = w.watched
              /\ \A u \in Threads : /\ x.thread[u].fresh = w.thread[u].fresh
                                    /\ x.thread[u].valid = w.thread[u].valid
                                    /\ x.thread[u].waits = w.thread[u].waits
                                    /\ x.thread[u].pc = IF u = t THEN pc ELSE w.thread[u].pc
PROOF
<1> DEFINE x == To(w, t, pc)
           op == [w.thread[t] EXCEPT !.pc = pc]
<1>1. w.thread \in [Threads -> Operations] /\ w.thread[t] \in Operations
  BY DEF Connections
<1>2. op \in Operations
  BY <1>1 DEF Operations
<1>3. x.thread = [w.thread EXCEPT ![t] = op] /\ x = [w EXCEPT !.thread = x.thread]
  BY DEF Connections, To
<1>4. op.fresh = w.thread[t].fresh /\ op.valid = w.thread[t].valid /\ op.waits = w.thread[t].waits
      /\ op.pc = pc
  BY <1>1 DEF Operations
<1> HIDE DEF x, op
<1>5. \A u \in Threads : x.thread[u] = IF u = t THEN op ELSE w.thread[u]
  BY <1>1, <1>3
<1>6. x.thread \in [Threads -> Operations]
  BY <1>1, <1>2, <1>3
<1>7. /\ x \in Connections /\ x.rt = w.rt /\ x.child = w.child /\ x.starting = w.starting
      /\ x.again = w.again /\ x.up = w.up /\ x.queued = w.queued /\ x.desk = w.desk
      /\ x.watched = w.watched
  BY <1>3, <1>6 DEF Connections
<1>8. \A u \in Threads : /\ x.thread[u].fresh = w.thread[u].fresh
                         /\ x.thread[u].valid = w.thread[u].valid
                         /\ x.thread[u].waits = w.thread[u].waits
                         /\ x.thread[u].pc = IF u = t THEN pc ELSE w.thread[u].pc
  BY <1>4, <1>5
<1> QED BY <1>7, <1>8 DEF x

LEMMA NowTo ==
    ASSUME Now \in Connections, NEW t \in Threads, NEW pc \in Waits
    PROVE  LET x == To(Now, t, pc)
           IN /\ x \in Connections /\ x.rt = rt /\ x.child = child /\ x.starting = starting
              /\ x.again = again /\ x.up = up /\ x.desk = desk
              /\ \A u \in Threads : /\ x.thread[u].valid = thread[u].valid
                                    /\ x.thread[u].pc = IF u = t THEN pc ELSE thread[u].pc
PROOF
<1> DEFINE x == To(Now, t, pc)
<1>1. /\ x \in Connections /\ x.rt = Now.rt /\ x.child = Now.child /\ x.starting = Now.starting
      /\ x.again = Now.again /\ x.up = Now.up /\ x.desk = Now.desk
      /\ \A u \in Threads : /\ x.thread[u].valid = Now.thread[u].valid
                            /\ x.thread[u].pc = IF u = t THEN pc ELSE Now.thread[u].pc
  BY ToForm
<1> HIDE DEF x
<1> QED BY <1>1, NowFields DEF x

LEMMA BootRests == ASSUME Resting, NEW s \in Starts, BootEnds(s) PROVE Resting'
PROOF
<1> DEFINE l == To(Now, s, "launch")
           m == Show(l, "starting", "ok")
           x == [m EXCEPT !.up = TRUE, !.desk.server = TRUE]
           f == Show(Now, "failed", "transient")
           g == [f EXCEPT !.desk.server = FALSE]
<1>1. /\ thread[s].pc = "boot"
      /\ \/ ~ thread[s].valid /\ Goes(StartEnds(Now, s))
         \/ thread[s].valid /\ Goes(x)
         \/ thread[s].valid /\ Goes(StartEnds(g, s))
  BY DEF BootEnds
<1>2. Now \in Connections /\ s \in Threads /\ s # "stop" /\ s # "restart" /\ s # None
      /\ Orderly(Now) /\ Awaited(Now)
  BY Assumptions DEF Resting, Orderly, Threads
<1>3. CASE Goes(StartEnds(Now, s))
  BY <1>2, <1>3, StartEndsOrderly, OnwardRests
<1>4. ASSUME thread[s].valid PROVE ~ up /\ starting = s /\ ~ Closed(Now) /\ ~ Busy(Now, "stop")
  BY <1>1, <1>2, <1>4, NowFields DEF Orderly, Booted, Ending, Closed, Settled
<1>5. CASE thread[s].valid /\ Goes(x)
  <2>1. /\ l \in Connections /\ l.rt = rt /\ l.child = child /\ l.starting = starting
        /\ l.again = again
        /\ \A u \in Threads : /\ l.thread[u].valid = thread[u].valid
                              /\ l.thread[u].pc = IF u = s THEN "launch" ELSE thread[u].pc
    <3>1. "launch" \in Waits
      BY DEF Waits
    <3> QED BY <1>2, <3>1, NowTo
  <2> HIDE DEF l
  <2>2. DeskOnly(l, m)
    BY <2>1, ShowDesk DEF TunnelStates, Codes
  <2> HIDE DEF m
  <2>3. m \in Connections /\ m.starting = starting /\ m.again = again /\ m.thread = l.thread
    BY <2>1, <2>2 DEF DeskOnly
  <2>4. x \in Connections /\ x.starting = starting /\ x.again = again /\ x.thread = l.thread /\ x.up
    BY <2>3 DEF Connections, Desks
  <2> HIDE DEF x
  <2>5. \A u \in Threads : /\ x.thread[u].valid = thread[u].valid
                           /\ x.thread[u].pc = IF u = s THEN "launch" ELSE thread[u].pc
    BY <2>1, <2>4
  <2>6. Booted(x)
    BY <1>2, <1>4, <1>5, <2>4, <2>5, NowFields DEF Orderly, Booted
  <2>7. ~ Busy(x, "stop") /\ Awaited(x)
    BY <1>2, <1>4, <1>5, <2>4, <2>5, NowFields DEF Awaited, Busy, Threads
  <2>8. Orderly(x)
    BY <2>4, <2>6, <2>7 DEF Orderly, Down, Ending
  <2> QED BY <1>4, <1>5, <2>7, <2>8, GoesRests
<1>6. CASE thread[s].valid /\ Goes(StartEnds(g, s))
  <2>1. DeskOnly(Now, f)
    BY <1>2, ShowDesk DEF TunnelStates, Codes
  <2> HIDE DEF f
  <2>2. DeskOnly(f, g)
    BY <2>1, ServerDesk DEF DeskOnly
  <2> HIDE DEF g
  <2>3. Onward(Now, g)
    BY <1>2, <2>1, <2>2, DeskTwice, DeskReports, ReportsOrderly
  <2>4. Onward(g, StartEnds(g, s))
    BY <1>2, <2>3, StartEndsOrderly DEF Onward
  <2>5. Onward(Now, StartEnds(g, s))
    BY <2>3, <2>4, OnwardTwice
  <2> QED BY <1>4, <1>6, <2>5, OnwardRests
<1> QED BY <1>1, <1>3, <1>5, <1>6

LEMMA LaunchRests ==
    ASSUME Resting, NEW t \in Starts \union {"restart"}, Launches(t)
    PROVE  Resting'
PROOF
<1>1. PICK over \in BOOLEAN :
         LET w == [Now EXCEPT !.overlap = over]
         IN \/ ~ thread[t].valid /\ Goes(Ends(w, t))
            \/ thread[t].valid /\ Goes(TunnelError(w, t, "terminal"))
            \/ thread[t].valid /\ Goes(TunnelError(Unseen(w), t, "transient"))
            \/ /\ thread[t].valid
               /\ Goes(Update([NewGeneration(To(w, t, "prepare"), t) EXCEPT !.rt.stopping = FALSE],
                            "starting", "ok"))
  <2>1. (overlap \/ (thread[t].valid /\ \E u \in Threads \ {t} : TakenOver(u))) \in BOOLEAN
    OBVIOUS
  <2> QED BY <2>1 DEF Launches
<1> DEFINE w == [Now EXCEPT !.overlap = over]
           v == Unseen(w)
           p == To(w, t, "prepare")
           g == NewGeneration(p, t)
           h == [g EXCEPT !.rt.stopping = FALSE]
           x == Update(h, "starting", "ok")
<1>2. \/ ~ thread[t].valid /\ Goes(Ends(w, t))
      \/ thread[t].valid /\ Goes(TunnelError(w, t, "terminal"))
      \/ thread[t].valid /\ Goes(TunnelError(v, t, "transient"))
      \/ thread[t].valid /\ Goes(x)
  BY <1>1
<1>3. /\ t \in Threads /\ t # "stop" /\ thread[t].pc = "launch" /\ Busy(Now, t)
      /\ Now \in Connections /\ Orderly(Now) /\ Awaited(Now)
  BY Assumptions, NowFields DEF Resting, Orderly, Threads, Launches, Busy
<1>4. Reports(Now, w) /\ Calmer(Now, w) /\ w \in Connections
  <2>1. /\ w \in Connections /\ w.rt = Now.rt /\ w.child = Now.child /\ w.thread = Now.thread
        /\ w.starting = Now.starting /\ w.queued = Now.queued /\ w.watched = Now.watched
        /\ w.again = Now.again /\ w.up = Now.up /\ w.desk = Now.desk
    BY <1>3 DEF Connections
  <2> HIDE DEF w
  <2> QED BY <2>1 DEF Reports, Calmer
<1> HIDE DEF w
<1>5. ASSUME thread[t].valid PROVE up /\ ~ Closed(Now)
  BY <1>3, <1>5, NowFields DEF Orderly, Down, Closed
<1>6. CASE Goes(Ends(w, t))
  BY <1>3, <1>4, <1>6, ReportedEnds, OnwardRests
<1>7. CASE thread[t].valid /\ Goes(TunnelError(w, t, "terminal"))
  <2>1. Onward(Now, TunnelError(w, t, "terminal"))
    BY <1>3, <1>4, TunnelErrorOrderly DEF Codes
  <2> QED BY <1>5, <1>7, <2>1, OnwardRests
<1>8. CASE thread[t].valid /\ Goes(TunnelError(v, t, "transient"))
  <2>1. DeskOnly(w, v)
    BY <1>4, LostDesk DEF Unseen
  <2> HIDE DEF v
  <2>2. Reports(Now, v)
    BY <1>4, <2>1, DeskReports, ReportsTwice
  <2>3. Onward(Now, TunnelError(v, t, "transient"))
    BY <1>3, <2>2, TunnelErrorOrderly DEF Codes
  <2> QED BY <1>5, <1>8, <2>3, OnwardRests
<1>9. CASE thread[t].valid /\ Goes(x)
  <2>1. /\ p \in Connections /\ p.starting = starting /\ p.again = again /\ p.up = up
        /\ \A u \in Threads : /\ p.thread[u].valid = thread[u].valid
                              /\ p.thread[u].pc = IF u = t THEN "prepare" ELSE thread[u].pc
    <3>1. w.starting = starting /\ w.again = again /\ w.up = up /\ w.thread = thread
      BY <1>4, NowFields DEF Reports
    <3>2. "prepare" \in Waits
      BY DEF Waits
    <3>3. /\ p \in Connections /\ p.starting = w.starting /\ p.again = w.again /\ p.up = w.up
          /\ \A u \in Threads : /\ p.thread[u].valid = w.thread[u].valid
                                /\ p.thread[u].pc = IF u = t THEN "prepare" ELSE w.thread[u].pc
      BY <1>3, <1>4, <3>2, ToForm
    <3> HIDE DEF p
    <3> QED BY <3>1, <3>3
  <2> HIDE DEF p
  <2>2. /\ g \in Connections /\ g.starting = p.starting /\ g.again = p.again /\ g.up = p.up
        /\ \A u \in Threads : g.thread[u].valid = p.thread[u].valid /\ g.thread[u].pc = p.thread[u].pc
    <3>1. /\ g \in Connections /\ g.starting = p.starting /\ g.again = p.again /\ g.up = p.up
          /\ g.thread = [u \in Threads |-> [p.thread[u] EXCEPT !.fresh = (u = t)]]
      BY <1>3, <2>1, GenerationForm
    <3> HIDE DEF g
    <3>2. \A u \in Threads : p.thread[u] \in Operations
      BY <2>1 DEF Connections
    <3> QED BY <3>1, <3>2 DEF Operations
  <2> HIDE DEF g
  <2>3. /\ h \in Connections /\ h.starting = g.starting /\ h.again = g.again /\ h.up = g.up
        /\ h.thread = g.thread
    BY <2>2 DEF Connections, Runtimes
  <2> HIDE DEF h
  <2>4. Updated(h, x, "starting", "ok")
    BY <2>3, UpdateForm DEF TunnelStates, Codes
  <2> HIDE DEF x
  <2>5. /\ x \in Connections /\ x.starting = starting /\ x.again = again /\ x.up = up
        /\ \A u \in Threads : /\ x.thread[u].valid = thread[u].valid
                              /\ x.thread[u].pc = IF u = t THEN "prepare" ELSE thread[u].pc
    BY <2>1, <2>2, <2>3, <2>4 DEF Updated
  <2>6. Onward(Now, x)
    <3>1. \A u \in Threads : /\ x.thread[u].valid = thread[u].valid
                             /\ x.thread[u].pc = thread[u].pc
                                \/ (u # "stop" /\ x.thread[u].pc \notin {"boot", "awaitStop"})
      <4> TAKE u \in Threads
      <4>1. CASE u = t
        <5>1. x.thread[u].pc = "prepare" /\ x.thread[u].valid = thread[u].valid
          BY <1>3, <2>5, <4>1
        <5> QED BY <4>1, <5>1, <1>3
      <4>2. CASE u # t
        <5>1. x.thread[u].pc = thread[u].pc /\ x.thread[u].valid = thread[u].valid
          BY <1>3, <2>5, <4>2
        <5> QED BY <5>1
      <4> QED BY <4>1, <4>2
    <3> QED BY <1>5, <1>9, <2>5, <3>1, UpRests
  <2> QED BY <1>5, <1>9, <2>6, OnwardRests
<1> QED BY <1>2, <1>6, <1>7, <1>8, <1>9

LEMMA SpawnRests ==
    ASSUME Resting, NEW t \in Starts \union {"restart"}, Spawns(t)
    PROVE  Resting'
PROOF
<1> DEFINE y == Update(Now, "failed", "terminal")
           l == To(Now, t, "wait")
           x == [l EXCEPT !.child = [of |-> t, fresh |-> TRUE, fatal |-> FALSE, watched |-> FALSE]]
<1>1. \/ ~ thread[t].fresh /\ Goes(Ends(Now, t))
      \/ thread[t].fresh /\ Goes(TunnelError(y, t, "terminal"))
      \/ thread[t].fresh /\ Goes(x)
  BY DEF Spawns
<1>2. /\ t \in Threads /\ t # "stop" /\ thread[t].pc = "prepare" /\ Busy(Now, t)
      /\ Now \in Connections /\ Orderly(Now) /\ Awaited(Now)
  BY Assumptions, NowFields DEF Resting, Orderly, Threads, Spawns, Busy
<1>3. ASSUME thread[t].fresh PROVE up /\ ~ Closed(Now)
  BY <1>2, <1>3, NowFields DEF Orderly, Down, Closed
<1>4. CASE Goes(Ends(Now, t))
  BY <1>2, <1>4, EndsOrderly, OnwardRests
<1>5. CASE thread[t].fresh /\ Goes(TunnelError(y, t, "terminal"))
  <2>1. Reports(Now, y)
    BY <1>2, UpdateReports DEF TunnelStates, Codes
  <2> HIDE DEF y
  <2>2. Onward(Now, TunnelError(y, t, "terminal"))
    BY <1>2, <2>1, TunnelErrorOrderly DEF Codes
  <2> QED BY <1>3, <1>5, <2>2, OnwardRests
<1>6. CASE thread[t].fresh /\ Goes(x)
  <2>1. /\ l \in Connections /\ l.starting = starting /\ l.again = again /\ l.up = up
        /\ \A u \in Threads : /\ l.thread[u].valid = thread[u].valid
                              /\ l.thread[u].pc = IF u = t THEN "wait" ELSE thread[u].pc
    <3>1. "wait" \in Waits
      BY DEF Waits
    <3> QED BY <1>2, <3>1, NowTo
  <2> HIDE DEF l
  <2>2. x \in Connections /\ x.starting = l.starting /\ x.again = l.again /\ x.up = l.up /\ x.thread = l.thread
    <3>1. [of |-> t, fresh |-> TRUE, fatal |-> FALSE, watched |-> FALSE] \in Clients
      BY <1>2 DEF Clients
    <3> QED BY <2>1, <3>1 DEF Connections
  <2> HIDE DEF x
  <2>3. Onward(Now, x)
    <3>1. \A u \in Threads : /\ x.thread[u].valid = thread[u].valid
                             /\ x.thread[u].pc = thread[u].pc
                                \/ (u # "stop" /\ x.thread[u].pc \notin {"boot", "awaitStop"})
      <4> TAKE u \in Threads
      <4>1. CASE u = t
        <5>1. x.thread[u].pc = "wait" /\ x.thread[u].valid = thread[u].valid
          BY <1>2, <2>1, <2>2, <4>1
        <5> QED BY <4>1, <5>1, <1>2
      <4>2. CASE u # t
        <5>1. x.thread[u].pc = thread[u].pc /\ x.thread[u].valid = thread[u].valid
          BY <1>2, <2>1, <2>2, <4>2
        <5> QED BY <5>1
      <4> QED BY <4>1, <4>2
    <3> QED BY <1>3, <1>6, <2>1, <2>2, <3>1, UpRests
  <2> QED BY <1>3, <1>6, <2>3, OnwardRests
<1> QED BY <1>1, <1>4, <1>5, <1>6

(* While the service is up an operation goes on without another's leave.   *)
LEMMA UpSame ==
    ASSUME Resting, up, NEW x \in Connections, x.up, x.starting = starting, x.again = again,
           \A u \in Threads : x.thread[u].valid = thread[u].valid /\ x.thread[u].pc = thread[u].pc
    PROVE  Onward(Now, x) /\ ~ Closed(Now)
PROOF BY UpRests, NowFields DEF Closed

LEMMA UpGoes ==
    ASSUME Resting, up, NEW x, Onward(Now, x), Goes(x)
    PROVE  Resting'
PROOF
<1>1. ~ Closed(Now)
  BY NowFields DEF Closed
<1> QED BY <1>1, OnwardRests

LEMMA ConnectRests ==
    ASSUME Resting, NEW t \in Starts \union {"restart"},
           NEW state \in {"running", "in_place"}, Connects(t, state)
    PROVE  Resting'
PROOF
<1> DEFINE code == IF state = "running" THEN "ok" ELSE "transient"
           u == Update(Now, state, code)
           c == [u EXCEPT !.child.watched = TRUE]
           h == Show(c, state, c.rt.code)
           d == [h EXCEPT !.desk.server = TRUE]
<1>1. /\ thread[t].pc = "wait" /\ thread[t].fresh /\ child # None
      /\ Goes(Ends(c, t)) \/ Goes(Ends(d, t))
  BY DEF Connects, Own
<1>2. code \in Codes /\ state \in TunnelStates
  BY DEF Codes, TunnelStates
<1> HIDE DEF code
<1>3. Now \in Connections /\ Orderly(Now) /\ Awaited(Now) /\ t \in Threads
  BY DEF Resting, Orderly, Threads
<1>4. up
  BY <1>1, <1>3, NowFields DEF Orderly, Down
<1>5. Updated(Now, u, state, code)
  BY <1>2, <1>3, UpdateForm
<1> HIDE DEF u
<1>6. /\ u \in Connections /\ u.thread = thread /\ u.starting = starting /\ u.again = again /\ u.up = up
      /\ u.child = child /\ u.child \in Clients
  BY <1>1, <1>5, NowFields DEF Updated, Connections
<1>7. c \in Connections /\ c.thread = thread /\ c.starting = starting /\ c.again = again /\ c.up = up
  <2>1. [u.child EXCEPT !.watched = TRUE] \in Clients
    BY <1>6 DEF Clients
  <2> QED BY <1>6, <2>1 DEF Connections
<1> HIDE DEF c
<1>8. DeskOnly(c, h)
  <2>1. c.rt.code \in Codes
    BY <1>7 DEF Connections, Runtimes
  <2> QED BY <1>2, <1>7, <2>1, ShowDesk
<1> HIDE DEF h
<1>9. DeskOnly(h, d)
  BY <1>8, ServerDesk DEF DeskOnly
<1> HIDE DEF d
<1>10. d \in Connections /\ d.thread = thread /\ d.starting = starting /\ d.again = again /\ d.up = up
  BY <1>7, <1>8, <1>9 DEF DeskOnly
<1>11. ASSUME NEW y \in Connections, y.thread = thread, y.starting = starting, y.again = again, y.up = up
       PROVE  Onward(Now, Ends(y, t))
  <2>1. Onward(Now, y)
    BY <1>4, <1>11, UpSame
  <2>2. Orderly(y) /\ Awaited(y) /\ Busy(y, t)
    BY <1>1, <1>3, <1>11, <2>1 DEF Onward, Busy
  <2>3. Onward(y, Ends(y, t))
    BY <2>2, EndsOrderly
  <2> QED BY <2>1, <2>3, OnwardTwice
<1>12. Onward(Now, Ends(c, t)) /\ Onward(Now, Ends(d, t))
  BY <1>7, <1>10, <1>11
<1> QED BY <1>1, <1>4, <1>12, UpGoes

LEMMA WaitRests ==
    ASSUME Resting, NEW t \in Starts \union {"restart"}, WaitFails(t)
    PROVE  Resting'
PROOF
<1>1. PICK code \in Codes : Goes([To(Now, t, "cleanup") EXCEPT !.thread[t].code = code])
  BY DEF WaitFails, Codes
<1> DEFINE l == To(Now, t, "cleanup")
           op == [l.thread[t] EXCEPT !.code = code]
           x == [l EXCEPT !.thread[t].code = code]
<1>2. /\ t \in Threads /\ t # "stop" /\ thread[t].pc = "wait" /\ Now \in Connections /\ Orderly(Now)
      /\ "cleanup" \in Waits
  BY Assumptions DEF Resting, Orderly, Threads, WaitFails, Waits
<1>3. /\ l \in Connections /\ l.rt = Now.rt /\ l.child = Now.child /\ l.starting = Now.starting
      /\ l.again = Now.again /\ l.up = Now.up /\ l.queued = Now.queued /\ l.desk = Now.desk
      /\ \A u \in Threads : /\ l.thread[u].fresh = Now.thread[u].fresh
                            /\ l.thread[u].valid = Now.thread[u].valid
                            /\ l.thread[u].pc = IF u = t THEN "cleanup" ELSE Now.thread[u].pc
  BY <1>2, ToForm
<1> HIDE DEF l
<1>4. op \in Operations /\ op.fresh = l.thread[t].fresh /\ op.valid = l.thread[t].valid
      /\ op.pc = l.thread[t].pc
  BY <1>2, <1>3 DEF Connections, Operations
<1>5. /\ x \in Connections /\ x.rt = Now.rt /\ x.child = Now.child /\ x.starting = Now.starting
      /\ x.again = Now.again /\ x.up = Now.up /\ x.queued = Now.queued /\ x.desk = Now.desk
      /\ \A u \in Threads : x.thread[u] = IF u = t THEN op ELSE l.thread[u]
  BY <1>2, <1>3, <1>4 DEF Connections
<1> HIDE DEF op
<1>6. ASSUME NEW u \in Threads
      PROVE  /\ x.thread[u].fresh = Now.thread[u].fresh
             /\ x.thread[u].valid = Now.thread[u].valid
             /\ x.thread[u].pc = IF u = t THEN "cleanup" ELSE Now.thread[u].pc
  <2>1. CASE u = t
    BY <1>2, <1>3, <1>4, <1>5, <2>1
  <2>2. CASE u # t
    <3>1. x.thread[u] = l.thread[u]
      BY <1>5, <2>2
    <3> QED BY <1>3, <3>1, <2>2
  <2> QED BY <2>1, <2>2
<1> HIDE DEF x
<1>7. Now.thread[t].pc = "wait"
  BY <1>2, NowFields
<1>8. Down(x)
  BY <1>2, <1>5, <1>6, <1>7 DEF Orderly, Down
<1>9. Booted(x)
  <2>1. Booted(Now)
    BY <1>2 DEF Orderly
  <2>2. \A u \in Threads : x.thread[u].pc = "boot" <=> Now.thread[u].pc = "boot"
    BY <1>6, <1>7
  <2>3. Now.starting # None => Now.starting \in Threads
    BY <1>2 DEF Connections, Threads
  <2>4. \A u \in Threads : x.thread[u].valid /\ x.thread[u].pc = "boot" => x.starting = u
    BY <1>5, <1>6, <2>1, <2>2 DEF Booted
  <2>5. x.starting # None /\ x.thread[x.starting].pc = "boot" => ~ x.up
    BY <1>5, <2>1, <2>2, <2>3 DEF Booted
  <2> QED BY <2>4, <2>5 DEF Booted
<1>10. "stop" \in Threads /\ "restart" \in Threads
  BY DEF Threads
<1>11. x.thread["stop"].pc = Now.thread["stop"].pc
  BY <1>2, <1>6, <1>10
<1>12. Ending(x)
  BY <1>2, <1>5, <1>6, <1>7, <1>11 DEF Orderly, Ending, Busy
<1>13. x.thread["restart"].pc = "awaitStop" => Now.thread["restart"].pc = "awaitStop"
  BY <1>6, <1>10
<1>14. Onward(Now, x)
  BY <1>5, <1>8, <1>9, <1>11, <1>12, <1>13 DEF Onward, Orderly, Awaited, Busy, Closed, Settled
<1>15. Calmer(Now, x)
  BY <1>5 DEF Calmer
<1> QED BY <1>1, <1>14, <1>15, CalmRests DEF x, l

LEMMA GoneReports ==
    ASSUME NEW w \in Connections
    PROVE  LET x == ChildGone(w)
           IN Reports(w, x) /\ (Down(w) /\ ~ w.up => Calmer(w, x))
PROOF
<1> DEFINE gone == [w EXCEPT !.child = None]
<1>1. Reports(w, gone) /\ gone \in Connections /\ gone.desk = w.desk
  BY DEF Reports, Connections
<1> HIDE DEF gone
<1>2. /\ Reports(gone, Update(gone, "stopped", "ok")) /\ Calmer(gone, Update(gone, "stopped", "ok"))
      /\ Reports(gone, Update(gone, "failed", "transient"))
  BY <1>1, UpdateReports, UpdateCalmer DEF Harmless, TunnelStates, Codes
<1>3. Calmer(w, gone) /\ Calmer(w, w)
  BY <1>1 DEF Calmer
<1>4. CASE w.child = None
  BY <1>3, <1>4, ReportsSame DEF ChildGone
<1>5. CASE w.child # None /\ w.rt.stopping
  <2>1. ChildGone(w) = Update(gone, "stopped", "ok")
    BY <1>5 DEF ChildGone, gone
  <2> QED BY <1>1, <1>2, <1>3, <2>1, ReportsTwice, CalmerTwice
<1>6. CASE w.child # None /\ ~ w.rt.stopping /\ w.child.fresh /\ w.rt.state # "failed"
  <2>1. ChildGone(w) = Update(gone, "failed", "transient")
    BY <1>6 DEF ChildGone, gone
  <2> QED BY <1>1, <1>2, <1>6, <2>1, ReportsTwice DEF Down
<1>7. CASE w.child # None /\ ~ w.rt.stopping /\ ~ (w.child.fresh /\ w.rt.state # "failed")
  <2>1. ChildGone(w) = gone
    BY <1>7 DEF ChildGone, gone
  <2> QED BY <1>1, <1>3, <2>1
<1> QED BY <1>4, <1>5, <1>6, <1>7

LEMMA StoppedReports ==
    ASSUME NEW w, Orderly(w), NEW t \in Threads, NEW confirmed \in BOOLEAN
    PROVE  LET x == RuntimeStopped(w, t, confirmed)
           IN Reports(w, x) /\ (~ w.up => Calmer(w, x))
PROOF
<1> DEFINE g == ChildGone(w)
           x == Update(g, "stopped", "ok")
           y == Update(w, "failed", "terminal")
<1>1. w \in Connections /\ Down(w)
  BY DEF Orderly
<1>2. Reports(w, g) /\ (~ w.up => Calmer(w, g))
  BY <1>1, GoneReports
<1> HIDE DEF g
<1>3. g \in Connections
  BY <1>2 DEF Reports
<1>4. /\ Reports(g, x) /\ Calmer(g, x)
      /\ Reports(w, y) /\ Calmer(w, y)
  BY <1>1, <1>3, UpdateReports, UpdateCalmer DEF Harmless, TunnelStates, Codes
<1>5. RuntimeStopped(w, t, confirmed) \in {w, x, y}
  BY DEF RuntimeStopped, g
<1> HIDE DEF x, y
<1>6. Reports(w, x) /\ (~ w.up => Calmer(w, x))
  BY <1>2, <1>4, ReportsTwice, CalmerTwice
<1>7. Reports(w, w) /\ Calmer(w, w)
  BY <1>1, ReportsSame DEF Calmer
<1> QED BY <1>4, <1>5, <1>6, <1>7

LEMMA CleanupRests ==
    ASSUME Resting, NEW t \in Starts \union {"restart"}, CleanupEnds(t)
    PROVE  Resting'
PROOF
<1>1. PICK w \in {Now, ChildGone(Now)} :
         \/ ~ thread[t].fresh /\ Goes(Ends(w, t))
         \/ thread[t].fresh /\ Goes(TunnelError(Update(w, "failed", thread[t].code), t, thread[t].code))
  BY DEF CleanupEnds
<1>2. /\ t \in Threads /\ thread[t].pc = "cleanup" /\ Busy(Now, t)
      /\ Now \in Connections /\ Orderly(Now) /\ Awaited(Now) /\ Down(Now)
  BY NowFields DEF Resting, Orderly, Threads, CleanupEnds, Busy
<1>3. thread[t].code \in Codes
  BY <1>2, NowFields DEF Connections, Operations
<1>4. Reports(Now, w) /\ (~ up => Calmer(Now, w))
  BY <1>2, GoneReports, ReportsSame, NowFields DEF Calmer
<1>5. CASE Goes(Ends(w, t))
  <2>1. Onward(Now, Ends(w, t)) /\ (Closed(Now) /\ Asleep(Now) /\ Calmer(Now, w) => Quiet(Now, Ends(w, t)))
    BY <1>2, <1>4, ReportedEnds
  <2>2. Closed(Now) => Calmer(Now, w)
    BY <1>4, NowFields DEF Closed
  <2> QED BY <1>5, <2>1, <2>2, OnwardRests
<1>6. CASE thread[t].fresh /\ Goes(TunnelError(Update(w, "failed", thread[t].code), t, thread[t].code))
  <2> DEFINE y == Update(w, "failed", thread[t].code)
  <2>1. Reports(w, y)
    BY <1>3, <1>4, UpdateReports DEF Reports, TunnelStates
  <2> HIDE DEF y
  <2>2. Onward(Now, TunnelError(y, t, thread[t].code))
    BY <1>2, <1>3, <1>4, <2>1, ReportsTwice, TunnelErrorOrderly
  <2>3. up
    BY <1>2, <1>6, NowFields DEF Down
  <2> QED BY <1>6, <2>2, <2>3, UpGoes DEF y
<1> QED BY <1>1, <1>5, <1>6

LEMMA RestartRests == ASSUME Resting, RestartGoesOn PROVE Resting'
PROOF
<1>1. PICK confirmed \in BOOLEAN :
         LET w == RuntimeStopped(Now, "restart", confirmed)
         IN \/ Goes(RestartEnds(w))
            \/ up /\ Goes(Show(To(w, "restart", "launch"), "starting", "ok"))
  BY DEF RestartGoesOn
<1> DEFINE w == RuntimeStopped(Now, "restart", confirmed)
           l == To(w, "restart", "launch")
           x == Show(l, "starting", "ok")
<1>2. /\ "restart" \in Threads /\ Busy(Now, "restart") /\ Now \in Connections
      /\ Orderly(Now) /\ Awaited(Now)
  BY NowFields DEF Resting, Orderly, Threads, RestartGoesOn, Busy
<1>3. Goes(RestartEnds(w)) \/ (up /\ Goes(x))
  BY <1>1
<1>4. Reports(Now, w) /\ (~ up => Calmer(Now, w))
  BY <1>2, StoppedReports, NowFields
<1> HIDE DEF w
<1>5. CASE Goes(RestartEnds(w))
  <2>1. Ends(w, "restart") = RestartEnds(w)
    BY DEF Ends
  <2>2. Onward(Now, RestartEnds(w))
        /\ (Closed(Now) /\ Asleep(Now) /\ Calmer(Now, w) => Quiet(Now, RestartEnds(w)))
    BY <1>2, <1>4, <2>1, ReportedEnds
  <2>3. Closed(Now) => Calmer(Now, w)
    BY <1>4, NowFields DEF Closed
  <2> QED BY <1>5, <2>2, <2>3, OnwardRests
<1>6. CASE up /\ Goes(x)
  <2>1. /\ w \in Connections /\ w.thread = thread /\ w.starting = starting /\ w.again = again /\ w.up = up
    BY <1>4, NowFields DEF Reports
  <2>2. "launch" \in Waits
    BY DEF Waits
  <2>3. /\ l \in Connections /\ l.starting = w.starting /\ l.again = w.again /\ l.up = w.up
        /\ \A u \in Threads : /\ l.thread[u].valid = w.thread[u].valid
                              /\ l.thread[u].pc = IF u = "restart" THEN "launch" ELSE w.thread[u].pc
    BY <1>2, <2>1, <2>2, ToForm
  <2> HIDE DEF l
  <2>4. DeskOnly(l, x)
    BY <2>3, ShowDesk DEF TunnelStates, Codes
  <2> HIDE DEF x
  <2>5. /\ x \in Connections /\ x.starting = starting /\ x.again = again /\ x.up = up
        /\ x.thread = l.thread
    BY <2>1, <2>3, <2>4 DEF DeskOnly
  <2>6. \A u \in Threads : /\ x.thread[u].valid = thread[u].valid
                           /\ x.thread[u].pc = thread[u].pc
                              \/ (u # "stop" /\ x.thread[u].pc \notin {"boot", "awaitStop"})
    BY <2>1, <2>3, <2>5
  <2>7. Onward(Now, x)
    BY <1>6, <2>5, <2>6, UpRests
  <2> QED BY <1>6, <2>7, UpGoes
<1> QED BY <1>3, <1>5, <1>6

LEMMA StopRests == ASSUME Resting, StopEnds PROVE Resting'
PROOF
<1>1. PICK confirmed \in BOOLEAN : Goes(StopDone(RuntimeStopped(Now, "stop", confirmed)))
  BY DEF StopEnds
<1> DEFINE w == RuntimeStopped(Now, "stop", confirmed)
           x == StopDone(w)
<1>2. "stop" \in Threads /\ Busy(Now, "stop") /\ Orderly(Now) /\ ~ up
  BY NowFields DEF Resting, Orderly, Ending, Threads, StopEnds, Busy
<1>3. Reports(Now, w) /\ Calmer(Now, w)
  BY <1>2, StoppedReports, NowFields
<1> HIDE DEF w
<1>4. Onward(Now, w) /\ Busy(w, "stop")
  BY <1>2, <1>3, ReportsOrderly DEF Reports, Busy
<1>5. Orderly(x) /\ Awaited(x) /\ (Closed(w) => Closed(x) /\ Calmer(w, x))
  BY <1>4, StopDoneOrderly DEF Onward
<1>6. Goes(x)
  BY <1>1 DEF w
<1> HIDE DEF x
<1>7. Closed(Now) /\ Asleep(Now) => Closed(x) /\ Quiet(Now, x)
  BY <1>3, <1>4, <1>5, CalmerTwice, CalmerQuiet DEF Onward
<1> QED BY <1>5, <1>6, <1>7, GoesRests

LEMMA GiveUpRests == ASSUME Resting, StopGivesUpOnStart PROVE Resting'
PROOF
<1>1. Orderly(Now) /\ Busy(Now, "stop") /\ Goes(StopServices(Now))
  BY NowFields DEF Resting, StopGivesUpOnStart, Busy
<1> QED BY <1>1, GivesUpOrderly, CalmRests

LEMMA ExitsRests == ASSUME Resting, ChildExits PROVE Resting'
PROOF
<1>1. Orderly(Now) /\ Goes(ChildGone(Now))
  BY DEF Resting, ChildExits
<1>2. Reports(Now, ChildGone(Now)) /\ (~ up => Calmer(Now, ChildGone(Now)))
  BY <1>1, GoneReports, NowFields DEF Orderly
<1>3. Onward(Now, ChildGone(Now)) /\ (Closed(Now) => Calmer(Now, ChildGone(Now)))
  BY <1>1, <1>2, ReportsOrderly, NowFields DEF Closed
<1> QED BY <1>1, <1>3, CalmRests

LEMMA RefusedRests == ASSUME Resting, ClientRefused PROVE Resting'
PROOF
<1> DEFINE f == [Now EXCEPT !.child.fatal = TRUE]
           w == Update(f, "failed", "terminal")
           x == [w EXCEPT !.thread[child.of].code = "terminal"]
<1>1. child # None /\ child.fresh /\ (Goes(w) \/ Goes(x))
  BY DEF ClientRefused
<1>2. Now \in Connections /\ Orderly(Now)
  BY DEF Resting, Orderly
<1>3. child \in Clients /\ child.of \in Threads /\ up
  BY <1>1, <1>2, NowFields DEF Connections, Clients, Orderly, Down
<1>4. f \in Connections /\ f.thread = thread /\ f.starting = starting /\ f.again = again /\ f.up = up
  <2>1. [child EXCEPT !.fatal = TRUE] \in Clients
    BY <1>3 DEF Clients
  <2> QED BY <1>2, <2>1, NowFields DEF Connections
<1> HIDE DEF f
<1>5. Updated(f, w, "failed", "terminal")
  BY <1>4, UpdateForm DEF TunnelStates, Codes
<1> HIDE DEF w
<1>6. w \in Connections /\ w.thread = thread /\ w.starting = starting /\ w.again = again /\ w.up = up
  BY <1>4, <1>5 DEF Updated
<1>7. thread \in [Threads -> Operations]
  BY <1>2, NowFields DEF Connections
<1>8. /\ x \in Connections /\ x.starting = starting /\ x.again = again /\ x.up = up
      /\ x.thread = [thread EXCEPT ![child.of].code = "terminal"]
  <2>1. [thread[child.of] EXCEPT !.code = "terminal"] \in Operations
    BY <1>3, <1>7 DEF Operations, Codes
  <2> QED BY <1>3, <1>6, <1>7, <2>1 DEF Connections
<1> HIDE DEF x
<1>9. \A u \in Threads : x.thread[u].valid = thread[u].valid /\ x.thread[u].pc = thread[u].pc
  <2> TAKE u \in Threads
  <2>1. x.thread[u] = IF u = child.of THEN [thread[u] EXCEPT !.code = "terminal"] ELSE thread[u]
    BY <1>3, <1>7, <1>8
  <2>2. thread[u] \in Operations
    BY <1>7
  <2> QED BY <2>1, <2>2 DEF Operations
<1>10. Onward(Now, w) /\ Onward(Now, x)
  BY <1>3, <1>6, <1>8, <1>9, UpSame
<1> QED BY <1>1, <1>3, <1>10, UpGoes

LEMMA ProbeRests ==
    ASSUME Resting, NEW state \in {"running", "in_place", "degraded"}, Probes(state)
    PROVE  Resting'
PROOF
<1> DEFINE code == IF state = "running" THEN "ok" ELSE "transient"
           x == Update(Now, state, code)
<1>1. Goes(x) /\ child # None /\ child.fresh
  BY DEF Probes, Monitoring
<1>2. Orderly(Now) /\ Now \in Connections /\ code \in Codes /\ state \in TunnelStates
  BY DEF Resting, Orderly, Codes, TunnelStates
<1> HIDE DEF code
<1>3. up
  BY <1>1, <1>2, NowFields DEF Orderly, Down
<1>4. Onward(Now, x)
  BY <1>2, UpdateReports, ReportsOrderly
<1> QED BY <1>1, <1>3, <1>4, UpGoes

LEMMA KillRests ==
    ASSUME Resting, NEW code \in {"transient", "terminal"}, MonitorKills(code)
    PROVE  Resting'
PROOF
<1> DEFINE x == [Now EXCEPT !.rt.report = code]
<1>1. Goes(x) /\ child # None /\ child.fresh
  BY DEF MonitorKills, Monitoring
<1>2. Orderly(Now) /\ Now \in Connections
  BY DEF Resting, Orderly
<1>3. up
  BY <1>1, <1>2, NowFields DEF Orderly, Down
<1>4. x \in Connections /\ x.thread = thread /\ x.starting = starting /\ x.again = again /\ x.up = up
  BY <1>2, NowFields DEF Connections, Runtimes, Codes
<1> HIDE DEF x
<1>5. Onward(Now, x)
  BY <1>3, <1>4, UpSame
<1> QED BY <1>1, <1>3, <1>5, UpGoes

LEMMA ReportRests == ASSUME Resting, MonitorReports PROVE Resting'
PROOF
<1> DEFINE unwatched == [Now EXCEPT !.child.watched = FALSE]
<1>1. PICK confirmed \in BOOLEAN :
         LET w == IF confirmed THEN ChildGone(Now) ELSE unwatched
         IN /\ ~ confirmed => child # None
            /\ Goes(Update([w EXCEPT !.rt.report = "ok"], "failed", rt.report))
  BY DEF MonitorReports
<1> DEFINE w == IF confirmed THEN ChildGone(Now) ELSE unwatched
           y == [w EXCEPT !.rt.report = "ok"]
           x == Update(y, "failed", rt.report)
<1>2. Goes(x) /\ rt.report # "ok" /\ (~ confirmed => child # None)
  BY <1>1 DEF MonitorReports
<1>3. Orderly(Now) /\ Now \in Connections
  BY DEF Resting, Orderly
<1>4. up /\ rt.report \in Codes
  BY <1>2, <1>3, NowFields DEF Orderly, Down, Connections, Runtimes
<1>5. w \in Connections /\ w.thread = thread /\ w.starting = starting /\ w.again = again /\ w.up = up
  <2>1. CASE confirmed
    <3>1. Reports(Now, ChildGone(Now))
      BY <1>3, GoneReports
    <3>2. w = ChildGone(Now)
      BY <2>1
    <3> HIDE DEF w
    <3> QED BY <3>1, <3>2, NowFields DEF Reports
  <2>2. CASE ~ confirmed
    <3>1. [child EXCEPT !.watched = FALSE] \in Clients
      BY <1>2, <1>3, <2>2, NowFields DEF Connections, Clients
    <3>2. w = unwatched
      BY <2>2
    <3> HIDE DEF w
    <3> QED BY <1>3, <3>1, <3>2, NowFields DEF Connections
  <2> QED BY <2>1, <2>2
<1> HIDE DEF w
<1>6. y \in Connections /\ y.thread = thread /\ y.starting = starting /\ y.again = again /\ y.up = up
  BY <1>5 DEF Connections, Runtimes, Codes
<1> HIDE DEF y
<1>7. Updated(y, x, "failed", rt.report)
  BY <1>4, <1>6, UpdateForm DEF TunnelStates
<1> HIDE DEF x
<1>8. x \in Connections /\ x.thread = thread /\ x.starting = starting /\ x.again = again /\ x.up = up
  BY <1>6, <1>7 DEF Updated
<1>9. Onward(Now, x)
  BY <1>4, <1>8, UpSame
<1> QED BY <1>2, <1>4, <1>9, UpGoes

LEMMA NextRests == ASSUME Resting, [Next]_vars PROVE Resting'
PROOF
<1>1. CASE UserNext
  BY <1>1, UserRests
<1>2. CASE \E s \in Starts : BootEnds(s)
  BY <1>2, BootRests
<1>3. ASSUME NEW t \in Starts \union {"restart"}, TunnelNext(t)
      PROVE  Resting'
  BY <1>3, LaunchRests, SpawnRests, ConnectRests, WaitRests, CleanupRests DEF TunnelNext
<1>4. CASE ClientNext
  BY <1>4, ExitsRests, RefusedRests, ProbeRests, KillRests, ReportRests DEF ClientNext
<1>5. CASE UNCHANGED vars
  <2>1. /\ desk' = desk /\ rt' = rt /\ child' = child /\ thread' = thread /\ starting' = starting
        /\ queued' = queued /\ watched' = watched /\ again' = again /\ up' = up /\ overlap' = overlap
        /\ wanted' = wanted
    BY <1>5 DEF vars
  <2>2. Now' = Now
    BY <2>1 DEF Now
  <2> QED BY <2>1, <2>2 DEF Resting
<1>6. CASE TimerFires \/ ServiceExits \/ RestartGoesOn \/ StopEnds \/ StopGivesUpOnStart
  BY <1>6, TimerRests, ExitRests, RestartRests, StopRests, GiveUpRests
<1> QED BY <1>1, <1>2, <1>3, <1>4, <1>5, <1>6 DEF Next

LEMMA InitRests == Init => Resting
PROOF
<1> SUFFICES ASSUME Init PROVE Resting
  OBVIOUS
<1>1. \A t \in Threads : thread[t].pc = "idle" /\ ~ thread[t].fresh /\ ~ thread[t].valid
  BY IdleIsIdle DEF Init
<1>2. Now \in Connections
  BY InitSound DEF Sound
<1>3. "stop" \in Threads /\ "restart" \in Threads
  BY DEF Threads
<1>4. Down(Now) /\ Booted(Now) /\ Ending(Now)
  BY <1>1, <1>3, NowFields DEF Init, Down, Booted, Ending, Busy
<1>5. Awaited(Now) /\ Closed(Now) /\ Asleep(Now)
  BY <1>1, <1>3, NowFields DEF Init, Awaited, Closed, Settled, Asleep, Busy
<1> QED BY <1>2, <1>4, <1>5 DEF Resting, Orderly

(* Once a stop has begun no client is spawned before somebody asks for one *)
(* again, whatever starts, attempts and restarts it overtook: the token,   *)
(* the generation and the revoked queue leave nobody on the way to one,    *)
(* and what they still report wakes no supervisor.                         *)
THEOREM StopStaysFinal == Spec => StopIsFinal
PROOF
<1>1. Sound(Now) /\ Resting /\ [Next]_vars => Sound(Now)' /\ Resting'
  BY NextSteps, NextRests DEF Stepped
<1>2. Sound(Now) /\ Resting /\ [Next]_vars => [Spawning => wanted # "no"]_vars
  <2> SUFFICES ASSUME Sound(Now), Resting, [Next]_vars, Spawning PROVE wanted # "no"
    OBVIOUS
  <2>1. PICK t \in Threads : thread[t].fresh /\ thread[t].pc = "prepare"
    BY NextSteps DEF Stepped
  <2>2. up
    BY <2>1, NowFields DEF Resting, Orderly, Down
  <2> QED BY <2>2, NowFields DEF Resting, Closed
<1> QED BY InitSound, InitRests, <1>1, <1>2, PTL DEF Spec, StopIsFinal

-----------------------------------------------------------------------------
(* What the desktop shows agrees with the runtime.  First the operations,  *)
(* by themselves: who holds the token, and who waits for whom.             *)

Launching == {"prepare", "wait", "cleanup"}

Roles(w) ==
    /\ \A s \in Starts : w.thread[s].pc \in {"idle", "boot", "launch"} \union Launching
    /\ w.thread["restart"].pc \notin {"boot", "startup"}
    /\ w.thread["stop"].pc \in {"idle", "stopping", "startup"} /\ ~ w.thread["stop"].valid

OneToken(w) == \A t, u \in Threads : w.thread[t].valid /\ w.thread[u].valid => t = u

(* A start with the token is the one that may be joined. *)
Joined(w) ==
    /\ \A s \in Starts : w.thread[s].valid => w.starting = s
    /\ w.starting # None => Busy(w, w.starting)

(* A restart that found no start to wait for: no instance has one. *)
Stuck(w) == w.thread["restart"].pc = "delegated" /\ w.thread["restart"].waits = None

(* A restart waits for a start under way, or for e, that has just ended. *)
Waiting(w, e) ==
    w.thread["restart"].pc \in {"delegated", "awaitStart"} =>
        \/ Stuck(w)
        \/ /\ w.thread["restart"].waits \in Starts
           /\ w.thread["restart"].waits = e \/ Busy(w, w.thread["restart"].waits)

(* While the tunnel is launched the token and the generation go together. *)
Same(w) == \A t \in Threads : w.thread[t].pc \in Launching => w.thread[t].valid = w.thread[t].fresh

(* The operation that launches the tunnel for itself is alone, but for a   *)
(* restart that waits for it.                                              *)
Sole(w) ==
    ~ w.overlap => \A t \in Threads : w.thread[t].valid /\ w.thread[t].pc \in Launching =>
        /\ \A s \in Starts \ {t} : ~ Busy(w, s)
        /\ t # "restart" => ~ Busy(w, "restart") \/ w.thread["restart"].waits = t \/ Stuck(w)

Woven(w, e) == Roles(w) /\ OneToken(w) /\ Joined(w) /\ Waiting(w, e) /\ Same(w) /\ Sole(w)

(* Then the desktop.  A client that is monitored, or a connection that is  *)
(* shown, belongs to no operation under way, unless a restart has just     *)
(* begun or waits for e.                                                   *)
Monitored(w) == w.child # None /\ w.child.watched /\ w.child.fresh /\ ~ w.rt.stopping

Open(w) == ~ w.overlap /\ ~ Busy(w, "stop")

Present(w) == Open(w) /\ (w.desk.tunnel = "running" \/ Monitored(w))

Connected(w, e) ==
    Present(w) =>
        /\ w.up /\ \A s \in Starts : ~ Busy(w, s)
        /\ \/ ~ Busy(w, "restart") \/ Stuck(w)
           \/ w.thread["restart"].pc = "stopping" /\ w.thread["restart"].valid /\ w.thread["restart"].fresh
           \/ e # None /\ w.thread["restart"].waits = e

(* The connection that is shown is not there. *)
Hidden(w) == w.desk.tunnel = "running" /\ ~ w.desk.lost /\ w.rt.state # "running"

Agreed(w) == Open(w) => ~ Hidden(w)

(* A failure is hidden only while it is known that a restart is under way. *)
Known(w) == Agreed(w) \/ Busy(w, "restart")

Timed(w) == w.desk.timer => w.desk.tunnel # "running"

Attempting(w) == w.desk.attempt = "current" => Busy(w, "restart")

Shown(w, e) == Connected(w, e) /\ Known(w) /\ Timed(w) /\ Attempting(w)

Agreeing(w) == Woven(w, None) /\ Shown(w, None)

(* Nothing new is shown or monitored in x. *)
Fainter(w, x) ==
    /\ x \in Connections
    /\ x.overlap = w.overlap
    /\ Monitored(x) => Monitored(w)
    /\ x.desk.tunnel = "running" => w.desk.tunnel = "running" /\ (x.desk.timer => w.desk.timer)
    /\ x.desk.attempt = "current" => w.desk.attempt = "current"

(* Nor has the runtime changed behind what is shown. *)
Softer(w, x) ==
    /\ Fainter(w, x)
    /\ x.desk.tunnel = "running" => (w.desk.lost => x.desk.lost) /\ x.rt.state = w.rt.state

(* What the runtime reports: a failure is hidden behind an attempt, or a   *)
(* timer, that was there.                                                  *)
Excuse(w) == w.desk.attempt = "current" \/ (w.desk.tunnel = "running" /\ w.desk.timer)

Reporting(w, x) ==
    /\ Fainter(w, x)
    /\ x.thread = w.thread /\ x.starting = w.starting /\ x.up = w.up
    /\ Hidden(x) => Hidden(w) \/ Excuse(w)

LEMMA FainterTwice ==
    ASSUME NEW w, NEW x, NEW y, Fainter(w, x), Fainter(x, y)
    PROVE  Fainter(w, y)
PROOF BY DEF Fainter

LEMMA SofterTwice ==
    ASSUME NEW w, NEW x, NEW y, Softer(w, x), Softer(x, y)
    PROVE  Softer(w, y)
PROOF BY FainterTwice DEF Softer, Fainter

LEMMA SofterSame == ASSUME NEW w \in Connections PROVE Softer(w, w)
PROOF BY DEF Softer, Fainter

(* A change of the desktop alone. *)
LEMMA DeskSofter ==
    ASSUME NEW w \in Connections, NEW x, DeskOnly(w, x),
           x.desk.tunnel = "running" =>
               w.desk.tunnel = "running" /\ (x.desk.timer => w.desk.timer) /\ (w.desk.lost => x.desk.lost),
           x.desk.attempt = "current" => w.desk.attempt = "current"
    PROVE  Softer(w, x)
PROOF BY DEF DeskOnly, Softer, Fainter, Monitored

LEMMA CancelledSofter == ASSUME NEW w \in Connections PROVE Softer(w, Cancelled(w))
PROOF
<1>1. LET x == Cancelled(w)
      IN /\ x.desk.tunnel = w.desk.tunnel /\ x.desk.lost = w.desk.lost /\ ~ x.desk.timer
         /\ x.desk.attempt # "current"
  BY DEF Connections, Desks, Cancelled
<1> QED BY <1>1, CancelledDesk, DeskSofter

LEMMA DelayedSofter == ASSUME NEW w \in Connections PROVE Softer(w, Delayed(w))
PROOF
<1>1. Delayed(w).desk.tunnel = "degraded" /\ Delayed(w).desk.attempt = w.desk.attempt
  BY DEF Connections, Desks, Delayed
<1> QED BY <1>1, DelayedDesk, DeskSofter

LEMMA LostSofter == ASSUME NEW w \in Connections PROVE Softer(w, [w EXCEPT !.desk.lost = TRUE])
PROOF
<1> DEFINE x == [w EXCEPT !.desk.lost = TRUE]
<1>1. /\ x.desk.tunnel = w.desk.tunnel /\ x.desk.lost /\ x.desk.timer = w.desk.timer
      /\ x.desk.attempt = w.desk.attempt
  BY DEF Connections, Desks
<1>2. DeskOnly(w, x)
  BY LostDesk
<1> HIDE DEF x
<1>3. Softer(w, x)
  BY <1>1, <1>2, DeskSofter
<1> QED BY <1>3 DEF x

LEMMA ServerSofter ==
    ASSUME NEW w \in Connections, NEW b \in BOOLEAN
    PROVE  Softer(w, [w EXCEPT !.desk.server = b])
PROOF
<1> DEFINE x == [w EXCEPT !.desk.server = b]
<1>1. /\ x.desk.tunnel = w.desk.tunnel /\ x.desk.lost = w.desk.lost /\ x.desk.timer = w.desk.timer
      /\ x.desk.attempt = w.desk.attempt
  BY DEF Connections, Desks
<1>2. DeskOnly(w, x)
  BY ServerDesk
<1> HIDE DEF x
<1>3. Softer(w, x)
  BY <1>1, <1>2, DeskSofter
<1> QED BY <1>3 DEF x

LEMMA ShowSofter ==
    ASSUME NEW w \in Connections, NEW state \in TunnelStates, state # "running", NEW code \in Codes
    PROVE  Softer(w, Show(w, state, code)) /\ Show(w, state, code).desk.tunnel = state
PROOF
<1>1. Show(w, state, code).desk.tunnel = state /\ Show(w, state, code).desk.attempt = w.desk.attempt
  BY DEF Connections, Desks, Show
<1> QED BY <1>1, ShowDesk, DeskSofter

LEMMA ScheduledSofter == ASSUME NEW w \in Connections PROVE Softer(w, Scheduled(w))
PROOF
<1>1. w.desk.attempt \in {"none", "current", "stale"} /\ w.desk.timer \in BOOLEAN
  BY DEF Connections, Desks
<1>2. Scheduled(w) \in {w, [w EXCEPT !.desk.lost = TRUE], Delayed(w)}
  BY <1>1 DEF Scheduled
<1> QED BY <1>2, SofterSame, LostSofter, DelayedSofter

LEMMA ObserveSofter ==
    ASSUME NEW w \in Connections, NEW state, NEW code
    PROVE  Softer(w, Observe(w, state, code))
PROOF
<1>1. Observe(w, state, code) \in {w, Cancelled(w), Scheduled(w)}
  BY DEF Observe
<1> QED BY <1>1, SofterSame, CancelledSofter, ScheduledSofter

(* When an attempt settles none is left. *)
LEMMA SettlesSofter ==
    ASSUME NEW w \in Connections
    PROVE  Softer(w, AttemptSettles(w)) /\ AttemptSettles(w).desk.attempt = "none"
PROOF
<1> DEFINE done == [w EXCEPT !.desk.attempt = "none"]
           over == [done EXCEPT !.desk.timer = FALSE]
<1>1. done \in Connections /\ DeskOnly(w, done)
  BY AttemptDesk DEF DeskOnly
<1>2. /\ done.desk.tunnel = w.desk.tunnel /\ done.desk.lost = w.desk.lost
      /\ done.desk.timer = w.desk.timer /\ done.desk.attempt = "none"
  BY DEF Connections, Desks
<1>3. AttemptSettles(w) \in {done, over, Delayed(done)}
  BY DEF AttemptSettles
<1> HIDE DEF done
<1>4. Softer(w, done)
  BY <1>1, <1>2, DeskSofter
<1>5. /\ over.desk.tunnel = done.desk.tunnel /\ over.desk.lost = done.desk.lost
      /\ over.desk.timer = FALSE /\ over.desk.attempt = "none"
      /\ Delayed(done).desk.attempt = "none"
  BY <1>1, <1>2 DEF Connections, Desks, Delayed
<1>6. DeskOnly(done, over)
  <2>1. [done.desk EXCEPT !.timer = FALSE] \in Desks
    BY <1>1 DEF Connections, Desks
  <2> QED BY <2>1, <1>1 DEF DeskOnly, Connections
<1> HIDE DEF over
<1>7. Softer(done, over) /\ Softer(done, Delayed(done))
  BY <1>1, <1>2, <1>5, <1>6, DeskSofter, DelayedSofter
<1>8. Softer(w, over) /\ Softer(w, Delayed(done))
  BY <1>4, <1>7, SofterTwice
<1> QED BY <1>2, <1>3, <1>4, <1>5, <1>8

-----------------------------------------------------------------------------
(* Reports of the runtime. *)

LEMMA ReportingTwice ==
    ASSUME NEW w, NEW x, NEW y, Reporting(w, x), Reporting(x, y)
    PROVE  Reporting(w, y)
PROOF
<1>1. Fainter(w, y)
  BY FainterTwice DEF Reporting
<1>2. Excuse(x) => Excuse(w)
  BY DEF Reporting, Fainter, Excuse
<1> QED BY <1>1, <1>2 DEF Reporting

LEMMA DeskReporting ==
    ASSUME NEW w \in Connections, NEW x, DeskOnly(w, x), Softer(w, x)
    PROVE  Reporting(w, x)
PROOF
<1>1. x.thread = w.thread /\ x.starting = w.starting /\ x.up = w.up
  BY DEF DeskOnly
<1>2. Hidden(x) => Hidden(w)
  BY DEF Softer, Fainter, Hidden
<1> QED BY <1>1, <1>2 DEF Softer, Reporting

LEMMA HandleExcused ==
    ASSUME NEW w \in Connections, NEW state \in TunnelStates, state # "running", NEW code \in Codes
    PROVE  LET x == HandleTunnelStatus(w, state, code)
           IN /\ Fainter(w, x) /\ (Hidden(x) => Excuse(w))
              /\ state # "failed" => x.desk.tunnel # "running"
PROOF
<1> DEFINE seen == Observe(w, state, code)
           shown == Show(w, state, code)
           x == HandleTunnelStatus(w, state, code)
<1>1. /\ seen \in Connections /\ shown \in Connections
  BY ObserveDesk, ShowDesk DEF DeskOnly
<1>2. Softer(w, seen) /\ Softer(w, shown) /\ shown.desk.tunnel = state
  BY ObserveSofter, ShowSofter
<1>3. CASE state # "failed"
  <2>1. x = Observe(shown, state, code)
    BY <1>3 DEF HandleTunnelStatus
  <2> HIDE DEF shown, x
  <2>2. Softer(shown, x)
    BY <1>1, <2>1, ObserveSofter
  <2>3. Softer(w, x)
    BY <1>2, <2>2, SofterTwice
  <2>4. x.desk.tunnel # "running"
    BY <1>2, <2>2 DEF Softer, Fainter
  <2> QED BY <2>3, <2>4 DEF Softer, Hidden, x
<1>4. CASE state = "failed" /\ seen.desk.attempt = "stale"
  <2>1. x = [seen EXCEPT !.desk.lost = TRUE]
    BY <1>4 DEF HandleTunnelStatus
  <2> HIDE DEF seen, x
  <2>2. Softer(seen, x) /\ x.desk.lost
    BY <1>1, <2>1, LostSofter DEF Connections, Desks
  <2>3. Softer(w, x)
    BY <1>2, <2>2, SofterTwice
  <2> QED BY <1>4, <2>2, <2>3 DEF Softer, Hidden, x
<1>5. CASE state = "failed" /\ seen.desk.attempt # "stale" /\ (seen.desk.timer \/ seen.desk.attempt = "current")
  <2>1. x = seen
    BY <1>5 DEF HandleTunnelStatus
  <2> HIDE DEF seen, x
  <2> QED BY <1>2, <1>5, <2>1 DEF Softer, Fainter, Hidden, Excuse, x
<1>6. CASE state = "failed" /\ seen.desk.attempt # "stale" /\ ~ (seen.desk.timer \/ seen.desk.attempt = "current")
  <2>1. x = Show(seen, state, code)
    BY <1>6 DEF HandleTunnelStatus
  <2> HIDE DEF seen, x
  <2>2. Softer(seen, x) /\ x.desk.tunnel = "failed"
    BY <1>1, <1>6, <2>1, ShowSofter
  <2>3. Softer(w, x)
    BY <1>2, <2>2, SofterTwice
  <2> QED BY <2>2, <2>3 DEF Softer, Hidden, x
<1> QED BY <1>3, <1>4, <1>5, <1>6

LEMMA UpdateReporting ==
    ASSUME NEW w \in Connections, NEW state \in TunnelStates, state # "running", NEW code \in Codes
    PROVE  LET x == Update(w, state, code)
           IN Reporting(w, x) /\ (state # "failed" => x.desk.tunnel # "running")
PROOF
<1> DEFINE y == [w EXCEPT !.rt.state = state, !.rt.code = code, !.desk.lost = FALSE]
           x == Update(w, state, code)
<1>1. /\ y \in Connections /\ y.overlap = w.overlap /\ y.child = w.child
      /\ y.rt.stopping = w.rt.stopping /\ y.desk.tunnel = w.desk.tunnel
      /\ y.desk.timer = w.desk.timer /\ y.desk.attempt = w.desk.attempt
  BY DEF Connections, Desks, Runtimes
<1>2. x = HandleTunnelStatus(y, state, code)
  BY DEF Update
<1>3. Updated(w, x, state, code)
  BY UpdateForm
<1> HIDE DEF x, y
<1>4. /\ Fainter(y, x) /\ (Hidden(x) => Excuse(y))
      /\ state # "failed" => x.desk.tunnel # "running"
  BY <1>1, <1>2, HandleExcused
<1>5. Fainter(w, y) /\ (Excuse(y) => Excuse(w))
  BY <1>1 DEF Fainter, Excuse, Monitored
<1>6. Fainter(w, x)
  BY <1>4, <1>5, FainterTwice
<1>7. x.thread = w.thread /\ x.starting = w.starting /\ x.up = w.up
  BY <1>3 DEF Updated
<1>8. Reporting(w, x)
  BY <1>4, <1>5, <1>6, <1>7 DEF Reporting
<1> QED BY <1>4, <1>8 DEF x

(* The report of a connection. *)
LEMMA UpdateConnected ==
    ASSUME NEW w \in Connections, NEW state \in {"running", "in_place"}, NEW code \in Codes
    PROVE  LET x == Update(w, state, code)
           IN /\ Updated(w, x, state, code)
              /\ x.desk.tunnel = state /\ x.rt.state = state /\ ~ x.desk.timer /\ x.desk.attempt # "current"
PROOF
<1> DEFINE y == [w EXCEPT !.rt.state = state, !.rt.code = code, !.desk.lost = FALSE]
           z == Show(y, state, code)
           x == Update(w, state, code)
<1>1. y \in Connections
  BY DEF Connections, Desks, Runtimes, TunnelStates
<1>2. x = Cancelled(z)
  BY DEF Update, HandleTunnelStatus, Observe
<1>3. Updated(w, x, state, code)
  BY UpdateForm DEF TunnelStates
<1> HIDE DEF x, y
<1>4. z \in Connections /\ z.desk.tunnel = state
  <2>1. z \in Connections
    BY <1>1, ShowDesk DEF DeskOnly, TunnelStates
  <2>2. z.desk.tunnel = state
    BY <1>1 DEF Connections, Desks, Show
  <2> QED BY <2>1, <2>2
<1> HIDE DEF z
<1>5. x.desk.tunnel = state /\ ~ x.desk.timer /\ x.desk.attempt # "current"
  BY <1>2, <1>4 DEF Connections, Desks, Cancelled
<1>6. x.rt.state = state
  BY <1>3 DEF Updated, Connections, Runtimes
<1> QED BY <1>3, <1>5, <1>6 DEF x

LEMMA GoneReporting ==
    ASSUME NEW w \in Connections
    PROVE  Reporting(w, ChildGone(w))
PROOF
<1> DEFINE gone == [w EXCEPT !.child = None]
<1>0. /\ gone \in Connections /\ gone.child = None /\ gone.rt = w.rt /\ gone.desk = w.desk
      /\ gone.thread = w.thread /\ gone.starting = w.starting /\ gone.up = w.up
      /\ gone.overlap = w.overlap
  BY DEF Connections
<1> HIDE DEF gone
<1>1. Reporting(w, gone) /\ gone \in Connections
  BY <1>0 DEF Reporting, Fainter, Monitored, Hidden
<1>2. Reporting(gone, Update(gone, "stopped", "ok")) /\ Reporting(gone, Update(gone, "failed", "transient"))
  BY <1>1, UpdateReporting DEF TunnelStates, Codes
<1>3. Reporting(w, w)
  BY SofterSame DEF Reporting, Softer
<1>4. Reporting(w, Update(gone, "stopped", "ok")) /\ Reporting(w, Update(gone, "failed", "transient"))
  BY <1>1, <1>2, ReportingTwice
<1>5. ChildGone(w) \in {w, gone, Update(gone, "stopped", "ok"), Update(gone, "failed", "transient")}
  BY DEF ChildGone, gone
<1> QED BY <1>1, <1>3, <1>4, <1>5

LEMMA StoppedReporting ==
    ASSUME NEW w \in Connections, NEW t \in Threads, NEW confirmed \in BOOLEAN
    PROVE  LET x == RuntimeStopped(w, t, confirmed)
           IN /\ Reporting(w, x) /\ x.child \in {None, w.child} /\ x.rt.stopping = w.rt.stopping
PROOF
<1> DEFINE g == ChildGone(w)
           x == Update(g, "stopped", "ok")
           y == Update(w, "failed", "terminal")
<1>1. Reporting(w, g) /\ g.child \in {None, w.child} /\ g.rt.stopping = w.rt.stopping
  <2>1. Reporting(w, g) /\ g.child \in {None, w.child}
    BY GoneReporting, GoneReports DEF Reports
  <2> DEFINE gone == [w EXCEPT !.child = None]
  <2>2. gone \in Connections /\ gone.rt = w.rt
    BY DEF Connections
  <2>3. g \in {w, gone, Update(gone, "stopped", "ok"), Update(gone, "failed", "transient")}
    BY DEF ChildGone
  <2> HIDE DEF gone, g
  <2>4. /\ Updated(gone, Update(gone, "stopped", "ok"), "stopped", "ok")
        /\ Updated(gone, Update(gone, "failed", "transient"), "failed", "transient")
    BY <2>2, UpdateForm DEF TunnelStates, Codes
  <2>5. gone.rt \in Runtimes
    BY <2>2 DEF Connections
  <2>6. /\ Update(gone, "stopped", "ok").rt.stopping = gone.rt.stopping
        /\ Update(gone, "failed", "transient").rt.stopping = gone.rt.stopping
    BY <2>4, <2>5 DEF Updated, Runtimes
  <2>7. g.rt.stopping = w.rt.stopping
    BY <2>2, <2>3, <2>6
  <2> QED BY <2>1, <2>7
<1>2. RuntimeStopped(w, t, confirmed) \in {w, x, y}
  BY DEF RuntimeStopped
<1>3. g \in Connections
  BY <1>1 DEF Reporting, Fainter
<1> HIDE DEF g
<1>4. Reporting(g, x) /\ Reporting(w, y) /\ Updated(g, x, "stopped", "ok") /\ Updated(w, y, "failed", "terminal")
  BY <1>3, UpdateReporting, UpdateForm DEF TunnelStates, Codes
<1>5. Reporting(w, x) /\ Reporting(w, w)
  BY <1>1, <1>4, ReportingTwice, SofterSame DEF Reporting, Softer
<1>6. x.rt.stopping = g.rt.stopping /\ y.rt.stopping = w.rt.stopping /\ x.child = g.child /\ y.child = w.child
  BY <1>3, <1>4 DEF Updated, Connections, Runtimes
<1> HIDE DEF x, y
<1> QED BY <1>1, <1>2, <1>4, <1>5, <1>6

(* A report leaves the desktop in agreement. *)
LEMMA WovenSame ==
    ASSUME NEW w, NEW e, Woven(w, e), NEW x,
           x.thread = w.thread, x.starting = w.starting, w.overlap => x.overlap
    PROVE  Woven(x, e)
PROOF
<1>1. \A t : Busy(x, t) = Busy(w, t)
  BY DEF Busy
<1>2. Roles(x) /\ OneToken(x) /\ Same(x)
  BY DEF Woven, Roles, OneToken, Same
<1>3. Stuck(x) = Stuck(w)
  BY DEF Stuck
<1>4. Joined(x) /\ Waiting(x, e)
  BY <1>1, <1>3 DEF Woven, Joined, Waiting
<1>5. Sole(x)
  BY <1>1, <1>3 DEF Woven, Sole
<1> QED BY <1>2, <1>4, <1>5 DEF Woven

LEMMA FainterPresent ==
    ASSUME NEW w, NEW x, Fainter(w, x), Present(x), Busy(x, "stop") = Busy(w, "stop")
    PROVE  Present(w)
PROOF BY DEF Fainter, Present, Open

LEMMA ReportingAgrees ==
    ASSUME NEW w, NEW e, Woven(w, e), Shown(w, e), NEW x, Reporting(w, x)
    PROVE  Woven(x, e) /\ Shown(x, e)
PROOF
<1>1. Woven(x, e)
  BY WovenSame DEF Reporting, Fainter
<1>2. \A t : Busy(x, t) = Busy(w, t)
  BY DEF Reporting, Busy
<1>3. Stuck(x) = Stuck(w)
  BY DEF Reporting, Stuck
<1>4. Present(x) => Present(w)
  BY <1>2, FainterPresent DEF Reporting
<1>5. Connected(x, e)
  BY <1>2, <1>3, <1>4 DEF Shown, Connected, Reporting
<1>6. Timed(x) /\ Attempting(x)
  BY <1>2 DEF Shown, Timed, Attempting, Reporting, Fainter
<1>7. Known(x)
  <2>1. SUFFICES ASSUME Open(x), Hidden(x), ~ Busy(x, "restart") PROVE FALSE
    BY DEF Known, Agreed
  <2>2. Open(w)
    BY <2>1, <1>2 DEF Open, Reporting, Fainter
  <2>3. ~ Hidden(w)
    BY <2>1, <2>2, <1>2 DEF Shown, Known, Agreed
  <2>4. ~ Excuse(w)
    BY <2>1, <1>2 DEF Shown, Timed, Attempting, Excuse
  <2> QED BY <2>1, <2>3, <2>4 DEF Reporting
<1> QED BY <1>1, <1>5, <1>6, <1>7 DEF Shown

-----------------------------------------------------------------------------
(* What the operations of the service runtime make of the threads.         *)

(* Only t goes on with the token and the generation, and waits for the     *)
(* client to be gone.                                                      *)
Stops(w, x, t) ==
    /\ Softer(w, x) /\ ~ Monitored(x)
    /\ x.starting = w.starting
    /\ \A u \in Threads :
          /\ x.thread[u].fresh = (u = t)
          /\ x.thread[u].pc = IF u = t THEN "stopping" ELSE w.thread[u].pc

LEMMA StopsSofter ==
    ASSUME NEW w \in Connections, NEW t \in Threads
    PROVE  LET x == RuntimeStops(w, t)
           IN /\ Stops(w, x, t) /\ x.up = w.up
              /\ \A u \in Threads : x.thread[u].valid = w.thread[u].valid /\ x.thread[u].waits = w.thread[u].waits
PROOF
<1> DEFINE g == NewGeneration(w, t)
           y == [g EXCEPT !.rt.stopping = TRUE, !.thread[t].pc = "stopping"]
           x == RuntimeStops(w, t)
<1>1. /\ g \in Connections /\ g.desk = w.desk /\ g.overlap = w.overlap /\ g.rt = [w.rt EXCEPT !.report = "ok"]
  BY GenerationForm
<1>2. x = IF w.child = None THEN Update(y, "stopped", "ok") ELSE y
  BY DEF RuntimeStops
<1>3. /\ x \in Connections
      /\ \A u \in Threads :
            /\ x.thread[u].fresh = (u = t)
            /\ x.thread[u].pc = IF u = t THEN "stopping" ELSE w.thread[u].pc
            /\ x.thread[u].valid = w.thread[u].valid /\ x.thread[u].waits = w.thread[u].waits
      /\ x.child = IF w.child = None THEN None ELSE [w.child EXCEPT !.fresh = FALSE]
      /\ x.rt.stopping /\ x.rt.report = "ok"
      /\ x.rt.state = IF w.child = None THEN "stopped" ELSE w.rt.state
      /\ x.starting = w.starting /\ x.queued = w.queued /\ x.watched = w.watched
      /\ x.again = w.again /\ x.up = w.up /\ x.overlap = w.overlap
  BY StopsForm
<1> HIDE DEF g, x
<1>4. y \in Connections /\ y.desk = w.desk /\ y.rt.state = w.rt.state
  <2>1. g.thread[t] \in Operations /\ g.rt \in Runtimes /\ g.thread \in [Threads -> Operations]
    BY <1>1 DEF Connections
  <2>2. [g.thread[t] EXCEPT !.pc = "stopping"] \in Operations /\ [g.rt EXCEPT !.stopping = TRUE] \in Runtimes
    BY <2>1 DEF Operations, Waits, Runtimes
  <2>3. [g.thread EXCEPT ![t] = [g.thread[t] EXCEPT !.pc = "stopping"]] \in [Threads -> Operations]
    BY <2>1, <2>2
  <2>4. y \in Connections /\ y.desk = g.desk /\ y.rt = [g.rt EXCEPT !.stopping = TRUE]
    BY <1>1, <2>2, <2>3 DEF Connections
  <2> HIDE DEF y
  <2>5. w.rt \in Runtimes
    BY DEF Connections
  <2> QED BY <2>1, <2>4, <2>5, <1>1 DEF Runtimes
<1> HIDE DEF y
<1>5. ~ Monitored(x)
  BY <1>3 DEF Monitored
<1>6. CASE w.child = None
  <2>1. Fainter(y, x) /\ x.desk.tunnel # "running"
    BY <1>2, <1>4, <1>6, UpdateReporting DEF Reporting, TunnelStates, Codes
  <2>2. Softer(w, x)
    BY <1>3, <1>4, <1>5, <2>1 DEF Softer, Fainter
  <2> QED BY <2>2, <1>3, <1>5 DEF Stops, x
<1>7. CASE w.child # None
  <2>1. x = y
    BY <1>2, <1>7
  <2>2. Softer(w, x)
    BY <1>3, <1>4, <1>5, <2>1 DEF Softer, Fainter
  <2> QED BY <2>2, <1>3, <1>5 DEF Stops, x
<1> QED BY <1>6, <1>7

LEMMA TokenSofter ==
    ASSUME NEW w \in Connections, NEW t
    PROVE  Softer(w, NewToken(w, t)) /\ NewToken(w, t).overlap = w.overlap
PROOF
<1> DEFINE x == NewToken(w, t)
<1>1. x \in Connections /\ x.rt = w.rt /\ x.child = w.child /\ x.desk = w.desk
  BY TokenForm
<1>2. x = [w EXCEPT !.thread = x.thread]
  BY TokenYields
<1> HIDE DEF x
<1>3. x.overlap = w.overlap
  BY <1>2 DEF Connections
<1> QED BY <1>1, <1>3 DEF Softer, Fainter, Monitored, x

(* Thread t turns to another operation. *)
LEMMA TurnedForm ==
    ASSUME NEW w \in Connections, NEW t \in Threads, NEW op \in Operations
    PROVE  LET x == [w EXCEPT !.thread[t] = op]
           IN /\ x \in Connections /\ Softer(w, x) /\ x.starting = w.starting /\ x.up = w.up
              /\ x.overlap = w.overlap /\ x.desk = w.desk /\ x.rt = w.rt /\ x.child = w.child
              /\ \A u \in Threads : x.thread[u] = IF u = t THEN op ELSE w.thread[u]
PROOF
<1> DEFINE x == [w EXCEPT !.thread[t] = op]
<1>1. /\ x \in Connections /\ x.starting = w.starting /\ x.up = w.up
      /\ x.overlap = w.overlap /\ x.desk = w.desk /\ x.rt = w.rt /\ x.child = w.child
  BY DEF Connections
<1>2. \A u \in Threads : x.thread[u] = IF u = t THEN op ELSE w.thread[u]
  BY DEF Connections
<1> HIDE DEF x
<1>3. Softer(w, x)
  BY <1>1 DEF Softer, Fainter, Monitored
<1> QED BY <1>1, <1>2, <1>3 DEF x

(* The body of a restart. *)
Begins(w, x) ==
    /\ Stops(w, x, "restart") /\ x.up = w.up
    /\ \A u \in Threads : /\ x.thread[u].valid = (u = "restart")
                          /\ u # "restart" => x.thread[u].waits = w.thread[u].waits

LEMMA RestartBodyForm == ASSUME NEW w \in Connections PROVE Begins(w, RestartBody(w))
PROOF
<1> DEFINE y == [w EXCEPT !.thread["restart"] = Idle]
           z == NewToken(y, "restart")
           x == RuntimeStops(z, "restart")
<1>0. "restart" \in Threads
  BY DEF Threads
<1>1. /\ y \in Connections /\ Softer(w, y) /\ y.starting = w.starting /\ y.up = w.up
      /\ \A u \in Threads : y.thread[u] = IF u = "restart" THEN Idle ELSE w.thread[u]
  BY <1>0, TurnedForm, IdleIsIdle
<1>2. RestartBody(w) = x
  BY DEF RestartBody
<1> HIDE DEF y
<1>3. /\ z \in Connections /\ z.starting = y.starting /\ z.up = y.up /\ Softer(y, z)
      /\ \A u \in Threads : /\ z.thread[u].pc = y.thread[u].pc /\ z.thread[u].waits = y.thread[u].waits
                            /\ z.thread[u].valid = (u = "restart")
  BY <1>1, TokenForm, TokenSofter
<1> HIDE DEF z
<1>4. /\ Stops(z, x, "restart") /\ x.up = z.up
      /\ \A u \in Threads : x.thread[u].valid = z.thread[u].valid /\ x.thread[u].waits = z.thread[u].waits
  BY <1>0, <1>3, StopsSofter
<1> HIDE DEF x
<1>5. Softer(w, x)
  BY <1>1, <1>3, <1>4, SofterTwice DEF Stops
<1>6. \A u \in Threads : x.thread[u].pc = IF u = "restart" THEN "stopping" ELSE w.thread[u].pc
  BY <1>1, <1>3, <1>4 DEF Stops
<1>7. Stops(w, x, "restart")
  BY <1>1, <1>3, <1>4, <1>5, <1>6 DEF Stops
<1>8. \A u \in Threads : /\ x.thread[u].valid = (u = "restart")
                         /\ u # "restart" => x.thread[u].waits = w.thread[u].waits
  BY <1>1, <1>3, <1>4
<1> QED BY <1>1, <1>2, <1>3, <1>4, <1>7, <1>8 DEF Begins

LEMMA StopServicesForm ==
    ASSUME NEW w \in Connections
    PROVE  LET x == StopServices(w)
           IN /\ Stops(w, x, "stop") /\ ~ x.up
              /\ \A u \in Threads : x.thread[u].valid = w.thread[u].valid /\ x.thread[u].waits = w.thread[u].waits
PROOF
<1> DEFINE y == [w EXCEPT !.up = FALSE]
           x == StopServices(w)
<1>1. /\ y \in Connections /\ y.starting = w.starting /\ y.thread = w.thread /\ y.desk = w.desk
      /\ y.rt = w.rt /\ y.child = w.child /\ y.overlap = w.overlap /\ ~ y.up
  BY DEF Connections
<1>2. x = RuntimeStops(y, "stop") /\ "stop" \in Threads
  BY DEF StopServices, Threads
<1> HIDE DEF x, y
<1>3. /\ Stops(y, x, "stop") /\ x.up = y.up
      /\ \A u \in Threads : x.thread[u].valid = y.thread[u].valid /\ x.thread[u].waits = y.thread[u].waits
  BY <1>1, <1>2, StopsSofter
<1>4. Softer(w, y)
  BY <1>1 DEF Softer, Fainter, Monitored
<1>5. Softer(w, x)
  BY <1>3, <1>4, SofterTwice DEF Stops
<1>6. Stops(w, x, "stop")
  BY <1>1, <1>3, <1>5 DEF Stops
<1> QED BY <1>1, <1>3, <1>6 DEF x

(* A start begins, with s, unless one is under way or none is free. *)
Boots(w, x, s) ==
    /\ s \in Starts /\ ~ Busy(w, s) /\ w.starting = None
    /\ Softer(w, x) /\ x.desk.tunnel = "starting" /\ x.starting = s /\ x.up = w.up
    /\ x.child = w.child /\ x.rt = w.rt
    /\ x.thread[s].pc = "boot" /\ ~ x.thread[s].fresh
    /\ \A u \in Threads :
          /\ x.thread[u].valid = (u = s)
          /\ u # s => /\ x.thread[u].pc = w.thread[u].pc
                      /\ x.thread[u].fresh = w.thread[u].fresh
                      /\ x.thread[u].waits = w.thread[u].waits

LEMMA BootForm ==
    ASSUME NEW w \in Connections
    PROVE  \/ Boot(w) = w /\ (w.starting # None \/ \A s \in Starts : Busy(w, s))
           \/ \E s \in Starts : Boots(w, Boot(w), s)
PROOF
<1>1. CASE w.starting # None \/ \A s \in Starts : Busy(w, s)
  BY <1>1 DEF Boot
<1>2. CASE ~ (w.starting # None \/ \A s \in Starts : Busy(w, s))
  <2> DEFINE s == CHOOSE s \in Starts : ~ Busy(w, s)
             op == [Idle EXCEPT !.pc = "boot"]
             a == [w EXCEPT !.thread[s] = op]
             y == [w EXCEPT !.thread[s] = op, !.starting = s]
             z == NewToken(y, s)
             v == Show(z, "starting", "ok")
             x == [v EXCEPT !.desk.server = FALSE]
  <2>1. s \in Starts /\ s \in Threads /\ ~ Busy(w, s)
    BY <1>2 DEF Threads
  <2>2. Boot(w) = x
    BY <1>2 DEF Boot
  <2> HIDE DEF s
  <2>3. op \in Operations /\ ~ op.fresh /\ ~ op.valid /\ op.pc = "boot"
    BY IdleOperation DEF Waits
  <2> HIDE DEF op
  <2>4. /\ y \in Connections /\ y.rt = w.rt /\ y.child = w.child /\ y.starting = s
        /\ y.up = w.up /\ y.desk = w.desk /\ y.overlap = w.overlap
        /\ \A u \in Threads : y.thread[u] = IF u = s THEN op ELSE w.thread[u]
    BY <2>1, <2>3 DEF Connections
  <2> HIDE DEF y
  <2>5. Softer(w, y)
    BY <2>4 DEF Softer, Fainter, Monitored
  <2>6. /\ z \in Connections /\ z.rt = y.rt /\ z.child = y.child /\ z.starting = y.starting
        /\ z.up = y.up /\ Softer(y, z)
        /\ \A u \in Threads : /\ z.thread[u].fresh = y.thread[u].fresh
                              /\ z.thread[u].pc = y.thread[u].pc
                              /\ z.thread[u].waits = y.thread[u].waits
                              /\ z.thread[u].valid = (u = s)
    BY <2>4, TokenForm, TokenSofter
  <2> HIDE DEF z
  <2>7. DeskOnly(z, v) /\ Softer(z, v) /\ v.desk.tunnel = "starting"
    BY <2>6, ShowDesk, ShowSofter DEF TunnelStates, Codes
  <2>8. v \in Connections
    BY <2>7 DEF DeskOnly
  <2> HIDE DEF v
  <2>9. DeskOnly(v, x) /\ Softer(v, x)
    BY <2>8, ServerDesk, ServerSofter
  <2>10. x.desk.tunnel = "starting"
    BY <2>7, <2>8 DEF Connections, Desks
  <2> HIDE DEF x
  <2>11. Softer(w, x)
    BY <2>5, <2>6, <2>7, <2>9, SofterTwice
  <2>12. /\ x.starting = s /\ x.up = w.up /\ x.child = w.child /\ x.rt = w.rt /\ x.thread = z.thread
    BY <2>4, <2>6, <2>7, <2>9 DEF DeskOnly
  <2>13. x.thread[s].pc = "boot" /\ ~ x.thread[s].fresh
    BY <2>1, <2>3, <2>4, <2>6, <2>12
  <2>14. \A u \in Threads :
            /\ x.thread[u].valid = (u = s)
            /\ u # s => /\ x.thread[u].pc = w.thread[u].pc
                        /\ x.thread[u].fresh = w.thread[u].fresh
                        /\ x.thread[u].waits = w.thread[u].waits
    BY <2>4, <2>6, <2>12
  <2>15. Boots(w, x, s)
    BY <1>2, <2>1, <2>10, <2>11, <2>12, <2>13, <2>14 DEF Boots
  <2> QED BY <2>1, <2>2, <2>15
<1> QED BY <1>1, <1>2

-----------------------------------------------------------------------------
(* Who holds the token, through the operations of the service runtime.     *)

LEMMA ThreadNames ==
    /\ Starts \subseteq Threads /\ "restart" \in Threads /\ "stop" \in Threads
    /\ "restart" \notin Starts /\ "stop" \notin Starts /\ None \notin Threads
    /\ \A t \in Threads : t \in Starts \/ t = "restart" \/ t = "stop"
PROOF BY Assumptions DEF Threads

(* Before the local service listens nothing is launched. *)
LEMMA DownIdle ==
    ASSUME NEW w, Orderly(w), Same(w), ~ w.up, NEW t \in Threads, w.thread[t].pc \in Launching
    PROVE  ~ w.thread[t].valid /\ ~ w.thread[t].fresh
PROOF BY DEF Orderly, Down, Same, Launching, Connections, Operations

LEMMA WovenBegins ==
    ASSUME NEW w \in Connections, NEW e, Woven(w, e), NEW x, Begins(w, x)
    PROVE  Woven(x, None)
PROOF
<1>1. /\ x.starting = w.starting
      /\ \A u \in Threads :
            /\ x.thread[u].fresh = (u = "restart") /\ x.thread[u].valid = (u = "restart")
            /\ x.thread[u].pc = IF u = "restart" THEN "stopping" ELSE w.thread[u].pc
  BY DEF Begins, Stops
<1>2. Roles(x)
  BY <1>1, ThreadNames DEF Woven, Roles
<1>3. OneToken(x)
  BY <1>1 DEF OneToken
<1>4. Joined(x)
  <2>1. w.starting \in Starts \union {None}
    BY DEF Connections
  <2> QED BY <1>1, <2>1, ThreadNames DEF Woven, Joined, Busy
<1>5. Waiting(x, None)
  BY <1>1, ThreadNames DEF Waiting
<1>6. \A u \in Threads : x.thread[u].pc \in Launching => ~ x.thread[u].valid /\ ~ x.thread[u].fresh
  BY <1>1 DEF Launching
<1>7. Same(x)
  <2>1. \A u \in Threads : x.thread[u].valid = (u = "restart") /\ x.thread[u].fresh = (u = "restart")
    BY <1>1
  <2> QED BY <2>1 DEF Same
<1>8. Sole(x)
  BY <1>6 DEF Sole
<1> QED BY <1>2, <1>3, <1>4, <1>5, <1>7, <1>8 DEF Woven

LEMMA WovenBoots ==
    ASSUME NEW w, Orderly(w), ~ w.up, NEW e, Woven(w, e), NEW x, NEW s, Boots(w, x, s)
    PROVE  Woven(x, e)
PROOF
<1>0. w \in Connections /\ s \in Starts /\ s \in Threads
  BY ThreadNames DEF Orderly, Boots
<1>1. /\ x.starting = s /\ x.thread[s].pc = "boot" /\ ~ Busy(w, s) /\ w.starting = None
      /\ \A u \in Threads : x.thread[u].valid = (u = s)
      /\ \A u \in Threads \ {s} : /\ x.thread[u].pc = w.thread[u].pc
                                  /\ x.thread[u].fresh = w.thread[u].fresh
                                  /\ x.thread[u].waits = w.thread[u].waits
  BY DEF Boots
<1>2. Roles(x)
  BY <1>0, <1>1, ThreadNames DEF Woven, Roles
<1>3. OneToken(x)
  BY <1>1 DEF OneToken
<1>4. Joined(x)
  BY <1>0, <1>1, ThreadNames DEF Joined, Busy
<1>5. \A u \in Threads : Busy(w, u) => Busy(x, u)
  BY <1>1 DEF Busy
<1>6. x.thread["restart"].pc = w.thread["restart"].pc /\ x.thread["restart"].waits = w.thread["restart"].waits
  BY <1>0, <1>1, ThreadNames
<1>7. Waiting(x, e)
  BY <1>5, <1>6, ThreadNames DEF Woven, Waiting, Stuck
<1>8. ASSUME NEW u \in Threads, x.thread[u].pc \in Launching
      PROVE  x.thread[u].valid = FALSE /\ x.thread[u].fresh = FALSE
  <2>1. u # s
    BY <1>1, <1>8 DEF Launching
  <2>2. w.thread[u].pc \in Launching /\ x.thread[u].fresh = w.thread[u].fresh
    BY <1>1, <1>8, <2>1
  <2>3. ~ w.thread[u].fresh /\ w.thread[u].fresh \in BOOLEAN
    BY <1>0, <2>2, DownIdle DEF Woven, Connections, Operations
  <2> QED BY <1>1, <2>1, <2>2, <2>3
<1>9. Same(x) /\ Sole(x)
  BY <1>8 DEF Same, Sole
<1> QED BY <1>2, <1>3, <1>4, <1>7, <1>9 DEF Woven

LEMMA WovenStops ==
    ASSUME NEW w \in Connections, Roles(w), OneToken(w), Joined(w), Waiting(w, None),
           \A u \in Threads : w.thread[u].pc \in Launching => ~ w.thread[u].valid,
           NEW x, Stops(w, x, "stop"),
           \A u \in Threads : x.thread[u].valid = w.thread[u].valid /\ x.thread[u].waits = w.thread[u].waits
    PROVE  Woven(x, None)
PROOF
<1>1. /\ x.starting = w.starting
      /\ \A u \in Threads :
            /\ x.thread[u].fresh = (u = "stop")
            /\ x.thread[u].pc = IF u = "stop" THEN "stopping" ELSE w.thread[u].pc
  BY DEF Stops
<1>2. Roles(x)
  BY <1>1, ThreadNames DEF Roles
<1>3. OneToken(x)
  BY DEF OneToken
<1>4. Joined(x)
  <2>1. w.starting \in Starts \union {None}
    BY DEF Connections
  <2> QED BY <1>1, <2>1, ThreadNames DEF Joined, Busy
<1>5. Waiting(x, None)
  BY <1>1, ThreadNames DEF Waiting, Stuck, Busy
<1>6. ASSUME NEW u \in Threads, x.thread[u].pc \in Launching
      PROVE  x.thread[u].valid = FALSE /\ x.thread[u].fresh = FALSE
  <2>1. u # "stop"
    BY <1>1, <1>6 DEF Launching
  <2>2. w.thread[u].pc \in Launching /\ w.thread[u].valid \in BOOLEAN
    BY <1>1, <1>6, <2>1 DEF Connections, Operations
  <2>3. x.thread[u].fresh = FALSE
    BY <1>1, <2>1
  <2>4. x.thread[u].valid = FALSE
    BY <2>2
  <2> QED BY <2>3, <2>4
<1>7. Same(x) /\ Sole(x)
  BY <1>6 DEF Same, Sole
<1> QED BY <1>2, <1>3, <1>4, <1>5, <1>7 DEF Woven

(* The restart turns to op, that holds neither the token nor the runtime.  *)
LEMMA WovenTurned ==
    ASSUME NEW w \in Connections, NEW e, Woven(w, e), NEW op, ~ op.valid,
           op.pc \notin {"boot", "startup"} \union Launching,
           NEW x, x.starting = w.starting, x.overlap = w.overlap,
           \A u \in Threads : x.thread[u] = IF u = "restart" THEN op ELSE w.thread[u],
           NEW f, Waiting(x, f),
           \A t \in Threads \ {"restart"} : w.thread[t].valid /\ w.thread[t].pc \in Launching =>
               op.pc = "idle" \/ op.waits = t \/ (op.pc = "delegated" /\ op.waits = None)
    PROVE  Woven(x, f)
PROOF
<1>1. /\ x.thread["restart"] = op
      /\ \A u \in Threads \ {"restart"} : x.thread[u] = w.thread[u]
  BY ThreadNames
<1>2. Roles(x)
  BY <1>1, ThreadNames DEF Woven, Roles
<1>3. OneToken(x)
  BY <1>1 DEF Woven, OneToken
<1>4. Joined(x)
  <2>1. w.starting \in Starts \union {None}
    BY DEF Connections
  <2> QED BY <1>1, <2>1, ThreadNames DEF Woven, Joined, Busy
<1>5. Same(x)
  BY <1>1 DEF Woven, Same
<1>6. Sole(x)
  <2>1. SUFFICES ASSUME ~ x.overlap, NEW t \in Threads, x.thread[t].valid, x.thread[t].pc \in Launching
                 PROVE  /\ \A s \in Starts \ {t} : ~ Busy(x, s)
                        /\ t # "restart" => ~ Busy(x, "restart") \/ x.thread["restart"].waits = t \/ Stuck(x)
    BY DEF Sole
  <2>2. t # "restart"
    BY <1>1, <2>1
  <2>3. w.thread[t].valid /\ w.thread[t].pc \in Launching
    BY <1>1, <2>1, <2>2
  <2>4. \A s \in Starts \ {t} : ~ Busy(x, s)
    BY <1>1, <2>1, <2>3, ThreadNames DEF Woven, Sole, Busy
  <2>5. op.pc = "idle" \/ op.waits = t \/ (op.pc = "delegated" /\ op.waits = None)
    BY <2>2, <2>3
  <2> QED BY <1>1, <2>4, <2>5 DEF Busy, Stuck
<1> QED BY <1>2, <1>3, <1>4, <1>5, <1>6 DEF Woven

(* A restart that ends. *)
LEMMA WovenLoosed ==
    ASSUME NEW w \in Connections, NEW e, Woven(w, e), NEW x,
           x.starting = w.starting, x.overlap = w.overlap,
           \A u \in Threads : x.thread[u] = IF u = "restart" THEN Idle ELSE w.thread[u]
    PROVE  Woven(x, None)
PROOF
<1>1. ~ Idle.valid /\ Idle.pc = "idle"
  BY IdleIsIdle
<1>2. Waiting(x, None)
  BY <1>1, ThreadNames DEF Waiting
<1>3. Idle.pc \notin {"boot", "startup"} \union Launching
  BY <1>1 DEF Launching
<1> QED BY <1>1, <1>2, <1>3, WovenTurned

(* A restart that comes to wait. *)
LEMMA WovenWaits ==
    ASSUME NEW w \in Connections, Woven(w, None), NEW pc \in {"delegated", "awaitStart"},
           w.starting = None => pc = "delegated", NEW x,
           x.starting = w.starting, x.overlap = w.overlap,
           \A u \in Threads : x.thread[u] = IF u = "restart" THEN [Idle EXCEPT !.pc = pc, !.waits = w.starting]
                                            ELSE w.thread[u]
    PROVE  Woven(x, None)
PROOF
<1> DEFINE op == [Idle EXCEPT !.pc = pc, !.waits = w.starting]
<1>1. w.starting \in Starts \union {None}
  BY DEF Connections
<1>2. op.pc = pc /\ ~ op.valid /\ op.waits = w.starting
  BY DEF Idle
<1>3. \A u \in Threads : x.thread[u] = IF u = "restart" THEN op ELSE w.thread[u]
  OBVIOUS
<1> HIDE DEF op
<1>4. Waiting(x, None)
  <2>1. x.thread["restart"].pc = pc /\ x.thread["restart"].waits = w.starting
    BY <1>2, <1>3, ThreadNames
  <2>2. CASE w.starting = None
    BY <2>1, <2>2 DEF Waiting, Stuck
  <2>3. CASE w.starting # None
    <3>1. w.starting \in Starts /\ Busy(w, w.starting)
      BY <1>1, <2>3 DEF Woven, Joined
    <3>2. Busy(x, w.starting)
      BY <1>3, <3>1, ThreadNames DEF Busy
    <3> QED BY <2>1, <3>1, <3>2 DEF Waiting
  <2> QED BY <2>2, <2>3
<1>5. ASSUME NEW t \in Threads \ {"restart"}, w.thread[t].valid
      PROVE  op.waits = t
  <2>1. t # "stop"
    BY <1>5 DEF Woven, Roles
  <2>2. t \in Starts
    BY <1>5, <2>1, ThreadNames
  <2> QED BY <1>2, <1>5, <2>2 DEF Woven, Joined
<1>6. op.pc \notin {"boot", "startup"} \union Launching
  BY <1>2 DEF Launching
<1> QED BY <1>2, <1>3, <1>4, <1>5, <1>6, WovenTurned

(* A start that ends. *)
LEMMA FreedForm ==
    ASSUME NEW w \in Connections, NEW s \in Starts
    PROVE  LET x == Freed(w, s)
           IN /\ x \in Connections /\ x.up = w.up /\ x.desk = w.desk /\ x.rt = w.rt /\ x.child = w.child
              /\ x.overlap = w.overlap
              /\ x.starting = IF w.starting = s THEN None ELSE w.starting
              /\ \A u \in Threads : x.thread[u] = IF u = s THEN Idle ELSE w.thread[u]
PROOF
<1> DEFINE x == Freed(w, s)
<1>1. s \in Threads /\ Idle \in Operations
  BY ThreadNames, IdleIsIdle
<1>2. [w.thread EXCEPT ![s] = Idle] \in [Threads -> Operations]
      /\ (IF w.starting = s THEN None ELSE w.starting) \in Starts \union {None}
  BY <1>1 DEF Connections
<1>3. x \in Connections
  BY <1>2 DEF Connections, Freed
<1>4. /\ x.up = w.up /\ x.desk = w.desk /\ x.rt = w.rt /\ x.child = w.child
      /\ x.overlap = w.overlap /\ x.starting = IF w.starting = s THEN None ELSE w.starting
  BY DEF Connections, Freed
<1>5. x.thread = [w.thread EXCEPT ![s] = Idle]
  BY DEF Connections, Freed
<1> HIDE DEF x
<1>6. \A u \in Threads : x.thread[u] = IF u = s THEN Idle ELSE w.thread[u]
  BY <1>5 DEF Connections
<1> QED BY <1>3, <1>4, <1>6 DEF x

LEMMA WovenFreed ==
    ASSUME NEW w \in Connections, NEW s \in Starts, Woven(w, None)
    PROVE  Woven(Freed(w, s), s)
PROOF
<1> DEFINE x == Freed(w, s)
<1>1. /\ x.overlap = w.overlap
      /\ x.starting = IF w.starting = s THEN None ELSE w.starting
      /\ \A u \in Threads : x.thread[u] = IF u = s THEN Idle ELSE w.thread[u]
  BY FreedForm
<1> HIDE DEF x
<1>2. s \in Threads /\ ~ Idle.valid /\ Idle.pc = "idle" /\ s # "restart" /\ s # "stop" /\ s # None
  BY ThreadNames, IdleIsIdle
<1>3. x.thread[s] = Idle /\ \A u \in Threads \ {s} : x.thread[u] = w.thread[u]
  BY <1>1, <1>2
<1>4. Roles(x)
  BY <1>2, <1>3, ThreadNames DEF Woven, Roles
<1>5. OneToken(x)
  BY <1>2, <1>3 DEF Woven, OneToken
<1>6. Joined(x)
  <2>1. w.starting \in Starts \union {None}
    BY DEF Connections
  <2> QED BY <1>1, <1>2, <1>3, <2>1, ThreadNames DEF Woven, Joined, Busy
<1>7. x.thread["restart"] = w.thread["restart"]
  BY <1>2, <1>3, ThreadNames
<1>8. Waiting(x, s)
  BY <1>2, <1>3, <1>7, ThreadNames DEF Woven, Waiting, Stuck, Busy
<1>9. Same(x)
  BY <1>2, <1>3 DEF Woven, Same, Launching
<1>10. Sole(x)
  <2>1. SUFFICES ASSUME ~ x.overlap, NEW t \in Threads, x.thread[t].valid, x.thread[t].pc \in Launching
                 PROVE  /\ \A u \in Starts \ {t} : ~ Busy(x, u)
                        /\ t # "restart" => ~ Busy(x, "restart") \/ x.thread["restart"].waits = t \/ Stuck(x)
    BY DEF Sole
  <2>2. t # s /\ w.thread[t].valid /\ w.thread[t].pc \in Launching /\ ~ w.overlap
    BY <1>1, <1>2, <1>3, <2>1
  <2>3. /\ \A u \in Starts \ {t} : ~ Busy(w, u)
        /\ t # "restart" => ~ Busy(w, "restart") \/ w.thread["restart"].waits = t \/ Stuck(w)
    BY <2>2 DEF Woven, Sole
  <2>4. \A u \in Starts \ {t} : ~ Busy(x, u)
    BY <1>2, <1>3, <2>3, ThreadNames DEF Busy
  <2> QED BY <1>7, <2>3, <2>4 DEF Busy, Stuck
<1> QED BY <1>4, <1>5, <1>6, <1>8, <1>9, <1>10 DEF Woven, x

-----------------------------------------------------------------------------
(* The operations of the service runtime leave the desktop in agreement.   *)

(* No connection is shown or monitored. *)
Still(w) == ~ Present(w) /\ Timed(w) /\ Attempting(w)

LEMMA StillShown == ASSUME NEW w, Still(w), NEW e PROVE Shown(w, e)
PROOF BY DEF Still, Shown, Connected, Known, Agreed, Present, Hidden

LEMMA FainterStill ==
    ASSUME NEW w, Still(w), NEW x, Fainter(w, x),
           Busy(w, "stop") => Busy(x, "stop"), Busy(w, "restart") => Busy(x, "restart")
    PROVE  Still(x)
PROOF BY DEF Still, Present, Open, Timed, Attempting, Fainter

LEMMA SofterAgreed ==
    ASSUME NEW w, NEW x, Softer(w, x), Agreed(w), Busy(w, "stop") => Busy(x, "stop")
    PROVE  Agreed(x)
PROOF BY DEF Softer, Fainter, Agreed, Open, Hidden

LEMMA RestartBodyAgrees ==
    ASSUME NEW w \in Connections, NEW e, Woven(w, e), Connected(w, e), Timed(w)
    PROVE  Agreeing(RestartBody(w))
PROOF
<1> DEFINE x == RestartBody(w)
<1>1. Begins(w, x)
  BY RestartBodyForm
<1> HIDE DEF x
<1>2. Woven(x, None)
  BY <1>1, WovenBegins
<1>3. /\ Fainter(w, x) /\ x.up = w.up
      /\ x.thread["restart"].pc = "stopping" /\ x.thread["restart"].valid /\ x.thread["restart"].fresh
      /\ \A u \in Threads \ {"restart"} : Busy(x, u) = Busy(w, u)
  BY <1>1, ThreadNames DEF Begins, Stops, Softer, Busy
<1>4. Connected(x, None)
  <2>1. ASSUME Present(x) PROVE w.up /\ \A s \in Starts : ~ Busy(w, s)
    BY <1>3, <2>1, FainterPresent, ThreadNames DEF Connected
  <2> QED BY <1>3, <2>1, ThreadNames DEF Connected
<1>5. Known(x) /\ Attempting(x)
  BY <1>3 DEF Known, Attempting, Busy
<1>6. Timed(x)
  BY <1>3 DEF Timed, Fainter
<1> QED BY <1>2, <1>4, <1>5, <1>6 DEF Agreeing, Shown, x

(* A start that begins. *)
LEMMA BootStill ==
    ASSUME NEW w, Orderly(w), ~ w.up, Woven(w, None), Connected(w, None), Timed(w)
    PROVE  LET x == Boot(w)
           IN /\ x \in Connections /\ Woven(x, None) /\ ~ Present(x) /\ Fainter(w, x)
              /\ x.thread["restart"].pc = w.thread["restart"].pc
              /\ x.thread["stop"].pc = w.thread["stop"].pc
PROOF
<1>0. w \in Connections /\ ~ Present(w)
  BY DEF Orderly, Connected
<1>1. CASE Boot(w) = w
  BY <1>0, <1>1, SofterSame DEF Softer
<1>2. CASE Boot(w) # w
  <2>1. PICK s \in Starts : Boots(w, Boot(w), s)
    BY <1>0, <1>2, BootForm
  <2> DEFINE x == Boot(w)
  <2> HIDE DEF x
  <2>2. Boots(w, x, s)
    BY <2>1 DEF x
  <2>3. Woven(x, None)
    BY <2>2, WovenBoots
  <2>4. Fainter(w, x) /\ x \in Connections
    BY <2>2 DEF Boots, Softer, Fainter
  <2>5. /\ x.thread["restart"].pc = w.thread["restart"].pc
        /\ x.thread["stop"].pc = w.thread["stop"].pc
    BY <2>2, ThreadNames DEF Boots
  <2>6. ~ Present(x)
    BY <1>0, <2>4, <2>5, FainterPresent DEF Busy
  <2> QED BY <2>3, <2>4, <2>5, <2>6 DEF x
<1> QED BY <1>1, <1>2

(* A restart that comes to wait, for a start or a stop. *)
LEMMA WaitingStill ==
    ASSUME NEW w \in Connections, ~ Present(w), Timed(w), NEW op \in Operations, op.pc # "idle"
    PROVE  LET x == [w EXCEPT !.thread["restart"] = op]
           IN Still(x) /\ Busy(x, "restart")
PROOF
<1> DEFINE x == [w EXCEPT !.thread["restart"] = op]
<1>1. /\ Fainter(w, x) /\ x.desk = w.desk
      /\ \A u \in Threads : x.thread[u] = IF u = "restart" THEN op ELSE w.thread[u]
  BY ThreadNames, TurnedForm DEF Softer
<1> HIDE DEF x
<1>2. Busy(x, "stop") = Busy(w, "stop") /\ Busy(x, "restart")
  BY <1>1, ThreadNames DEF Busy
<1> QED BY <1>1, <1>2, FainterPresent DEF Still, Timed, Attempting, x

LEMMA RestartAwakeAgrees ==
    ASSUME NEW w, Orderly(w), Woven(w, None), Connected(w, None), Timed(w)
    PROVE  Agreeing(RestartAwake(w))
PROOF
<1> DEFINE booted == Boot(w)
           a == [booted EXCEPT !.thread["restart"] = [Idle EXCEPT !.pc = "delegated", !.waits = booted.starting]]
           b == [w EXCEPT !.thread["restart"] = [Idle EXCEPT !.pc = "awaitStart", !.waits = w.starting]]
<1>0. w \in Connections
  BY DEF Orderly
<1>1. CASE ~ w.up
  <2>1. RestartAwake(w) = a
    BY <1>1 DEF RestartAwake
  <2>2. booted \in Connections /\ Woven(booted, None) /\ ~ Present(booted) /\ Fainter(w, booted)
    BY <1>1, BootStill
  <2> HIDE DEF booted
  <2> DEFINE op == [Idle EXCEPT !.pc = "delegated", !.waits = booted.starting]
  <2>3. op \in Operations /\ op.pc # "idle"
    BY <2>2, IdleOperation DEF Waits, Connections
  <2>4. Timed(booted)
    BY <2>2 DEF Timed, Fainter
  <2>5. Still(a)
    BY <2>2, <2>3, <2>4, WaitingStill
  <2>6. /\ a.starting = booted.starting /\ a.overlap = booted.overlap
        /\ \A u \in Threads : a.thread[u] = IF u = "restart" THEN op ELSE booted.thread[u]
    BY <2>2, <2>3, TurnedForm, ThreadNames
  <2> HIDE DEF a
  <2>7. Woven(a, None)
    BY <2>2, <2>6, WovenWaits
  <2> QED BY <2>1, <2>5, <2>7, StillShown DEF Agreeing
<1>2. CASE w.up /\ w.starting # None
  <2>1. RestartAwake(w) = b
    BY <1>2 DEF RestartAwake
  <2>2. w.starting \in Starts /\ Busy(w, w.starting)
    BY <1>0, <1>2 DEF Connections, Woven, Joined
  <2>3. ~ Present(w)
    BY <2>2 DEF Connected
  <2> DEFINE op == [Idle EXCEPT !.pc = "awaitStart", !.waits = w.starting]
  <2>4. op \in Operations /\ op.pc # "idle"
    BY <1>0, IdleOperation DEF Waits, Connections
  <2>5. Still(b)
    BY <1>0, <2>3, <2>4, WaitingStill
  <2>6. /\ b.starting = w.starting /\ b.overlap = w.overlap
        /\ \A u \in Threads : b.thread[u] = IF u = "restart" THEN op ELSE w.thread[u]
    BY <1>0, <2>4, TurnedForm, ThreadNames
  <2> HIDE DEF b
  <2>7. Woven(b, None)
    BY <1>0, <1>2, <2>6, WovenWaits
  <2> QED BY <2>1, <2>5, <2>7, StillShown DEF Agreeing
<1>3. CASE w.up /\ w.starting = None
  <2>1. RestartAwake(w) = RestartBody(w)
    BY <1>3 DEF RestartAwake
  <2> QED BY <1>0, <2>1, RestartBodyAgrees
<1> QED BY <1>1, <1>2, <1>3

LEMMA RestartAgrees ==
    ASSUME NEW w, Orderly(w), Woven(w, None), Connected(w, None), Timed(w)
    PROVE  Agreeing(Restart(w))
PROOF
<1>0. w \in Connections
  BY DEF Orderly
<1>1. CASE Busy(w, "restart")
  <2>1. Known(w) /\ Attempting(w)
    BY <1>1 DEF Known, Attempting
  <2> QED BY <1>1, <2>1 DEF Restart, Agreeing, Shown
<1>2. CASE ~ Busy(w, "restart") /\ Busy(w, "stop")
  <2> DEFINE op == [Idle EXCEPT !.pc = "awaitStop"]
             x == [w EXCEPT !.thread["restart"] = op]
  <2>1. Restart(w) = x
    BY <1>2 DEF Restart
  <2>2. op \in Operations /\ op.pc = "awaitStop" /\ ~ op.valid
    BY IdleOperation DEF Waits
  <2> HIDE DEF op
  <2>3. ~ Present(w)
    BY <1>2 DEF Present, Open
  <2>4. Still(x)
    BY <1>0, <2>2, <2>3, WaitingStill
  <2>5. /\ x.starting = w.starting /\ x.overlap = w.overlap
        /\ \A u \in Threads : x.thread[u] = IF u = "restart" THEN op ELSE w.thread[u]
    BY <1>0, <2>2, TurnedForm, ThreadNames
  <2> HIDE DEF x
  <2>6. \A t \in Threads \ {"restart"} : ~ (w.thread[t].valid /\ w.thread[t].pc \in Launching)
    BY <1>2, DownIdle DEF Orderly, Ending, Woven
  <2>7. Waiting(x, None)
    BY <2>2, <2>5, ThreadNames DEF Waiting
  <2>8. op.pc \notin {"boot", "startup"} \union Launching
    BY <2>2 DEF Launching
  <2>9. Woven(x, None)
    BY <1>0, <2>2, <2>5, <2>6, <2>7, <2>8, WovenTurned
  <2> QED BY <2>1, <2>4, <2>9, StillShown DEF Agreeing
<1>3. CASE ~ Busy(w, "restart") /\ ~ Busy(w, "stop")
  BY <1>3, RestartAwakeAgrees DEF Restart
<1> QED BY <1>1, <1>2, <1>3

(* The end of a restart.  What it leaves is agreed. *)
LEMMA RestartEndsAgrees ==
    ASSUME NEW w, Orderly(w), NEW e, Woven(w, e), Connected(Loosed(w, "restart"), None),
           Agreed(w), Timed(w)
    PROVE  Agreeing(RestartEnds(w))
PROOF
<1> DEFINE idle == [w EXCEPT !.thread["restart"] = Idle]
           settled == AttemptSettles(idle)
           seen == Observe(settled, settled.desk.tunnel, settled.desk.code)
           watcher == IF w.watched \/ "revoked" \in w.queued THEN seen ELSE settled
           free == [watcher EXCEPT !.watched = "valid" \in w.queued, !.queued = {}]
<1>0. w \in Connections
  BY DEF Orderly
<1>1. RestartEnds(w) = IF "valid" \in w.queued THEN Restart(free) ELSE free
  BY DEF RestartEnds
<1>2. /\ idle \in Connections /\ idle.starting = w.starting /\ idle.overlap = w.overlap
      /\ Softer(w, idle) /\ idle.desk = w.desk
      /\ \A u \in Threads : idle.thread[u] = IF u = "restart" THEN Idle ELSE w.thread[u]
  BY <1>0, TurnedForm, IdleIsIdle, ThreadNames
<1>3. Onward(w, idle) /\ Connected(idle, None)
  BY IdleIsIdle, TurnedOrderly, ThreadNames DEF Loosed
<1> HIDE DEF idle
<1>4. Woven(idle, None)
  BY <1>0, <1>2, WovenLoosed
<1>5. ~ Busy(idle, "restart") /\ Busy(idle, "stop") = Busy(w, "stop")
  BY <1>2, IdleIsIdle, ThreadNames DEF Busy
<1>6. Agreed(idle) /\ Timed(idle)
  BY <1>2, <1>5, SofterAgreed DEF Timed
<1>7. DeskOnly(idle, settled) /\ Softer(idle, settled) /\ settled.desk.attempt = "none"
  BY <1>2, SettlesDesk, SettlesSofter
<1> HIDE DEF settled
<1>8. settled \in Connections
  BY <1>7 DEF DeskOnly
<1>9. DeskOnly(settled, seen) /\ Softer(settled, seen)
  BY <1>8, ObserveDesk, ObserveSofter
<1> HIDE DEF seen
<1>10. DeskOnly(idle, watcher) /\ Softer(idle, watcher) /\ watcher.desk.attempt # "current"
  <2>1. DeskOnly(idle, seen) /\ Softer(idle, seen) /\ seen.desk.attempt # "current"
    BY <1>7, <1>9, DeskTwice, SofterTwice DEF Softer, Fainter
  <2> QED BY <1>7, <2>1
<1> HIDE DEF watcher
<1>11. watcher \in Connections
  BY <1>10 DEF DeskOnly
<1>12. ASSUME NEW b \in BOOLEAN
       PROVE  LET x == [watcher EXCEPT !.watched = b, !.queued = {}]
              IN /\ x \in Connections /\ x.rt = watcher.rt /\ x.child = watcher.child
                 /\ x.thread = watcher.thread /\ x.starting = watcher.starting
                 /\ x.again = watcher.again /\ x.up = watcher.up /\ x.queued = {}
                 /\ x.desk = watcher.desk /\ x.overlap = watcher.overlap
  BY <1>11 DEF Connections
<1>24. ("valid" \in w.queued) \in BOOLEAN
  OBVIOUS
<1>13. /\ free \in Connections /\ free.rt = watcher.rt /\ free.child = watcher.child
       /\ free.thread = watcher.thread /\ free.starting = watcher.starting
       /\ free.again = watcher.again /\ free.up = watcher.up /\ free.queued = {}
       /\ free.desk = watcher.desk /\ free.overlap = watcher.overlap
  BY <1>12, <1>24
<1> HIDE DEF free
<1>14. Softer(watcher, free)
  BY <1>13 DEF Softer, Fainter, Monitored
<1>15. Softer(idle, free)
  BY <1>10, <1>14, SofterTwice
<1>16. /\ free.thread = idle.thread /\ free.starting = idle.starting /\ free.up = idle.up
       /\ free.overlap = idle.overlap
  BY <1>10, <1>13 DEF DeskOnly
<1>17. Woven(free, None)
  BY <1>4, <1>16, WovenSame
<1>18. /\ Busy(free, "restart") = Busy(idle, "restart") /\ Busy(free, "stop") = Busy(idle, "stop")
       /\ \A s \in Starts : Busy(free, s) = Busy(idle, s)
  BY <1>16 DEF Busy
<1>19. Connected(free, None) /\ Timed(free) /\ Agreed(free)
  <2>1. Present(free) => Present(idle)
    BY <1>15, <1>18, FainterPresent DEF Softer
  <2>2. Connected(free, None)
    BY <1>3, <1>5, <1>16, <1>18, <2>1 DEF Connected
  <2>3. Timed(free)
    BY <1>6, <1>15 DEF Timed, Softer, Fainter
  <2> QED BY <2>2, <2>3, <1>6, <1>15, <1>18, SofterAgreed
<1>20. free.desk.attempt # "current"
  BY <1>10, <1>13
<1>21. Orderly(free)
  <2>1. Orderly(watcher)
    BY <1>3, <1>10, DeskReports, ReportsOrderly DEF Onward
  <2> QED BY <1>13, <2>1 DEF Orderly, Down, Booted, Ending, Busy
<1>22. CASE "valid" \in w.queued
  BY <1>1, <1>17, <1>19, <1>21, <1>22, RestartAgrees
<1>23. CASE "valid" \notin w.queued
  BY <1>1, <1>17, <1>19, <1>20, <1>23 DEF Agreeing, Shown, Known, Attempting
<1> QED BY <1>22, <1>23

(* The stop, once a start of the local service is out of the way. *)
LEMMA StopServicesAgrees ==
    ASSUME NEW w \in Connections, Roles(w), OneToken(w), Joined(w), Waiting(w, None),
           \A u \in Threads : w.thread[u].pc \in Launching => ~ w.thread[u].valid,
           Timed(w), Attempting(w)
    PROVE  Agreeing(StopServices(w))
PROOF
<1> DEFINE x == StopServices(w)
<1>1. /\ Stops(w, x, "stop")
      /\ \A u \in Threads : x.thread[u].valid = w.thread[u].valid /\ x.thread[u].waits = w.thread[u].waits
  BY StopServicesForm
<1> HIDE DEF x
<1>2. Woven(x, None)
  BY <1>1, WovenStops
<1>3. Fainter(w, x) /\ Busy(x, "stop") /\ Busy(x, "restart") = Busy(w, "restart")
  BY <1>1, ThreadNames DEF Stops, Softer, Busy
<1>4. Still(x)
  BY <1>3 DEF Still, Present, Open, Timed, Attempting, Fainter
<1> QED BY <1>2, <1>4, StillShown DEF Agreeing, x

LEMMA GivesUpAgrees ==
    ASSUME NEW w, Orderly(w), Busy(w, "stop"), Agreeing(w)
    PROVE  Agreeing(StopServices(w))
PROOF
<1>1. w \in Connections /\ \A u \in Threads : w.thread[u].pc \in Launching => ~ w.thread[u].valid
  BY DownIdle DEF Orderly, Ending, Agreeing, Woven
<1> QED BY <1>1, StopServicesAgrees DEF Agreeing, Woven, Shown

LEMMA FreedOrderly ==
    ASSUME NEW w, Orderly(w), Awaited(w), NEW s \in Starts
    PROVE  Orderly(Freed(w, s)) /\ Awaited(Freed(w, s))
PROOF
<1> DEFINE x == Freed(w, s)
<1>0. w \in Connections
  BY DEF Orderly
<1>1. /\ x \in Connections /\ x.up = w.up /\ x.rt = w.rt /\ x.child = w.child
      /\ x.starting = IF w.starting = s THEN None ELSE w.starting
      /\ \A u \in Threads : x.thread[u] = IF u = s THEN Idle ELSE w.thread[u]
  BY <1>0, FreedForm
<1>2. x.again = w.again
  BY <1>0 DEF Freed, Connections
<1> HIDE DEF x
<1>3. s \in Threads /\ s # "restart" /\ s # "stop" /\ s # None
  BY ThreadNames
<1>4. Down(x)
  BY <1>1, IdleIsIdle DEF Orderly, Down
<1>5. Booted(x)
  BY <1>1, <1>3, IdleIsIdle, Assumptions DEF Orderly, Booted, Connections, Threads
<1>6. Ending(x)
  BY <1>1, <1>3, IdleIsIdle DEF Orderly, Ending, Busy, Threads
<1>7. Awaited(x)
  BY <1>1, <1>2, <1>3, ThreadNames DEF Awaited, Busy
<1> QED BY <1>1, <1>4, <1>5, <1>6, <1>7 DEF Orderly, x

(* The end of a start.  What it leaves is agreed. *)
LEMMA StartEndsAgrees ==
    ASSUME NEW w, Orderly(w), Awaited(w), NEW s \in Starts, Woven(w, None),
           Connected(Freed(w, s), s), Agreed(w), Timed(w), Attempting(w)
    PROVE  Agreeing(StartEnds(w, s))
PROOF
<1> DEFINE free == Freed(w, s)
           next == IF free.thread["restart"].waits # s THEN free
                   ELSE IF free.thread["restart"].pc = "delegated" THEN RestartEnds(free)
                   ELSE RestartBody(free)
<1>0. w \in Connections /\ s # None
  BY ThreadNames DEF Orderly
<1>1. StartEnds(w, s) = IF next.thread["stop"].pc = "startup" /\ next.thread["stop"].waits = s
                        THEN StopServices(next) ELSE next
  BY DEF StartEnds, Freed
<1>2. Woven(free, s) /\ Orderly(free) /\ Awaited(free)
  BY <1>0, WovenFreed, FreedOrderly
<1>3. /\ free.desk = w.desk /\ free.rt = w.rt /\ free.overlap = w.overlap
      /\ \A u \in Threads : free.thread[u] = IF u = s THEN Idle ELSE w.thread[u]
  BY <1>0, FreedForm
<1>4. Connected(free, s)
  OBVIOUS
<1> HIDE DEF free
<1>5. Busy(free, "stop") = Busy(w, "stop") /\ Busy(free, "restart") = Busy(w, "restart")
  BY <1>3, ThreadNames DEF Busy
<1>6. Agreed(free) /\ Timed(free) /\ Attempting(free)
  BY <1>3, <1>5 DEF Agreed, Hidden, Open, Timed, Attempting
<1>7. free \in Connections
  BY <1>2 DEF Orderly
<1>8. Agreeing(next) /\ Orderly(next)
  <2>1. CASE free.thread["restart"].waits # s
    <3>1. next = free
      BY <2>1
    <3>2. Woven(free, None)
      BY <1>2, <2>1 DEF Woven, Waiting
    <3>3. Connected(free, None)
      BY <1>4, <2>1 DEF Connected
    <3> QED BY <1>2, <1>6, <3>1, <3>2, <3>3 DEF Agreeing, Shown, Known
  <2>2. CASE free.thread["restart"].waits = s /\ free.thread["restart"].pc = "delegated"
    <3> DEFINE l == Loosed(free, "restart")
    <3>1. next = RestartEnds(free)
      BY <2>2
    <3>2. /\ Softer(free, l) /\ l.up = free.up
          /\ \A u \in Threads : l.thread[u] = IF u = "restart" THEN Idle ELSE free.thread[u]
      BY <1>7, TurnedForm, IdleIsIdle, ThreadNames DEF Loosed
    <3> HIDE DEF l
    <3>3. ~ Busy(l, "restart") /\ \A u \in Threads \ {"restart"} : Busy(l, u) = Busy(free, u)
      BY <3>2, IdleIsIdle, ThreadNames DEF Busy
    <3>4. Connected(l, None)
      <4>1. Present(l) => Present(free)
        BY <3>2, <3>3, FainterPresent, ThreadNames DEF Softer
      <4> QED BY <1>4, <3>2, <3>3, <4>1, ThreadNames DEF Connected
    <3>5. Agreeing(RestartEnds(free))
      BY <1>2, <1>6, <3>4, RestartEndsAgrees DEF l
    <3>6. Orderly(RestartEnds(free))
      BY <1>2, RestartEndsOrderly DEF Onward
    <3> QED BY <3>1, <3>5, <3>6
  <2>3. CASE free.thread["restart"].waits = s /\ free.thread["restart"].pc # "delegated"
    <3>1. next = RestartBody(free)
      BY <2>3
    <3>2. Agreeing(RestartBody(free))
      BY <1>2, <1>4, <1>6, <1>7, RestartBodyAgrees
    <3>3. Orderly(RestartBody(free))
      BY <1>2, RestartBodyOrderly DEF Onward
    <3> QED BY <3>1, <3>2, <3>3
  <2> QED BY <2>1, <2>2, <2>3
<1> HIDE DEF next
<1>9. CASE next.thread["stop"].pc = "startup" /\ next.thread["stop"].waits = s
  <2>1. Busy(next, "stop")
    BY <1>9 DEF Busy
  <2> QED BY <1>1, <1>8, <1>9, <2>1, GivesUpAgrees
<1>10. CASE ~ (next.thread["stop"].pc = "startup" /\ next.thread["stop"].waits = s)
  BY <1>1, <1>8, <1>10
<1> QED BY <1>9, <1>10

(* The end of an operation, while no connection is shown or monitored. *)
LEMMA EndsAgrees ==
    ASSUME NEW w, Orderly(w), Awaited(w), NEW t \in Starts \union {"restart"}, Woven(w, None), Still(w)
    PROVE  Agreeing(Ends(w, t))
PROOF
<1>0. w \in Connections
  BY DEF Orderly
<1>1. Agreed(w) /\ Timed(w) /\ Attempting(w)
  BY StillShown DEF Still, Agreed, Present, Hidden
<1>2. CASE t = "restart"
  <2> DEFINE l == Loosed(w, "restart")
  <2>1. /\ Softer(w, l)
        /\ \A u \in Threads : l.thread[u] = IF u = "restart" THEN Idle ELSE w.thread[u]
    BY <1>0, TurnedForm, IdleIsIdle, ThreadNames DEF Loosed
  <2> HIDE DEF l
  <2>2. ~ Present(l)
    BY <2>1, FainterPresent, ThreadNames DEF Still, Softer, Busy
  <2>3. Agreeing(RestartEnds(w))
    BY <1>1, <2>2, RestartEndsAgrees DEF Connected, l
  <2> QED BY <1>2, <2>3 DEF Ends
<1>3. CASE t # "restart"
  <2> DEFINE f == Freed(w, t)
  <2>1. /\ f.desk = w.desk /\ f.rt = w.rt /\ f.child = w.child /\ f.overlap = w.overlap
        /\ \A u \in Threads : f.thread[u] = IF u = t THEN Idle ELSE w.thread[u]
    BY <1>0, <1>3, FreedForm
  <2> HIDE DEF f
  <2>2. ~ Present(f)
    BY <1>3, <2>1, ThreadNames DEF Still, Present, Open, Monitored, Busy
  <2>3. Connected(f, t)
    BY <2>2 DEF Connected
  <2>4. Agreeing(StartEnds(w, t))
    BY <1>1, <1>3, <2>3, StartEndsAgrees DEF f
  <2> QED BY <1>3, <2>4 DEF Ends
<1> QED BY <1>2, <1>3

LEMMA TunnelErrorAgrees ==
    ASSUME NEW w, Orderly(w), Awaited(w), NEW t \in Starts \union {"restart"}, NEW code \in Codes,
           Woven(w, None), Still(w)
    PROVE  Agreeing(TunnelError(w, t, code))
PROOF
<1> DEFINE state == IF code = "terminal" THEN "failed" ELSE "degraded"
           y == Show(w, state, code)
           z == [y EXCEPT !.desk.server = TRUE]
<1>0. w \in Connections
  BY DEF Orderly
<1>1. TunnelError(w, t, code) = IF ~ w.thread[t].valid THEN Ends(w, t) ELSE Ends(z, t)
  BY DEF TunnelError
<1>2. state \in TunnelStates /\ state # "running"
  BY DEF TunnelStates
<1> HIDE DEF state
<1>3. DeskOnly(w, y) /\ Softer(w, y)
  BY <1>0, <1>2, ShowDesk, ShowSofter
<1> HIDE DEF y
<1>4. DeskOnly(y, z) /\ Softer(y, z)
  BY <1>3, ServerDesk, ServerSofter DEF DeskOnly
<1> HIDE DEF z
<1>5. DeskOnly(w, z) /\ Softer(w, z)
  BY <1>3, <1>4, DeskTwice, SofterTwice
<1>6. Orderly(z) /\ Awaited(z)
  BY <1>5, DeskReports, ReportsOrderly DEF Onward
<1>7. Woven(z, None)
  BY <1>5, WovenSame DEF DeskOnly
<1>8. Still(z)
  BY <1>5, FainterStill DEF DeskOnly, Softer, Busy
<1> QED BY <1>1, <1>6, <1>7, <1>8, EndsAgrees

(* A start that is asked for. *)
LEMMA StartServerAgrees ==
    ASSUME NEW w, Orderly(w), Agreeing(w)
    PROVE  Agreeing(StartServer(w))
PROOF
<1>0. w \in Connections
  BY DEF Orderly
<1>1. CASE Busy(w, "stop")
  <2> DEFINE x == [w EXCEPT !.again = TRUE]
  <2>1. /\ x.rt = w.rt /\ x.child = w.child /\ x.starting = w.starting /\ x.desk = w.desk
        /\ x.up = w.up /\ x.thread = w.thread /\ x.overlap = w.overlap
    BY <1>0 DEF Connections
  <2>2. StartServer(w) = x
    BY <1>1 DEF StartServer
  <2> HIDE DEF x
  <2>3. Woven(x, None)
    BY <2>1, WovenSame DEF Agreeing
  <2>4. Still(w)
    BY <1>1 DEF Still, Present, Open, Agreeing, Shown
  <2>5. Still(x)
    BY <2>1, <2>4 DEF Still, Present, Open, Monitored, Busy, Timed, Attempting
  <2> QED BY <2>2, <2>3, <2>5, StillShown DEF Agreeing
<1>2. CASE ~ Busy(w, "stop") /\ ~ w.up
  <2> DEFINE x == Boot(w)
  <2>1. StartServer(w) = x
    BY <1>2 DEF StartServer
  <2>2. /\ Woven(x, None) /\ ~ Present(x) /\ Fainter(w, x)
        /\ x.thread["restart"].pc = w.thread["restart"].pc
    BY <1>2, BootStill DEF Agreeing, Shown
  <2> HIDE DEF x
  <2>3. Still(x)
    BY <2>2 DEF Still, Agreeing, Shown, Timed, Attempting, Fainter, Busy
  <2> QED BY <2>1, <2>2, <2>3, StillShown DEF Agreeing
<1>3. CASE ~ Busy(w, "stop") /\ w.up
  <2>1. StartServer(w) \in {w, Restart(w)}
    BY <1>3 DEF StartServer
  <2> QED BY <2>1, RestartAgrees DEF Agreeing, Shown
<1> QED BY <1>1, <1>2, <1>3

(* A stop that is asked for. *)
LEMMA BeginStopAgrees ==
    ASSUME NEW w \in Connections, Woven(w, None), Timed(w), Attempting(w),
           w.starting # None /\ w.thread[w.starting].pc = "boot" => Orderly(w)
    PROVE  Agreeing(BeginStop(w))
PROOF
<1> DEFINE op == [Idle EXCEPT !.pc = "startup", !.waits = w.starting]
           n == NewToken(w, None)
           q == IF w.queued = {} THEN {} ELSE {"revoked"}
           revoked == [n EXCEPT !.starting = None, !.queued = q, !.thread["stop"] = op]
<1>1. CASE Busy(w, "stop")
  <2>1. BeginStop(w) = w
    BY <1>1 DEF BeginStop
  <2>2. Still(w)
    BY <1>1 DEF Still, Present, Open
  <2> QED BY <2>1, <2>2, StillShown DEF Agreeing
<1>2. CASE ~ Busy(w, "stop")
  <2>1. op \in Operations /\ ~ op.valid /\ ~ op.fresh /\ op.pc = "startup"
    <3>1. w.starting \in Starts \union {None} /\ "startup" \in Waits
      BY DEF Connections, Waits
    <3> QED BY <3>1, IdleOperation
  <2> HIDE DEF op
  <2>3. /\ n \in Connections /\ n.rt = w.rt /\ n.child = w.child
        /\ n.again = w.again /\ n.up = w.up /\ n.desk = w.desk
        /\ \A u \in Threads : /\ n.thread[u].fresh = w.thread[u].fresh
                              /\ n.thread[u].pc = w.thread[u].pc
                              /\ n.thread[u].waits = w.thread[u].waits
                              /\ n.thread[u].valid = FALSE
    <3>1. /\ n \in Connections /\ n.rt = w.rt /\ n.child = w.child
          /\ n.again = w.again /\ n.up = w.up /\ n.desk = w.desk
          /\ \A u \in Threads : /\ n.thread[u].fresh = w.thread[u].fresh
                                /\ n.thread[u].pc = w.thread[u].pc
                                /\ n.thread[u].waits = w.thread[u].waits
                                /\ n.thread[u].valid = (u = None)
      BY TokenForm
    <3> HIDE DEF n
    <3>2. \A u \in Threads : (u = None) = FALSE
      BY ThreadNames
    <3> QED BY <3>1, <3>2
  <2> HIDE DEF n
  <2>4. q \subseteq {"valid", "revoked"}
    OBVIOUS
  <2>6. BeginStop(w) = IF w.starting # None /\ w.thread[w.starting].pc = "boot" THEN revoked
                       ELSE StopServices(revoked)
    BY <1>2 DEF BeginStop, op, n, q
  <2> HIDE DEF q
  <2>5. /\ revoked \in Connections /\ revoked.desk = n.desk /\ revoked.starting = None
        /\ \A u \in Threads : revoked.thread[u] = IF u = "stop" THEN op ELSE n.thread[u]
    BY <2>1, ThreadNames, <2>3, <2>4 DEF Connections
  <2> HIDE DEF revoked
  <2>7. \A u \in Threads : revoked.thread[u].valid = FALSE
    BY <2>1, <2>3, <2>5 DEF Operations
  <2>8. revoked.thread["stop"] = op
        /\ \A u \in Threads \ {"stop"} : /\ revoked.thread[u].pc = w.thread[u].pc
                                         /\ revoked.thread[u].fresh = w.thread[u].fresh
                                         /\ revoked.thread[u].waits = w.thread[u].waits
    BY <2>3, <2>5, ThreadNames
  <2>9. Roles(revoked)
    BY <2>1, <2>7, <2>8, ThreadNames DEF Woven, Roles
  <2>10. OneToken(revoked)
    BY <2>7 DEF OneToken
  <2>11. Joined(revoked)
    BY <2>5, <2>7, ThreadNames DEF Joined
  <2>12. Waiting(revoked, None)
    BY <2>8, ThreadNames DEF Woven, Waiting, Stuck, Busy
  <2>13. Timed(revoked) /\ Attempting(revoked) /\ Busy(revoked, "stop")
    BY <2>1, <2>3, <2>5, <2>8, ThreadNames DEF Timed, Attempting, Busy
  <2>14. CASE w.starting # None /\ w.thread[w.starting].pc = "boot"
    <3>1. Orderly(w) /\ ~ w.up
      BY <2>14 DEF Orderly, Booted
    <3>2. ASSUME NEW u \in Threads, revoked.thread[u].pc \in Launching
          PROVE  revoked.thread[u].fresh = FALSE
      <4>1. u # "stop"
        BY <2>1, <2>8, <3>2 DEF Launching
      <4>2. w.thread[u].pc \in Launching /\ w.thread[u].fresh \in BOOLEAN
        BY <2>8, <3>2, <4>1 DEF Connections, Operations
      <4>3. ~ w.thread[u].fresh
        BY <3>1, <4>2, DownIdle DEF Woven
      <4> QED BY <2>8, <4>1, <4>2, <4>3
    <3>3. Same(revoked) /\ Sole(revoked)
      BY <2>7, <3>2 DEF Same, Sole
    <3>4. Still(revoked)
      BY <2>13 DEF Still, Present, Open
    <3> QED BY <2>6, <2>9, <2>10, <2>11, <2>12, <2>14, <3>3, <3>4, StillShown DEF Agreeing, Woven
  <2>15. CASE ~ (w.starting # None /\ w.thread[w.starting].pc = "boot")
    <3>1. Agreeing(StopServices(revoked))
      BY <2>5, <2>7, <2>9, <2>10, <2>11, <2>12, <2>13, StopServicesAgrees
    <3> QED BY <2>6, <2>15, <3>1
  <2> QED BY <2>14, <2>15
<1> QED BY <1>1, <1>2

(* The end of a stop. *)
LEMMA StopDoneAgrees ==
    ASSUME NEW w, Orderly(w), Busy(w, "stop"), Woven(w, None), Attempting(w)
    PROVE  Agreeing(StopDone(w))
PROOF
<1> DEFINE y == Show(w, "stopped", "ok")
           z == [y EXCEPT !.desk.server = FALSE]
           free == [z EXCEPT !.thread["stop"] = Idle, !.again = FALSE]
           woken == IF free.thread["restart"].pc = "awaitStop" THEN RestartAwake(free) ELSE free
<1>0. w \in Connections /\ ~ w.up /\ Down(w) /\ Booted(w)
  BY DEF Orderly, Ending
<1>1. DeskOnly(w, y) /\ Softer(w, y) /\ y.desk.tunnel = "stopped"
  BY <1>0, ShowDesk, ShowSofter DEF TunnelStates, Codes
<1>2. StopDone(w) = IF w.again THEN Boot(woken) ELSE woken
  BY DEF StopDone
<1> HIDE DEF y
<1>3. DeskOnly(y, z) /\ Softer(y, z)
  BY <1>1, ServerDesk, ServerSofter DEF DeskOnly
<1>4. z.desk.tunnel = "stopped"
  BY <1>1 DEF DeskOnly, Connections, Desks
<1> HIDE DEF z
<1>5. DeskOnly(w, z) /\ Softer(w, z)
  BY <1>1, <1>3, DeskTwice, SofterTwice
<1>6. /\ free \in Connections /\ free.rt = w.rt /\ free.child = w.child /\ free.starting = w.starting
      /\ ~ free.again /\ free.up = w.up /\ free.desk = z.desk /\ free.overlap = w.overlap
      /\ \A u \in Threads : free.thread[u] = IF u = "stop" THEN Idle ELSE w.thread[u]
  <2>1. z \in Connections
    BY <1>5 DEF DeskOnly
  <2>2. /\ free \in Connections /\ free.rt = z.rt /\ free.child = z.child /\ free.starting = z.starting
        /\ ~ free.again /\ free.up = z.up /\ free.desk = z.desk /\ free.overlap = z.overlap
        /\ \A u \in Threads : free.thread[u] = IF u = "stop" THEN Idle ELSE z.thread[u]
    BY <2>1, IdleIsIdle, ThreadNames DEF Connections
  <2> HIDE DEF free
  <2> QED BY <1>5, <2>2 DEF DeskOnly
<1> HIDE DEF free
<1>7. free.thread["stop"] = Idle /\ \A u \in Threads \ {"stop"} : free.thread[u] = w.thread[u]
  BY <1>6, ThreadNames
<1>8. Woven(free, None)
  <2>0. \A u \in Threads \ {"stop"} : Busy(free, u) = Busy(w, u)
    BY <1>7 DEF Busy
  <2>1. Roles(free)
    BY <1>7, IdleIsIdle, ThreadNames DEF Woven, Roles
  <2>2. OneToken(free)
    BY <1>7, IdleIsIdle DEF Woven, OneToken
  <2>3. w.starting \in Starts \union {None}
    BY <1>0 DEF Connections
  <2>4. Joined(free)
    BY <1>6, <1>7, <2>0, <2>3, ThreadNames DEF Woven, Joined
  <2>5. Waiting(free, None)
    BY <1>7, <2>0, ThreadNames DEF Woven, Waiting, Stuck
  <2>6. Same(free)
    BY <1>7, IdleIsIdle DEF Woven, Same, Launching
  <2>7. \A u \in Threads : free.thread[u].pc \in Launching => ~ free.thread[u].valid
    BY <1>0, <1>7, IdleIsIdle, DownIdle DEF Woven, Launching
  <2>8. Sole(free)
    BY <2>7 DEF Sole
  <2> QED BY <2>1, <2>2, <2>4, <2>5, <2>6, <2>8 DEF Woven
<1>9. Still(free)
  <2>1. ~ Monitored(free)
    BY <1>0, <1>6 DEF Down, Monitored
  <2>2. Busy(free, "restart") = Busy(w, "restart")
    BY <1>7, ThreadNames DEF Busy
  <2>3. Attempting(free)
    BY <1>5, <1>6, <2>2 DEF Attempting, Softer, Fainter
  <2> QED BY <1>4, <1>6, <2>1, <2>3 DEF Still, Present, Timed
<1>10. Orderly(free)
  <2>1. Down(free)
    BY <1>0, <1>6, IdleIsIdle DEF Down
  <2>2. Booted(free)
    BY <1>0, <1>6, IdleIsIdle DEF Booted
  <2>3. Ending(free)
    BY <1>7, IdleIsIdle DEF Ending, Busy
  <2> QED BY <1>6, <2>1, <2>2, <2>3 DEF Orderly
<1>11. ~ Busy(free, "stop")
  BY <1>7, IdleIsIdle DEF Busy
<1>12. Agreeing(woken) /\ Orderly(woken) /\ woken.up = free.up
  <2>1. CASE free.thread["restart"].pc = "awaitStop"
    <3>1. woken = RestartAwake(free)
      BY <2>1
    <3>2. Connected(free, None) /\ Timed(free)
      BY <1>9, StillShown DEF Shown
    <3>3. Agreeing(RestartAwake(free))
      BY <1>8, <1>10, <3>2, RestartAwakeAgrees
    <3>4. Orderly(RestartAwake(free)) /\ RestartAwake(free).up = free.up
      BY <1>6, <1>10, <1>11, RestartAwakeOrderly
    <3> QED BY <3>1, <3>3, <3>4
  <2>2. CASE free.thread["restart"].pc # "awaitStop"
    <3>1. woken = free
      BY <2>2
    <3>2. Agreeing(free)
      BY <1>8, <1>9, StillShown DEF Agreeing
    <3> QED BY <1>10, <3>1, <3>2
  <2> QED BY <2>1, <2>2
<1> HIDE DEF woken
<1>13. ~ woken.up
  BY <1>0, <1>6, <1>12
<1>14. Agreeing(Boot(woken))
  <2> DEFINE x == Boot(woken)
  <2>1. /\ Woven(x, None) /\ ~ Present(x) /\ Fainter(woken, x)
        /\ x.thread["restart"].pc = woken.thread["restart"].pc
    BY <1>12, <1>13, BootStill DEF Agreeing, Shown
  <2> HIDE DEF x
  <2>2. Still(x)
    BY <1>12, <2>1 DEF Still, Agreeing, Shown, Timed, Attempting, Fainter, Busy
  <2> QED BY <2>1, <2>2, StillShown DEF Agreeing, x
<1> QED BY <1>2, <1>12, <1>14

-----------------------------------------------------------------------------
(* The steps. *)
Agrees == Sound(Now) /\ Resting /\ Agreeing(Now)

LEMMA AgreesNow ==
    ASSUME Agrees
    PROVE  /\ Now \in Connections /\ Sound(Now) /\ Orderly(Now) /\ Awaited(Now)
           /\ Woven(Now, None) /\ Shown(Now, None) /\ Agreeing(Now)
PROOF BY DEF Agrees, Sound, Resting, Agreeing

LEMMA AgreesStep ==
    ASSUME NEW x \in Connections, Agreeing(x), Becomes(x)
    PROVE  Agreeing(Now)'
PROOF
<1>1. Now' = x
  BY BecomesNow
<1> QED BY <1>1

LEMMA AsideAgrees ==
    ASSUME NEW w, Agreeing(w), NEW x \in Connections,
           x.desk = w.desk, x.rt = w.rt, x.child = w.child, x.thread = w.thread,
           x.starting = w.starting, x.up = w.up, x.overlap = w.overlap
    PROVE  Agreeing(x)
PROOF
<1>1. Reporting(w, x)
  BY DEF Reporting, Fainter, Monitored, Hidden
<1> QED BY <1>1, ReportingAgrees DEF Agreeing

(* An operation that launches the tunnel, or boots, has nothing shown.     *)
LEMMA OperationStill ==
    ASSUME NEW w, Shown(w, None), NEW t \in Starts \union {"restart"},
           w.thread[t].pc \in {"boot", "launch"} \union Launching
    PROVE  Still(w)
PROOF
<1>1. Busy(w, t)
  BY DEF Busy, Launching
<1>2. CASE t \in Starts
  BY <1>1, <1>2 DEF Shown, Connected, Still
<1>3. CASE t = "restart"
  BY <1>1, <1>3 DEF Shown, Connected, Still, Stuck, Launching
<1> QED BY <1>2, <1>3

LEMMA RestartStill ==
    ASSUME NEW w, Shown(w, None), w.thread["restart"].pc = "stopping",
           ~ w.thread["restart"].valid \/ ~ w.thread["restart"].fresh
    PROVE  Still(w)
PROOF BY DEF Shown, Connected, Still, Stuck, Busy

(* Nothing is shown once there is something else to show.                  *)
LEMMA UpShown ==
    ASSUME NEW w, Woven(w, None), Still(w), NEW x \in Connections,
           x.thread = w.thread, x.starting = w.starting, x.overlap = w.overlap,
           x.rt = w.rt, x.child = w.child, x.desk.tunnel # "running",
           x.desk.attempt = w.desk.attempt
    PROVE  Agreeing(x)
PROOF
<1>1. Woven(x, None)
  BY WovenSame
<1>2. Still(x)
  BY DEF Still, Present, Open, Busy, Monitored, Timed, Attempting
<1> QED BY <1>1, <1>2, StillShown DEF Agreeing

LEMMA AttemptedAgrees ==
    ASSUME NEW w, Orderly(w), Agreeing(w)
    PROVE  Agreeing(Attempted(w))
PROOF
<1> DEFINE c == Cancelled(w)
           a == [c EXCEPT !.desk.attempt = "current"]
<1>1. w \in Connections /\ Woven(w, None) /\ Shown(w, None)
  BY DEF Orderly, Agreeing
<1>2. DeskOnly(w, c) /\ Softer(w, c) /\ c \in Connections
  BY <1>1, CancelledDesk, CancelledSofter DEF DeskOnly
<1>3. Woven(c, None) /\ Shown(c, None)
  BY <1>1, <1>2, DeskReporting, ReportingAgrees
<1> HIDE DEF c
<1>4. DeskOnly(c, a)
  BY <1>2, AttemptDesk
<1>5. a.desk.tunnel = c.desk.tunnel /\ a.desk.timer = c.desk.timer
  BY <1>2 DEF Connections, Desks
<1> HIDE DEF a
<1>6. Woven(a, None) /\ Connected(a, None) /\ Timed(a)
  <2>1. Woven(a, None)
    BY <1>3, <1>4, WovenSame DEF DeskOnly
  <2>2. Connected(a, None) /\ Timed(a)
    BY <1>3, <1>4, <1>5 DEF Shown, Connected, Present, Open, Monitored, Busy, Timed, DeskOnly, Stuck
  <2> QED BY <2>1, <2>2
<1>7. Orderly(a)
  BY <1>2, <1>4, DeskTwice, DeskReports, ReportsOrderly DEF Onward
<1>8. Agreeing(Restart(a))
  BY <1>6, <1>7, RestartAgrees
<1> QED BY <1>8 DEF Attempted, a, c

LEMMA UserAgrees == ASSUME Agrees, UserNext PROVE Agreeing(Now)'
PROOF
<1>0. /\ Now \in Connections /\ Orderly(Now) /\ Awaited(Now)
      /\ Woven(Now, None) /\ Shown(Now, None) /\ Agreeing(Now)
  BY AgreesNow
<1>1. CASE UserStarts
  <2>1. Becomes(StartServer(Now))
    BY <1>1 DEF UserStarts
  <2>2. StartServer(Now) \in Connections
    BY <1>0, StartServerOrderly DEF Orderly
  <2> QED BY <1>0, <2>1, <2>2, StartServerAgrees, AgreesStep
<1>2. CASE UserRetries
  <2> DEFINE x == IF desk.attempt = "current" THEN Now ELSE Attempted(Now)
  <2>1. x \in Connections /\ Agreeing(x)
    BY <1>0, AttemptedOrderly, AttemptedAgrees DEF Orderly
  <2>2. Becomes(x)
    BY <1>2 DEF UserRetries
  <2> HIDE DEF x
  <2> QED BY <2>1, <2>2, AgreesStep
<1>3. CASE UserChangesSettings
  <2> DEFINE w == Cancelled(Now)
             x == [w EXCEPT !.queued = w.queued \union {"valid"}]
             r == Restart(w)
             y == [r EXCEPT !.watched = TRUE]
  <2>1. Becomes(IF Busy(w, "restart") THEN x ELSE y)
    BY <1>3 DEF UserChangesSettings
  <2>2. Orderly(w) /\ Awaited(w) /\ w \in Connections
    BY <1>0, CancelledOrderly DEF Onward, Orderly
  <2>3. Woven(w, None) /\ Shown(w, None)
    BY <1>0, CancelledDesk, CancelledSofter, DeskReporting, ReportingAgrees
  <2> HIDE DEF w
  <2>4. Agreeing(r) /\ r \in Connections
    BY <2>2, <2>3, RestartAgrees, RestartOrderly DEF Orderly, Shown
  <2> HIDE DEF r
  <2>5. Agreeing(x) /\ x \in Connections
    <3>1. /\ x \in Connections /\ x.rt = w.rt /\ x.child = w.child /\ x.starting = w.starting
          /\ x.up = w.up /\ x.desk = w.desk /\ x.thread = w.thread /\ x.overlap = w.overlap
      BY <2>2 DEF Connections
    <3> HIDE DEF x
    <3> QED BY <2>3, <3>1, AsideAgrees DEF Agreeing
  <2>6. Agreeing(y) /\ y \in Connections
    <3>1. /\ y \in Connections /\ y.rt = r.rt /\ y.child = r.child /\ y.starting = r.starting
          /\ y.up = r.up /\ y.desk = r.desk /\ y.thread = r.thread /\ y.overlap = r.overlap
      BY <2>4 DEF Connections
    <3> HIDE DEF y
    <3> QED BY <2>4, <3>1, AsideAgrees
  <2> HIDE DEF x, y
  <2> QED BY <2>1, <2>5, <2>6, AgreesStep
<1>4. CASE UserStops
  <2> DEFINE w == Cancelled(Now)
             x == BeginStop(w)
  <2>1. Becomes(x)
    BY <1>4 DEF UserStops
  <2>2. Orderly(w) /\ Awaited(w) /\ w \in Connections
    BY <1>0, CancelledOrderly DEF Onward, Orderly
  <2>3. Woven(w, None) /\ Shown(w, None)
    BY <1>0, CancelledDesk, CancelledSofter, DeskReporting, ReportingAgrees
  <2> HIDE DEF w
  <2>4. Agreeing(x)
    BY <2>2, <2>3, BeginStopAgrees DEF Shown
  <2>5. x \in Connections
    BY <2>2, BeginStopOrderly DEF Orderly
  <2> HIDE DEF x
  <2> QED BY <2>1, <2>4, <2>5, AgreesStep
<1> QED BY <1>1, <1>2, <1>3, <1>4 DEF UserNext

LEMMA TimerAgrees == ASSUME Agrees, TimerFires PROVE Agreeing(Now)'
PROOF
<1>1. Orderly(Now) /\ Awaited(Now) /\ Agreeing(Now)
  BY AgreesNow
<1>2. Attempted(Now) \in Connections /\ Agreeing(Attempted(Now))
  BY <1>1, AttemptedOrderly, AttemptedAgrees DEF Orderly
<1> QED BY <1>2, AgreesStep DEF TimerFires, Goes

LEMMA ExitAgrees == ASSUME Agrees, ServiceExits PROVE Agreeing(Now)'
PROOF
<1> DEFINE d == [Now EXCEPT !.up = FALSE]
           s == Show(d, "failed", "transient")
           shown == [s EXCEPT !.desk.server = FALSE]
           c == Cancelled(shown)
           b == BeginStop(c)
           x == [b EXCEPT !.again = TRUE]
<1>1. Becomes(x)
  BY DEF ServiceExits
<1>2. Now \in Connections /\ Orderly(Now) /\ Awaited(Now) /\ Woven(Now, None)
  BY AgreesNow
<1>3. /\ d \in Connections /\ d.rt = rt /\ d.child = child /\ d.thread = thread /\ d.starting = starting
      /\ d.again = again /\ ~ d.up /\ d.overlap = overlap
  BY <1>2, NowFields DEF Connections
<1> HIDE DEF d
<1>4. DeskOnly(d, s)
  BY <1>3, ShowDesk DEF TunnelStates, Codes
<1> HIDE DEF s
<1>5. DeskOnly(s, shown)
  BY <1>4, ServerDesk DEF DeskOnly
<1> HIDE DEF shown
<1>6. DeskOnly(shown, c) /\ Asleep(c)
  BY <1>5, CancelledDesk, CancelledCalmer DEF DeskOnly
<1> HIDE DEF c
<1>7. DeskOnly(d, c) /\ Reports(d, c)
  BY <1>4, <1>5, <1>6, DeskTwice, DeskReports
<1>8. /\ c \in Connections /\ c.thread = thread /\ c.starting = starting /\ c.again = again
      /\ c.overlap = overlap
  BY <1>3, <1>7 DEF DeskOnly
<1>9. Awaited(c)
  BY <1>2, <1>8, NowFields DEF Awaited, Busy
<1>10. ASSUME Busy(c, "stop") \/ (c.starting # None /\ c.thread[c.starting].pc = "boot")
       PROVE  Orderly(c)
  <2>1. ~ up
    BY <1>2, <1>8, <1>10, NowFields DEF Orderly, Ending, Booted, Busy
  <2>2. Orderly(d)
    BY <1>2, <1>3, <2>1, NowFields DEF Orderly, Down, Booted, Ending, Busy
  <2> QED BY <1>7, <2>2, ReportsOrderly DEF Onward
<1>11. Woven(c, None)
  BY <1>2, <1>8, NowFields, WovenSame
<1>12. Timed(c) /\ Attempting(c)
  BY <1>6 DEF Asleep, Timed, Attempting
<1>13. b \in Connections /\ Agreeing(b)
  BY <1>8, <1>9, <1>10, <1>11, <1>12, BeginStopOrderly, BeginStopAgrees DEF Orderly
<1> HIDE DEF b
<1>14. Agreeing(x) /\ x \in Connections
  <2>1. /\ x \in Connections /\ x.rt = b.rt /\ x.child = b.child /\ x.starting = b.starting
        /\ x.up = b.up /\ x.desk = b.desk /\ x.thread = b.thread /\ x.overlap = b.overlap
    BY <1>13 DEF Connections
  <2> HIDE DEF x
  <2> QED BY <1>13, <2>1, AsideAgrees
<1> HIDE DEF x
<1> QED BY <1>1, <1>14, AgreesStep

(* A thread goes on to launch with the token, or without it.               *)
LEMMA WovenLaunch ==
    ASSUME NEW w \in Connections, Woven(w, None), NEW t \in Starts \union {"restart"},
           w.thread[t].pc \in {"boot", "stopping"}
    PROVE  LET x == To(w, t, "launch")
           IN /\ x \in Connections /\ Woven(x, None)
              /\ x.desk = w.desk /\ x.rt = w.rt /\ x.child = w.child
              /\ x.starting = w.starting /\ x.up = w.up /\ x.overlap = w.overlap
              /\ \A u \in Threads : Busy(x, u) = Busy(w, u)
PROOF
<1> DEFINE x == To(w, t, "launch")
<1>1. t \in Threads /\ "launch" \in Waits /\ Busy(w, t)
  BY ThreadNames DEF Threads, Waits, Busy
<1>2. /\ x \in Connections /\ x.rt = w.rt /\ x.child = w.child /\ x.starting = w.starting
      /\ x.again = w.again /\ x.up = w.up /\ x.queued = w.queued /\ x.desk = w.desk
      /\ x.watched = w.watched
      /\ \A u \in Threads : /\ x.thread[u].fresh = w.thread[u].fresh
                            /\ x.thread[u].valid = w.thread[u].valid
                            /\ x.thread[u].waits = w.thread[u].waits
                            /\ x.thread[u].pc = IF u = t THEN "launch" ELSE w.thread[u].pc
  BY <1>1, ToForm
<1>3. x.overlap = w.overlap
  BY DEF To, Connections
<1> HIDE DEF x
<1>4. \A u \in Threads : Busy(x, u) = Busy(w, u)
  BY <1>1, <1>2 DEF Busy
<1>5. \A u \in Threads : x.thread[u].pc \in Launching => w.thread[u].pc \in Launching
  BY <1>2 DEF Launching
<1>6. Roles(x)
  BY <1>2, ThreadNames DEF Woven, Roles
<1>7. OneToken(x)
  BY <1>2 DEF Woven, OneToken
<1>8. Joined(x)
  <2>1. w.starting # None => w.starting \in Threads
    BY ThreadNames DEF Connections
  <2> QED BY <1>2, <1>4, <2>1, ThreadNames DEF Woven, Joined
<1>9. Waiting(x, None)
  BY <1>2, <1>4, ThreadNames DEF Woven, Waiting, Stuck
<1>10. Same(x)
  BY <1>2, <1>5 DEF Woven, Same
<1>11. Sole(x)
  <2> SUFFICES ASSUME ~ x.overlap, NEW u \in Threads, x.thread[u].valid, x.thread[u].pc \in Launching
               PROVE  /\ \A s \in Starts \ {u} : ~ Busy(x, s)
                      /\ u # "restart" => ~ Busy(x, "restart") \/ x.thread["restart"].waits = u \/ Stuck(x)
    BY DEF Sole
  <2>1. w.thread[u].valid /\ w.thread[u].pc \in Launching
    BY <1>2, <1>5
  <2>2. \A s \in Starts \ {u} : ~ Busy(w, s)
    BY <1>3, <2>1 DEF Woven, Sole
  <2>3. u # "restart" => ~ Busy(w, "restart") \/ w.thread["restart"].waits = u \/ Stuck(w)
    BY <1>3, <2>1 DEF Woven, Sole
  <2>4. Stuck(w) => Stuck(x)
    BY <1>1, <1>2, ThreadNames DEF Stuck
  <2> QED BY <1>2, <1>4, <2>2, <2>3, <2>4, ThreadNames
<1>12. Woven(x, None)
  BY <1>6, <1>7, <1>8, <1>9, <1>10, <1>11 DEF Woven
<1> QED BY <1>2, <1>3, <1>4, <1>12 DEF x

LEMMA BootAgrees == ASSUME Agrees, NEW s \in Starts, BootEnds(s) PROVE Agreeing(Now)'
PROOF
<1> DEFINE l == To(Now, s, "launch")
           m == Show(l, "starting", "ok")
           x == [m EXCEPT !.up = TRUE, !.desk.server = TRUE]
           f == Show(Now, "failed", "transient")
           g == [f EXCEPT !.desk.server = FALSE]
<1>1. /\ thread[s].pc = "boot"
      /\ Becomes(StartEnds(Now, s)) \/ Becomes(x) \/ Becomes(StartEnds(g, s))
  BY DEF BootEnds, Goes
<1>2. /\ Now \in Connections /\ Orderly(Now) /\ Awaited(Now)
      /\ Woven(Now, None) /\ Shown(Now, None)
  BY AgreesNow
<1>3. Now.thread[s].pc = "boot" /\ s # "restart"
  BY <1>1, NowFields, ThreadNames
<1>4. Still(Now)
  BY <1>2, <1>3, OperationStill
<1>5. \A w : Ends(w, s) = StartEnds(w, s)
  BY <1>3 DEF Ends
<1>6. CASE Becomes(StartEnds(Now, s))
  <2>1. StartEnds(Now, s) \in Connections
    BY <1>2, StartEndsOrderly DEF Onward, Orderly
  <2> QED BY <1>2, <1>4, <1>5, <1>6, <2>1, EndsAgrees, AgreesStep
<1>7. CASE Becomes(x)
  <2>1. /\ l \in Connections /\ Woven(l, None)
        /\ l.desk = Now.desk /\ l.rt = Now.rt /\ l.child = Now.child
        /\ l.starting = Now.starting /\ l.up = Now.up /\ l.overlap = Now.overlap
        /\ \A u \in Threads : Busy(l, u) = Busy(Now, u)
    BY <1>2, <1>3, WovenLaunch
  <2> HIDE DEF l
  <2>2. Still(l)
    BY <1>4, <2>1, ThreadNames DEF Still, Present, Open, Monitored, Timed, Attempting
  <2>3. DeskOnly(l, m) /\ m.desk.tunnel = "starting" /\ m.desk.attempt = l.desk.attempt
    <3>1. m.desk.tunnel = "starting" /\ m.desk.attempt = l.desk.attempt
      BY <2>1 DEF Show, Connections, Desks
    <3> QED BY <2>1, <3>1, ShowDesk DEF TunnelStates, Codes
  <2> HIDE DEF m
  <2>4. /\ x \in Connections /\ x.thread = m.thread /\ x.starting = m.starting /\ x.overlap = m.overlap
        /\ x.rt = m.rt /\ x.child = m.child /\ x.desk.tunnel = m.desk.tunnel
        /\ x.desk.attempt = m.desk.attempt
    <3>1. m \in Connections
      BY <2>3 DEF DeskOnly
    <3> QED BY <3>1 DEF Connections, Desks
  <2> HIDE DEF x
  <2>5. Agreeing(x)
    BY <2>1, <2>2, <2>3, <2>4, UpShown DEF DeskOnly
  <2> QED BY <1>7, <2>4, <2>5, AgreesStep
<1>8. CASE Becomes(StartEnds(g, s))
  <2>1. DeskOnly(Now, f) /\ Softer(Now, f)
    BY <1>2, ShowDesk, ShowSofter DEF TunnelStates, Codes
  <2> HIDE DEF f
  <2>2. DeskOnly(f, g) /\ Softer(f, g)
    BY <2>1, ServerDesk, ServerSofter DEF DeskOnly
  <2> HIDE DEF g
  <2>3. DeskOnly(Now, g) /\ Softer(Now, g)
    BY <2>1, <2>2, DeskTwice, SofterTwice
  <2>4. Orderly(g) /\ Awaited(g)
    BY <1>2, <2>3, DeskReports, ReportsOrderly DEF Onward
  <2>5. Woven(g, None) /\ Shown(g, None)
    BY <1>2, <2>3, DeskReporting, ReportingAgrees
  <2>6. g.thread[s].pc = "boot"
    BY <1>3, <2>3 DEF DeskOnly
  <2>7. Still(g)
    BY <2>5, <2>6, OperationStill
  <2>8. Agreeing(StartEnds(g, s))
    BY <1>5, <2>4, <2>5, <2>7, EndsAgrees
  <2>9. StartEnds(g, s) \in Connections
    BY <2>4, StartEndsOrderly DEF Onward, Orderly
  <2> QED BY <1>8, <2>8, <2>9, AgreesStep
<1> QED BY <1>1, <1>6, <1>7, <1>8

-----------------------------------------------------------------------------
(* A launch that goes on.                                                  *)
LEMMA WovenOn ==
    ASSUME NEW w \in Connections, Woven(w, None), NEW t \in Starts \union {"restart"},
           w.thread[t].pc \in Launching, NEW pc \in Launching, NEW x,
           x.starting = w.starting, x.overlap = w.overlap,
           \A u \in Threads : /\ x.thread[u].fresh = w.thread[u].fresh
                              /\ x.thread[u].valid = w.thread[u].valid
                              /\ x.thread[u].waits = w.thread[u].waits
                              /\ x.thread[u].pc = IF u = t THEN pc ELSE w.thread[u].pc
    PROVE  Woven(x, None) /\ \A u \in Threads : Busy(x, u) = Busy(w, u)
PROOF
<1>1. t \in Threads
  BY ThreadNames
<1>2. \A u \in Threads : /\ x.thread[u].fresh = w.thread[u].fresh
                         /\ x.thread[u].valid = w.thread[u].valid
                         /\ x.thread[u].waits = w.thread[u].waits
                         /\ x.thread[u].pc = IF u = t THEN pc ELSE w.thread[u].pc
  OBVIOUS
<1>4. \A u \in Threads : Busy(x, u) = Busy(w, u)
  BY <1>1, <1>2 DEF Busy, Launching
<1>5. \A u \in Threads : x.thread[u].pc \in Launching => w.thread[u].pc \in Launching
  BY <1>2
<1>6. Roles(x)
  BY <1>2, ThreadNames DEF Woven, Roles, Launching
<1>7. OneToken(x)
  BY <1>2 DEF Woven, OneToken
<1>8. Joined(x)
  <2>1. w.starting # None => w.starting \in Threads
    BY ThreadNames DEF Connections
  <2> QED BY <1>2, <1>4, <2>1, ThreadNames DEF Woven, Joined
<1>9. Waiting(x, None)
  BY <1>2, <1>4, ThreadNames DEF Woven, Waiting, Stuck, Launching
<1>10. Same(x)
  BY <1>2, <1>5 DEF Woven, Same
<1>11. Sole(x)
  <2> SUFFICES ASSUME ~ x.overlap, NEW u \in Threads, x.thread[u].valid, x.thread[u].pc \in Launching
               PROVE  /\ \A s \in Starts \ {u} : ~ Busy(x, s)
                      /\ u # "restart" => ~ Busy(x, "restart") \/ x.thread["restart"].waits = u \/ Stuck(x)
    BY DEF Sole
  <2>1. w.thread[u].valid /\ w.thread[u].pc \in Launching
    BY <1>2, <1>5
  <2>2. \A s \in Starts \ {u} : ~ Busy(w, s)
    BY <2>1 DEF Woven, Sole
  <2>3. u # "restart" => ~ Busy(w, "restart") \/ w.thread["restart"].waits = u \/ Stuck(w)
    BY <2>1 DEF Woven, Sole
  <2>4. Stuck(w) => Stuck(x)
    BY <1>1, <1>2, ThreadNames DEF Stuck, Launching
  <2> QED BY <1>2, <1>4, <2>2, <2>3, <2>4, ThreadNames
<1> QED BY <1>4, <1>6, <1>7, <1>8, <1>9, <1>10, <1>11 DEF Woven

(* A start begins to launch with the token: whoever else is under way was  *)
(* taken over, which overlap says, or waits for it.                        *)
LEMMA LaunchAlone ==
    ASSUME NEW w, Orderly(w), Awaited(w), Woven(w, None), NEW t \in Starts \union {"restart"},
           w.thread[t].pc = "launch", w.thread[t].valid,
           \A u \in Threads \ {t} :
               w.thread[u].pc \in {"boot", "launch", "prepare", "wait", "cleanup"}
                                  \union (IF u = "restart" THEN {"stopping"} ELSE {}) => w.thread[u].valid
    PROVE  /\ \A s \in Starts \ {t} : ~ Busy(w, s)
           /\ t # "restart" => ~ Busy(w, "restart") \/ w.thread["restart"].waits = t \/ Stuck(w)
PROOF
<1>1. t \in Threads /\ Roles(w) /\ OneToken(w) /\ Waiting(w, None)
  BY ThreadNames DEF Woven
<1>2. \A u \in Threads \ {t} : ~ w.thread[u].valid
  BY <1>1 DEF OneToken
<1>3. \A s \in Starts \ {t} : ~ Busy(w, s)
  BY <1>1, <1>2, ThreadNames DEF Roles, Busy, Launching
<1>4. ASSUME t # "restart", Busy(w, "restart")
      PROVE  w.thread["restart"].waits = t \/ Stuck(w)
  <2>1. w.thread["restart"].pc \notin {"idle", "boot", "startup", "launch", "prepare", "wait", "cleanup", "stopping"}
    BY <1>1, <1>2, <1>4, ThreadNames DEF Roles, Busy
  <2>2. w.thread["restart"].pc \in Waits
    BY ThreadNames DEF Orderly, Connections, Operations
  <2>3. w.thread["restart"].pc # "awaitStop"
    BY <1>1, ThreadNames DEF Orderly, Down, Ending, Awaited
  <2>4. w.thread["restart"].pc \in {"delegated", "awaitStart"}
    BY <2>1, <2>2, <2>3 DEF Waits
  <2>5. Stuck(w) \/ (w.thread["restart"].waits \in Starts
                     /\ (w.thread["restart"].waits = None \/ Busy(w, w.thread["restart"].waits)))
    BY <1>1, <2>4 DEF Waiting
  <2> QED BY <1>3, <2>5, ThreadNames
<1> QED BY <1>3, <1>4

LEMMA WovenLaunches ==
    ASSUME NEW w, Orderly(w), Woven(w, None), NEW t \in Starts \union {"restart"},
           w.thread[t].pc = "launch", w.thread[t].valid, NEW x,
           ~ x.overlap => /\ \A s \in Starts \ {t} : ~ Busy(w, s)
                          /\ t # "restart" => ~ Busy(w, "restart") \/ w.thread["restart"].waits = t \/ Stuck(w),
           x.starting = w.starting,
           \A u \in Threads : /\ x.thread[u].fresh = (u = t)
                              /\ x.thread[u].valid = w.thread[u].valid
                              /\ x.thread[u].waits = w.thread[u].waits
                              /\ x.thread[u].pc = IF u = t THEN "prepare" ELSE w.thread[u].pc
    PROVE  Woven(x, None) /\ \A u \in Threads : Busy(x, u) = Busy(w, u)
PROOF
<1>1. t \in Threads /\ w \in Connections
  BY ThreadNames DEF Orderly
<1>2. \A u \in Threads : /\ x.thread[u].fresh = (u = t)
                         /\ x.thread[u].valid = w.thread[u].valid
                         /\ x.thread[u].waits = w.thread[u].waits
                         /\ x.thread[u].pc = IF u = t THEN "prepare" ELSE w.thread[u].pc
  OBVIOUS
<1>3. \A u \in Threads : w.thread[u].valid = (u = t)
  <2>1. \A u \in Threads : w.thread[u].valid \in BOOLEAN
    BY <1>1 DEF Connections, Operations
  <2> QED BY <1>1, <2>1 DEF Woven, OneToken
<1>4. \A u \in Threads : Busy(x, u) = Busy(w, u)
  BY <1>1, <1>2 DEF Busy
<1>5. Roles(x)
  BY <1>2, ThreadNames DEF Woven, Roles, Launching
<1>6. OneToken(x)
  BY <1>2, <1>3 DEF OneToken
<1>7. Joined(x)
  <2>1. w.starting # None => w.starting \in Threads
    BY <1>1, ThreadNames DEF Connections
  <2> QED BY <1>2, <1>4, <2>1, ThreadNames DEF Woven, Joined
<1>8. Waiting(x, None)
  BY <1>2, <1>4, ThreadNames DEF Woven, Waiting, Stuck
<1>9. Same(x)
  BY <1>2, <1>3 DEF Same
<1>10. Sole(x)
  <2> SUFFICES ASSUME ~ x.overlap, NEW u \in Threads, x.thread[u].valid, x.thread[u].pc \in Launching
               PROVE  /\ \A s \in Starts \ {u} : ~ Busy(x, s)
                      /\ u # "restart" => ~ Busy(x, "restart") \/ x.thread["restart"].waits = u \/ Stuck(x)
    BY DEF Sole
  <2>1. u = t
    BY <1>2, <1>3
  <2>2. t # "restart" /\ Stuck(w) => Stuck(x)
    BY <1>2, ThreadNames DEF Stuck
  <2> QED BY <1>2, <1>4, <2>1, <2>2, ThreadNames
<1> QED BY <1>4, <1>5, <1>6, <1>7, <1>8, <1>9, <1>10 DEF Woven

LEMMA LaunchAgrees ==
    ASSUME Agrees, NEW t \in Starts \union {"restart"}, Launches(t)
    PROVE  Agreeing(Now)'
PROOF
<1>1. PICK over \in BOOLEAN :
         /\ overlap => over
         /\ thread[t].valid /\ ~ over => \A u \in Threads \ {t} : ~ TakenOver(u)
         /\ LET w == [Now EXCEPT !.overlap = over]
            IN \/ Becomes(Ends(w, t))
               \/ Becomes(TunnelError(w, t, "terminal"))
               \/ Becomes(TunnelError(Unseen(w), t, "transient"))
               \/ /\ thread[t].valid /\ child = None
                  /\ Becomes(Update([NewGeneration(To(w, t, "prepare"), t) EXCEPT !.rt.stopping = FALSE],
                               "starting", "ok"))
  <2> DEFINE over == overlap \/ (thread[t].valid /\ \E u \in Threads \ {t} : TakenOver(u))
  <2>1. over \in BOOLEAN /\ (overlap => over)
        /\ (thread[t].valid /\ ~ over => \A u \in Threads \ {t} : ~ TakenOver(u))
    OBVIOUS
  <2> QED BY <2>1 DEF Launches, Goes
<1> DEFINE w == [Now EXCEPT !.overlap = over]
           v == Unseen(w)
           p == To(w, t, "prepare")
           g == NewGeneration(p, t)
           h == [g EXCEPT !.rt.stopping = FALSE]
           x == Update(h, "starting", "ok")
<1>2. \/ Becomes(Ends(w, t))
      \/ Becomes(TunnelError(w, t, "terminal"))
      \/ Becomes(TunnelError(v, t, "transient"))
      \/ thread[t].valid /\ child = None /\ Becomes(x)
  BY <1>1
<1>3. /\ t \in Threads /\ thread[t].pc = "launch" /\ Now.thread[t].pc = "launch"
      /\ Now \in Connections /\ Orderly(Now) /\ Awaited(Now) /\ Woven(Now, None) /\ Shown(Now, None)
  BY ThreadNames, AgreesNow, NowFields DEF Launches
<1>4. Still(Now)
  BY <1>3, OperationStill
<1>5. /\ w \in Connections /\ w.rt = Now.rt /\ w.child = Now.child /\ w.thread = Now.thread
      /\ w.starting = Now.starting /\ w.queued = Now.queued /\ w.watched = Now.watched
      /\ w.again = Now.again /\ w.up = Now.up /\ w.desk = Now.desk /\ w.overlap = over
  BY <1>3 DEF Connections
<1> HIDE DEF w
<1>6. Orderly(w) /\ Awaited(w) /\ Busy(w, t)
  <2>1. Reports(Now, w)
    BY <1>5 DEF Reports
  <2> QED BY <1>3, <1>5, <2>1, ReportsOrderly DEF Onward, Busy
<1>7. Woven(w, None)
  BY <1>1, <1>3, <1>5, NowFields, WovenSame
<1>8. Still(w)
  BY <1>1, <1>4, <1>5, NowFields DEF Still, Present, Open, Monitored, Busy, Timed, Attempting
<1>9. CASE Becomes(Ends(w, t))
  <2>1. Ends(w, t) \in Connections
    BY <1>6, EndsOrderly DEF Onward, Orderly
  <2> QED BY <1>6, <1>7, <1>8, <1>9, <2>1, EndsAgrees, AgreesStep
<1>10. CASE Becomes(TunnelError(w, t, "terminal"))
  <2>1. TunnelError(w, t, "terminal") \in Connections
    BY <1>5, <1>6, ReportsSame, TunnelErrorOrderly DEF Codes, Onward, Orderly
  <2>2. Agreeing(TunnelError(w, t, "terminal"))
    BY <1>6, <1>7, <1>8, TunnelErrorAgrees DEF Codes
  <2> QED BY <1>10, <2>1, <2>2, AgreesStep
<1>11. CASE Becomes(TunnelError(v, t, "transient"))
  <2>1. DeskOnly(w, v)
    BY <1>5, LostDesk DEF Unseen
  <2>2. v.desk.tunnel = w.desk.tunnel /\ v.desk.timer = w.desk.timer /\ v.desk.attempt = w.desk.attempt
    BY <1>5 DEF Unseen, Connections, Desks
  <2> HIDE DEF v
  <2>3. Reports(w, v) /\ Orderly(v) /\ Awaited(v)
    BY <1>6, <2>1, DeskReports, ReportsOrderly DEF Onward
  <2>4. Woven(v, None)
    BY <1>7, <2>1, WovenSame DEF DeskOnly
  <2>5. Still(v)
    BY <1>8, <2>1, <2>2 DEF DeskOnly, Still, Present, Open, Monitored, Busy, Timed, Attempting
  <2>6. TunnelError(v, t, "transient") \in Connections
    BY <1>6, <2>3, TunnelErrorOrderly DEF Codes, Onward, Orderly
  <2>7. Agreeing(TunnelError(v, t, "transient"))
    BY <2>3, <2>4, <2>5, TunnelErrorAgrees DEF Codes
  <2> QED BY <1>11, <2>6, <2>7, AgreesStep
<1>12. CASE thread[t].valid /\ child = None /\ Becomes(x)
  <2>1. /\ p \in Connections /\ p.rt = w.rt /\ p.child = w.child /\ p.starting = w.starting
        /\ p.again = w.again /\ p.up = w.up /\ p.queued = w.queued /\ p.desk = w.desk
        /\ p.watched = w.watched
        /\ \A u \in Threads : /\ p.thread[u].fresh = w.thread[u].fresh
                              /\ p.thread[u].valid = w.thread[u].valid
                              /\ p.thread[u].waits = w.thread[u].waits
                              /\ p.thread[u].pc = IF u = t THEN "prepare" ELSE w.thread[u].pc
    <3>1. "prepare" \in Waits
      BY DEF Waits
    <3> QED BY <1>3, <1>5, <3>1, ToForm
  <2>2. p.overlap = w.overlap
    BY <1>5 DEF To, Connections
  <2> HIDE DEF p
  <2>3. /\ g \in Connections
        /\ g.thread = [u \in Threads |-> [p.thread[u] EXCEPT !.fresh = (u = t)]]
        /\ g.child = IF p.child = None THEN None ELSE [p.child EXCEPT !.fresh = FALSE]
        /\ g.rt = [p.rt EXCEPT !.report = "ok"]
        /\ g.desk = p.desk /\ g.starting = p.starting
        /\ g.queued = p.queued /\ g.watched = p.watched /\ g.again = p.again /\ g.up = p.up
        /\ g.overlap = p.overlap
    BY <1>3, <2>1, GenerationForm
  <2> HIDE DEF g
  <2>4. \A u \in Threads : p.thread[u] \in Operations
    BY <2>1 DEF Connections
  <2>5. \A u \in Threads : /\ g.thread[u].fresh = (u = t)
                           /\ g.thread[u].valid = w.thread[u].valid
                           /\ g.thread[u].waits = w.thread[u].waits
                           /\ g.thread[u].pc = IF u = t THEN "prepare" ELSE w.thread[u].pc
    BY <2>1, <2>3, <2>4 DEF Operations
  <2>6. /\ h \in Connections /\ h.thread = g.thread /\ h.child = g.child /\ h.desk = g.desk
        /\ h.starting = g.starting /\ h.up = g.up /\ h.overlap = g.overlap
    BY <2>3 DEF Connections, Runtimes
  <2> HIDE DEF h
  <2>7. ~ h.overlap => \A u \in Threads \ {t} : ~ TakenOver(u)
    BY <1>1, <1>5, <1>12, <2>2, <2>3, <2>6
  <2>8. ~ h.overlap =>
           /\ \A s \in Starts \ {t} : ~ Busy(w, s)
           /\ t # "restart" => ~ Busy(w, "restart") \/ w.thread["restart"].waits = t \/ Stuck(w)
    <3> SUFFICES ASSUME ~ h.overlap
                 PROVE  /\ \A s \in Starts \ {t} : ~ Busy(w, s)
                        /\ t # "restart" => ~ Busy(w, "restart") \/ w.thread["restart"].waits = t \/ Stuck(w)
      OBVIOUS
    <3>1. \A u \in Threads \ {t} :
             w.thread[u].pc \in {"boot", "launch", "prepare", "wait", "cleanup"}
                                \union (IF u = "restart" THEN {"stopping"} ELSE {}) => w.thread[u].valid
      BY <1>5, <2>7, NowFields DEF TakenOver
    <3>2. w.thread[t].pc = "launch" /\ w.thread[t].valid
      BY <1>3, <1>5, <1>12, NowFields
    <3> QED BY <1>6, <1>7, <3>1, <3>2, LaunchAlone
  <2>9. Woven(h, None) /\ \A u \in Threads : Busy(h, u) = Busy(w, u)
    <3>1. w.thread[t].pc = "launch" /\ w.thread[t].valid
      BY <1>3, <1>5, <1>12, NowFields
    <3>2. h.starting = w.starting
      BY <2>1, <2>3, <2>6
    <3>3. \A u \in Threads : /\ h.thread[u].fresh = (u = t)
                             /\ h.thread[u].valid = w.thread[u].valid
                             /\ h.thread[u].waits = w.thread[u].waits
                             /\ h.thread[u].pc = IF u = t THEN "prepare" ELSE w.thread[u].pc
      BY <2>5, <2>6
    <3> QED BY <1>6, <1>7, <2>8, <3>1, <3>2, <3>3, WovenLaunches
  <2>10. Still(h)
    <3>1. h.child = None /\ h.desk = w.desk /\ h.overlap = w.overlap
      BY <1>5, <1>12, <2>1, <2>2, <2>3, <2>6, NowFields
    <3>2. Busy(h, "stop") = Busy(w, "stop") /\ Busy(h, "restart") = Busy(w, "restart")
      BY <2>9, ThreadNames
    <3> QED BY <1>8, <3>1, <3>2 DEF Still, Present, Open, Monitored, Timed, Attempting
  <2>11. Reporting(h, x) /\ x \in Connections
    <3>1. Reporting(h, x)
      BY <2>6, UpdateReporting DEF TunnelStates, Codes
    <3> QED BY <3>1 DEF Reporting, Fainter
  <2> HIDE DEF x
  <2>12. Agreeing(x)
    BY <2>9, <2>10, <2>11, StillShown, ReportingAgrees DEF Agreeing
  <2> QED BY <1>12, <2>11, <2>12, AgreesStep
<1> QED BY <1>2, <1>9, <1>10, <1>11, <1>12

(* A failure that the runtime reports while an operation is under way.     *)
LEMMA FailedAgrees ==
    ASSUME NEW w, Orderly(w), Awaited(w), Woven(w, None), Still(w),
           NEW t \in Starts \union {"restart"}, Busy(w, t), NEW code \in Codes, NEW seen \in Codes
    PROVE  LET x == TunnelError(Update(w, "failed", code), t, seen)
           IN x \in Connections /\ Agreeing(x)
PROOF
<1> DEFINE y == Update(w, "failed", code)
<1>1. w \in Connections
  BY DEF Orderly
<1>2. Reporting(w, y) /\ Reports(w, y)
  BY <1>1, UpdateReporting, UpdateReports DEF TunnelStates
<1> HIDE DEF y
<1>3. Orderly(y) /\ Awaited(y)
  BY <1>2, ReportsOrderly DEF Onward
<1>4. Woven(y, None)
  BY <1>2, StillShown, ReportingAgrees
<1>5. Still(y)
  BY <1>2, FainterStill DEF Reporting, Busy
<1>6. Agreeing(TunnelError(y, t, seen))
  BY <1>3, <1>4, <1>5, TunnelErrorAgrees
<1>7. TunnelError(y, t, seen) \in Connections
  BY <1>2, TunnelErrorOrderly DEF Onward, Orderly
<1> QED BY <1>6, <1>7 DEF y

LEMMA SpawnAgrees ==
    ASSUME Agrees, NEW t \in Starts \union {"restart"}, Spawns(t)
    PROVE  Agreeing(Now)'
PROOF
<1> DEFINE y == Update(Now, "failed", "terminal")
           l == To(Now, t, "wait")
           x == [l EXCEPT !.child = [of |-> t, fresh |-> TRUE, fatal |-> FALSE, watched |-> FALSE]]
<1>1. \/ Becomes(Ends(Now, t))
      \/ Becomes(TunnelError(y, t, "terminal"))
      \/ Becomes(x)
  BY DEF Spawns, Goes
<1>2. /\ t \in Threads /\ Now.thread[t].pc = "prepare" /\ Busy(Now, t)
      /\ Now \in Connections /\ Orderly(Now) /\ Awaited(Now) /\ Woven(Now, None) /\ Shown(Now, None)
  BY ThreadNames, AgreesNow, NowFields DEF Spawns, Busy
<1>3. Still(Now)
  BY <1>2, OperationStill DEF Launching
<1>4. CASE Becomes(Ends(Now, t))
  <2>1. Ends(Now, t) \in Connections
    BY <1>2, EndsOrderly DEF Onward, Orderly
  <2> QED BY <1>2, <1>3, <1>4, <2>1, EndsAgrees, AgreesStep
<1>5. CASE Becomes(TunnelError(y, t, "terminal"))
  <2>1. TunnelError(y, t, "terminal") \in Connections /\ Agreeing(TunnelError(y, t, "terminal"))
    BY <1>2, <1>3, FailedAgrees DEF Codes
  <2> QED BY <1>5, <2>1, AgreesStep
<1>6. CASE Becomes(x)
  <2>1. /\ l \in Connections /\ l.rt = Now.rt /\ l.child = Now.child /\ l.starting = Now.starting
        /\ l.again = Now.again /\ l.up = Now.up /\ l.queued = Now.queued /\ l.desk = Now.desk
        /\ l.watched = Now.watched
        /\ \A u \in Threads : /\ l.thread[u].fresh = Now.thread[u].fresh
                              /\ l.thread[u].valid = Now.thread[u].valid
                              /\ l.thread[u].waits = Now.thread[u].waits
                              /\ l.thread[u].pc = IF u = t THEN "wait" ELSE Now.thread[u].pc
    <3>1. "wait" \in Waits
      BY DEF Waits
    <3> QED BY <1>2, <3>1, ToForm
  <2>2. l.overlap = Now.overlap
    BY <1>2 DEF To, Connections
  <2> HIDE DEF l
  <2>3. /\ x \in Connections /\ x.desk = l.desk /\ x.rt = l.rt /\ x.thread = l.thread
        /\ x.starting = l.starting /\ x.overlap = l.overlap /\ ~ x.child.watched
    <3>1. [of |-> t, fresh |-> TRUE, fatal |-> FALSE, watched |-> FALSE] \in Clients
      BY <1>2 DEF Clients
    <3> QED BY <2>1, <3>1 DEF Connections
  <2> HIDE DEF x
  <2>4. Woven(x, None) /\ \A u \in Threads : Busy(x, u) = Busy(Now, u)
    <3>1. /\ x.starting = Now.starting /\ x.overlap = Now.overlap
          /\ \A u \in Threads : /\ x.thread[u].fresh = Now.thread[u].fresh
                                /\ x.thread[u].valid = Now.thread[u].valid
                                /\ x.thread[u].waits = Now.thread[u].waits
                                /\ x.thread[u].pc = IF u = t THEN "wait" ELSE Now.thread[u].pc
      BY <2>1, <2>2, <2>3
    <3>2. "wait" \in Launching /\ Now.thread[t].pc \in Launching
      BY <1>2 DEF Launching
    <3> QED BY <1>2, <3>1, <3>2, WovenOn
  <2>5. Still(x)
    <3>1. x.desk = Now.desk /\ x.overlap = Now.overlap /\ ~ Monitored(x)
      BY <2>1, <2>2, <2>3 DEF Monitored
    <3>2. Busy(x, "stop") = Busy(Now, "stop") /\ Busy(x, "restart") = Busy(Now, "restart")
      BY <2>4, ThreadNames
    <3> QED BY <1>3, <3>1, <3>2 DEF Still, Present, Open, Timed, Attempting
  <2>6. Agreeing(x)
    BY <2>4, <2>5, StillShown DEF Agreeing
  <2> QED BY <1>6, <2>3, <2>6, AgreesStep
<1> QED BY <1>1, <1>4, <1>5, <1>6

-----------------------------------------------------------------------------
(* Thread t has ended in x, and nothing that is shown has changed.         *)
Leaves(w, x, t) ==
    /\ x.up = w.up /\ x.overlap = w.overlap
    /\ \A u \in Threads : x.thread[u] = IF u = t THEN Idle ELSE w.thread[u]

LEMMA FreedLeaves ==
    ASSUME NEW w \in Connections, NEW s \in Starts
    PROVE  Leaves(w, Freed(w, s), s)
PROOF
<1>1. /\ Freed(w, s) \in Connections /\ Freed(w, s).up = w.up /\ Freed(w, s).desk = w.desk
      /\ Freed(w, s).rt = w.rt /\ Freed(w, s).child = w.child
      /\ Freed(w, s).overlap = w.overlap
      /\ Freed(w, s).starting = IF w.starting = s THEN None ELSE w.starting
      /\ \A u \in Threads : Freed(w, s).thread[u] = IF u = s THEN Idle ELSE w.thread[u]
  BY FreedForm
<1> QED BY <1>1 DEF Leaves

LEMMA LoosedLeaves ==
    ASSUME NEW w \in Connections
    PROVE  Leaves(w, Loosed(w, "restart"), "restart")
PROOF
<1> DEFINE x == Loosed(w, "restart")
<1>1. x.up = w.up /\ x.overlap = w.overlap
  BY DEF Loosed, Connections
<1>2. \A u \in Threads : x.thread[u] = IF u = "restart" THEN Idle ELSE w.thread[u]
  BY ThreadNames, LoosedForm
<1> QED BY <1>1, <1>2 DEF Leaves

(* Thread t is alone, but for a restart that waits for it.                 *)
Solitary(w, t) ==
    ~ w.overlap =>
        /\ \A s \in Starts \ {t} : ~ Busy(w, s)
        /\ t # "restart" => ~ Busy(w, "restart") \/ w.thread["restart"].waits = t \/ Stuck(w)

LEMMA StartLeaves ==
    ASSUME NEW w, w.up, NEW s \in Starts, Solitary(w, s), NEW x, Leaves(w, x, s)
    PROVE  Connected(x, s)
PROOF
<1>0. s \in Threads /\ s # "restart" /\ s # None /\ "restart" \in Threads
  BY ThreadNames
<1>1. x.up /\ x.overlap = w.overlap /\ ~ Busy(x, s)
  BY <1>0, IdleIsIdle DEF Leaves, Busy
<1>2. \A u \in Threads \ {s} : x.thread[u] = w.thread[u]
  BY DEF Leaves
<1>3. x.thread["restart"] = w.thread["restart"]
  BY <1>0, <1>2
<1> SUFFICES ASSUME ~ w.overlap
             PROVE  /\ x.up /\ \A u \in Starts : ~ Busy(x, u)
                    /\ ~ Busy(x, "restart") \/ Stuck(x) \/ x.thread["restart"].waits = s
  BY <1>0, <1>1 DEF Connected, Present, Open
<1>4. \A u \in Starts \ {s} : ~ Busy(x, u)
  BY <1>2, ThreadNames DEF Solitary, Busy
<1>5. ~ Busy(x, "restart") \/ Stuck(x) \/ x.thread["restart"].waits = s
  BY <1>0, <1>3 DEF Solitary, Busy, Stuck
<1> QED BY <1>1, <1>4, <1>5

LEMMA RestartLeaves ==
    ASSUME NEW w, w.up, Solitary(w, "restart"), NEW x, Leaves(w, x, "restart")
    PROVE  Connected(x, None)
PROOF
<1>1. x.up /\ x.overlap = w.overlap /\ ~ Busy(x, "restart")
  BY ThreadNames, IdleIsIdle DEF Leaves, Busy
<1>2. \A u \in Starts : x.thread[u] = w.thread[u]
  BY ThreadNames DEF Leaves
<1>3. ~ w.overlap => \A u \in Starts : ~ Busy(x, u)
  BY <1>2, ThreadNames DEF Solitary, Busy
<1> QED BY <1>1, <1>3 DEF Connected, Present, Open

(* The operation that connects is alone: only what waits for it goes on.   *)
LEMMA WaitsAlone ==
    ASSUME NEW w, Woven(w, None), NEW t \in Threads, w.thread[t].pc = "wait", w.thread[t].valid
    PROVE  Solitary(w, t)
PROOF BY DEF Woven, Sole, Launching, Solitary

LEMMA ShownAgreed ==
    ASSUME NEW w, w.rt.state = w.desk.tunnel, ~ w.desk.timer, w.desk.attempt # "current"
    PROVE  Agreed(w) /\ Timed(w) /\ Attempting(w)
PROOF BY DEF Agreed, Hidden, Timed, Attempting

LEMMA ConnectedStart ==
    ASSUME NEW w, Orderly(w), Awaited(w), Woven(w, None), Agreed(w), Timed(w), Attempting(w),
           w.up, NEW s \in Starts, Solitary(w, s)
    PROVE  Agreeing(StartEnds(w, s))
PROOF
<1>1. Leaves(w, Freed(w, s), s)
  BY FreedLeaves DEF Orderly
<1>2. Connected(Freed(w, s), s)
  BY <1>1, StartLeaves
<1> QED BY <1>2, StartEndsAgrees

LEMMA ConnectedRestart ==
    ASSUME NEW w, Orderly(w), Woven(w, None), Agreed(w), Timed(w), w.up, Solitary(w, "restart")
    PROVE  Agreeing(RestartEnds(w))
PROOF
<1>1. Leaves(w, Loosed(w, "restart"), "restart")
  BY LoosedLeaves DEF Orderly
<1>2. Connected(Loosed(w, "restart"), None)
  BY <1>1, RestartLeaves
<1> QED BY <1>2, RestartEndsAgrees

LEMMA ConnectedOnly ==
    ASSUME NEW w, Orderly(w), Awaited(w), Woven(w, None), Agreed(w), Timed(w), Attempting(w),
           w.up, NEW t \in Starts \union {"restart"}, Solitary(w, t)
    PROVE  Agreeing(Ends(w, t))
PROOF
<1>1. CASE t \in Starts
  BY <1>1, ThreadNames, ConnectedStart DEF Ends
<1>2. CASE t = "restart"
  BY <1>2, ConnectedRestart DEF Ends
<1> QED BY <1>1, <1>2

LEMMA ConnectAgrees ==
    ASSUME Agrees, NEW t \in Starts \union {"restart"},
           NEW state \in {"running", "in_place"}, Connects(t, state)
    PROVE  Agreeing(Now)'
PROOF
<1> DEFINE code == IF state = "running" THEN "ok" ELSE "transient"
           u == Update(Now, state, code)
           c == [u EXCEPT !.child.watched = TRUE]
           h == Show(c, state, c.rt.code)
           d == [h EXCEPT !.desk.server = TRUE]
<1>1. /\ thread[t].pc = "wait" /\ thread[t].fresh /\ child # None
      /\ thread[t].valid => Becomes(Ends(d, t))
  BY DEF Connects, Own, Goes
<1>2. code \in Codes /\ state \in TunnelStates
  BY DEF Codes, TunnelStates
<1> HIDE DEF code
<1>3. /\ Now \in Connections /\ Orderly(Now) /\ Awaited(Now) /\ t \in Threads
      /\ Woven(Now, None) /\ Resting
  BY AgreesNow, ThreadNames DEF Agrees
<1>4. up
  BY <1>1, <1>3, NowFields DEF Orderly, Down
<1>5. thread[t].valid
  BY <1>1, <1>3, NowFields DEF Woven, Same, Launching
<1>6. /\ Updated(Now, u, state, code)
      /\ u.desk.tunnel = state /\ u.rt.state = state /\ ~ u.desk.timer /\ u.desk.attempt # "current"
  BY <1>2, <1>3, UpdateConnected
<1> HIDE DEF u
<1>7. /\ u \in Connections /\ u.thread = thread /\ u.starting = starting /\ u.again = again /\ u.up = up
      /\ u.child = child /\ u.child \in Clients /\ u.overlap = overlap
  BY <1>1, <1>6, NowFields DEF Updated, Connections
<1>8. /\ c \in Connections /\ c.thread = thread /\ c.starting = starting /\ c.again = again /\ c.up = up
      /\ c.overlap = overlap /\ c.desk = u.desk /\ c.rt = u.rt
  <2>1. [u.child EXCEPT !.watched = TRUE] \in Clients
    BY <1>7 DEF Clients
  <2> QED BY <1>7, <2>1 DEF Connections
<1> HIDE DEF c
<1>9. DeskOnly(c, h) /\ h.desk.tunnel = state /\ h.desk.timer = c.desk.timer /\ h.desk.attempt = c.desk.attempt
  <2>1. c.rt.code \in Codes
    BY <1>8 DEF Connections, Runtimes
  <2>2. h.desk.tunnel = state /\ h.desk.timer = c.desk.timer /\ h.desk.attempt = c.desk.attempt
    BY <1>8 DEF Show, Connections, Desks
  <2> QED BY <1>2, <1>8, <2>1, <2>2, ShowDesk
<1> HIDE DEF h
<1>10. DeskOnly(h, d) /\ d.desk.tunnel = h.desk.tunnel /\ d.desk.timer = h.desk.timer
       /\ d.desk.attempt = h.desk.attempt
  <2>1. h \in Connections
    BY <1>9 DEF DeskOnly
  <2>2. d.desk.tunnel = h.desk.tunnel /\ d.desk.timer = h.desk.timer /\ d.desk.attempt = h.desk.attempt
    BY <2>1 DEF Connections, Desks
  <2> QED BY <2>1, <2>2, ServerDesk
<1> HIDE DEF d
<1>11. /\ d \in Connections /\ d.thread = thread /\ d.starting = starting /\ d.again = again /\ d.up = up
       /\ d.overlap = overlap /\ d.rt = u.rt
  BY <1>8, <1>9, <1>10 DEF DeskOnly
<1>12. Orderly(d) /\ Awaited(d)
  BY <1>3, <1>4, <1>11, UpSame DEF Onward
<1>13. Woven(d, None)
  BY <1>3, <1>11, NowFields, WovenSame
<1>14. d.rt.state = d.desk.tunnel /\ ~ d.desk.timer /\ d.desk.attempt # "current"
  BY <1>6, <1>8, <1>9, <1>10, <1>11
<1>15. Agreeing(Ends(d, t))
  <2>1. Agreed(d) /\ Timed(d) /\ Attempting(d)
    BY <1>14, ShownAgreed
  <2>2. d.thread[t].pc = "wait" /\ d.thread[t].valid /\ d.up
    BY <1>1, <1>4, <1>5, <1>11
  <2>3. Solitary(d, t)
    BY <1>3, <1>13, <2>2, WaitsAlone
  <2> QED BY <1>12, <1>13, <2>1, <2>2, <2>3, ConnectedOnly
<1>16. Ends(d, t) \in Connections
  <2>1. Busy(d, t)
    BY <1>1, <1>11 DEF Busy
  <2> QED BY <1>12, <2>1, EndsOrderly DEF Onward, Orderly
<1> QED BY <1>1, <1>5, <1>15, <1>16, AgreesStep

LEMMA WaitAgrees ==
    ASSUME Agrees, NEW t \in Starts \union {"restart"}, WaitFails(t)
    PROVE  Agreeing(Now)'
PROOF
<1>1. PICK code \in Codes : Becomes([To(Now, t, "cleanup") EXCEPT !.thread[t].code = code])
  BY DEF WaitFails, Codes, Goes
<1> DEFINE l == To(Now, t, "cleanup")
           op == [l.thread[t] EXCEPT !.code = code]
           x == [l EXCEPT !.thread[t].code = code]
<1>2. /\ t \in Threads /\ Now.thread[t].pc = "wait" /\ Now \in Connections
      /\ Woven(Now, None) /\ Shown(Now, None) /\ "cleanup" \in Waits
      /\ "cleanup" \in Launching /\ "wait" \in Launching
  BY ThreadNames, AgreesNow, NowFields DEF WaitFails, Waits, Launching
<1>3. Still(Now)
  BY <1>2, OperationStill
<1>4. /\ l \in Connections /\ l.rt = Now.rt /\ l.child = Now.child /\ l.starting = Now.starting
      /\ l.again = Now.again /\ l.up = Now.up /\ l.queued = Now.queued /\ l.desk = Now.desk
      /\ l.watched = Now.watched
      /\ \A u \in Threads : /\ l.thread[u].fresh = Now.thread[u].fresh
                            /\ l.thread[u].valid = Now.thread[u].valid
                            /\ l.thread[u].waits = Now.thread[u].waits
                            /\ l.thread[u].pc = IF u = t THEN "cleanup" ELSE Now.thread[u].pc
  BY <1>2, ToForm
<1>5. l.overlap = Now.overlap
  BY <1>2 DEF To, Connections
<1> HIDE DEF l
<1>6. /\ op \in Operations /\ op.fresh = l.thread[t].fresh /\ op.valid = l.thread[t].valid
      /\ op.pc = l.thread[t].pc /\ op.waits = l.thread[t].waits
  BY <1>2, <1>4 DEF Connections, Operations
<1>7. /\ x \in Connections /\ x.rt = l.rt /\ x.child = l.child /\ x.starting = l.starting
      /\ x.desk = l.desk /\ x.overlap = l.overlap
      /\ \A u \in Threads : x.thread[u] = IF u = t THEN op ELSE l.thread[u]
  BY <1>2, <1>4, <1>6 DEF Connections
<1> HIDE DEF op, x
<1>8. \A u \in Threads : /\ x.thread[u].fresh = l.thread[u].fresh
                         /\ x.thread[u].valid = l.thread[u].valid
                         /\ x.thread[u].waits = l.thread[u].waits
                         /\ x.thread[u].pc = l.thread[u].pc
  BY <1>6, <1>7
<1>9. Woven(x, None) /\ \A u \in Threads : Busy(x, u) = Busy(Now, u)
  <2>1. /\ x.starting = Now.starting /\ x.overlap = Now.overlap
        /\ \A u \in Threads : /\ x.thread[u].fresh = Now.thread[u].fresh
                              /\ x.thread[u].valid = Now.thread[u].valid
                              /\ x.thread[u].waits = Now.thread[u].waits
                              /\ x.thread[u].pc = IF u = t THEN "cleanup" ELSE Now.thread[u].pc
    BY <1>4, <1>5, <1>7, <1>8
  <2> QED BY <1>2, <2>1, WovenOn
<1>10. Still(x)
  <2>1. x.desk = Now.desk /\ x.overlap = Now.overlap /\ x.rt = Now.rt /\ x.child = Now.child
    BY <1>4, <1>5, <1>7
  <2>2. Busy(x, "stop") = Busy(Now, "stop") /\ Busy(x, "restart") = Busy(Now, "restart")
    BY <1>9, ThreadNames
  <2> QED BY <1>3, <2>1, <2>2 DEF Still, Present, Open, Monitored, Timed, Attempting
<1>11. Agreeing(x)
  BY <1>9, <1>10, StillShown DEF Agreeing
<1> QED BY <1>1, <1>7, <1>11, AgreesStep DEF x, l

LEMMA CleanupAgrees ==
    ASSUME Agrees, NEW t \in Starts \union {"restart"}, CleanupEnds(t)
    PROVE  Agreeing(Now)'
PROOF
<1>1. PICK w \in {Now, ChildGone(Now)} :
         \/ Becomes(Ends(w, t))
         \/ Becomes(TunnelError(Update(w, "failed", thread[t].code), t, thread[t].code))
  BY DEF CleanupEnds, Goes
<1>2. /\ t \in Threads /\ Now.thread[t].pc = "cleanup"
      /\ Now \in Connections /\ Orderly(Now) /\ Awaited(Now) /\ Woven(Now, None) /\ Shown(Now, None)
  BY ThreadNames, AgreesNow, NowFields DEF CleanupEnds
<1>3. thread[t].code \in Codes
  BY <1>2, NowFields DEF Connections, Operations
<1>4. Reports(Now, w) /\ w.thread = Now.thread
  BY <1>2, GoneReports, ReportsSame DEF Reports
<1>5. Orderly(w) /\ Awaited(w) /\ Busy(w, t)
  BY <1>2, <1>4, ReportsOrderly DEF Onward, Busy
<1>6. Woven(w, None) /\ Shown(w, None)
  BY <1>2, GoneReporting, ReportingAgrees
<1>7. Still(w)
  BY <1>2, <1>4, <1>6, OperationStill DEF Launching
<1>8. CASE Becomes(Ends(w, t))
  <2>1. Ends(w, t) \in Connections
    BY <1>5, EndsOrderly DEF Onward, Orderly
  <2> QED BY <1>5, <1>6, <1>7, <1>8, <2>1, EndsAgrees, AgreesStep
<1>9. CASE Becomes(TunnelError(Update(w, "failed", thread[t].code), t, thread[t].code))
  <2> DEFINE x == TunnelError(Update(w, "failed", thread[t].code), t, thread[t].code)
  <2>1. x \in Connections /\ Agreeing(x)
    BY <1>3, <1>5, <1>6, <1>7, FailedAgrees
  <2> HIDE DEF x
  <2> QED BY <1>9, <2>1, AgreesStep DEF x
<1> QED BY <1>1, <1>8, <1>9

-----------------------------------------------------------------------------
LEMMA RestartGoesAgrees == ASSUME Agrees, RestartGoesOn PROVE Agreeing(Now)'
PROOF
<1>1. PICK confirmed \in BOOLEAN :
         LET w == RuntimeStopped(Now, "restart", confirmed)
         IN \/ /\ ~ thread["restart"].valid \/ Busy(w, "stop") \/ ~ up
               /\ Becomes(RestartEnds(w))
            \/ Becomes(Show(To(w, "restart", "launch"), "starting", "ok"))
  BY DEF RestartGoesOn, Goes
<1> DEFINE w == RuntimeStopped(Now, "restart", confirmed)
           l == To(w, "restart", "launch")
           x == Show(l, "starting", "ok")
<1>2. /\ "restart" \in Threads /\ Now.thread["restart"].pc = "stopping" /\ Now \in Connections
      /\ Sound(Now) /\ Orderly(Now) /\ Awaited(Now) /\ Woven(Now, None) /\ Shown(Now, None)
  BY ThreadNames, AgreesNow, NowFields DEF RestartGoesOn
<1>3. \/ /\ ~ thread["restart"].valid \/ Busy(w, "stop") \/ ~ up
         /\ Becomes(RestartEnds(w))
      \/ Becomes(x)
  BY <1>1
<1>4. Reports(Now, w) /\ Reporting(Now, w) /\ w.rt.stopping = Now.rt.stopping
  BY <1>2, StoppedReports, StoppedReporting
<1> HIDE DEF w
<1>5. /\ w \in Connections /\ w.thread = Now.thread /\ w.up = Now.up /\ Orderly(w) /\ Awaited(w)
      /\ Busy(w, "restart") /\ Woven(w, None) /\ Shown(w, None)
  BY <1>2, <1>4, ReportsOrderly, ReportingAgrees DEF Reports, Onward, Busy
<1>6. CASE /\ ~ thread["restart"].valid \/ Busy(w, "stop") \/ ~ up
           /\ Becomes(RestartEnds(w))
  <2>1. Still(w)
    <3>1. CASE ~ thread["restart"].valid
      BY <1>2, <1>5, <3>1, NowFields, RestartStill
    <3>2. CASE Busy(w, "stop") \/ ~ up
      BY <1>5, <3>2, NowFields DEF Still, Shown, Connected, Present, Open
    <3> QED BY <1>6, <3>1, <3>2
  <2>2. Ends(w, "restart") = RestartEnds(w)
    BY DEF Ends
  <2>3. RestartEnds(w) \in Connections
    BY <1>5, RestartEndsOrderly DEF Onward, Orderly
  <2>4. Agreeing(RestartEnds(w))
    BY <1>5, <2>1, <2>2, EndsAgrees
  <2> QED BY <1>6, <2>3, <2>4, AgreesStep
<1>7. CASE Becomes(x)
  <2>1. ~ (Open(w) /\ Monitored(w))
    <3>1. CASE Now.thread["restart"].fresh
      BY <1>2, <1>4, <3>1 DEF Sound, Halting, Monitored
    <3>2. CASE ~ Now.thread["restart"].fresh
      BY <1>2, <1>5, <3>2, RestartStill DEF Still, Present
    <3> QED BY <3>1, <3>2
  <2>2. /\ l \in Connections /\ Woven(l, None)
        /\ l.desk = w.desk /\ l.rt = w.rt /\ l.child = w.child
        /\ l.starting = w.starting /\ l.up = w.up /\ l.overlap = w.overlap
        /\ \A u \in Threads : Busy(l, u) = Busy(w, u)
    BY <1>2, <1>5, WovenLaunch
  <2> HIDE DEF l
  <2>3. DeskOnly(l, x) /\ x.desk.tunnel = "starting"
    BY <2>2, ShowDesk, ShowSofter DEF TunnelStates, Codes
  <2> HIDE DEF x
  <2>4. Woven(x, None)
    BY <2>2, <2>3, WovenSame DEF DeskOnly
  <2>5. Still(x)
    <3>1. Busy(x, "restart") /\ Busy(x, "stop") = Busy(w, "stop")
      BY <1>5, <2>2, <2>3, ThreadNames DEF DeskOnly, Busy
    <3> QED BY <2>1, <2>2, <2>3, <3>1 DEF DeskOnly, Still, Present, Open, Monitored, Timed, Attempting
  <2>6. Agreeing(x) /\ x \in Connections
    BY <2>3, <2>4, <2>5, StillShown DEF Agreeing, DeskOnly
  <2> QED BY <1>7, <2>6, AgreesStep
<1> QED BY <1>3, <1>6, <1>7

LEMMA StopAgrees == ASSUME Agrees, StopEnds PROVE Agreeing(Now)'
PROOF
<1>1. PICK confirmed \in BOOLEAN : Becomes(StopDone(RuntimeStopped(Now, "stop", confirmed)))
  BY DEF StopEnds, Goes
<1> DEFINE w == RuntimeStopped(Now, "stop", confirmed)
<1>2. /\ "stop" \in Threads /\ Busy(Now, "stop") /\ Now \in Connections /\ Orderly(Now)
      /\ Woven(Now, None) /\ Shown(Now, None)
  BY ThreadNames, AgreesNow, NowFields DEF StopEnds, Busy
<1>3. Reports(Now, w) /\ Reporting(Now, w)
  BY <1>2, StoppedReports, StoppedReporting
<1> HIDE DEF w
<1>4. Orderly(w) /\ Busy(w, "stop") /\ Woven(w, None) /\ Attempting(w)
  BY <1>2, <1>3, ReportsOrderly, ReportingAgrees DEF Reports, Onward, Busy, Shown
<1>5. StopDone(w) \in Connections /\ Agreeing(StopDone(w))
  BY <1>4, StopDoneOrderly, StopDoneAgrees DEF Orderly
<1> QED BY <1>1, <1>5, AgreesStep DEF w

LEMMA GiveUpAgrees == ASSUME Agrees, StopGivesUpOnStart PROVE Agreeing(Now)'
PROOF
<1>1. /\ Orderly(Now) /\ Busy(Now, "stop") /\ Agreeing(Now)
      /\ Becomes(StopServices(Now))
  BY AgreesNow, NowFields DEF StopGivesUpOnStart, Busy, Goes
<1>2. StopServices(Now) \in Connections
  BY <1>1, GivesUpOrderly DEF Onward, Orderly
<1> QED BY <1>1, <1>2, GivesUpAgrees, AgreesStep

(* What the runtime reports by itself. *)
LEMMA ReportedAgrees ==
    ASSUME Agrees, NEW x, Reporting(Now, x), Becomes(x)
    PROVE  Agreeing(Now)'
PROOF
<1>1. Woven(x, None) /\ Shown(x, None)
  BY AgreesNow, ReportingAgrees
<1> QED BY <1>1, AgreesStep DEF Agreeing, Reporting, Fainter

LEMMA ExitsAgrees == ASSUME Agrees, ChildExits PROVE Agreeing(Now)'
PROOF BY AgreesNow, GoneReporting, ReportedAgrees DEF ChildExits, Goes

LEMMA RefusedAgrees == ASSUME Agrees, ClientRefused PROVE Agreeing(Now)'
PROOF
<1> DEFINE f == [Now EXCEPT !.child.fatal = TRUE]
           w == Update(f, "failed", "terminal")
           x == [w EXCEPT !.thread[child.of].code = "terminal"]
<1>1. child # None /\ (Becomes(w) \/ (thread[child.of].pc = "wait" /\ Becomes(x)))
  BY DEF ClientRefused, Goes
<1>2. Now \in Connections /\ Woven(Now, None) /\ Shown(Now, None)
  BY AgreesNow
<1>3. child \in Clients /\ child.of \in Threads
  BY <1>1, <1>2, NowFields DEF Connections, Clients
<1>4. Reporting(Now, f) /\ f \in Connections
  <2>1. [child EXCEPT !.fatal = TRUE] \in Clients
    BY <1>3 DEF Clients
  <2>2. [child EXCEPT !.fatal = TRUE].fresh = child.fresh
        /\ [child EXCEPT !.fatal = TRUE].watched = child.watched
    BY <1>3 DEF Clients
  <2>3. /\ f \in Connections /\ f.desk = Now.desk /\ f.rt = Now.rt /\ f.thread = Now.thread
        /\ f.starting = Now.starting /\ f.up = Now.up /\ f.overlap = Now.overlap
        /\ f.child = [child EXCEPT !.fatal = TRUE]
    BY <1>2, <2>1, NowFields DEF Connections
  <2> HIDE DEF f
  <2> QED BY <1>1, <2>2, <2>3, NowFields DEF Reporting, Fainter, Monitored, Hidden
<1> HIDE DEF f
<1>5. Reporting(f, w)
  BY <1>4, UpdateReporting DEF TunnelStates, Codes
<1> HIDE DEF w
<1>6. Reporting(Now, w)
  BY <1>4, <1>5, ReportingTwice
<1>7. CASE Becomes(w)
  BY <1>6, <1>7, ReportedAgrees
<1>8. CASE thread[child.of].pc = "wait" /\ Becomes(x)
  <2> DEFINE t == child.of
             op == [w.thread[t] EXCEPT !.code = "terminal"]
  <2>1. /\ w \in Connections /\ w.thread = Now.thread /\ Fainter(Now, w)
        /\ Woven(w, None) /\ Shown(w, None)
    BY <1>2, <1>6, ReportingAgrees DEF Reporting, Fainter
  <2>2. t \in Threads /\ w.thread[t].pc = "wait"
    BY <1>3, <1>8, <2>1, NowFields
  <2>3. t \in Starts \union {"restart"}
    BY <2>1, <2>2, ThreadNames DEF Woven, Roles
  <2> HIDE DEF t
  <2>4. Still(w)
    BY <2>1, <2>2, <2>3, OperationStill DEF Launching
  <2>5. /\ op \in Operations /\ op.fresh = w.thread[t].fresh /\ op.valid = w.thread[t].valid
        /\ op.pc = w.thread[t].pc /\ op.waits = w.thread[t].waits
    BY <2>1, <2>2 DEF Connections, Operations, Codes
  <2>6. /\ x \in Connections /\ x.rt = w.rt /\ x.child = w.child /\ x.starting = w.starting
        /\ x.desk = w.desk /\ x.overlap = w.overlap
        /\ \A u \in Threads : x.thread[u] = IF u = t THEN op ELSE w.thread[u]
    BY <2>1, <2>2, <2>5 DEF Connections, t
  <2> HIDE DEF op, x
  <2>7. \A u \in Threads : /\ x.thread[u].fresh = w.thread[u].fresh
                           /\ x.thread[u].valid = w.thread[u].valid
                           /\ x.thread[u].waits = w.thread[u].waits
                           /\ x.thread[u].pc = IF u = t THEN "wait" ELSE w.thread[u].pc
    BY <2>2, <2>5, <2>6
  <2>8. Woven(x, None) /\ \A u \in Threads : Busy(x, u) = Busy(w, u)
    <3>1. "wait" \in Launching /\ w.thread[t].pc \in Launching
      BY <2>2 DEF Launching
    <3> QED BY <2>1, <2>3, <2>6, <2>7, <3>1, WovenOn
  <2>9. Still(x)
    <3>1. Busy(x, "stop") = Busy(w, "stop") /\ Busy(x, "restart") = Busy(w, "restart")
      BY <2>8, ThreadNames
    <3> QED BY <2>4, <2>6, <3>1 DEF Still, Present, Open, Monitored, Timed, Attempting
  <2>10. Agreeing(x)
    BY <2>8, <2>9, StillShown DEF Agreeing
  <2> QED BY <1>8, <2>6, <2>10, AgreesStep
<1> QED BY <1>1, <1>7, <1>8

LEMMA ProbeAgrees ==
    ASSUME Agrees, NEW state \in {"running", "in_place", "degraded"}, Probes(state)
    PROVE  Agreeing(Now)'
PROOF
<1> DEFINE code == IF state = "running" THEN "ok" ELSE "transient"
           x == Update(Now, state, code)
<1>1. Becomes(x) /\ Monitored(Now)
  BY NowFields DEF Probes, Monitoring, Monitored, Goes
<1>2. /\ Now \in Connections /\ Woven(Now, None) /\ Shown(Now, None)
      /\ code \in Codes /\ state \in TunnelStates
  BY AgreesNow DEF Codes, TunnelStates
<1> HIDE DEF code
<1>3. CASE state = "degraded"
  <2>1. Reporting(Now, x)
    BY <1>2, <1>3, UpdateReporting
  <2> QED BY <1>1, <2>1, ReportedAgrees
<1>4. CASE state \in {"running", "in_place"}
  <2>1. /\ Updated(Now, x, state, code)
        /\ x.desk.tunnel = state /\ x.rt.state = state /\ ~ x.desk.timer /\ x.desk.attempt # "current"
    BY <1>2, <1>4, UpdateConnected
  <2> HIDE DEF x
  <2>2. /\ x \in Connections /\ x.thread = Now.thread /\ x.starting = Now.starting
        /\ x.up = Now.up /\ x.overlap = Now.overlap
    BY <2>1 DEF Updated
  <2>3. Woven(x, None)
    BY <1>2, <2>2, WovenSame
  <2>4. Connected(x, None)
    BY <1>1, <1>2, <2>2 DEF Shown, Connected, Present, Open, Busy, Stuck
  <2>5. Known(x) /\ Timed(x) /\ Attempting(x)
    BY <2>1 DEF Known, Agreed, Hidden, Timed, Attempting
  <2>6. Agreeing(x)
    BY <2>3, <2>4, <2>5 DEF Agreeing, Shown
  <2> QED BY <1>1, <2>2, <2>6, AgreesStep
<1> QED BY <1>3, <1>4

LEMMA KillAgrees ==
    ASSUME Agrees, NEW code \in {"transient", "terminal"}, MonitorKills(code)
    PROVE  Agreeing(Now)'
PROOF
<1> DEFINE x == [Now EXCEPT !.rt.report = code]
<1>1. Becomes(x) /\ Now \in Connections
  BY AgreesNow DEF MonitorKills, Goes
<1>2. /\ x \in Connections /\ x.desk = Now.desk /\ x.thread = Now.thread /\ x.starting = Now.starting
      /\ x.up = Now.up /\ x.overlap = Now.overlap /\ x.child = Now.child
      /\ x.rt.state = Now.rt.state /\ x.rt.stopping = Now.rt.stopping
  BY <1>1 DEF Connections, Runtimes, Codes
<1> HIDE DEF x
<1>3. Reporting(Now, x)
  BY <1>2 DEF Reporting, Fainter, Monitored, Hidden
<1> QED BY <1>1, <1>3, ReportedAgrees

LEMMA ReportAgrees == ASSUME Agrees, MonitorReports PROVE Agreeing(Now)'
PROOF
<1> DEFINE unwatched == [Now EXCEPT !.child.watched = FALSE]
<1>1. PICK confirmed \in BOOLEAN :
         LET w == IF confirmed THEN ChildGone(Now) ELSE unwatched
         IN /\ ~ confirmed => child # None
            /\ Becomes(Update([w EXCEPT !.rt.report = "ok"], "failed", rt.report))
  BY DEF MonitorReports, Goes
<1> DEFINE w == IF confirmed THEN ChildGone(Now) ELSE unwatched
           y == [w EXCEPT !.rt.report = "ok"]
           x == Update(y, "failed", rt.report)
<1>2. Becomes(x) /\ (~ confirmed => child # None)
  BY <1>1
<1>3. Now \in Connections /\ rt.report \in Codes
  BY AgreesNow, NowFields DEF Connections, Runtimes
<1>4. Reporting(Now, w)
  <2>1. CASE confirmed
    BY <1>3, <2>1, GoneReporting
  <2>2. CASE ~ confirmed
    <3>1. [child EXCEPT !.watched = FALSE] \in Clients /\ ~ [child EXCEPT !.watched = FALSE].watched
      BY <1>2, <1>3, <2>2, NowFields DEF Connections, Clients
    <3>2. /\ unwatched \in Connections /\ unwatched.desk = Now.desk /\ unwatched.rt = Now.rt
          /\ unwatched.thread = Now.thread /\ unwatched.starting = Now.starting
          /\ unwatched.up = Now.up /\ unwatched.overlap = Now.overlap
          /\ unwatched.child = [child EXCEPT !.watched = FALSE]
      BY <1>3, <3>1, NowFields DEF Connections
    <3>3. w = unwatched
      BY <2>2
    <3> HIDE DEF w, unwatched
    <3> QED BY <3>1, <3>2, <3>3 DEF Reporting, Fainter, Monitored, Hidden
  <2> QED BY <2>1, <2>2
<1> HIDE DEF w
<1>5. Reporting(w, y) /\ y \in Connections
  <2>1. w \in Connections
    BY <1>4 DEF Reporting, Fainter
  <2>2. /\ y \in Connections /\ y.desk = w.desk /\ y.thread = w.thread /\ y.starting = w.starting
        /\ y.up = w.up /\ y.overlap = w.overlap /\ y.child = w.child
        /\ y.rt.state = w.rt.state /\ y.rt.stopping = w.rt.stopping
    BY <2>1 DEF Connections, Runtimes, Codes
  <2> HIDE DEF y
  <2> QED BY <2>2 DEF Reporting, Fainter, Monitored, Hidden
<1> HIDE DEF y
<1>6. Reporting(y, x)
  BY <1>3, <1>5, UpdateReporting DEF TunnelStates
<1> HIDE DEF x
<1>7. Reporting(Now, x)
  BY <1>4, <1>5, <1>6, ReportingTwice
<1> QED BY <1>2, <1>7, ReportedAgrees

LEMMA NextAgrees == ASSUME Agrees, [Next]_vars PROVE Agreeing(Now)'
PROOF
<1>1. CASE UserNext
  BY <1>1, UserAgrees
<1>2. CASE \E s \in Starts : BootEnds(s)
  BY <1>2, BootAgrees
<1>3. ASSUME NEW t \in Starts \union {"restart"}, TunnelNext(t)
      PROVE  Agreeing(Now)'
  BY <1>3, LaunchAgrees, SpawnAgrees, ConnectAgrees, WaitAgrees, CleanupAgrees DEF TunnelNext
<1>4. CASE ClientNext
  BY <1>4, ExitsAgrees, RefusedAgrees, ProbeAgrees, KillAgrees, ReportAgrees DEF ClientNext
<1>5. CASE UNCHANGED vars
  <2>1. /\ desk' = desk /\ rt' = rt /\ child' = child /\ thread' = thread /\ starting' = starting
        /\ queued' = queued /\ watched' = watched /\ again' = again /\ up' = up /\ overlap' = overlap
    BY <1>5 DEF vars
  <2>2. Now' = Now
    BY <2>1 DEF Now
  <2> QED BY <2>2, AgreesNow
<1>6. CASE TimerFires \/ ServiceExits \/ RestartGoesOn \/ StopEnds \/ StopGivesUpOnStart
  BY <1>6, TimerAgrees, ExitAgrees, RestartGoesAgrees, StopAgrees, GiveUpAgrees
<1> QED BY <1>1, <1>2, <1>3, <1>4, <1>5, <1>6 DEF Next

LEMMA InitAgrees == Init => Agreeing(Now)
PROOF
<1> SUFFICES ASSUME Init PROVE Agreeing(Now)
  OBVIOUS
<1>1. \A t \in Threads : Now.thread[t].pc = "idle" /\ ~ Now.thread[t].fresh /\ ~ Now.thread[t].valid
  BY IdleIsIdle, NowFields DEF Init
<1>2. Now.starting = None /\ Now.child = None /\ Now.desk.tunnel = "stopped" /\ Now.desk.attempt = "none"
  BY NowFields DEF Init
<1>3. Woven(Now, None)
  BY <1>1, <1>2, ThreadNames DEF Woven, Roles, OneToken, Joined, Waiting, Same, Sole, Launching
<1>4. Still(Now)
  BY <1>2 DEF Still, Present, Monitored, Timed, Attempting
<1> QED BY <1>3, <1>4, StillShown DEF Agreeing

(* When nothing is under way the desktop does not show a connection that   *)
(* the runtime has lost: a client that is monitored, or a connection that  *)
(* is shown, belongs to no operation under way, so that what the runtime   *)
(* reports of it is shown, or hidden only behind an attempt whose restart  *)
(* is itself under way.                                                    *)
THEOREM ShownAsItIs == Spec => []StatusAgrees
PROOF
<1>1. Agrees /\ [Next]_vars => Agrees'
  BY NextSteps, NextRests, NextAgrees DEF Agrees, Stepped
<1>2. Init => Agrees
  BY InitSound, InitRests, InitAgrees DEF Agrees
<1>3. Agrees => StatusAgrees
  <2> SUFFICES ASSUME Agrees, desk.tunnel = "running", AllIdle, ~ desk.lost, ~ overlap
               PROVE  rt.state = "running"
    BY DEF StatusAgrees
  <2>1. Known(Now)
    BY AgreesNow DEF Shown
  <2>2. ~ Busy(Now, "restart") /\ ~ Busy(Now, "stop")
    BY ThreadNames DEF AllIdle
  <2> QED BY <2>1, <2>2, NowFields DEF Known, Agreed, Open, Hidden
<1> QED BY <1>1, <1>2, <1>3, PTL DEF Spec
=============================================================================
