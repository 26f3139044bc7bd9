----------------------- MODULE ExtensionInstall_proof -----------------------
(***************************************************************************)
(* What is proved of ExtensionInstall, for any number of processes that    *)
(* die, of tickets that cannot be deleted and of package versions:         *)
(*                                                                         *)
(*   - the operation lock excludes (LockInv);                              *)
(*   - whatever is on the disk, the paths will be those of one version,    *)
(*     whole, once what is under way has been ended by whoever comes next; *)
(*     each file operation of a program keeps that, and the programs end   *)
(*     what they began (DiskInv);                                          *)
(*   - so the calls are atomic operations of a package store, and nothing  *)
(*     that was moved aside is left behind when the marker is gone.        *)
(***************************************************************************)
EXTENDS ExtensionInstall, TLAPS

New(p) == <<p, "new">>

(* A process that competes, or has the lease, has published its ticket.    *)
Competing == {"published", "judging", "backing"} \union Leased

Points  == Competing \union {"idle", "dead"}
Tickets == Procs \X {"new", "old"}

(* The variables of the lock have their types.                             *)
LockTypes ==
    /\ tickets \subseteq Tickets
    /\ pc \in [Procs -> Points]
    /\ seen \in [Procs -> SUBSET Tickets]

Published == \A p \in Procs : pc[p] \in Competing => New(p) \in tickets

(* p no longer waits for q: p has the lease, or has looked, and either did *)
(* not see q's ticket or has found q dead.                                 *)
Passed(p, q) ==
    \/ pc[p] \in Leased
    \/ pc[p] = "judging" /\ New(q) \notin seen[p]

(* Of two processes, one at most has passed the other: whoever looks later *)
(* sees the ticket of the other, published before the other looked.        *)
OnePasses == \A p, q \in Procs : p # q => ~(Passed(p, q) /\ Passed(q, p))

LockInv == LockTypes /\ Published /\ OnePasses
-----------------------------------------------------------------------------
(* What a step of p does when it neither looks nor judges: the control of  *)
(* the others stays, and p gains no lease it did not have.                 *)
Quiet(p) ==
    /\ seen' \in [Procs -> SUBSET Tickets]
    /\ \A q \in Procs : q # p => seen'[q] = seen[q]
    /\ \E at \in Points :
         /\ pc' = [pc EXCEPT ![p] = at]
         /\ at \in Competing => pc[p] \in Leased /\ New(p) \in tickets'
    /\ tickets' \subseteq Tickets
    /\ \A t \in tickets : t[1] # p => t \in tickets'

LEMMA NewTicket == \A p \in Procs : New(p) \in Tickets /\ New(p)[1] = p
BY DEF New, Tickets

LEMMA QuietStep ==
    ASSUME LockInv, NEW p \in Procs, Quiet(p)
    PROVE  LockInv'
<1> USE DEF LockInv
<1>1. PICK at \in Points :
          /\ pc' = [pc EXCEPT ![p] = at]
          /\ at \in Competing => pc[p] \in Leased /\ New(p) \in tickets'
      BY DEF Quiet
<1>2. pc'[p] = at /\ \A q \in Procs : q # p => pc'[q] = pc[q]
      BY <1>1 DEF LockTypes
<1>3. LockTypes'
      BY <1>1 DEF LockTypes, Quiet
<1>4. Published'
  <2>1. SUFFICES ASSUME NEW q \in Procs, pc'[q] \in Competing PROVE New(q) \in tickets'
        BY DEF Published
  <2>2. CASE q = p
        BY <1>1, <1>2, <2>1, <2>2
  <2>3. CASE q # p
    <3>1. New(q) \in tickets /\ New(q)[1] # p
          BY <1>2, <2>1, <2>3, NewTicket DEF Published
    <3>2. QED
          BY <3>1 DEF Quiet
  <2>4. QED BY <2>2, <2>3
<1>5. \A q, r \in Procs : Passed(q, r)' => Passed(q, r)
  <2>1. SUFFICES ASSUME NEW q \in Procs, NEW r \in Procs, Passed(q, r)' PROVE Passed(q, r)
        OBVIOUS
  <2>2. CASE q = p
        BY <1>1, <1>2, <2>1, <2>2 DEF Passed, Competing
  <2>3. CASE q # p
        BY <1>2, <2>1, <2>3 DEF Passed, Quiet
  <2>4. QED BY <2>2, <2>3
<1>6. OnePasses'
      BY <1>5 DEF OnePasses
<1>7. QED BY <1>3, <1>4, <1>6
-----------------------------------------------------------------------------
(* The four steps that compete for the lease.                              *)
LEMMA PublishStep ==
    ASSUME LockInv, NEW p \in Procs, Publish(p)
    PROVE  LockInv'
<1> USE DEF LockInv
<1>1. /\ tickets' = tickets \union {New(p)}
      /\ pc' = [pc EXCEPT ![p] = "published"]
      /\ seen' = seen
      BY DEF Publish, Goto, New
<1>2. pc'[p] = "published" /\ \A q \in Procs : q # p => pc'[q] = pc[q]
      BY <1>1 DEF LockTypes
<1>3. LockTypes'
      BY <1>1, NewTicket DEF LockTypes, Points, Competing
<1>4. Published'
      BY <1>1, <1>2 DEF Published
<1>5. \A q, r \in Procs : Passed(q, r)' => Passed(q, r)
      BY <1>1, <1>2 DEF Passed, Leased, Working
<1>6. OnePasses'
      BY <1>5 DEF OnePasses
<1>7. QED BY <1>3, <1>4, <1>6

LEMMA LookStep ==
    ASSUME LockInv, NEW p \in Procs, Look(p)
    PROVE  LockInv'
<1> USE DEF LockInv
<1>1. /\ tickets' = tickets
      /\ pc[p] = "published"
      /\ pc' = [pc EXCEPT ![p] = "judging"]
      /\ seen' = [seen EXCEPT ![p] = tickets \ {New(p)}]
      BY DEF Look, Goto, New, locks
<1>2. /\ pc'[p] = "judging" /\ \A q \in Procs : q # p => pc'[q] = pc[q]
      /\ seen'[p] = tickets \ {New(p)} /\ \A q \in Procs : q # p => seen'[q] = seen[q]
      BY <1>1 DEF LockTypes
<1>3. LockTypes'
  <2>1. tickets \ {New(p)} \in SUBSET Tickets
        BY DEF LockTypes
  <2>2. "judging" \in Points
        BY DEF Points, Competing
  <2>3. QED BY <1>1, <2>1, <2>2 DEF LockTypes
<1>4. Published'
      BY <1>1, <1>2 DEF Published, Competing
<1>5. \A q, r \in Procs : q # p => (Passed(q, r)' => Passed(q, r))
      BY <1>2 DEF Passed
<1>6. ASSUME NEW q \in Procs, q # p, Passed(p, q)' PROVE ~Passed(q, p)
  <2>1. New(q) \notin tickets \ {New(p)}
        BY <1>2, <1>6 DEF Passed, Leased, Working
  <2>2. New(q) # New(p)
        BY <1>6 DEF New
  <2>3. pc[q] \notin Competing
        BY <2>1, <2>2 DEF Published
  <2>4. QED BY <2>3 DEF Passed, Competing
<1>7. OnePasses'
      BY <1>5, <1>6 DEF OnePasses
<1>8. QED BY <1>3, <1>4, <1>7

LEMMA JudgeStep ==
    ASSUME LockInv, NEW p \in Procs, Judge(p)
    PROVE  LockInv'
<1> USE DEF LockInv
<1>1. pc[p] = "judging"
      BY DEF Judge
<1>2. PICK t \in seen[p] :
         \/ /\ ~Alive(p, t)
            /\ tickets' = tickets \ {t}
            /\ seen' = [seen EXCEPT ![p] = @ \ {t}]
            /\ UNCHANGED pc
         \/ /\ pc' = [pc EXCEPT ![p] = "backing"]
            /\ seen' = [seen EXCEPT ![p] = {}]
            /\ UNCHANGED tickets
      BY DEF Judge, Goto
<1>3. CASE /\ ~Alive(p, t)
           /\ tickets' = tickets \ {t}
           /\ seen' = [seen EXCEPT ![p] = @ \ {t}]
           /\ UNCHANGED pc
  <2>1. LockTypes'
        BY <1>3 DEF LockTypes
  <2>2. t \in Tickets /\ pc[t[1]] = "dead"
        BY <1>2, <1>3 DEF LockTypes, Alive
  <2>3. Published'
    <3>1. SUFFICES ASSUME NEW q \in Procs, pc'[q] \in Competing PROVE New(q) \in tickets'
          BY DEF Published
    <3>2. New(q) \in tickets
          BY <1>3, <3>1 DEF Published
    <3>3. pc[q] # "dead"
          BY <1>3, <3>1 DEF Competing, Leased, Working
    <3>4. New(q) # t
          BY <2>2, <3>3 DEF New
    <3>5. QED BY <1>3, <3>2, <3>4
  <2>4. \A q \in Procs : q # p => seen'[q] = seen[q]
        BY <1>3 DEF LockTypes
  <2>5. seen'[p] = seen[p] \ {t}
        BY <1>3 DEF LockTypes
  <2>6. ASSUME NEW q \in Procs, NEW r \in Procs, q # r, Passed(q, r)' PROVE ~Passed(r, q)'
    <3>1. CASE Passed(q, r) /\ Passed(r, q)
          BY <3>1, <2>6 DEF OnePasses
    <3>2. CASE ~Passed(q, r)
      <4>1. q = p /\ New(r) = t
            BY <1>3, <2>4, <2>5, <2>6, <3>2 DEF Passed
      <4>2. pc'[r] = "dead"
            BY <1>3, <2>2, <4>1 DEF New
      <4>3. QED BY <4>2 DEF Passed, Leased, Working
    <3>3. CASE ~Passed(r, q)
      <4>1. SUFFICES ASSUME Passed(r, q)' PROVE FALSE
            OBVIOUS
      <4>2. r = p /\ New(q) = t
            BY <1>3, <2>4, <2>5, <3>3, <4>1 DEF Passed
      <4>3. pc'[q] = "dead"
            BY <1>3, <2>2, <4>2 DEF New
      <4>4. QED BY <2>6, <4>3 DEF Passed, Leased, Working
    <3>4. QED BY <3>1, <3>2, <3>3
  <2>7. QED BY <2>1, <2>3, <2>6 DEF OnePasses
<1>4. CASE /\ pc' = [pc EXCEPT ![p] = "backing"]
           /\ seen' = [seen EXCEPT ![p] = {}]
           /\ UNCHANGED tickets
  <2>1. /\ pc'[p] = "backing" /\ \A q \in Procs : q # p => pc'[q] = pc[q]
        /\ \A q \in Procs : q # p => seen'[q] = seen[q]
        BY <1>4 DEF LockTypes
  <2>2. LockTypes'
    <3>1. "backing" \in Points
          BY DEF Points, Competing
    <3>2. QED BY <1>4, <3>1 DEF LockTypes
  <2>3. Published'
        BY <1>1, <1>4, <2>1 DEF Published, Competing
  <2>4. \A q, r \in Procs : Passed(q, r)' => Passed(q, r)
        BY <2>1 DEF Passed, Leased, Working
  <2>5. QED BY <2>2, <2>3, <2>4 DEF OnePasses
<1>5. QED BY <1>2, <1>3, <1>4

LEMMA EnterStep ==
    ASSUME LockInv, NEW p \in Procs, NEW v \in Targets \union {None}, EnterLease(p, v)
    PROVE  LockInv'
<1> USE DEF LockInv
<1>1. /\ tickets' = tickets /\ seen' = seen
      /\ pc[p] = "judging" /\ seen[p] = {}
      /\ pc' = [pc EXCEPT ![p] = "recovering"]
      BY DEF EnterLease, Run, Goto, locks
<1>2. pc'[p] = "recovering" /\ \A q \in Procs : q # p => pc'[q] = pc[q]
      BY <1>1 DEF LockTypes
<1>3. LockTypes'
  <2>1. "recovering" \in Points
        BY DEF Points, Competing, Leased, Working
  <2>2. QED BY <1>1, <2>1 DEF LockTypes
<1>4. Published'
      BY <1>1, <1>2 DEF Published, Competing
<1>5. \A q, r \in Procs : Passed(q, r)' => Passed(q, r)
      BY <1>1, <1>2 DEF Passed, Leased, Working
<1>6. QED BY <1>3, <1>4, <1>5 DEF OnePasses
-----------------------------------------------------------------------------
(* All other steps of a process are quiet.                                 *)
LEMMA FileOperationIsQuiet ==
    ASSUME NEW p \in Procs, FileOperation(p)
    PROVE  UNCHANGED <<tickets, pc, seen>>
BY DEF FileOperation, Delete, MoveAside, MoveIn, MoveBack, RestoreOne, MarkCommitted,
       DeleteMarker, locks

(* A step within the lease, which keeps the ticket. *)
LEMMA WithinLease ==
    ASSUME LockInv, NEW p \in Procs, NEW at \in Working, pc[p] \in Working,
           pc' = [pc EXCEPT ![p] = at], tickets' = tickets, seen' = seen
    PROVE  Quiet(p)
<1>1. at \in Points
      BY DEF Points, Competing, Leased
<1>2. pc[p] \in Leased /\ New(p) \in tickets
      BY DEF LockInv, Published, Competing, Leased
<1>3. QED
      BY <1>1, <1>2 DEF Quiet, LockInv, LockTypes

LEMMA ProgramStepIsQuiet ==
    ASSUME LockInv, NEW p \in Procs,
           \/ Recovered(p) \/ RecoveryFails(p) \/ PrepareFails(p) \/ Begin(p)
           \/ BeginFails(p) \/ Committed(p) \/ Cleaned(p) \/ MoveFails(p)
           \/ Undone(p) \/ Unwound(p)
    PROVE  Quiet(p)
<1>1. tickets' = tickets /\ seen' = seen
      BY DEF Recovered, RecoveryFails, PrepareFails, Begin, BeginFails, Committed, Cleaned,
             MoveFails, Undone, Unwound, locks
<1>2. pc[p] \in Working
      BY DEF Recovered, RecoveryFails, PrepareFails, Begin, BeginFails, Committed, Cleaned,
             MoveFails, Undone, Unwound, Working
<1>3. {"preparing", "committing", "undoing", "unwinding", "cleaning", "done"} \subseteq Working
      BY DEF Working
<1>4. PICK at \in {"preparing", "committing", "undoing", "unwinding", "cleaning", "done"} :
          pc' = [pc EXCEPT ![p] = at]
  <2>1. CASE Recovered(p) \/ RecoveryFails(p) \/ PrepareFails(p)
        BY <2>1 DEF Recovered, RecoveryFails, PrepareFails, Finish, Run, Goto
  <2>2. CASE Begin(p) \/ BeginFails(p)
        BY <2>2 DEF Begin, BeginFails, Finish, Run, Goto
  <2>3. CASE Committed(p) \/ Cleaned(p)
        BY <2>3 DEF Committed, Cleaned, Finish, Run, Goto
  <2>4. CASE MoveFails(p) \/ Undone(p) \/ Unwound(p)
        BY <2>4 DEF MoveFails, Undone, Unwound, Finish, Run, Goto
  <2>5. QED BY <2>1, <2>2, <2>3, <2>4
<1>5. QED
      BY <1>1, <1>2, <1>3, <1>4, WithinLease

LEMMA LeavingIsQuiet ==
    ASSUME LockInv, NEW p \in Procs, BackOff(p) \/ Release(p) \/ Crash(p)
    PROVE  Quiet(p)
<1> USE DEF LockInv
<1>1. "idle" \in Points /\ "dead" \in Points /\ "stuck" \in Points
      BY DEF Points, Competing, Leased
<1>2. "idle" \notin Competing /\ "dead" \notin Competing
      BY DEF Competing, Leased, Working
<1>3. CASE BackOff(p)
  <2>1. <<p, "new">> = New(p) /\ <<p, "old">> \in Tickets
        BY DEF New, Tickets
  <2>2. /\ pc' = [pc EXCEPT ![p] = "idle"] /\ seen' = seen
        /\ \/ tickets' = tickets \ {New(p)}
           \/ tickets' = (tickets \ {New(p)}) \union {<<p, "old">>}
        BY <1>3, <2>1 DEF BackOff, Goto
  <2>3. QED
        BY <1>1, <1>2, <2>1, <2>2, NewTicket DEF Quiet, LockTypes
<1>4. CASE Release(p)
  <2>1. <<p, "new">> = New(p)
        BY DEF New
  <2>2. pc[p] = "done" /\ seen' = seen
        BY <1>4 DEF Release
  <2>3. pc[p] \in Leased /\ New(p) \in tickets
        BY <2>2 DEF Published, Competing, Leased, Working
  <2>4. \/ pc' = [pc EXCEPT ![p] = "idle"] /\ tickets' = tickets \ {New(p)}
        \/ pc' = [pc EXCEPT ![p] = "stuck"] /\ tickets' = tickets
        BY <1>4, <2>1 DEF Release, Goto
  <2>5. QED
        BY <1>1, <1>2, <2>2, <2>3, <2>4, NewTicket DEF Quiet, LockTypes
<1>5. CASE Crash(p)
  <2>1. /\ pc' = [pc EXCEPT ![p] = "dead"] /\ tickets' = tickets
        /\ seen' = [seen EXCEPT ![p] = {}]
        BY <1>5 DEF Crash, Run, Goto, locks
  <2>2. QED
        BY <1>1, <1>2, <2>1 DEF Quiet, LockTypes
<1>6. QED BY <1>3, <1>4, <1>5
-----------------------------------------------------------------------------
LEMMA LockInit == Init => LockInv
<1> SUFFICES ASSUME Init PROVE LockInv
    OBVIOUS
<1>1. /\ tickets = {}
      /\ pc = [p \in Procs |-> "idle"]
      /\ seen = [p \in Procs |-> {}]
      BY DEF Init
<1>2. \A p \in Procs : pc[p] \notin Competing
      BY <1>1 DEF Competing, Leased, Working
<1>3. LockTypes
      BY <1>1 DEF LockTypes, Points
<1>4. Published
      BY <1>2 DEF Published
<1>5. OnePasses
      BY <1>2 DEF OnePasses, Passed, Competing
<1>6. QED BY <1>3, <1>4, <1>5 DEF LockInv

LEMMA LockNext == LockInv /\ [Next]_vars => LockInv'
<1> SUFFICES ASSUME LockInv, [Next]_vars PROVE LockInv'
    OBVIOUS
<1>1. CASE UNCHANGED <<tickets, pc, seen>>
      BY <1>1 DEF LockInv, LockTypes, Published, OnePasses, Passed
<1>2. CASE UNCHANGED vars
      BY <1>1, <1>2 DEF vars, locks
<1>3. CASE Next
  <2>1. PICK p \in Procs :
            \/ Publish(p) \/ Look(p) \/ Judge(p) \/ BackOff(p)
            \/ \E v \in Targets \union {None} : EnterLease(p, v)
            \/ FileOperation(p)
            \/ Recovered(p) \/ RecoveryFails(p) \/ PrepareFails(p)
            \/ Begin(p) \/ BeginFails(p) \/ Committed(p) \/ Cleaned(p)
            \/ MoveFails(p) \/ Undone(p) \/ Unwound(p)
            \/ Release(p) \/ Crash(p)
        BY <1>3 DEF Next
  <2>2. CASE Publish(p)
        BY <2>2, PublishStep
  <2>3. CASE Look(p)
        BY <2>3, LookStep
  <2>4. CASE Judge(p)
        BY <2>4, JudgeStep
  <2>5. CASE \E v \in Targets \union {None} : EnterLease(p, v)
        BY <2>5, EnterStep
  <2>6. CASE FileOperation(p)
        BY <1>1, <2>6, FileOperationIsQuiet
  <2>7. CASE BackOff(p) \/ Release(p) \/ Crash(p)
        BY <2>7, LeavingIsQuiet, QuietStep
  <2>8. CASE \/ Recovered(p) \/ RecoveryFails(p) \/ PrepareFails(p) \/ Begin(p)
             \/ BeginFails(p) \/ Committed(p) \/ Cleaned(p) \/ MoveFails(p)
             \/ Undone(p) \/ Unwound(p)
        BY <2>8, ProgramStepIsQuiet, QuietStep
  <2>9. QED BY <2>1, <2>2, <2>3, <2>4, <2>5, <2>6, <2>7, <2>8
<1>4. QED BY <1>2, <1>3

LEMMA LockExcludes == LockInv => OneInstaller
BY DEF LockInv, OnePasses, Passed, OneInstaller

(* acquireExtensionOperation (operationLock.js): whatever the number of    *)
(* processes, whichever die and whichever tickets cannot be deleted, two   *)
(* living processes never both have the lease.                             *)
THEOREM OneLease == Spec => []OneInstaller
<1>1. QED
      BY LockInit, LockNext, LockExcludes, PTL DEF Spec
-----------------------------------------------------------------------------
(* The disk: what is under way there, and what a recovery would make of it. *)

Markers == [phase: {"none", "prepared", "committed"}, existed: SUBSET Paths, entries: BOOLEAN]
Trees   == [Areas -> [Paths -> Versions \union {None, Torn}]]

(* The transaction covers the path. *)
Covers(m, q) == q = package \/ m.entries

(* Settled, of a marker and a tree. *)
Value(m, t, q) ==
    IF m.phase # "prepared" \/ ~ Covers(m, q) THEN t["cur"][q]
    ELSE IF t["bak"][q] # None THEN t["bak"][q]
    ELSE IF q \in m.existed THEN t["cur"][q]
    ELSE None

(* What version v has at the path. *)
Part(v, q) == IF q \in Parts[v] THEN v ELSE None

(* The path is as it is to be, and nothing of it is left aside. *)
Back(m, t, q) == t["bak"][q] = None /\ t["cur"][q] = Value(m, t, q)

(* The original of a path is where a recovery looks, or there is none. *)
MovedAside(m, t, q) == Covers(m, q) /\ (t["bak"][q] # None \/ q \notin m.existed)

(* One version is installed, whole; what was moved aside can be found. *)
DiskOK(m, t) ==
    /\ \E v \in Targets : \A q \in Paths : Value(m, t, q) = Part(v, q)
    /\ \A q \in Paths : t["bak"][q] # None =>
          Covers(m, q) /\ m.phase # "none" /\ (m.phase = "prepared" => q \in m.existed)
-----------------------------------------------------------------------------
(* Programs. *)

(* The operations of a program still to come. *)
Coming(s) == {s[i] : i \in DOMAIN s}

(* After the operation a no program does b: nothing follows the end, what  *)
(* was put back is not removed, and nothing is moved twice.                *)
Clash(a, b) ==
    \/ a.op \in {"unmark", "commit"}
    \/ /\ a.path = b.path
       /\ \/ a.op \in {"putback", "restore"} /\ b.op = "remove" /\ b.area = "cur"
          \/ a.op \in {"aside", "putback"} /\ b.op = a.op
          \/ a.op = "promote" /\ b.op \in {"aside", "promote"}

(* A program, of which no operation clashes with a later one. *)
Proper(s) == s \in Seq(Programs) /\ \A i, j \in DOMAIN s : i < j => ~ Clash(s[i], s[j])

(* The operations a program is made of, by kind. *)
Staged   == {RemoveStaged(q) : q \in Paths}
Currents == {RemoveCurrent(q) : q \in Paths}
Backups  == {RemoveBackup(q) : q \in Paths}
Asides   == {Aside(q) : q \in Paths}
Promotes == {Promote(q) : q \in Paths}
PutBacks == {PutBack(q) : q \in Paths}
Restores == {Restore(q) : q \in Paths}

(* What a program that ends a prepared transaction still does to a path.   *)
Returns(m, t, C, q) ==
    /\ RemoveCurrent(q) \in C => MovedAside(m, t, q) /\ PutBack(q) \in C
    /\ Restore(q) \in C => Covers(m, q)
    /\ \/ Back(m, t, q) \/ Restore(q) \in C
       \/ /\ PutBack(q) \in C
          /\ RemoveCurrent(q) \in C \/ t["cur"][q] = None

(* A program that ends what the marker describes. *)
Clears(m, t, s) ==
    /\ Proper(s)
    /\ m.phase = "none" => Coming(s) \subseteq Staged \union PutBacks \union {Unmark}
    /\ m.phase = "committed" =>
          /\ Coming(s) \subseteq Staged \union Backups \union {Unmark}
          /\ Unmark \in Coming(s)
          /\ \A q \in Paths : t["bak"][q] = None \/ RemoveBackup(q) \in Coming(s)
    /\ m.phase = "prepared" =>
          /\ Coming(s) \subseteq Staged \union Currents \union PutBacks \union Restores \union {Unmark}
          /\ Unmark \in Coming(s)
          /\ \A q \in Paths : Returns(m, t, Coming(s), q)

(* A path that can be taken back, with what is promoted removed first.     *)
Undoable(m, t, q, done) ==
    /\ q \in done => MovedAside(m, t, q)
    /\ q \notin done => Back(m, t, q) \/ t["cur"][q] = None

(* How far the moves of version v have come with a path. *)
Moving(m, t, C, v, done, q) ==
    /\ Aside(q) \in C =>
          /\ Covers(m, q) /\ q \notin done /\ t["bak"][q] = None
          /\ q \in m.existed <=> t["cur"][q] # None
          /\ Promote(q) \in C <=> q \in Parts[v]
    /\ Aside(q) \notin C /\ Covers(m, q) =>
          /\ MovedAside(m, t, q)
          /\ Promote(q) \in C \/ q \notin done => t["cur"][q] = None
          /\ Promote(q) \notin C => t["cur"][q] = Part(v, q)
    /\ Promote(q) \in C => Covers(m, q) /\ t["stg"][q] = v /\ q \in Parts[v]
    /\ ~ Covers(m, q) => q \notin done /\ t["cur"][q] = Part(v, q)

(* The moves that are still to come install v, of which done is promoted;  *)
(* the last of them is the commit.                                         *)
Installs(m, t, s, v, done) ==
    /\ Proper(s)
    /\ s = <<>> => m.phase = "committed"
    /\ s # <<>> =>
          /\ m.phase = "prepared"
          /\ Coming(s) \subseteq Asides \union Promotes \union {Commit}
          /\ Commit \in Coming(s)
          /\ \A q \in Paths : Moving(m, t, Coming(s), v, done, q)

(* A program that takes the commands back, and that may fail half way only *)
(* if it has no command to remove.                                         *)
TakesBack(m, t, s, v, done) ==
    /\ Proper(s)
    /\ m.phase = "prepared"
    /\ package \in done /\ MovedAside(m, t, package)
    /\ \A i \in DOMAIN s : s[i] = PutBack(owner) => i = Len(s)
    /\ s # <<>> => PutBack(owner) \in Coming(s)
    /\ Coming(s) \subseteq Staged \union Currents \union PutBacks
    /\ \A o \in Coming(s) : o.path # package
    /\ \A q \in {command, owner} :
          /\ Returns(m, t, Coming(s), q)
          /\ RemoveCurrent(q) \in Coming(s) => q \in done
          /\ PutBack(q) \in Coming(s) => Undoable(m, t, q, done)
          /\ q \notin done => Back(m, t, q) \/ t["cur"][q] = None
    /\ v \in Fragile => command \notin done

(* What the program of a process at a control point does. *)
Runs(m, t, at, s, v, done) ==
    /\ at \in {"recovering", "unwinding", "cleaning"} => Clears(m, t, s)
    /\ at = "cleaning" => m.phase # "prepared"
    /\ at = "preparing" => m.phase = "none"
    /\ at = "committing" => Installs(m, t, s, v, done)
    /\ at = "undoing" => TakesBack(m, t, s, v, done)
-----------------------------------------------------------------------------
(* The operations of the programs, and what they are about. *)
LEMMA OpFields ==
    /\ \A q \in Paths :
          /\ RemoveStaged(q).op = "remove" /\ RemoveStaged(q).area = "stg" /\ RemoveStaged(q).path = q
          /\ RemoveCurrent(q).op = "remove" /\ RemoveCurrent(q).area = "cur" /\ RemoveCurrent(q).path = q
          /\ RemoveBackup(q).op = "remove" /\ RemoveBackup(q).area = "bak" /\ RemoveBackup(q).path = q
          /\ Aside(q).op = "aside" /\ Aside(q).area = "cur" /\ Aside(q).path = q
          /\ Promote(q).op = "promote" /\ Promote(q).area = "stg" /\ Promote(q).path = q
          /\ PutBack(q).op = "putback" /\ PutBack(q).area = "bak" /\ PutBack(q).path = q
          /\ Restore(q).op = "restore" /\ Restore(q).area = "bak" /\ Restore(q).path = q
    /\ Commit.op = "commit" /\ Unmark.op = "unmark"
PROOF BY DEF RemoveStaged, RemoveCurrent, RemoveBackup, Remove, Aside, Promote, PutBack, Restore,
             Commit, Unmark, Op

(* The three paths of a package are different. *)
LEMMA ThreePaths == package \in Paths /\ command \in Paths /\ owner \in Paths
                    /\ package # command /\ package # owner /\ command # owner
PROOF BY DEF Paths, package, command, owner

(* The operations the programs are made of are operations. *)
LEMMA OpTypes ==
    /\ \A q \in Paths :
          /\ RemoveStaged(q) \in Programs /\ RemoveCurrent(q) \in Programs /\ RemoveBackup(q) \in Programs
          /\ Aside(q) \in Programs /\ Promote(q) \in Programs /\ PutBack(q) \in Programs
          /\ Restore(q) \in Programs
    /\ Commit \in Programs /\ Unmark \in Programs
PROOF BY ThreePaths DEF RemoveStaged, RemoveCurrent, RemoveBackup, Remove, Aside, Promote, PutBack,
                        Restore, Commit, Unmark, Op, Programs, Areas

(* After the first operation comes the rest, with which it does not clash. *)
LEMMA ComingTail ==
    ASSUME NEW s, Proper(s), s # <<>>
    PROVE  /\ Proper(Tail(s))
           /\ Coming(s) = {Head(s)} \union Coming(Tail(s))
           /\ \A b \in Coming(Tail(s)) : ~ Clash(Head(s), b)
PROOF
<1>1. s \in Seq(Programs) /\ Len(s) \in Nat /\ Len(s) >= 1 /\ DOMAIN s = 1..Len(s)
  BY DEF Proper
<1>2. /\ Tail(s) \in Seq(Programs) /\ DOMAIN Tail(s) = 1..(Len(s) - 1) /\ Head(s) = s[1]
      /\ \A i \in DOMAIN Tail(s) : Tail(s)[i] = s[i + 1] /\ i + 1 \in DOMAIN s
  BY <1>1
<1>3. Proper(Tail(s))
  BY <1>1, <1>2 DEF Proper
<1>4. \A b \in Coming(Tail(s)) : ~ Clash(Head(s), b)
  BY <1>1, <1>2 DEF Proper, Coming
<1>5. Coming(s) \subseteq {Head(s)} \union Coming(Tail(s))
  <2>1. SUFFICES ASSUME NEW i \in DOMAIN s PROVE s[i] \in {Head(s)} \union Coming(Tail(s))
    BY DEF Coming
  <2>2. CASE i = 1
    BY <2>2, <1>2
  <2>3. CASE i # 1
    <3>1. i - 1 \in DOMAIN Tail(s) /\ Tail(s)[i - 1] = s[i]
      BY <2>3, <1>1, <1>2
    <3> QED BY <3>1 DEF Coming
  <2> QED BY <2>2, <2>3
<1>6. {Head(s)} \union Coming(Tail(s)) \subseteq Coming(s)
  BY <1>1, <1>2 DEF Coming
<1> QED BY <1>3, <1>4, <1>5, <1>6

(* A program that has ended does nothing. *)
LEMMA ComingEmpty == Coming(<<>>) = {} /\ Proper(<<>>)
PROOF BY DEF Coming, Proper

(* A program that does nothing has ended. *)
LEMMA ComingSome ==
    ASSUME NEW s, Proper(s), Coming(s) = {}
    PROVE  s = <<>>
PROOF BY DEF Coming, Proper

(* Programs of one operation, *)
LEMMA ComingOne ==
    ASSUME NEW a \in Programs
    PROVE  Coming(<<a>>) = {a} /\ Proper(<<a>>)
PROOF BY DEF Coming, Proper

(* of two, *)
LEMMA ComingTwo ==
    ASSUME NEW a \in Programs, NEW b \in Programs, ~ Clash(a, b)
    PROVE  Coming(<<a, b>>) = {a, b} /\ Proper(<<a, b>>)
PROOF
<1>1. DOMAIN <<a, b>> = {1, 2} /\ <<a, b>>[1] = a /\ <<a, b>>[2] = b /\ <<a, b>> \in Seq(Programs)
  OBVIOUS
<1>2. Coming(<<a, b>>) = {a, b}
  BY <1>1 DEF Coming
<1> QED BY <1>1, <1>2 DEF Proper

(* of two programs, one after the other, *)
LEMMA ComingConcat ==
    ASSUME NEW s, NEW u, Proper(s), Proper(u),
           \A a \in Coming(s), b \in Coming(u) : ~ Clash(a, b)
    PROVE  Coming(s \o u) = Coming(s) \union Coming(u) /\ Proper(s \o u)
PROOF
<1> DEFINE c == s \o u
<1>1. /\ s \in Seq(Programs) /\ Len(s) \in Nat /\ DOMAIN s = 1..Len(s)
      /\ u \in Seq(Programs) /\ Len(u) \in Nat /\ DOMAIN u = 1..Len(u)
  BY DEF Proper
<1>2. /\ c \in Seq(Programs) /\ DOMAIN c = 1..(Len(s) + Len(u))
      /\ \A i \in DOMAIN c : c[i] = IF i <= Len(s) THEN s[i] ELSE u[i - Len(s)]
  BY <1>1
<1>3. \A i \in DOMAIN s : i \in DOMAIN c /\ c[i] = s[i]
  BY <1>1, <1>2
<1>4. \A i \in DOMAIN u : i + Len(s) \in DOMAIN c /\ c[i + Len(s)] = u[i]
  BY <1>1, <1>2
<1>5. \A i \in DOMAIN c : \/ i \in DOMAIN s /\ c[i] = s[i]
                          \/ i > Len(s) /\ i - Len(s) \in DOMAIN u /\ c[i] = u[i - Len(s)]
  BY <1>1, <1>2
<1> HIDE DEF c
<1>6. Coming(c) = Coming(s) \union Coming(u)
  BY <1>3, <1>4, <1>5 DEF Coming
<1>7. ASSUME NEW i \in DOMAIN c, NEW j \in DOMAIN c, i < j PROVE ~ Clash(c[i], c[j])
  <2>1. CASE j \in DOMAIN s
    <3>1. i \in DOMAIN s
      BY <2>1, <1>7, <1>1, <1>2
    <3> QED BY <2>1, <3>1, <1>3, <1>7 DEF Proper
  <2>2. CASE i \in DOMAIN s /\ j \notin DOMAIN s
    <3>1. c[i] \in Coming(s) /\ c[j] \in Coming(u)
      BY <2>2, <1>3, <1>5 DEF Coming
    <3> QED BY <3>1
  <2>3. CASE i \notin DOMAIN s /\ j \notin DOMAIN s
    <3>1. /\ i - Len(s) \in DOMAIN u /\ c[i] = u[i - Len(s)]
          /\ j - Len(s) \in DOMAIN u /\ c[j] = u[j - Len(s)]
          /\ i - Len(s) < j - Len(s)
      BY <2>3, <1>5, <1>7, <1>1, <1>2
    <3> QED BY <3>1 DEF Proper
  <2> QED BY <2>1, <2>2, <2>3
<1> QED BY <1>2, <1>6, <1>7 DEF Proper, c

(* of an operation done only in some case, *)
LEMMA ComingWhen ==
    ASSUME NEW chosen \in BOOLEAN, NEW a \in Programs
    PROVE  Proper(When(chosen, a)) /\ Coming(When(chosen, a)) = {x \in {a} : chosen}
PROOF BY ComingOne, ComingEmpty DEF When
-----------------------------------------------------------------------------
(* The programs, when they begin. *)

(* of four operations, *)
LEMMA ComingFour ==
    ASSUME NEW a \in Programs, NEW b \in Programs, NEW c \in Programs, NEW d \in Programs,
           \A x \in {a, b, c}, y \in {b, c, d} : ~ Clash(x, y)
    PROVE  Coming(<<a, b, c, d>>) = {a, b, c, d} /\ Proper(<<a, b, c, d>>)
PROOF
<1>1. Coming(<<a, b>>) = {a, b} /\ Proper(<<a, b>>)
  BY ComingTwo
<1>2. Coming(<<c, d>>) = {c, d} /\ Proper(<<c, d>>)
  BY ComingTwo
<1>3. <<a, b, c, d>> = <<a, b>> \o <<c, d>>
  OBVIOUS
<1>4. /\ Coming(<<a, b>> \o <<c, d>>) = {a, b} \union {c, d}
      /\ Proper(<<a, b>> \o <<c, d>>)
  BY <1>1, <1>2, ComingConcat
<1>5. {a, b} \union {c, d} = {a, b, c, d}
  OBVIOUS
<1> QED BY <1>3, <1>4, <1>5

(* and of those about the command, where the transaction covers it. *)
LEMMA ComingForCommand ==
    ASSUME NEW m \in Markers, NEW s, Proper(s)
    PROVE  Proper(ForCommand(m, s)) /\ Coming(ForCommand(m, s)) = {x \in Coming(s) : m.entries}
PROOF
<1>1. m.entries \in BOOLEAN
  BY DEF Markers
<1>2. CASE m.entries
  BY <1>2 DEF ForCommand
<1>3. CASE ~ m.entries
  BY <1>3, ComingEmpty DEF ForCommand
<1> QED BY <1>1, <1>2, <1>3

(* What finalizeCommitted does, *)
LEMMA FinalizeProgram ==
    ASSUME NEW m \in Markers
    PROVE  /\ Proper(Finalize(m))
           /\ Coming(Finalize(m)) = {RemoveStaged(package), RemoveBackup(package)}
                 \union {x \in {RemoveStaged(command), RemoveStaged(owner),
                               RemoveBackup(command), RemoveBackup(owner)} : m.entries}
PROOF
<1> DEFINE A == <<RemoveStaged(package), RemoveBackup(package)>>
           D == <<RemoveStaged(command), RemoveStaged(owner), RemoveBackup(command), RemoveBackup(owner)>>
<1>1. Coming(A) = {RemoveStaged(package), RemoveBackup(package)} /\ Proper(A)
  BY ComingTwo, OpFields, OpTypes, ThreePaths DEF Clash
<1>2. \A x \in {RemoveStaged(command), RemoveStaged(owner), RemoveBackup(command)} : \A y : ~ Clash(x, y)
  BY OpFields, ThreePaths DEF Clash
<1>3. Coming(D) = {RemoveStaged(command), RemoveStaged(owner), RemoveBackup(command), RemoveBackup(owner)}
      /\ Proper(D)
  BY <1>2, ComingFour, OpTypes, ThreePaths
<1> HIDE DEF A, D
<1>4. Proper(ForCommand(m, D)) /\ Coming(ForCommand(m, D)) = {x \in Coming(D) : m.entries}
  BY <1>3, ComingForCommand
<1>5. \A x \in Coming(A) : \A y : ~ Clash(x, y)
  BY <1>1, OpFields, ThreePaths DEF Clash
<1>6. Coming(A \o ForCommand(m, D)) = Coming(A) \union Coming(ForCommand(m, D))
      /\ Proper(A \o ForCommand(m, D))
  BY <1>1, <1>4, <1>5, ComingConcat
<1>7. Finalize(m) = A \o ForCommand(m, D)
  BY DEF Finalize, A, D
<1> QED BY <1>1, <1>3, <1>4, <1>6, <1>7

(* what rollbackPrepared does, *)
LEMMA RollbackProgram ==
    ASSUME NEW m \in Markers
    PROVE  /\ Proper(Rollback(m))
           /\ Coming(Rollback(m)) = {RemoveStaged(package), Restore(package)}
                 \union {x \in {RemoveStaged(command), RemoveStaged(owner),
                               Restore(command), Restore(owner)} : m.entries}
PROOF
<1> DEFINE A == <<RemoveStaged(package), Restore(package)>>
           D == <<RemoveStaged(command), RemoveStaged(owner), Restore(command), Restore(owner)>>
<1>1. Coming(A) = {RemoveStaged(package), Restore(package)} /\ Proper(A)
  BY ComingTwo, OpFields, OpTypes, ThreePaths DEF Clash
<1>2. \A x \in {RemoveStaged(command), RemoveStaged(owner), Restore(command)},
         y \in {RemoveStaged(owner), Restore(command), Restore(owner)} : ~ Clash(x, y)
  BY OpFields, ThreePaths DEF Clash
<1>3. Coming(D) = {RemoveStaged(command), RemoveStaged(owner), Restore(command), Restore(owner)}
      /\ Proper(D)
  BY <1>2, ComingFour, OpTypes, ThreePaths
<1> HIDE DEF A, D
<1>4. Proper(ForCommand(m, D)) /\ Coming(ForCommand(m, D)) = {x \in Coming(D) : m.entries}
  BY <1>3, ComingForCommand
<1>5. \A x \in Coming(D), y \in Coming(A) : ~ Clash(x, y)
  BY <1>1, <1>3, OpFields, ThreePaths DEF Clash
<1>6. Coming(ForCommand(m, D) \o A) = Coming(ForCommand(m, D)) \union Coming(A)
      /\ Proper(ForCommand(m, D) \o A)
  BY <1>1, <1>4, <1>5, ComingConcat
<1>7. Rollback(m) = ForCommand(m, D) \o A
  BY DEF Rollback, A, D
<1> QED BY <1>1, <1>3, <1>4, <1>6, <1>7

(* Where the last of a program is its end. *)
LEMMA EndsProgram ==
    ASSUME NEW s, Proper(s), NEW e \in {Unmark, Commit},
           \A a \in Coming(s) : a.op \notin {"unmark", "commit"}
    PROVE  Proper(s \o <<e>>) /\ Coming(s \o <<e>>) = Coming(s) \union {e}
PROOF
<1>1. e \in Programs /\ e.op \in {"unmark", "commit"}
  BY OpTypes, OpFields
<1>2. Coming(<<e>>) = {e} /\ Proper(<<e>>)
  BY <1>1, ComingOne
<1>3. \A a \in Coming(s), b \in {e} : ~ Clash(a, b)
  BY <1>1 DEF Clash
<1> QED BY <1>2, <1>3, ComingConcat

(* what the catch block does about the command, *)
LEMMA UndoCommandsProgram ==
    ASSUME NEW m \in Markers, NEW done
    PROVE  /\ Proper(UndoCommands(m, done))
           /\ Coming(UndoCommands(m, done)) =
                 {x \in {RemoveStaged(command), RemoveStaged(owner), PutBack(command), PutBack(owner)}
                           \union {y \in {RemoveCurrent(command)} : command \in done}
                           \union {y \in {RemoveCurrent(owner)} : owner \in done} : m.entries}
           /\ \A i \in DOMAIN UndoCommands(m, done) :
                 UndoCommands(m, done)[i] = PutBack(owner) => i = Len(UndoCommands(m, done))
PROOF
<1> DEFINE A == <<RemoveStaged(command), RemoveStaged(owner)>>
           B == When(command \in done, RemoveCurrent(command))
           C == When(owner \in done, RemoveCurrent(owner))
           D == <<PutBack(command), PutBack(owner)>>
           E == ((A \o B) \o C) \o D
<1> USE OpTypes, ThreePaths
<1>1. Coming(A) = {RemoveStaged(command), RemoveStaged(owner)} /\ Proper(A)
  BY ComingTwo, OpFields DEF Clash
<1>2. Proper(B) /\ Coming(B) = {y \in {RemoveCurrent(command)} : command \in done}
  <2>1. (command \in done) \in BOOLEAN
    OBVIOUS
  <2> QED BY <2>1, ComingWhen
<1>3. Proper(C) /\ Coming(C) = {y \in {RemoveCurrent(owner)} : owner \in done}
  <2>1. (owner \in done) \in BOOLEAN
    OBVIOUS
  <2> QED BY <2>1, ComingWhen
<1>4. Coming(D) = {PutBack(command), PutBack(owner)} /\ Proper(D)
  BY ComingTwo, OpFields DEF Clash
<1> HIDE DEF A, B, C, D
<1>5. \A x \in Coming(A) \union Coming(B) \union Coming(C) : \A y : ~ Clash(x, y)
  BY <1>1, <1>2, <1>3, OpFields DEF Clash
<1>6. Coming(A \o B) = Coming(A) \union Coming(B) /\ Proper(A \o B)
  BY <1>1, <1>2, <1>5, ComingConcat
<1>7. Coming((A \o B) \o C) = Coming(A) \union Coming(B) \union Coming(C) /\ Proper((A \o B) \o C)
  BY <1>3, <1>5, <1>6, ComingConcat
<1>8. Coming(E) = Coming(A) \union Coming(B) \union Coming(C) \union Coming(D) /\ Proper(E)
  BY <1>4, <1>5, <1>7, ComingConcat
<1>9. \A i \in DOMAIN E : E[i] = PutBack(owner) => i = Len(E)
  <2> DEFINE F == (A \o B) \o C
  <2>1. F \in Seq(Programs) /\ Len(F) \in Nat /\ DOMAIN F = 1..Len(F)
    BY <1>7 DEF Proper
  <2>2. PutBack(owner) \notin Coming(F)
    BY <1>1, <1>2, <1>3, <1>7, OpFields
  <2>3. D \in Seq(Programs) /\ Len(D) = 2 /\ D[1] = PutBack(command) /\ D[2] = PutBack(owner)
    BY DEF D
  <2> HIDE DEF F
  <2>4. PutBack(command) # PutBack(owner)
    BY OpFields, ThreePaths
  <2>5. /\ DOMAIN (F \o D) = 1..(Len(F) + 2) /\ Len(F \o D) = Len(F) + 2
        /\ \A i \in DOMAIN (F \o D) : (F \o D)[i] = IF i <= Len(F) THEN F[i] ELSE D[i - Len(F)]
    <3>1. \A f, d \in Seq(Programs) :
            /\ DOMAIN (f \o d) = 1..(Len(f) + Len(d)) /\ Len(f \o d) = Len(f) + Len(d)
            /\ \A i \in DOMAIN (f \o d) : (f \o d)[i] = IF i <= Len(f) THEN f[i] ELSE d[i - Len(f)]
      OBVIOUS
    <3> QED BY <2>1, <2>3, <3>1
  <2>6. ASSUME NEW i \in DOMAIN (F \o D), (F \o D)[i] = PutBack(owner) PROVE i = Len(F \o D)
    <3>1. CASE i <= Len(F)
      <4>1. i \in DOMAIN F /\ F[i] = PutBack(owner)
        BY <3>1, <2>1, <2>5, <2>6
      <4> QED BY <4>1, <2>2 DEF Coming
    <3>2. CASE i = Len(F) + 1
      BY <3>2, <2>1, <2>3, <2>4, <2>5, <2>6
    <3>3. CASE i = Len(F) + 2
      BY <3>3, <2>5
    <3> QED BY <3>1, <3>2, <3>3, <2>1, <2>5
  <2> QED BY <2>6 DEF F
<1>10. UndoCommands(m, done) = ForCommand(m, E)
  <2>1. UndoCommands(m, done) = ForCommand(m, A \o B \o C \o D)
    BY DEF UndoCommands, A, B, C, D
  <2> QED BY <2>1 DEF E
<1> HIDE DEF E
<1>11. Proper(ForCommand(m, E)) /\ Coming(ForCommand(m, E)) = {x \in Coming(E) : m.entries}
  BY <1>8, ComingForCommand
<1>12. \A i \in DOMAIN ForCommand(m, E) : ForCommand(m, E)[i] = PutBack(owner) => i = Len(ForCommand(m, E))
  <2>1. CASE m.entries
    BY <2>1, <1>9 DEF ForCommand
  <2>2. CASE ~ m.entries
    BY <2>2 DEF ForCommand
  <2> QED BY <2>1, <2>2
<1>13. Coming(E) = {RemoveStaged(command), RemoveStaged(owner), PutBack(command), PutBack(owner)}
                       \union {y \in {RemoveCurrent(command)} : command \in done}
                       \union {y \in {RemoveCurrent(owner)} : owner \in done}
  BY <1>1, <1>2, <1>3, <1>4, <1>8
<1> QED BY <1>10, <1>11, <1>12, <1>13

(* what it does about the package, *)
LEMMA UndoProgram ==
    ASSUME NEW m \in Markers, NEW done
    PROVE  /\ Proper(Undo(m, done))
           /\ Coming(Undo(m, done)) =
                 {RemoveStaged(package), PutBack(package), Unmark}
                   \union {y \in {RemoveCurrent(package)} : package \in done}
                   \union Coming(UndoCommands(m, done))
PROOF
<1> DEFINE A == <<RemoveStaged(package)>>
           B == UndoCommands(m, done)
           C == When(package \in done, RemoveCurrent(package))
           D == <<PutBack(package), Unmark>>
           E == ((A \o B) \o C) \o D
<1> USE OpTypes, ThreePaths
<1>1. Coming(A) = {RemoveStaged(package)} /\ Proper(A)
  BY ComingOne
<1>2. /\ Proper(B)
      /\ Coming(B) \subseteq {RemoveStaged(command), RemoveStaged(owner), PutBack(command), PutBack(owner),
                              RemoveCurrent(command), RemoveCurrent(owner)}
  BY UndoCommandsProgram
<1>3. Proper(C) /\ Coming(C) = {y \in {RemoveCurrent(package)} : package \in done}
  <2>1. (package \in done) \in BOOLEAN
    OBVIOUS
  <2> QED BY <2>1, ComingWhen
<1>4. Coming(D) = {PutBack(package), Unmark} /\ Proper(D)
  BY ComingTwo, OpFields DEF Clash
<1>5. Undo(m, done) = E
  BY DEF Undo, A, B, C, D, E
<1> HIDE DEF A, B, C, D
<1>6. \A x \in Coming(A) \union Coming(C) : \A y : ~ Clash(x, y)
  BY <1>1, <1>3, OpFields DEF Clash
<1>7. \A x \in Coming(B), y \in Coming(C) \union Coming(D) : ~ Clash(x, y)
  BY <1>2, <1>3, <1>4, OpFields DEF Clash
<1>8. Coming(A \o B) = Coming(A) \union Coming(B) /\ Proper(A \o B)
  BY <1>1, <1>2, <1>6, ComingConcat
<1>9. Coming((A \o B) \o C) = Coming(A) \union Coming(B) \union Coming(C) /\ Proper((A \o B) \o C)
  BY <1>3, <1>6, <1>7, <1>8, ComingConcat
<1>10. Coming(E) = Coming(A) \union Coming(B) \union Coming(C) \union Coming(D) /\ Proper(E)
  BY <1>4, <1>6, <1>7, <1>9, ComingConcat
<1> HIDE DEF E
<1>11. Coming(E) = {RemoveStaged(package), PutBack(package), Unmark}
                     \union {y \in {RemoveCurrent(package)} : package \in done} \union Coming(B)
  BY <1>1, <1>3, <1>4, <1>10
<1> QED BY <1>5, <1>10, <1>11 DEF B

(* and the moves of commitExtensionPackage. *)
LEMMA MovesProgram ==
    ASSUME NEW m \in Markers, NEW v
    PROVE  /\ Proper(Moves(m, v))
           /\ Coming(Moves(m, v)) =
                 {Aside(package), Commit}
                   \union {y \in {Promote(package)} : package \in Parts[v]}
                   \union {x \in {Aside(command), Aside(owner)}
                                   \union {y \in {Promote(command)} : command \in Parts[v]}
                                   \union {y \in {Promote(owner)} : owner \in Parts[v]} : m.entries}
PROOF
<1> DEFINE A == <<Aside(package)>>
           B == When(package \in Parts[v], Promote(package))
           C == <<Aside(command), Aside(owner)>>
           D == When(command \in Parts[v], Promote(command))
           E == When(owner \in Parts[v], Promote(owner))
           F == (C \o D) \o E
           G == <<Commit>>
           H == ((A \o B) \o ForCommand(m, F)) \o G
<1> USE OpTypes, ThreePaths
<1>1. Coming(A) = {Aside(package)} /\ Proper(A) /\ Coming(G) = {Commit} /\ Proper(G)
  BY ComingOne
<1>2. Coming(C) = {Aside(command), Aside(owner)} /\ Proper(C)
  BY ComingTwo, OpFields DEF Clash
<1>3. /\ Proper(B) /\ Coming(B) = {y \in {Promote(package)} : package \in Parts[v]}
      /\ Proper(D) /\ Coming(D) = {y \in {Promote(command)} : command \in Parts[v]}
      /\ Proper(E) /\ Coming(E) = {y \in {Promote(owner)} : owner \in Parts[v]}
  <2>1. (package \in Parts[v]) \in BOOLEAN /\ (command \in Parts[v]) \in BOOLEAN /\ (owner \in Parts[v]) \in BOOLEAN
    OBVIOUS
  <2> QED BY <2>1, ComingWhen
<1>4. Moves(m, v) = H
  BY DEF Moves, A, B, C, D, E, F, G, H
<1> HIDE DEF A, B, C, D, E, G
<1>5. Coming(C \o D) = Coming(C) \union Coming(D) /\ Proper(C \o D)
  <2>1. \A x \in Coming(C), y \in Coming(D) : ~ Clash(x, y)
    BY <1>2, <1>3, OpFields DEF Clash
  <2> QED BY <1>2, <1>3, <2>1, ComingConcat
<1>6. Coming(F) = Coming(C) \union Coming(D) \union Coming(E) /\ Proper(F)
  <2>1. \A x \in Coming(C) \union Coming(D), y \in Coming(E) : ~ Clash(x, y)
    BY <1>2, <1>3, OpFields DEF Clash
  <2> QED BY <1>3, <1>5, <2>1, ComingConcat
<1> HIDE DEF F
<1>7. Proper(ForCommand(m, F)) /\ Coming(ForCommand(m, F)) = {x \in Coming(F) : m.entries}
  BY <1>6, ComingForCommand
<1>8. Coming(A \o B) = Coming(A) \union Coming(B) /\ Proper(A \o B)
  <2>1. \A x \in Coming(A), y \in Coming(B) : ~ Clash(x, y)
    BY <1>1, <1>3, OpFields DEF Clash
  <2> QED BY <1>1, <1>3, <2>1, ComingConcat
<1>9. \A x \in Coming(F) : x.path # package /\ x.op \in {"aside", "promote"}
  BY <1>2, <1>3, <1>6, OpFields
<1>10. \A x \in Coming(A) \union Coming(B) : x.path = package /\ x.op \in {"aside", "promote"}
  BY <1>1, <1>3, OpFields
<1>11. Coming((A \o B) \o ForCommand(m, F)) = Coming(A) \union Coming(B) \union Coming(ForCommand(m, F))
       /\ Proper((A \o B) \o ForCommand(m, F))
  <2>1. \A x \in Coming(A) \union Coming(B), y \in Coming(ForCommand(m, F)) : ~ Clash(x, y)
    BY <1>7, <1>9, <1>10 DEF Clash
  <2> QED BY <1>7, <1>8, <2>1, ComingConcat
<1>12. Coming(H) = Coming(A) \union Coming(B) \union Coming(ForCommand(m, F)) \union Coming(G) /\ Proper(H)
  <2>1. \A x \in Coming(A) \union Coming(B) \union Coming(ForCommand(m, F)), y \in Coming(G) : ~ Clash(x, y)
    BY <1>1, <1>7, <1>9, <1>10, OpFields DEF Clash
  <2> QED BY <1>1, <1>11, <2>1, ComingConcat
<1>13. Coming(F) = {Aside(command), Aside(owner)}
                       \union {y \in {Promote(command)} : command \in Parts[v]}
                       \union {y \in {Promote(owner)} : owner \in Parts[v]}
  BY <1>2, <1>3, <1>6
<1> HIDE DEF H
<1>14. Coming(H) = {Aside(package), Commit} \union {y \in {Promote(package)} : package \in Parts[v]}
                     \union {x \in Coming(F) : m.entries}
  BY <1>1, <1>3, <1>7, <1>12
<1> QED BY <1>4, <1>12, <1>13, <1>14
-----------------------------------------------------------------------------
(* recoverUnderLease begins to end what the marker describes. *)
LEMMA RecoveryClears ==
    ASSUME NEW m \in Markers, NEW t \in Trees, DiskOK(m, t)
    PROVE  Clears(m, t, Recovery(m))
PROOF
<1> USE ThreePaths
<1>1. CASE m.phase = "none"
  <2>1. Recovery(m) = <<>>
    BY <1>1 DEF Recovery
  <2> QED BY <1>1, <2>1, ComingEmpty DEF Clears
<1>2. CASE m.phase = "committed"
  <2> DEFINE F == Finalize(m)
  <2>1. Recovery(m) = F \o <<Unmark>>
    BY <1>2 DEF Recovery
  <2>2. /\ Proper(F)
        /\ Coming(F) = {RemoveStaged(package), RemoveBackup(package)}
              \union {x \in {RemoveStaged(command), RemoveStaged(owner),
                            RemoveBackup(command), RemoveBackup(owner)} : m.entries}
    BY FinalizeProgram
  <2> HIDE DEF F
  <2>3. \A a \in Coming(F) : a.op \notin {"unmark", "commit"}
    BY <2>2, OpFields
  <2>4. Proper(F \o <<Unmark>>) /\ Coming(F \o <<Unmark>>) = Coming(F) \union {Unmark}
    BY <2>2, <2>3, EndsProgram
  <2>5. Coming(F) \subseteq Staged \union Backups
    BY <2>2 DEF Staged, Backups
  <2>6. ASSUME NEW q \in Paths, t["bak"][q] # None PROVE RemoveBackup(q) \in Coming(F)
    <3>1. Covers(m, q)
      BY <2>6 DEF DiskOK
    <3> QED BY <2>2, <3>1 DEF Covers, Paths
  <2> QED BY <1>2, <2>1, <2>4, <2>5, <2>6 DEF Clears
<1>3. CASE m.phase = "prepared"
  <2> DEFINE F == Rollback(m)
  <2>1. Recovery(m) = F \o <<Unmark>>
    BY <1>3 DEF Recovery
  <2>2. /\ Proper(F)
        /\ Coming(F) = {RemoveStaged(package), Restore(package)}
              \union {x \in {RemoveStaged(command), RemoveStaged(owner),
                            Restore(command), Restore(owner)} : m.entries}
    BY RollbackProgram
  <2> HIDE DEF F
  <2>3. \A a \in Coming(F) : a.op \notin {"unmark", "commit"}
    BY <2>2, OpFields
  <2>4. Proper(F \o <<Unmark>>) /\ Coming(F \o <<Unmark>>) = Coming(F) \union {Unmark}
    BY <2>2, <2>3, EndsProgram
  <2>5. Coming(F) \subseteq Staged \union Restores
    BY <2>2 DEF Staged, Restores
  <2>6. ASSUME NEW q \in Paths PROVE Returns(m, t, Coming(F) \union {Unmark}, q)
    <3>1. RemoveCurrent(q) \notin Coming(F) \union {Unmark}
      BY <2>2, OpFields
    <3>2. Restore(q) \in Coming(F) \union {Unmark} => Covers(m, q)
      BY <2>2, OpFields DEF Covers
    <3>3. CASE Covers(m, q)
      <4>1. Restore(q) \in Coming(F)
        BY <2>2, <3>3 DEF Covers, Paths
      <4> QED BY <4>1, <3>1, <3>2 DEF Returns
    <3>4. CASE ~ Covers(m, q)
      <4>1. Back(m, t, q)
        BY <3>4 DEF Back, Value, DiskOK
      <4> QED BY <4>1, <3>1, <3>2 DEF Returns
    <3> QED BY <3>3, <3>4
  <2> QED BY <1>3, <2>1, <2>4, <2>5, <2>6 DEF Clears
<1> QED BY <1>1, <1>2, <1>3 DEF Markers

(* Where nothing was marked, nothing has been promoted, and the catch      *)
(* block has nothing to take back.                                         *)
LEMMA UndoClears ==
    ASSUME NEW m \in Markers, NEW k \in Markers, NEW t \in Trees, NEW done, DiskOK(k, t),
           (k.phase = "none" /\ done = {}) \/ (k.phase = "prepared" /\ k = m),
           \A q \in Paths : Undoable(k, t, q, done)
    PROVE  Clears(k, t, Undo(m, done))
PROOF
<1> USE ThreePaths
<1> DEFINE U == Undo(m, done)
           X == {RemoveStaged(command), RemoveStaged(owner), PutBack(command), PutBack(owner)}
                           \union {y \in {RemoveCurrent(command)} : command \in done}
                           \union {y \in {RemoveCurrent(owner)} : owner \in done}
<1>1. /\ Proper(U)
      /\ Coming(U) = {RemoveStaged(package), PutBack(package), Unmark}
                       \union {y \in {RemoveCurrent(package)} : package \in done}
                       \union Coming(UndoCommands(m, done))
      /\ Coming(UndoCommands(m, done)) = {x \in X : m.entries}
  BY UndoProgram, UndoCommandsProgram
<1> HIDE DEF U
<1>2. CASE k.phase = "none"
  <2>1. Coming(U) \subseteq Staged \union PutBacks \union {Unmark}
    BY <1>1, <1>2 DEF Staged, PutBacks
  <2> QED BY <1>1, <1>2, <2>1 DEF Clears, U
<1>3. CASE k.phase = "prepared"
  <2>1. Coming(U) \subseteq Staged \union Currents \union PutBacks \union Restores \union {Unmark}
    BY <1>1 DEF Staged, PutBacks, Currents
  <2>2. ASSUME NEW q \in Paths PROVE Returns(k, t, Coming(U), q)
    <3>1. Restore(q) \notin Coming(U)
      BY <1>1, OpFields
    <3>2. RemoveCurrent(q) \in Coming(U) => q \in done /\ Covers(k, q)
      BY <1>1, <1>3, OpFields DEF Covers
    <3>3. Covers(k, q) => PutBack(q) \in Coming(U) /\ (q \in done => RemoveCurrent(q) \in Coming(U))
      BY <1>1, <1>3 DEF Covers, Paths
    <3>4. ~ Covers(k, q) => Back(k, t, q)
      BY DEF Back, Value, DiskOK
    <3> QED BY <3>1, <3>2, <3>3, <3>4 DEF Returns, Undoable
  <2> QED BY <1>1, <1>3, <2>1, <2>2 DEF Clears, U
<1> QED BY <1>2, <1>3

(* The catch block begins to take the commands back, when the package has  *)
(* been promoted.                                                          *)
LEMMA UndoCommandsTakesBack ==
    ASSUME NEW m \in Markers, NEW t \in Trees, NEW v, NEW done, DiskOK(m, t),
           m.phase = "prepared", package \in done,
           v \in Fragile => command \notin done,
           \A q \in Paths : Undoable(m, t, q, done)
    PROVE  TakesBack(m, t, UndoCommands(m, done), v, done)
PROOF
<1> USE ThreePaths
<1> DEFINE U == UndoCommands(m, done)
           X == {RemoveStaged(command), RemoveStaged(owner), PutBack(command), PutBack(owner)}
                           \union {y \in {RemoveCurrent(command)} : command \in done}
                           \union {y \in {RemoveCurrent(owner)} : owner \in done}
<1>1. /\ Proper(U) /\ Coming(U) = {x \in X : m.entries}
      /\ \A i \in DOMAIN U : U[i] = PutBack(owner) => i = Len(U)
  BY UndoCommandsProgram
<1> HIDE DEF U
<1>2. U # <<>> => PutBack(owner) \in Coming(U)
  <2>1. CASE m.entries
    BY <2>1, <1>1
  <2>2. CASE ~ m.entries
    <3>1. Coming(U) = {}
      BY <1>1, <2>2
    <3> QED BY <1>1, <3>1, ComingSome
  <2> QED BY <2>1, <2>2
<1>3. Coming(U) \subseteq Staged \union Currents \union PutBacks
  BY <1>1 DEF Staged, Currents, PutBacks
<1>4. \A o \in Coming(U) : o.path # package
  BY <1>1, OpFields
<1>5. ASSUME NEW q \in {command, owner}
      PROVE  /\ Returns(m, t, Coming(U), q)
             /\ RemoveCurrent(q) \in Coming(U) => q \in done
             /\ PutBack(q) \in Coming(U) => Undoable(m, t, q, done)
             /\ q \notin done => Back(m, t, q) \/ t["cur"][q] = None
  <2>1. q \in Paths
    OBVIOUS
  <2>2. Restore(q) \notin Coming(U)
    BY <1>1, <2>1, OpFields
  <2>3. RemoveCurrent(q) \in Coming(U) => q \in done /\ Covers(m, q)
    BY <1>1, <2>1, OpFields DEF Covers
  <2>4. Covers(m, q) => PutBack(q) \in Coming(U) /\ (q \in done => RemoveCurrent(q) \in Coming(U))
    BY <1>1, <1>5 DEF Covers
  <2>5. ~ Covers(m, q) => Back(m, t, q)
    BY <2>1 DEF Back, Value, DiskOK
  <2> QED BY <2>1, <2>2, <2>3, <2>4, <2>5 DEF Returns, Undoable
<1>6. MovedAside(m, t, package)
  BY DEF Undoable
<1> QED BY <1>1, <1>2, <1>3, <1>4, <1>5, <1>6 DEF TakesBack, U
-----------------------------------------------------------------------------
(* The file operations, from a marker m, a tree t and a program s to the    *)
(* next.                                                                    *)

(* From tree t to u: x is placed at q in area a, *)
Placed(t, u, a, q, x) ==
    \A b \in Areas, r \in Paths : u[b][r] = IF b = a /\ r = q THEN x ELSE t[b][r]

(* q is moved from one area to another, *)
Moved(t, u, from, to, q) ==
    \A b \in Areas, r \in Paths :
        u[b][r] = IF r # q \/ b \notin {from, to} THEN t[b][r] ELSE IF b = to THEN t[from][q] ELSE None

(* it is removed, or first only in part, *)
Removes(t, u, s, z, a, q) ==
    \/ Placed(t, u, a, q, None) /\ z = Tail(s)
    \/ t[a][q] # None /\ Placed(t, u, a, q, Torn) /\ z = s

(* it is put back, if it is aside and nothing is in its place, *)
PutsBack(t, u, q) ==
    IF t["cur"][q] = None /\ t["bak"][q] # None THEN Moved(t, u, "bak", "cur", q) ELSE u = t

(* it is the original, which was not moved, *)
Kept(m, t, q) == t["bak"][q] = None /\ q \in m.existed

(* and restorePath has done with it, or removes what is in the way, or     *)
(* puts it back.                                                           *)
RestoresPath(m, t, u, s, z, q) ==
    \/ /\ Kept(m, t, q) \/ (t["cur"][q] = None /\ t["bak"][q] = None)
       /\ z = Tail(s) /\ u = t
    \/ /\ ~ Kept(m, t, q)
       /\ Placed(t, u, "cur", q, None) \/ Placed(t, u, "cur", q, Torn)
       /\ z = s
    \/ t["cur"][q] = None /\ t["bak"][q] # None /\ Moved(t, u, "bak", "cur", q) /\ z = Tail(s)

(* The next operation of the program s, after which the marker is n, the   *)
(* tree u and the program z.                                               *)
Does(m, t, s, n, u, z) ==
    LET q == Head(s).path
        o == Head(s).op
    IN /\ s # <<>> /\ n \in Markers /\ u \in Trees
       /\ \/ o = "remove" /\ n = m /\ Removes(t, u, s, z, Head(s).area, q)
          \/ o = "aside" /\ n = m /\ Moved(t, u, "cur", "bak", q) /\ z = Tail(s)
          \/ o = "promote" /\ n = m /\ Moved(t, u, "stg", "cur", q) /\ z = Tail(s)
          \/ o = "putback" /\ n = m /\ PutsBack(t, u, q) /\ z = Tail(s)
          \/ o = "restore" /\ n = m /\ RestoresPath(m, t, u, s, z, q)
          \/ o = "commit" /\ n = [m EXCEPT !.phase = "committed"] /\ u = t /\ z = Tail(s)
          \/ o = "unmark" /\ n = NoMarker /\ u = t /\ z = Tail(s)

(* A path with nothing, or part of something, is no version. *)
LEMMA NothingThere == None # Torn /\ None \notin Targets /\ Torn \notin Targets
PROOF BY NothingAssumption

(* Only what is there now and what is moved aside decides what a path will *)
(* be.                                                                     *)
LEMMA Frame ==
    ASSUME NEW m, NEW t, NEW u, NEW q, u["cur"][q] = t["cur"][q], u["bak"][q] = t["bak"][q]
    PROVE  /\ Value(m, u, q) = Value(m, t, q)
           /\ Back(m, u, q) = Back(m, t, q)
           /\ MovedAside(m, u, q) = MovedAside(m, t, q)
PROOF BY DEF Value, Back, MovedAside

(* A step that leaves every path what it will be, and moves nothing aside, *)
(* keeps the disk in order.                                                *)
LEMMA DiskFrame ==
    ASSUME NEW m, NEW t, NEW u, DiskOK(m, t),
           \A q \in Paths : Value(m, u, q) = Value(m, t, q) /\ (t["bak"][q] = None => u["bak"][q] = None)
    PROVE  DiskOK(m, u)
PROOF BY DEF DiskOK

(* What a program still does to a path, when an operation has done nothing *)
(* to it.                                                                  *)
LEMMA ReturnsFrame ==
    ASSUME NEW m, NEW t, NEW u, NEW q, NEW C, NEW D, u["cur"][q] = t["cur"][q], u["bak"][q] = t["bak"][q],
           Returns(m, t, C, q),
           RemoveCurrent(q) \in C <=> RemoveCurrent(q) \in D,
           PutBack(q) \in C <=> PutBack(q) \in D,
           Restore(q) \in C <=> Restore(q) \in D
    PROVE  Returns(m, u, D, q)
PROOF BY Frame DEF Returns

(* A staged file is removed. *)
LEMMA StagedStep ==
    ASSUME NEW m \in Markers, NEW t \in Trees, NEW s, NEW u \in Trees, NEW z, DiskOK(m, t), Clears(m, t, s),
           NEW q \in Paths, s # <<>>, Head(s) = RemoveStaged(q), Removes(t, u, s, z, "stg", q)
    PROVE  /\ DiskOK(m, u) /\ Clears(m, u, z)
           /\ \A r \in Paths : Value(m, u, r) = Value(m, t, r)
PROOF
<1>1. /\ Proper(Tail(s)) /\ Proper(s)
      /\ Coming(s) = {Head(s)} \union Coming(Tail(s))
  BY ComingTail DEF Clears
<1>2. \A r \in Paths : u["cur"][r] = t["cur"][r] /\ u["bak"][r] = t["bak"][r]
  BY DEF Removes, Placed, Areas
<1>3. \A r \in Paths : Value(m, u, r) = Value(m, t, r)
  BY <1>2, Frame
<1>4. DiskOK(m, u)
  BY <1>2, <1>3, DiskFrame
<1>5. z \in {s, Tail(s)}
  BY DEF Removes
<1>6. /\ Proper(z) /\ Coming(z) \subseteq Coming(s)
      /\ \A o \in Coming(s) : o # Head(s) => o \in Coming(z)
  BY <1>1, <1>5
<1>7. /\ Unmark # Head(s)
      /\ \A r \in Paths : RemoveCurrent(r) # Head(s) /\ PutBack(r) # Head(s) /\ Restore(r) # Head(s)
                          /\ RemoveBackup(r) # Head(s)
  BY OpFields
<1>8. m.phase = "prepared" => \A r \in Paths : Returns(m, u, Coming(z), r)
  <2>1. SUFFICES ASSUME m.phase = "prepared", NEW r \in Paths PROVE Returns(m, u, Coming(z), r)
    OBVIOUS
  <2>2. Returns(m, t, Coming(s), r)
    BY <2>1 DEF Clears
  <2>3. /\ RemoveCurrent(r) \in Coming(s) <=> RemoveCurrent(r) \in Coming(z)
        /\ PutBack(r) \in Coming(s) <=> PutBack(r) \in Coming(z)
        /\ Restore(r) \in Coming(s) <=> Restore(r) \in Coming(z)
    BY <1>6, <1>7
  <2> QED BY <1>2, <2>2, <2>3, ReturnsFrame
<1>9. Clears(m, u, z)
  BY <1>2, <1>6, <1>7, <1>8 DEF Clears
<1> QED BY <1>3, <1>4, <1>9

(* From C to D only the operation o may have been dropped. *)
Drops(C, D, o) == D \subseteq C /\ \A x \in C : x # o => x \in D

(* What is still to be done about a path stays to be done when something   *)
(* is done about another.                                                  *)
LEMMA ReturnsOther ==
    ASSUME NEW m, NEW t, NEW u, NEW C, NEW D, NEW q \in Paths, NEW r \in Paths, r # q,
           NEW o, Drops(C, D, o), o.path = q,
           u["cur"][r] = t["cur"][r], u["bak"][r] = t["bak"][r], Returns(m, t, C, r)
    PROVE  Returns(m, u, D, r)
PROOF
<1>1. /\ RemoveCurrent(r) \in C <=> RemoveCurrent(r) \in D
      /\ PutBack(r) \in C <=> PutBack(r) \in D
      /\ Restore(r) \in C <=> Restore(r) \in D
  BY OpFields DEF Drops
<1> QED BY <1>1, ReturnsFrame

(* From tree t to u no path loses what it will be, nor what is aside, and *)
(* only q changes.                                                        *)
Touches(m, t, u, q) ==
    \A r \in Paths : /\ Value(m, u, r) = Value(m, t, r) /\ u["bak"][r] = t["bak"][r]
                     /\ r # q => u["cur"][r] = t["cur"][r]

(* What has been promoted is removed. *)
LEMMA CurrentStep ==
    ASSUME NEW m, NEW t, NEW u, DiskOK(m, t), m.phase = "prepared", NEW q \in Paths,
           NEW C, NEW D, Returns(m, t, C, q), RemoveCurrent(q) \in C, Drops(C, D, RemoveCurrent(q)),
           \/ Placed(t, u, "cur", q, None)
           \/ Placed(t, u, "cur", q, Torn) /\ RemoveCurrent(q) \in D
    PROVE  DiskOK(m, u) /\ Returns(m, u, D, q) /\ Touches(m, t, u, q)
PROOF
<1>1. /\ \A r \in Paths : u["bak"][r] = t["bak"][r] /\ (r # q => u["cur"][r] = t["cur"][r])
      /\ u["cur"][q] = None \/ RemoveCurrent(q) \in D
  BY DEF Placed, Areas
<1>2. MovedAside(m, t, q) /\ PutBack(q) \in C
  BY DEF Returns
<1>3. Value(m, u, q) = Value(m, t, q) /\ MovedAside(m, u, q)
  BY <1>1, <1>2 DEF Value, MovedAside
<1>4. \A r \in Paths : Value(m, u, r) = Value(m, t, r)
  BY <1>1, <1>3, Frame
<1>5. DiskOK(m, u)
  BY <1>1, <1>4, DiskFrame
<1>6. PutBack(q) # RemoveCurrent(q) /\ Restore(q) # RemoveCurrent(q)
  BY OpFields
<1>7. Returns(m, u, D, q)
  BY <1>1, <1>2, <1>3, <1>6 DEF Returns, Drops
<1> QED BY <1>1, <1>4, <1>5, <1>7 DEF Touches

(* What was moved aside is put back. *)
LEMMA PutBackStep ==
    ASSUME NEW m, NEW t, NEW u, DiskOK(m, t), m.phase = "prepared", NEW q \in Paths,
           NEW C, NEW D, Returns(m, t, C, q), Drops(C, D, PutBack(q)),
           RemoveCurrent(q) \notin D, PutsBack(t, u, q)
    PROVE  /\ DiskOK(m, u) /\ Returns(m, u, D, q)
           /\ Restore(q) \in D \/ Back(m, u, q)
           /\ \A r \in Paths : Value(m, u, r) = Value(m, t, r)
                                /\ (r # q => u["cur"][r] = t["cur"][r] /\ u["bak"][r] = t["bak"][r])
PROOF
<1>1. /\ \A r \in Paths : r # q => u["cur"][r] = t["cur"][r] /\ u["bak"][r] = t["bak"][r]
      /\ \/ t["cur"][q] = None /\ t["bak"][q] # None /\ u["cur"][q] = t["bak"][q] /\ u["bak"][q] = None
         \/ ~ (t["cur"][q] = None /\ t["bak"][q] # None) /\ u["cur"][q] = t["cur"][q] /\ u["bak"][q] = t["bak"][q]
  BY DEF PutsBack, Moved, Areas
<1>2. RemoveCurrent(q) # PutBack(q) /\ Restore(q) # PutBack(q)
  BY OpFields
<1>3. RemoveCurrent(q) \notin C
  BY <1>2 DEF Drops
<1>4. Value(m, u, q) = Value(m, t, q)
  BY <1>1 DEF Value, DiskOK
<1>5. \A r \in Paths : Value(m, u, r) = Value(m, t, r)
  BY <1>1, <1>4, Frame
<1>6. DiskOK(m, u)
  BY <1>1, <1>5, DiskFrame
<1>7. Restore(q) \in D \/ Back(m, u, q)
  <2>1. Back(m, t, q) \/ Restore(q) \in D \/ t["cur"][q] = None
    BY <1>2, <1>3 DEF Returns, Drops
  <2>2. Back(m, t, q) => Back(m, u, q)
    BY <1>1, <1>4 DEF Back
  <2>3. t["cur"][q] = None /\ t["bak"][q] = None => Back(m, u, q)
    BY <1>1 DEF Back, Value
  <2>4. t["cur"][q] = None /\ t["bak"][q] # None => Back(m, u, q)
    BY <1>1, <1>4 DEF Back, Value, DiskOK
  <2> QED BY <2>1, <2>2, <2>3, <2>4
<1>8. Returns(m, u, D, q)
  BY <1>2, <1>3, <1>7 DEF Returns, Drops
<1> QED BY <1>1, <1>5, <1>6, <1>7, <1>8

(* restorePath. *)
LEMMA RestoreStep ==
    ASSUME NEW m \in Markers, NEW t \in Trees, NEW s, NEW u \in Trees, NEW z, DiskOK(m, t), Clears(m, t, s),
           m.phase = "prepared", NEW q \in Paths, s # <<>>, Head(s) = Restore(q), RestoresPath(m, t, u, s, z, q)
    PROVE  /\ DiskOK(m, u) /\ Clears(m, u, z)
           /\ \A r \in Paths : Value(m, u, r) = Value(m, t, r)
PROOF
<1>1. /\ Proper(Tail(s)) /\ Proper(s)
      /\ Coming(s) = {Head(s)} \union Coming(Tail(s))
      /\ \A b \in Coming(Tail(s)) : ~ Clash(Head(s), b)
  BY ComingTail DEF Clears
<1>2. /\ Restore(q) \in Coming(s)
      /\ \A r \in Paths : Returns(m, t, Coming(s), r)
  BY <1>1 DEF Clears
<1>3. Covers(m, q)
  BY <1>2 DEF Returns
<1>4. /\ \A r \in Paths : r # q => u["cur"][r] = t["cur"][r] /\ u["bak"][r] = t["bak"][r]
      /\ t["bak"][q] = None => u["bak"][q] = None
  BY DEF RestoresPath, Moved, Placed, Areas
<1>5. Value(m, u, q) = Value(m, t, q) /\ (z = Tail(s) \/ z = s) /\ (z # s => Back(m, u, q))
  <2>1. CASE (Kept(m, t, q) \/ (t["cur"][q] = None /\ t["bak"][q] = None)) /\ z = Tail(s) /\ u = t
    BY <2>1 DEF Kept, Back, Value
  <2>2. CASE ~ Kept(m, t, q) /\ (Placed(t, u, "cur", q, None) \/ Placed(t, u, "cur", q, Torn)) /\ z = s
    <3>1. u["bak"][q] = t["bak"][q]
      BY <2>2 DEF Placed, Areas
    <3> QED BY <2>2, <3>1, <1>3 DEF Kept, Value
  <2>3. CASE t["cur"][q] = None /\ t["bak"][q] # None /\ Moved(t, u, "bak", "cur", q) /\ z = Tail(s)
    <3>1. u["cur"][q] = t["bak"][q] /\ u["bak"][q] = None
      BY <2>3 DEF Moved, Areas
    <3>2. q \in m.existed
      BY <2>3 DEF DiskOK
    <3> QED BY <2>3, <3>1, <3>2, <1>3 DEF Back, Value
  <2> QED BY <2>1, <2>2, <2>3 DEF RestoresPath
<1>6. \A r \in Paths : Value(m, u, r) = Value(m, t, r)
  BY <1>4, <1>5, Frame
<1>7. DiskOK(m, u)
  BY <1>4, <1>6, DiskFrame
<1>8. /\ Unmark # Head(s)
      /\ \A r \in Paths : /\ RemoveCurrent(r) # Head(s) /\ PutBack(r) # Head(s)
                          /\ r # q => Restore(r) # Head(s)
  BY OpFields
<1>9. RemoveCurrent(q) \notin Coming(s)
  BY <1>1, <1>8, OpFields DEF Clash
<1>10. Proper(z) /\ Coming(z) \subseteq Coming(s) /\ (\A o \in Coming(s) : o # Head(s) => o \in Coming(z))
  BY <1>1, <1>5
<1>11. Returns(m, u, Coming(z), q)
  BY <1>2, <1>3, <1>5, <1>9, <1>10 DEF Returns
<1>12. ASSUME NEW r \in Paths, r # q PROVE Returns(m, u, Coming(z), r)
  <2>1. /\ RemoveCurrent(r) \in Coming(s) <=> RemoveCurrent(r) \in Coming(z)
        /\ PutBack(r) \in Coming(s) <=> PutBack(r) \in Coming(z)
        /\ Restore(r) \in Coming(s) <=> Restore(r) \in Coming(z)
    BY <1>8, <1>10, <1>12
  <2> QED BY <1>2, <1>4, <1>12, <2>1, ReturnsFrame
<1>13. Clears(m, u, z)
  BY <1>8, <1>10, <1>11, <1>12 DEF Clears
<1> QED BY <1>6, <1>7, <1>13

(* What a committed transaction moved aside is removed. *)
LEMMA BackupStep ==
    ASSUME NEW m \in Markers, NEW t \in Trees, NEW s, NEW u \in Trees, NEW z, DiskOK(m, t), Clears(m, t, s),
           m.phase = "committed", NEW q \in Paths, s # <<>>, Head(s) = RemoveBackup(q), Removes(t, u, s, z, "bak", q)
    PROVE  /\ DiskOK(m, u) /\ Clears(m, u, z)
           /\ \A r \in Paths : Value(m, u, r) = Value(m, t, r)
PROOF
<1>1. /\ Proper(Tail(s)) /\ Proper(s)
      /\ Coming(s) = {Head(s)} \union Coming(Tail(s))
  BY ComingTail DEF Clears
<1>2. /\ \A r \in Paths : u["cur"][r] = t["cur"][r] /\ (r # q => u["bak"][r] = t["bak"][r])
      /\ (u["bak"][q] = None /\ z = Tail(s)) \/ z = s
  BY DEF Removes, Placed, Areas
<1>3. \A r \in Paths : Value(m, u, r) = Value(m, t, r)
  BY <1>2 DEF Value
<1>4. \A r \in Paths : RemoveBackup(r) \in Coming(s) \/ t["bak"][r] = None
  BY DEF Clears
<1>5. DiskOK(m, u)
  <2>1. \A r \in Paths : t["bak"][r] = None => u["bak"][r] = None
    BY NothingThere DEF Removes, Placed, Areas
  <2> QED BY <2>1, <1>3, DiskFrame
<1>6. /\ Unmark # Head(s)
      /\ \A r \in Paths : r # q => RemoveBackup(r) # Head(s)
  BY OpFields
<1>7. Proper(z) /\ Coming(z) \subseteq Coming(s) /\ (\A o \in Coming(s) : o # Head(s) => o \in Coming(z))
  BY <1>1, <1>2
<1>8. \A r \in Paths : u["bak"][r] = None \/ RemoveBackup(r) \in Coming(z)
  BY <1>1, <1>2, <1>4, <1>6
<1>9. Clears(m, u, z)
  BY <1>6, <1>7, <1>8 DEF Clears
<1> QED BY <1>3, <1>5, <1>9

(* The marker is deleted: nothing is left of what it described.            *)
LEMMA UnmarkStep ==
    ASSUME NEW m \in Markers, NEW t \in Trees, NEW s, DiskOK(m, t), Clears(m, t, s), s # <<>>, Head(s) = Unmark
    PROVE  /\ DiskOK(NoMarker, t) /\ Clears(NoMarker, t, Tail(s))
           /\ \A r \in Paths : Value(NoMarker, t, r) = Value(m, t, r)
PROOF
<1>1. /\ Proper(Tail(s))
      /\ Coming(s) = {Head(s)} \union Coming(Tail(s))
      /\ \A b \in Coming(Tail(s)) : ~ Clash(Head(s), b)
  BY ComingTail DEF Clears
<1>2. Coming(Tail(s)) = {}
  BY <1>1, OpFields DEF Clash
<1>3. NoMarker.phase = "none"
  BY DEF NoMarker
<1>4. \A r \in Paths : t["bak"][r] = None /\ Value(m, t, r) = t["cur"][r]
  <2> TAKE r \in Paths
  <2>1. Coming(s) = {Unmark}
    BY <1>1, <1>2
  <2>2. CASE m.phase = "none"
    BY <2>2 DEF DiskOK, Value
  <2>3. CASE m.phase = "committed"
    <3>1. RemoveBackup(r) \notin Coming(s)
      BY <2>1, OpFields
    <3> QED BY <2>3, <3>1 DEF Clears, Value
  <2>4. CASE m.phase = "prepared"
    <3>1. PutBack(r) \notin Coming(s) /\ Restore(r) \notin Coming(s)
      BY <2>1, OpFields
    <3>2. Returns(m, t, Coming(s), r)
      BY <2>4 DEF Clears
    <3> QED BY <3>1, <3>2 DEF Returns, Back
  <2> QED BY <2>2, <2>3, <2>4 DEF Markers
<1>5. \A r \in Paths : Value(NoMarker, t, r) = Value(m, t, r)
  BY <1>3, <1>4 DEF Value
<1>6. DiskOK(NoMarker, t)
  BY <1>4, <1>5 DEF DiskOK
<1>7. Clears(NoMarker, t, Tail(s))
  BY <1>1, <1>2, <1>3 DEF Clears
<1> QED BY <1>5, <1>6, <1>7

(* Every operation of a program that ends what is marked leaves each path  *)
(* what it will be, and the rest of the program still ends it.             *)
LEMMA ClearsStep ==
    ASSUME NEW m \in Markers, NEW t \in Trees, NEW s, NEW n, NEW u, NEW z,
           DiskOK(m, t), Clears(m, t, s), Does(m, t, s, n, u, z)
    PROVE  /\ DiskOK(n, u) /\ Clears(n, u, z)
           /\ \A r \in Paths : Value(n, u, r) = Value(m, t, r)
           /\ n.phase \in {m.phase, "none"}
PROOF
<1>0. s # <<>> /\ n \in Markers /\ u \in Trees
  BY DEF Does
<1>1. /\ Proper(Tail(s)) /\ Proper(s)
      /\ Coming(s) = {Head(s)} \union Coming(Tail(s))
      /\ \A b \in Coming(Tail(s)) : ~ Clash(Head(s), b)
  BY <1>0, ComingTail DEF Clears
<1>2. Head(s) \in Coming(s)
  BY <1>1
<1>3. ASSUME NEW q \in Paths, Head(s) = RemoveStaged(q)
      PROVE  n = m /\ Removes(t, u, s, z, "stg", q)
  BY <1>3, OpFields DEF Does
<1>4. ASSUME Head(s) = Unmark
      PROVE  n = NoMarker /\ u = t /\ z = Tail(s)
  BY <1>4, OpFields DEF Does
<1>5. ASSUME NEW q \in Paths, Head(s) = PutBack(q)
      PROVE  n = m /\ PutsBack(t, u, q) /\ z = Tail(s)
  BY <1>5, OpFields DEF Does
<1>6. CASE \E q \in Paths : Head(s) = RemoveStaged(q)
  <2>1. PICK q \in Paths : Head(s) = RemoveStaged(q)
    BY <1>6
  <2>2. n = m /\ Removes(t, u, s, z, "stg", q)
    BY <1>3, <2>1
  <2> QED BY <1>0, <2>1, <2>2, StagedStep
<1>7. CASE Head(s) = Unmark
  <2>1. n = NoMarker /\ u = t /\ z = Tail(s) /\ NoMarker.phase = "none"
    BY <1>4, <1>7 DEF NoMarker
  <2> QED BY <1>0, <1>7, <2>1, UnmarkStep
<1>8. CASE m.phase = "none" /\ \E q \in Paths : Head(s) = PutBack(q)
  <2>1. PICK q \in Paths : Head(s) = PutBack(q)
    BY <1>8
  <2>2. n = m /\ PutsBack(t, u, q) /\ z = Tail(s)
    BY <1>5, <2>1
  <2>3. u = t
    BY <1>8, <2>2 DEF PutsBack, DiskOK
  <2>4. Coming(z) \subseteq Coming(s)
    BY <1>1, <2>2
  <2> QED BY <1>1, <1>8, <2>2, <2>3, <2>4 DEF Clears
<1>9. CASE m.phase = "committed" /\ \E q \in Paths : Head(s) = RemoveBackup(q)
  <2>1. PICK q \in Paths : Head(s) = RemoveBackup(q)
    BY <1>9
  <2>2. n = m /\ Removes(t, u, s, z, "bak", q)
    BY <2>1, OpFields DEF Does
  <2> QED BY <1>0, <1>9, <2>1, <2>2, BackupStep
<1>10. CASE m.phase = "prepared" /\ \E q \in Paths : Head(s) = Restore(q)
  <2>1. PICK q \in Paths : Head(s) = Restore(q)
    BY <1>10
  <2>2. n = m /\ RestoresPath(m, t, u, s, z, q)
    BY <2>1, OpFields DEF Does
  <2> QED BY <1>0, <1>10, <2>1, <2>2, RestoreStep
<1>11. CASE m.phase = "prepared" /\ \E q \in Paths : Head(s) = RemoveCurrent(q)
  <2>1. PICK q \in Paths : Head(s) = RemoveCurrent(q)
    BY <1>11
  <2>2. n = m /\ Removes(t, u, s, z, "cur", q)
    BY <2>1, OpFields DEF Does
  <2>3. /\ Proper(z) /\ Coming(z) \subseteq Coming(s) /\ Drops(Coming(s), Coming(z), RemoveCurrent(q))
        /\ \/ Placed(t, u, "cur", q, None)
           \/ Placed(t, u, "cur", q, Torn) /\ RemoveCurrent(q) \in Coming(z)
    BY <1>1, <2>1, <2>2 DEF Removes, Drops
  <2>4. \A r \in Paths : Returns(m, t, Coming(s), r)
    BY <1>11 DEF Clears
  <2>5. RemoveCurrent(q) \in Coming(s) /\ Returns(m, t, Coming(s), q)
    BY <1>2, <2>1, <2>4
  <2>6. /\ DiskOK(m, u) /\ Returns(m, u, Coming(z), q)
        /\ \A r \in Paths : Value(m, u, r) = Value(m, t, r) /\ u["bak"][r] = t["bak"][r]
                             /\ (r # q => u["cur"][r] = t["cur"][r])
    <3>1. PICK C, D : C = Coming(s) /\ D = Coming(z)
      OBVIOUS
    <3>2. /\ RemoveCurrent(q) \in C /\ Returns(m, t, C, q) /\ Drops(C, D, RemoveCurrent(q))
          /\ \/ Placed(t, u, "cur", q, None)
             \/ Placed(t, u, "cur", q, Torn) /\ RemoveCurrent(q) \in D
      BY <2>3, <2>5, <3>1
    <3>3. /\ DiskOK(m, u) /\ Returns(m, u, D, q)
          /\ \A r \in Paths : Value(m, u, r) = Value(m, t, r) /\ u["bak"][r] = t["bak"][r]
                               /\ (r # q => u["cur"][r] = t["cur"][r])
      <4>1. DiskOK(m, u) /\ Returns(m, u, D, q) /\ Touches(m, t, u, q)
        BY <1>11, <3>2, CurrentStep
      <4> QED BY <4>1 DEF Touches
    <3> QED BY <3>1, <3>3
  <2>7. RemoveCurrent(q).path = q
    BY OpFields
  <2>8. \A r \in Paths : r # q => Returns(m, u, Coming(z), r)
    BY <2>3, <2>4, <2>6, <2>7, ReturnsOther
  <2>9. Unmark # RemoveCurrent(q)
    BY OpFields
  <2> QED BY <1>11, <2>2, <2>3, <2>6, <2>8, <2>9 DEF Clears, Drops
<1>12. CASE m.phase = "prepared" /\ \E q \in Paths : Head(s) = PutBack(q)
  <2>1. PICK q \in Paths : Head(s) = PutBack(q)
    BY <1>12
  <2>2. n = m /\ PutsBack(t, u, q) /\ z = Tail(s)
    BY <1>5, <2>1
  <2>3. RemoveCurrent(q) \notin Coming(z)
    BY <1>1, <2>1, <2>2, OpFields DEF Clash
  <2>4. \A r \in Paths : Returns(m, t, Coming(s), r)
    BY <1>12 DEF Clears
  <2>5. Drops(Coming(s), Coming(z), PutBack(q))
    BY <1>1, <2>1, <2>2 DEF Drops
  <2>6. /\ DiskOK(m, u) /\ Returns(m, u, Coming(z), q)
        /\ \A r \in Paths : Value(m, u, r) = Value(m, t, r)
                             /\ (r # q => u["cur"][r] = t["cur"][r] /\ u["bak"][r] = t["bak"][r])
    <3>1. PICK C, D : C = Coming(s) /\ D = Coming(z)
      OBVIOUS
    <3>2. RemoveCurrent(q) \notin D /\ Returns(m, t, C, q) /\ Drops(C, D, PutBack(q)) /\ PutsBack(t, u, q)
      BY <2>2, <2>3, <2>4, <2>5, <3>1
    <3>3. /\ DiskOK(m, u) /\ Returns(m, u, D, q)
          /\ \A r \in Paths : Value(m, u, r) = Value(m, t, r)
                               /\ (r # q => u["cur"][r] = t["cur"][r] /\ u["bak"][r] = t["bak"][r])
      BY <1>12, <3>2, PutBackStep
    <3> QED BY <3>1, <3>3
  <2>7. Unmark # PutBack(q) /\ PutBack(q).path = q
    BY OpFields
  <2>8. \A r \in Paths : r # q => Returns(m, u, Coming(z), r)
    BY <2>4, <2>5, <2>6, <2>7, ReturnsOther
  <2>9. Unmark \in Coming(z) /\ Proper(z)
    BY <1>1, <1>12, <2>2, <2>5, <2>7 DEF Clears, Drops
  <2>10. Coming(z) \subseteq Staged \union Currents \union PutBacks \union Restores \union {Unmark}
    BY <1>12, <2>5 DEF Clears, Drops
  <2> QED BY <1>12, <2>2, <2>6, <2>8, <2>9, <2>10 DEF Clears
<1>13. m.phase \in {"none", "prepared", "committed"}
  BY DEF Markers
<1>14. CASE m.phase = "none"
  BY <1>2, <1>6, <1>7, <1>8, <1>14 DEF Clears, Staged, PutBacks
<1>15. CASE m.phase = "committed"
  BY <1>2, <1>6, <1>7, <1>9, <1>15 DEF Clears, Staged, Backups
<1>16. CASE m.phase = "prepared"
  BY <1>2, <1>6, <1>7, <1>10, <1>11, <1>12, <1>16 DEF Clears, Staged, Currents, PutBacks, Restores
<1> QED BY <1>13, <1>14, <1>15, <1>16
-----------------------------------------------------------------------------
(* The moves of an installation. *)

(* How far the moves have come with a path stays so when another is moved. *)
LEMMA MovingOther ==
    ASSUME NEW m, NEW t, NEW u, NEW C, NEW D, NEW v, NEW done, NEW q \in Paths, NEW r \in Paths, r # q,
           NEW o, Drops(C, D, o), o.path = q, NEW left, r \in left <=> r \in done,
           u["cur"][r] = t["cur"][r], u["bak"][r] = t["bak"][r], u["stg"][r] = t["stg"][r],
           Moving(m, t, C, v, done, r)
    PROVE  Moving(m, u, D, v, left, r)
PROOF
<1>1. /\ Aside(r) \in C <=> Aside(r) \in D
      /\ Promote(r) \in C <=> Promote(r) \in D
  BY OpFields DEF Drops
<1> QED BY <1>1, Frame DEF Moving

(* A path is moved aside. *)
LEMMA AsideStep ==
    ASSUME NEW m, NEW t, NEW u, NEW v, NEW done, DiskOK(m, t), m.phase = "prepared", NEW q \in Paths,
           NEW C, NEW D, Moving(m, t, C, v, done, q), Drops(C, D, Aside(q)), Aside(q) \in C, Aside(q) \notin D,
           Moved(t, u, "cur", "bak", q)
    PROVE  /\ DiskOK(m, u) /\ Moving(m, u, D, v, done, q)
           /\ \A r \in Paths : Value(m, u, r) = Value(m, t, r)
PROOF
<1>1. /\ \A r \in Paths : r # q => u["cur"][r] = t["cur"][r] /\ u["bak"][r] = t["bak"][r]
      /\ u["cur"][q] = None /\ u["bak"][q] = t["cur"][q] /\ u["stg"][q] = t["stg"][q]
  BY DEF Moved, Areas
<1>2. /\ Covers(m, q) /\ q \notin done /\ t["bak"][q] = None
      /\ q \in m.existed <=> t["cur"][q] # None
      /\ Promote(q) \in C <=> q \in Parts[v]
  BY DEF Moving
<1>3. Value(m, u, q) = Value(m, t, q)
  BY <1>1, <1>2 DEF Value
<1>4. \A r \in Paths : Value(m, u, r) = Value(m, t, r)
  BY <1>1, <1>3, Frame
<1>5. DiskOK(m, u)
  BY <1>1, <1>2, <1>4 DEF DiskOK
<1>6. Promote(q) \in C <=> Promote(q) \in D
  BY OpFields DEF Drops
<1>7. Moving(m, u, D, v, done, q)
  BY <1>1, <1>2, <1>6 DEF Moving, MovedAside, Part
<1> QED BY <1>4, <1>5, <1>7

(* What is staged is promoted. *)
LEMMA PromoteStep ==
    ASSUME NEW m, NEW t, NEW u, NEW v, NEW done, DiskOK(m, t), m.phase = "prepared", NEW q \in Paths,
           NEW C, NEW D, Moving(m, t, C, v, done, q), Promote(q) \in C,
           Aside(q) \notin C, Aside(q) \notin D, Promote(q) \notin D,
           Moved(t, u, "stg", "cur", q)
    PROVE  /\ DiskOK(m, u) /\ Moving(m, u, D, v, done \union {q}, q)
           /\ \A r \in Paths : Value(m, u, r) = Value(m, t, r)
PROOF
<1>1. /\ \A r \in Paths : u["bak"][r] = t["bak"][r] /\ (r # q => u["cur"][r] = t["cur"][r])
      /\ u["cur"][q] = t["stg"][q]
  BY DEF Moved, Areas
<1>2. MovedAside(m, t, q) /\ t["stg"][q] = v /\ q \in Parts[v] /\ Covers(m, q)
  BY DEF Moving
<1>3. Value(m, u, q) = Value(m, t, q) /\ MovedAside(m, u, q)
  BY <1>1, <1>2 DEF Value, MovedAside
<1>4. \A r \in Paths : Value(m, u, r) = Value(m, t, r)
  BY <1>1, <1>3, Frame
<1>5. DiskOK(m, u)
  BY <1>1, <1>4, DiskFrame
<1>6. Moving(m, u, D, v, done \union {q}, q)
  BY <1>1, <1>2, <1>3 DEF Moving, Part
<1> QED BY <1>4, <1>5, <1>6

(* The marker says committed: the version is installed, whole, in one      *)
(* step.                                                                   *)
LEMMA CommitStep ==
    ASSUME NEW m \in Markers, NEW t, NEW v \in Targets, NEW done, DiskOK(m, t), m.phase = "prepared", NEW C,
           \A q \in Paths : Moving(m, t, C, v, done, q), C = {Commit},
           NEW n, n = [m EXCEPT !.phase = "committed"]
    PROVE  DiskOK(n, t) /\ \A r \in Paths : Value(n, t, r) = Part(v, r)
PROOF
<1>1. n.phase = "committed" /\ n.entries = m.entries
  BY DEF Markers
<1>2. \A r \in Paths : t["cur"][r] = Part(v, r)
  <2> TAKE r \in Paths
  <2>1. Aside(r) \notin C /\ Promote(r) \notin C
    BY OpFields
  <2> QED BY <2>1 DEF Moving
<1>3. \A r \in Paths : Value(n, t, r) = Part(v, r)
  BY <1>1, <1>2 DEF Value
<1>4. DiskOK(n, t)
  BY <1>1, <1>3 DEF DiskOK, Covers
<1> QED BY <1>3, <1>4

(* What p knows to be promoted after the operation o. *)
Knows(done, o) == IF o.op = "promote" THEN done \union {o.path} ELSE done

(* Every move before the commit leaves each path what it would be; the     *)
(* commit makes it the version, and is the last.                           *)
LEMMA InstallsStep ==
    ASSUME NEW m \in Markers, NEW t \in Trees, NEW s, NEW n, NEW u, NEW z, NEW v \in Targets, NEW done,
           DiskOK(m, t), Installs(m, t, s, v, done), Does(m, t, s, n, u, z)
    PROVE  /\ DiskOK(n, u) /\ Installs(n, u, z, v, Knows(done, Head(s)))
           /\ Head(s) = Commit => z = <<>> /\ \A r \in Paths : Value(n, u, r) = Part(v, r)
           /\ Head(s) # Commit => z # <<>> /\ \A r \in Paths : Value(n, u, r) = Value(m, t, r)
PROOF
<1>0. s # <<>> /\ n \in Markers /\ u \in Trees
  BY DEF Does
<1>1. /\ Proper(Tail(s)) /\ Proper(s)
      /\ Coming(s) = {Head(s)} \union Coming(Tail(s))
      /\ \A b \in Coming(Tail(s)) : ~ Clash(Head(s), b)
  BY <1>0, ComingTail DEF Installs
<1>2. /\ m.phase = "prepared" /\ Commit \in Coming(s)
      /\ Coming(s) \subseteq Asides \union Promotes \union {Commit}
      /\ \A q \in Paths : Moving(m, t, Coming(s), v, done, q)
  BY <1>0 DEF Installs
<1>3. PICK C, D : C = Coming(s) /\ D = Coming(Tail(s))
  OBVIOUS
<1>4. /\ Head(s) \in C /\ D \subseteq C /\ Drops(C, D, Head(s))
  BY <1>1, <1>3 DEF Drops
<1>5. \A q \in Paths : Moving(m, t, C, v, done, q)
  BY <1>2, <1>3
<1>6. ASSUME n = m, z = Tail(s), Head(s) # Commit, \A q \in Paths : Moving(m, u, D, v, Knows(done, Head(s)), q)
      PROVE  Installs(n, u, z, v, Knows(done, Head(s))) /\ z # <<>>
  <2>1. Commit \in D
    BY <1>1, <1>2, <1>3, <1>6
  <2>2. z # <<>>
    BY <2>1, <1>3, <1>6, ComingEmpty
  <2>3. D \subseteq Asides \union Promotes \union {Commit}
    BY <1>2, <1>3, <1>4
  <2> QED BY <1>1, <1>2, <1>3, <1>6, <2>1, <2>2, <2>3 DEF Installs
<1>7. CASE \E q \in Paths : Head(s) = Aside(q)
  <2>1. PICK q \in Paths : Head(s) = Aside(q)
    BY <1>7
  <2>2. n = m /\ Moved(t, u, "cur", "bak", q) /\ z = Tail(s) /\ Head(s) # Commit
        /\ Aside(q).path = q /\ Knows(done, Head(s)) = done
    BY <2>1, OpFields DEF Does, Knows
  <2>3. Aside(q) \notin D
    BY <1>1, <1>3, <2>1, OpFields DEF Clash
  <2>4. /\ DiskOK(m, u) /\ Moving(m, u, D, v, done, q)
        /\ \A r \in Paths : Value(m, u, r) = Value(m, t, r)
    <3>1. /\ Moving(m, t, C, v, done, q) /\ Drops(C, D, Aside(q)) /\ Aside(q) \in C
          /\ Moved(t, u, "cur", "bak", q)
      BY <1>4, <1>5, <2>1, <2>2
    <3> QED BY <1>2, <2>3, <3>1, AsideStep
  <2>5. ASSUME NEW r \in Paths, r # q PROVE Moving(m, u, D, v, done, r)
    <3>1. u["cur"][r] = t["cur"][r] /\ u["bak"][r] = t["bak"][r] /\ u["stg"][r] = t["stg"][r]
      BY <2>2, <2>5 DEF Moved, Areas
    <3>2. Moving(m, t, C, v, done, r) /\ Drops(C, D, Aside(q)) /\ (r \in done <=> r \in done)
      BY <1>4, <1>5, <2>1
    <3> QED BY <3>1, <3>2, <2>2, <2>5, MovingOther
  <2> QED BY <1>6, <2>2, <2>4, <2>5
<1>8. CASE \E q \in Paths : Head(s) = Promote(q)
  <2>1. PICK q \in Paths : Head(s) = Promote(q)
    BY <1>8
  <2>2. n = m /\ Moved(t, u, "stg", "cur", q) /\ z = Tail(s) /\ Head(s) # Commit
        /\ Promote(q).path = q /\ Knows(done, Head(s)) = done \union {q}
    BY <2>1, OpFields DEF Does, Knows
  <2>3. Aside(q) \notin D /\ Promote(q) \notin D
    BY <1>1, <1>3, <2>1, OpFields DEF Clash
  <2>4. Aside(q) \notin C
    BY <1>4, <2>1, <2>3, OpFields DEF Drops
  <2>5. /\ DiskOK(m, u) /\ Moving(m, u, D, v, done \union {q}, q)
        /\ \A r \in Paths : Value(m, u, r) = Value(m, t, r)
    <3>1. Moving(m, t, C, v, done, q) /\ Promote(q) \in C /\ Moved(t, u, "stg", "cur", q)
      BY <1>4, <1>5, <2>1, <2>2
    <3> QED BY <1>2, <2>3, <2>4, <3>1, PromoteStep
  <2>6. ASSUME NEW r \in Paths, r # q PROVE Moving(m, u, D, v, done \union {q}, r)
    <3>1. PICK left : left = done \union {q}
      OBVIOUS
    <3>2. u["cur"][r] = t["cur"][r] /\ u["bak"][r] = t["bak"][r] /\ u["stg"][r] = t["stg"][r]
      BY <2>2, <2>6 DEF Moved, Areas
    <3>3. Moving(m, t, C, v, done, r) /\ Drops(C, D, Promote(q)) /\ (r \in left <=> r \in done)
      BY <1>4, <1>5, <2>1, <2>6, <3>1
    <3>4. Moving(m, u, D, v, left, r)
      BY <3>2, <3>3, <2>2, <2>6, MovingOther
    <3> QED BY <3>1, <3>4
  <2> QED BY <1>6, <2>2, <2>5, <2>6
<1>9. CASE Head(s) = Commit
  <2>1. n = [m EXCEPT !.phase = "committed"] /\ u = t /\ z = Tail(s)
    BY <1>9, OpFields DEF Does
  <2>2. D = {} /\ C = {Commit}
    BY <1>1, <1>3, <1>9, OpFields DEF Clash
  <2>3. z = <<>>
    BY <1>1, <1>3, <2>1, <2>2, ComingSome
  <2>4. DiskOK(n, t) /\ \A r \in Paths : Value(n, t, r) = Part(v, r)
    BY <1>2, <1>5, <2>1, <2>2, CommitStep
  <2>5. n.phase = "committed"
    BY <2>1 DEF Markers
  <2> QED BY <1>9, <2>1, <2>3, <2>4, <2>5, ComingEmpty DEF Installs
<1> QED BY <1>2, <1>3, <1>4, <1>7, <1>8, <1>9 DEF Asides, Promotes
-----------------------------------------------------------------------------
(* The commands are taken back. *)

(* What the clause of TakesBack for the path r says. *)
TakenBack(m, t, C, done, r) ==
    /\ Returns(m, t, C, r)
    /\ RemoveCurrent(r) \in C => r \in done
    /\ PutBack(r) \in C => Undoable(m, t, r, done)
    /\ r \notin done => Back(m, t, r) \/ t["cur"][r] = None

(* A path that can be taken back still can when something is done about    *)
(* another.                                                                *)
LEMMA TakenBackOther ==
    ASSUME NEW m, NEW t, NEW u, NEW C, NEW D, NEW done, NEW q \in Paths, NEW r \in Paths, r # q,
           NEW o, Drops(C, D, o), o.path = q, u["cur"][r] = t["cur"][r], u["bak"][r] = t["bak"][r],
           TakenBack(m, t, C, done, r)
    PROVE  TakenBack(m, u, D, done, r)
PROOF
<1>1. Returns(m, u, D, r)
  BY ReturnsOther DEF TakenBack
<1>2. /\ RemoveCurrent(r) \in C <=> RemoveCurrent(r) \in D
      /\ PutBack(r) \in C <=> PutBack(r) \in D
  BY OpFields DEF Drops
<1> QED BY <1>1, <1>2, Frame DEF TakenBack, Undoable

(* Every path keeps its value. *)
SameValues(m, t, u) == \A r \in Paths : Value(m, u, r) = Value(m, t, r)

(* Every path keeps its value, and the others all that is there. *)
Spares(m, t, u, q) ==
    \A r \in Paths : /\ Value(m, u, r) = Value(m, t, r)
                     /\ r # q => u["cur"][r] = t["cur"][r] /\ u["bak"][r] = t["bak"][r]

(* The program D of C without its putting q back, which the step does. *)
PutsInPlace(m, t, u, C, D, done, q) ==
    /\ DiskOK(m, t) /\ m.phase = "prepared" /\ TakenBack(m, t, C, done, q)
    /\ Drops(C, D, PutBack(q)) /\ RemoveCurrent(q) \notin D /\ PutBack(q) \notin D
    /\ Restore(q) \notin C /\ Restore(q) \notin D
    /\ PutsBack(t, u, q)

(* A path is put back. *)
LEMMA TakenBackPut ==
    ASSUME NEW m, NEW t, NEW u, NEW q \in Paths, NEW C, NEW D, NEW done,
           PutsInPlace(m, t, u, C, D, done, q)
    PROVE  DiskOK(m, u) /\ TakenBack(m, u, D, done, q) /\ Spares(m, t, u, q)
PROOF
<1> USE DEF PutsInPlace
<1>1. Returns(m, t, C, q)
  BY DEF TakenBack
<1>2. /\ DiskOK(m, u) /\ Returns(m, u, D, q)
      /\ Restore(q) \in D \/ Back(m, u, q)
      /\ \A r \in Paths : Value(m, u, r) = Value(m, t, r)
                           /\ (r # q => u["cur"][r] = t["cur"][r] /\ u["bak"][r] = t["bak"][r])
  BY <1>1, PutBackStep
<1>3. TakenBack(m, u, D, done, q)
  BY <1>2 DEF TakenBack
<1> QED BY <1>2, <1>3 DEF Spares

(* Every operation of the program that takes the commands back leaves each *)
(* path what it will be.                                                   *)
LEMMA TakesBackStep ==
    ASSUME NEW m \in Markers, NEW t \in Trees, NEW s, NEW n, NEW u, NEW z, NEW v, NEW done,
           DiskOK(m, t), TakesBack(m, t, s, v, done), Does(m, t, s, n, u, z)
    PROVE  /\ n = m /\ DiskOK(m, u) /\ TakesBack(m, u, z, v, done)
           /\ SameValues(m, t, u)
PROOF
<1> USE ThreePaths DEF SameValues
<1>0. s # <<>> /\ n \in Markers /\ u \in Trees /\ m.phase = "prepared"
  BY DEF Does, TakesBack
<1>1. /\ Proper(Tail(s)) /\ Proper(s)
      /\ Coming(s) = {Head(s)} \union Coming(Tail(s))
      /\ \A b \in Coming(Tail(s)) : ~ Clash(Head(s), b)
  BY <1>0, ComingTail DEF TakesBack
<1>2. PICK C, D : C = Coming(s) /\ D = Coming(z)
  OBVIOUS
<1>3. /\ \A r \in {command, owner} : TakenBack(m, t, C, done, r)
      /\ Head(s) \in C /\ C \subseteq Staged \union Currents \union PutBacks /\ Head(s).path # package
      /\ package \in done /\ MovedAside(m, t, package) /\ (v \in Fragile => command \notin done)
  BY <1>1, <1>2 DEF TakesBack, TakenBack
<1>4. PICK q \in Paths : Head(s) \in {RemoveStaged(q), RemoveCurrent(q), PutBack(q)}
  BY <1>3 DEF Staged, Currents, PutBacks
<1>5. q \in {command, owner} /\ Head(s).path = q
  BY <1>3, <1>4, OpFields DEF Paths
<1>6. /\ n = m /\ z \in {s, Tail(s)}
      /\ Head(s) = RemoveStaged(q) => Removes(t, u, s, z, "stg", q)
      /\ Head(s) = RemoveCurrent(q) => Removes(t, u, s, z, "cur", q)
      /\ Head(s) = PutBack(q) => z = Tail(s) /\ PutsBack(t, u, q)
  BY <1>4, <1>5, OpFields DEF Does, Removes
<1>7. Proper(z) /\ Drops(C, D, Head(s)) /\ (Head(s) \in D \/ z = Tail(s))
  BY <1>1, <1>2, <1>3, <1>6 DEF Drops
<1>8. \A r \in Paths : Restore(r) \notin C /\ Restore(r) \notin D
  BY <1>3, <1>7, OpFields DEF Drops, Staged, Currents, PutBacks
<1>9. /\ DiskOK(m, u) /\ TakenBack(m, u, D, done, q)
      /\ \A r \in Paths : Value(m, u, r) = Value(m, t, r)
                           /\ (r # q => u["cur"][r] = t["cur"][r] /\ u["bak"][r] = t["bak"][r])
  <2>0. TakenBack(m, t, C, done, q)
    BY <1>3, <1>5
  <2>1. CASE Head(s) = RemoveStaged(q)
    <3>1. \A r \in Paths : u["cur"][r] = t["cur"][r] /\ u["bak"][r] = t["bak"][r]
      BY <1>6, <2>1 DEF Removes, Placed, Areas
    <3>2. \A r \in Paths : Value(m, u, r) = Value(m, t, r)
      BY <3>1, Frame
    <3>3. DiskOK(m, u)
      BY <3>1, <3>2, DiskFrame
    <3>4. /\ RemoveCurrent(q) \in C <=> RemoveCurrent(q) \in D
          /\ PutBack(q) \in C <=> PutBack(q) \in D
          /\ Restore(q) \in C <=> Restore(q) \in D
      BY <1>7, <2>1, OpFields DEF Drops
    <3>5. Returns(m, u, D, q)
      BY <2>0, <3>1, <3>4, ReturnsFrame DEF TakenBack
    <3>6. TakenBack(m, u, D, done, q)
      BY <2>0, <3>1, <3>4, <3>5, Frame DEF TakenBack, Undoable
    <3> QED BY <3>1, <3>2, <3>3, <3>6
  <2>2. CASE Head(s) = RemoveCurrent(q)
    <3>1. /\ RemoveCurrent(q) \in C /\ Returns(m, t, C, q) /\ Drops(C, D, RemoveCurrent(q))
          /\ \/ Placed(t, u, "cur", q, None)
             \/ Placed(t, u, "cur", q, Torn) /\ RemoveCurrent(q) \in D
      BY <1>2, <1>3, <1>6, <1>7, <2>0, <2>2 DEF Removes, TakenBack
    <3>2. /\ DiskOK(m, u) /\ Returns(m, u, D, q)
          /\ \A r \in Paths : Value(m, u, r) = Value(m, t, r) /\ u["bak"][r] = t["bak"][r]
                               /\ (r # q => u["cur"][r] = t["cur"][r])
      BY <1>0, <3>1, CurrentStep DEF Touches
    <3>3. q \in done /\ MovedAside(m, t, q)
      BY <2>0, <3>1 DEF TakenBack, Returns
    <3>4. MovedAside(m, u, q)
      BY <3>2, <3>3 DEF MovedAside
    <3>5. TakenBack(m, u, D, done, q)
      BY <3>2, <3>3, <3>4 DEF TakenBack, Undoable
    <3> QED BY <3>2, <3>5
  <2>3. CASE Head(s) = PutBack(q)
    <3>1. RemoveCurrent(q) \notin D /\ PutBack(q) \notin D
      <4>1. \A b \in D : ~ Clash(PutBack(q), b)
        BY <1>1, <1>2, <1>6, <2>3
      <4>2. Clash(PutBack(q), RemoveCurrent(q)) /\ Clash(PutBack(q), PutBack(q))
        BY OpFields DEF Clash
      <4> QED BY <4>1, <4>2
    <3>2. PutsInPlace(m, t, u, C, D, done, q)
      BY <1>0, <1>6, <1>7, <1>8, <2>0, <2>3, <3>1 DEF PutsInPlace
    <3>3. DiskOK(m, u) /\ TakenBack(m, u, D, done, q) /\ Spares(m, t, u, q)
      BY <3>2, TakenBackPut
    <3> QED BY <3>3 DEF Spares
  <2> QED BY <1>4, <2>1, <2>2, <2>3
<1>10. \A r \in {command, owner} : r # q => TakenBack(m, u, D, done, r)
  BY <1>3, <1>5, <1>7, <1>9, TakenBackOther
<1>11. MovedAside(m, u, package)
  BY <1>3, <1>5, <1>9, Frame
<1>12. \A i \in DOMAIN z : z[i] = PutBack(owner) => i = Len(z)
  <2>1. CASE z = s
    BY <2>1 DEF TakesBack
  <2>2. CASE z = Tail(s)
    <3>1. s \in Seq(Programs) /\ Len(s) \in Nat /\ Len(s) >= 1 /\ DOMAIN s = 1..Len(s)
      BY <1>0, <1>1 DEF Proper
    <3>2. /\ Len(Tail(s)) = Len(s) - 1 /\ DOMAIN Tail(s) = 1..(Len(s) - 1)
          /\ \A i \in DOMAIN Tail(s) : Tail(s)[i] = s[i + 1] /\ i + 1 \in DOMAIN s
      BY <3>1
    <3>3. \A i \in DOMAIN s : s[i] = PutBack(owner) => i = Len(s)
      BY DEF TakesBack
    <3> QED BY <2>2, <3>1, <3>2, <3>3
  <2> QED BY <1>6, <2>1, <2>2
<1>13. z # <<>> => PutBack(owner) \in D
  <2>1. PutBack(owner) \in C
    BY <1>0, <1>2 DEF TakesBack
  <2>2. CASE Head(s) = PutBack(owner) /\ z = Tail(s)
    <3>1. s \in Seq(Programs) /\ Len(s) \in Nat /\ Len(s) >= 1 /\ DOMAIN s = 1..Len(s) /\ Head(s) = s[1]
      BY <1>0, <1>1 DEF Proper
    <3>2. Len(s) = 1
      BY <2>2, <3>1 DEF TakesBack
    <3>3. Tail(s) = <<>>
      BY <3>1, <3>2
    <3> QED BY <2>2, <3>3
  <2> QED BY <1>7, <2>1, <2>2 DEF Drops
<1>14. D \subseteq Staged \union Currents \union PutBacks /\ \A o \in D : o.path # package
  <2>1. \A o \in C : o.path # package
    BY <1>2 DEF TakesBack
  <2> QED BY <1>3, <1>7, <2>1 DEF Drops
<1>15. \A r \in {command, owner} : TakenBack(m, u, D, done, r)
  BY <1>9, <1>10
<1>16. TakesBack(m, u, z, v, done)
  BY <1>0, <1>2, <1>3, <1>7, <1>11, <1>12, <1>13, <1>14, <1>15 DEF TakesBack, TakenBack
<1> QED BY <1>6, <1>9, <1>16
-----------------------------------------------------------------------------
(* How the programs begin. *)

(* A path of which nothing has been touched can be taken back.             *)
LEMMA UntouchedUndoable ==
    ASSUME NEW m, NEW t, NEW q, t["bak"][q] = None, m.phase = "none" \/ (q \in m.existed <=> t["cur"][q] # None)
    PROVE  Value(m, t, q) = t["cur"][q] /\ Undoable(m, t, q, {})
PROOF BY DEF Value, Undoable, Back

(* What Transaction and Stage are, for a marker m and trees t and u.       *)
Opens(m, t, u, v) ==
    /\ m = [phase   |-> "prepared",
            existed |-> {q \in Paths : t["cur"][q] # None},
            entries |-> owner \in Parts[v] \/ t["cur"][owner] # None]
    /\ u = [t EXCEPT !["stg"] = [q \in Paths |-> IF q \in Parts[v] THEN v ELSE None], !["bak"] = Nothing]

(* What the marker of a new transaction says. *)
LEMMA OpensFields ==
    ASSUME NEW m, NEW t \in Trees, NEW u, NEW v \in Targets, Opens(m, t, u, v)
    PROVE  /\ m \in Markers /\ m.phase = "prepared"
           /\ \A q \in Paths : q \in m.existed <=> t["cur"][q] # None
           /\ m.entries <=> owner \in Parts[v] \/ t["cur"][owner] # None
           /\ u \in Trees
           /\ \A q \in Paths : /\ u["cur"][q] = t["cur"][q] /\ u["bak"][q] = None
                               /\ u["stg"][q] = Part(v, q)
PROOF
<1>1. m \in Markers
  BY DEF Opens, Markers
<1>2. m.phase = "prepared" /\ (\A q \in Paths : q \in m.existed <=> t["cur"][q] # None)
      /\ (m.entries <=> owner \in Parts[v] \/ t["cur"][owner] # None)
  BY DEF Opens
<1>3. v \in Versions \/ Parts[v] = {}
  BY PartsAssumption DEF Targets
<1>4. /\ Nothing \in [Paths -> Versions \union {None, Torn}]
      /\ [q \in Paths |-> IF q \in Parts[v] THEN v ELSE None] \in [Paths -> Versions \union {None, Torn}]
  BY <1>3 DEF Nothing
<1>5. u \in Trees
  BY <1>4 DEF Opens, Trees, Areas
<1>6. \A q \in Paths : u["cur"][q] = t["cur"][q] /\ u["bak"][q] = None /\ u["stg"][q] = Part(v, q)
  BY DEF Opens, Trees, Areas, Nothing, Part
<1> QED BY <1>1, <1>2, <1>5, <1>6

(* beginExtensionInstallTransaction, and the moves it protects. *)
LEMMA MovesInstalls ==
    ASSUME NEW k \in Markers, NEW t \in Trees, DiskOK(k, t), k.phase = "none",
           NEW v \in Targets, NEW m, NEW u, Opens(m, t, u, v)
    PROVE  /\ m \in Markers /\ u \in Trees
           /\ \A q \in Paths : /\ Value(k, u, q) = Value(k, t, q) /\ Value(m, u, q) = Value(k, t, q)
                               /\ Undoable(k, u, q, {}) /\ Undoable(m, u, q, {})
           /\ DiskOK(k, u) /\ DiskOK(m, u)
           /\ Installs(m, u, Moves(m, v), v, {})
           /\ Moves(m, v) # <<>>
PROOF
<1> USE ThreePaths
<1>1. /\ m \in Markers /\ m.phase = "prepared"
      /\ \A q \in Paths : q \in m.existed <=> t["cur"][q] # None
      /\ m.entries <=> owner \in Parts[v] \/ t["cur"][owner] # None
      /\ u \in Trees
      /\ \A q \in Paths : u["cur"][q] = t["cur"][q] /\ u["bak"][q] = None /\ u["stg"][q] = Part(v, q)
  BY OpensFields
<1>2. \A q \in Paths : Value(k, t, q) = t["cur"][q]
  BY DEF Value
<1>3. \A q \in Paths : /\ Value(k, u, q) = u["cur"][q] /\ Value(m, u, q) = u["cur"][q]
                       /\ Undoable(k, u, q, {}) /\ Undoable(m, u, q, {})
  BY <1>1, UntouchedUndoable
<1>4. DiskOK(k, u) /\ DiskOK(m, u)
  BY <1>1, <1>2, <1>3 DEF DiskOK
<1>5. PICK C : C = Coming(Moves(m, v))
  OBVIOUS
<1>6. /\ Proper(Moves(m, v))
      /\ C = {Aside(package), Commit}
                   \union {y \in {Promote(package)} : package \in Parts[v]}
                   \union {x \in {Aside(command), Aside(owner)}
                                   \union {y \in {Promote(command)} : command \in Parts[v]}
                                   \union {y \in {Promote(owner)} : owner \in Parts[v]} : m.entries}
  BY <1>1, <1>5, MovesProgram
<1>7. \A q \in Paths : /\ Aside(q) \in C <=> Covers(m, q)
                       /\ Promote(q) \in C <=> Covers(m, q) /\ q \in Parts[v]
  <2> TAKE q \in Paths
  <2>1. CASE q = package
    BY <2>1, <1>6, OpFields DEF Covers
  <2>2. CASE q = command
    BY <2>2, <1>6, OpFields DEF Covers
  <2>3. CASE q = owner
    BY <2>3, <1>6, OpFields DEF Covers
  <2> QED BY <2>1, <2>2, <2>3 DEF Paths
<1>8. ASSUME NEW q \in Paths, ~ Covers(m, q) PROVE u["cur"][q] = Part(v, q)
  <2>1. q \in {command, owner} /\ owner \notin Parts[v] /\ t["cur"][owner] = None
    BY <1>1, <1>8 DEF Covers, Paths
  <2>2. command \notin Parts[v]
    BY <2>1, PartsAssumption DEF Targets
  <2>3. PICK w \in Targets : \A r \in Paths : t["cur"][r] = Part(w, r)
    BY <1>2 DEF DiskOK
  <2>4. owner \notin Parts[w]
    BY <2>1, <2>3, NothingThere DEF Part
  <2>5. command \notin Parts[w]
    BY <2>4, PartsAssumption DEF Targets
  <2> QED BY <1>1, <2>1, <2>2, <2>3, <2>5 DEF Part
<1>9. \A q \in Paths : Moving(m, u, C, v, {}, q)
  BY <1>1, <1>7, <1>8 DEF Moving, Part
<1>10. Commit \in C /\ C \subseteq Asides \union Promotes \union {Commit}
  BY <1>6 DEF Asides, Promotes
<1>11. Moves(m, v) # <<>>
  BY <1>5, <1>10, ComingEmpty
<1>12. Installs(m, u, Moves(m, v), v, {})
  BY <1>1, <1>5, <1>6, <1>9, <1>10, <1>11 DEF Installs
<1> QED BY <1>1, <1>2, <1>3, <1>4, <1>11, <1>12

(* Moves that have not been committed can be undone. *)
LEMMA InstallsUndoable ==
    ASSUME NEW m, NEW t, NEW s, NEW v, NEW done, DiskOK(m, t), Installs(m, t, s, v, done), s # <<>>
    PROVE  m.phase = "prepared" /\ \A q \in Paths : Undoable(m, t, q, done)
PROOF
<1>1. PICK C : C = Coming(s)
  OBVIOUS
<1>2. m.phase = "prepared" /\ \A q \in Paths : Moving(m, t, C, v, done, q)
  BY <1>1 DEF Installs
<1>3. ASSUME NEW q \in Paths PROVE Undoable(m, t, q, done)
  <2>1. Moving(m, t, C, v, done, q)
    BY <1>2
  <2>2. CASE q \in done
    BY <2>1, <2>2 DEF Moving, Undoable
  <2>3. CASE q \notin done /\ Aside(q) \in C
    BY <2>1, <2>3 DEF Moving, Undoable, Back, Value
  <2>4. CASE q \notin done /\ Aside(q) \notin C /\ Covers(m, q)
    BY <2>1, <2>4 DEF Moving, Undoable
  <2>5. CASE q \notin done /\ ~ Covers(m, q)
    BY <2>5 DEF Undoable, Back, Value, DiskOK
  <2> QED BY <2>2, <2>3, <2>4, <2>5
<1> QED BY <1>2, <1>3

(* Once the commands are back, or that has failed, what is known to be     *)
(* promoted is enough to take the rest back.                               *)
LEMMA TakenUndoable ==
    ASSUME NEW m, NEW t, NEW s, NEW v, NEW done, TakesBack(m, t, s, v, done),
           NEW left, (s = <<>> /\ left = {package}) \/ (s # <<>> /\ v \in Fragile /\ left = done)
    PROVE  m.phase = "prepared" /\ \A q \in Paths : Undoable(m, t, q, left)
PROOF
<1> USE ThreePaths
<1>1. PICK C : C = Coming(s)
  OBVIOUS
<1>2. /\ m.phase = "prepared" /\ package \in done /\ MovedAside(m, t, package)
      /\ s # <<>> => PutBack(owner) \in C
      /\ \A q \in {command, owner} : TakenBack(m, t, C, done, q)
      /\ v \in Fragile => command \notin done
  BY <1>1 DEF TakesBack, TakenBack
<1>3. Undoable(m, t, package, left)
  BY <1>2 DEF Undoable
<1>4. ASSUME NEW q \in {command, owner} PROVE Undoable(m, t, q, left)
  <2>1. TakenBack(m, t, C, done, q)
    BY <1>2
  <2>2. CASE s = <<>> /\ left = {package}
    <3>1. C = {}
      BY <1>1, <2>2, ComingEmpty
    <3>2. Back(m, t, q)
      BY <2>1, <3>1 DEF TakenBack, Returns
    <3> QED BY <2>2, <3>2 DEF Undoable
  <2>3. CASE s # <<>> /\ v \in Fragile /\ left = done
    <3>1. CASE q = owner
      BY <1>2, <2>1, <2>3, <3>1 DEF TakenBack
    <3>2. CASE q = command
      BY <1>2, <2>1, <2>3, <3>2 DEF TakenBack, Undoable
    <3> QED BY <3>1, <3>2
  <2> QED BY <2>2, <2>3
<1> QED BY <1>2, <1>3, <1>4 DEF Paths

(* A program that clears has ended only when nothing is marked. *)
LEMMA ClearedAtTheEnd ==
    ASSUME NEW m \in Markers, NEW t, Clears(m, t, <<>>)
    PROVE  m.phase = "none"
PROOF BY ComingEmpty DEF Clears, Markers

(* Where nothing is marked there is nothing to end. *)
LEMMA NothingToClear ==
    ASSUME NEW m, NEW t, m.phase = "none"
    PROVE  Clears(m, t, <<>>)
PROOF BY ComingEmpty DEF Clears
-----------------------------------------------------------------------------
(* The inductive invariant. *)

Bare    == {"idle", "published", "judging", "backing", "dead", "stuck"}
(* Where a call has a program to run. *)
Running == {"recovering", "committing", "undoing", "unwinding", "cleaning"}

(* The control of a call that is at at, with the program s, to bring about *)
(* v, and knows done to be promoted; a is its answer.                      *)
Controls(at, s, v, done, a) ==
    /\ s \in Seq(Programs) /\ v \in Targets \union {None} /\ done \in SUBSET Paths
    /\ a \in {"none", "ok", "error"}
    /\ at \notin Running => s = <<>>
    /\ at \notin Working => v = None
    /\ at \in (Running \union {"preparing"}) \ {"recovering"} => v \in Targets
    /\ at # "done" => a = "none"
    /\ at \notin (Running \union {"done"}) \ {"recovering"} => done = {}
    /\ v \in Targets => done \subseteq Parts[v]

(* Each call is where its program, its version and what it knows say, and  *)
(* its program does to the disk what it is to.                             *)
InControl(p) == Controls(pc[p], todo[p], job[p], promoted[p], answer[p])
OnCourse(p)  == Runs(marker, tree, pc[p], todo[p], job[p], promoted[p])

(* The variables of the calls have their types. *)
CallTypes ==
    /\ job \in [Procs -> Targets \union {None}]
    /\ todo \in [Procs -> Seq(Programs)]
    /\ promoted \in [Procs -> SUBSET Paths]
    /\ answer \in [Procs -> {"none", "ok", "error"}]

(* The disk is in order, and every program on course. *)
DiskInv ==
    /\ uncertain \in BOOLEAN /\ marker \in Markers /\ tree \in Trees
    /\ CallTypes
    /\ DiskOK(marker, tree)
    /\ \A p \in Procs : InControl(p) /\ OnCourse(p)

(* What a step of p leaves as it was of the other processes.               *)
Apart(p) ==
    \A q \in Procs : q # p => /\ pc'[q] = pc[q] /\ todo'[q] = todo[q] /\ job'[q] = job[q]
                              /\ promoted'[q] = promoted[q] /\ answer'[q] = answer[q]

(* Beside a process with the lease no other touches the disk. *)
LEMMA Alone ==
    ASSUME LockInv, NEW p \in Procs, pc[p] \in Leased
    PROVE  \A q \in Procs : q # p => pc[q] \notin Leased
PROOF BY DEF LockInv, OnePasses, Passed

(* A process that is not at work does nothing to the disk. *)
LEMMA NoProgram ==
    ASSUME NEW m, NEW t, NEW at, at \notin Running, at # "preparing", NEW s, NEW v, NEW done
    PROVE  Runs(m, t, at, s, v, done)
PROOF BY DEF Runs, Running

(* What p does is an invariant of all when it is one of p: only a process  *)
(* with the lease touches the disk.                                        *)
LEMMA StepOfOne ==
    ASSUME DiskInv, LockInv, NEW p \in Procs, Apart(p), CallTypes',
           uncertain' \in BOOLEAN,
           \/ marker' = marker /\ tree' = tree
           \/ pc[p] \in Leased /\ marker' \in Markers /\ tree' \in Trees /\ DiskOK(marker', tree'),
           InControl(p)', OnCourse(p)'
    PROVE  DiskInv'
PROOF
<1>1. marker' \in Markers /\ tree' \in Trees /\ DiskOK(marker', tree')
  BY DEF DiskInv
<1>2. ASSUME NEW q \in Procs, q # p PROVE InControl(q)' /\ OnCourse(q)'
  <2>1. /\ pc'[q] = pc[q] /\ todo'[q] = todo[q] /\ job'[q] = job[q]
        /\ promoted'[q] = promoted[q] /\ answer'[q] = answer[q]
    BY <1>2 DEF Apart
  <2>2. InControl(q) /\ OnCourse(q)
    BY DEF DiskInv
  <2>3. InControl(q)'
    BY <2>1, <2>2 DEF InControl
  <2>4. CASE marker' = marker /\ tree' = tree
    <3>1. OnCourse(q)'
      BY <2>1, <2>2, <2>4 DEF OnCourse
    <3> QED BY <2>3, <3>1
  <2>5. CASE pc[p] \in Leased
    <3>1. pc[q] \notin Leased
      BY <1>2, <2>5, Alone
    <3>2. pc'[q] \notin Running /\ pc'[q] # "preparing"
      BY <2>1, <3>1 DEF Leased, Working, Running
    <3>3. OnCourse(q)'
      BY <3>2, NoProgram DEF OnCourse
    <3> QED BY <2>3, <3>3
  <2> QED BY <2>4, <2>5
<1>3. DiskOK(marker, tree)'
  BY <1>1
<1> QED BY <1>1, <1>2, <1>3 DEF DiskInv

(* A step that changes the call of p keeps the types of all calls. *)
LEMMA FunctionsFrame ==
    ASSUME DiskInv, NEW p \in Procs,
           NEW s, NEW v, NEW done, NEW a,
           s \in Seq(Programs), v \in Targets \union {None}, done \in SUBSET Paths, a \in {"none", "ok", "error"},
           todo' = [todo EXCEPT ![p] = s] , job' = [job EXCEPT ![p] = v],
           promoted' = [promoted EXCEPT ![p] = done], answer' = [answer EXCEPT ![p] = a]
    PROVE  /\ CallTypes'
           /\ todo'[p] = s /\ job'[p] = v /\ promoted'[p] = done /\ answer'[p] = a
           /\ \A q \in Procs : q # p => /\ todo'[q] = todo[q] /\ job'[q] = job[q]
                                        /\ promoted'[q] = promoted[q] /\ answer'[q] = answer[q]
PROOF BY DEF DiskInv, CallTypes

(* The step takes p to at, with the program s and the rest of its call.    *)
Goes(p, at, s, v, done, a) ==
    /\ pc' = [pc EXCEPT ![p] = at]
    /\ todo' = [todo EXCEPT ![p] = s]
    /\ job' = [job EXCEPT ![p] = v]
    /\ promoted' = [promoted EXCEPT ![p] = done]
    /\ answer' = [answer EXCEPT ![p] = a]

(* A step that takes p somewhere leaves the others alone. *)
LEMMA GoesApart ==
    ASSUME DiskInv, LockInv, NEW p \in Procs, NEW at, NEW s, NEW v, NEW done, NEW a,
           Goes(p, at, s, v, done, a), Controls(at, s, v, done, a)
    PROVE  /\ Apart(p) /\ CallTypes' /\ InControl(p)'
           /\ pc'[p] = at /\ todo'[p] = s /\ job'[p] = v /\ promoted'[p] = done /\ answer'[p] = a
PROOF
<1>1. pc'[p] = at /\ \A q \in Procs : q # p => pc'[q] = pc[q]
  BY DEF Goes, LockInv, LockTypes
<1>2. /\ CallTypes'
      /\ todo'[p] = s /\ job'[p] = v /\ promoted'[p] = done /\ answer'[p] = a
      /\ \A q \in Procs : q # p => /\ todo'[q] = todo[q] /\ job'[q] = job[q]
                                   /\ promoted'[q] = promoted[q] /\ answer'[q] = answer[q]
  BY FunctionsFrame DEF Goes, Controls
<1>3. InControl(p)'
  BY <1>1, <1>2 DEF InControl
<1> QED BY <1>1, <1>2, <1>3 DEF Apart

(* A step that takes p somewhere with a program that is on course keeps    *)
(* the invariant.                                                          *)
LEMMA GoesKeeps ==
    ASSUME DiskInv, LockInv, NEW p \in Procs, NEW at, NEW s, NEW v, NEW done, NEW a,
           Goes(p, at, s, v, done, a), Controls(at, s, v, done, a),
           uncertain' \in BOOLEAN,
           \/ marker' = marker /\ tree' = tree
           \/ pc[p] \in Leased /\ marker' \in Markers /\ tree' \in Trees /\ DiskOK(marker', tree'),
           Runs(marker', tree', at, s, v, done)
    PROVE  DiskInv'
PROOF
<1>1. /\ Apart(p) /\ CallTypes' /\ InControl(p)'
      /\ pc'[p] = at /\ todo'[p] = s /\ job'[p] = v /\ promoted'[p] = done /\ answer'[p] = a
  BY GoesApart
<1>2. OnCourse(p)'
  BY <1>1 DEF OnCourse
<1> QED BY <1>1, <1>2, StepOfOne
-----------------------------------------------------------------------------
(* A file operation of p does what Does says of its program.               *)

(* Move moves, *)
LEMMA MoveMoves ==
    ASSUME tree \in Trees, NEW from \in Areas, NEW to \in Areas, from # to, NEW q \in Paths, Move(from, to, q)
    PROVE  tree' \in Trees /\ Moved(tree, tree', from, to, q)
PROOF
<1>1. tree' = [tree EXCEPT ![to] = [tree[to] EXCEPT ![q] = tree[from][q]],
                           ![from] = [tree[from] EXCEPT ![q] = None]]
  BY DEF Move, Trees
<1>2. /\ [tree[to] EXCEPT ![q] = tree[from][q]] \in [Paths -> Versions \union {None, Torn}]
      /\ [tree[from] EXCEPT ![q] = None] \in [Paths -> Versions \union {None, Torn}]
  BY DEF Trees
<1>3. tree' \in Trees
  BY <1>1, <1>2 DEF Trees
<1>4. /\ tree'[to] = [tree[to] EXCEPT ![q] = tree[from][q]]
      /\ tree'[from] = [tree[from] EXCEPT ![q] = None]
      /\ \A b \in Areas : b \notin {from, to} => tree'[b] = tree[b]
  BY <1>1 DEF Trees
<1>5. \A b \in Areas : tree[b] \in [Paths -> Versions \union {None, Torn}]
  BY DEF Trees
<1> QED BY <1>3, <1>4, <1>5 DEF Moved

(* and Lessen removes, or leaves part. *)
LEMMA LessenPlaces ==
    ASSUME tree \in Trees, NEW a, NEW q \in Paths, Lessen(a, q)
    PROVE  /\ tree' \in Trees
           /\ \/ Whole(a, q) /\ Placed(tree, tree', a, q, Torn) /\ tree[a][q] # None
              \/ ~ Whole(a, q) /\ Placed(tree, tree', a, q, None)
PROOF
<1> DEFINE x == IF Whole(a, q) THEN Torn ELSE None
<1>1. tree' = [tree EXCEPT ![a] = [tree[a] EXCEPT ![q] = x]]
  BY DEF Lessen, Trees
<1>2. Whole(a, q) => tree[a][q] # None
  BY DEF Whole
<1>3. x \in {None, Torn} /\ (Whole(a, q) => x = Torn) /\ (~ Whole(a, q) => x = None)
  OBVIOUS
<1> HIDE DEF x
<1>4. CASE a \in Areas
  <2>1. tree[a] \in [Paths -> Versions \union {None, Torn}]
    BY <1>4 DEF Trees
  <2>2. [tree[a] EXCEPT ![q] = x] \in [Paths -> Versions \union {None, Torn}]
    BY <1>3, <2>1
  <2>3. tree' \in Trees
    BY <1>1, <1>4, <2>2 DEF Trees
  <2>4. tree'[a] = [tree[a] EXCEPT ![q] = x] /\ \A b \in Areas : b # a => tree'[b] = tree[b]
    BY <1>1, <1>4 DEF Trees
  <2>5. Placed(tree, tree', a, q, x)
    BY <2>1, <2>4 DEF Placed
  <2> QED BY <1>2, <1>3, <2>3, <2>5
<1>5. CASE a \notin Areas
  <2>1. tree' = tree
    BY <1>1, <1>5 DEF Trees
  <2>2. Placed(tree, tree', a, q, x)
    BY <1>5, <2>1 DEF Placed
  <2> QED BY <1>2, <1>3, <2>1, <2>2
<1> QED BY <1>4, <1>5

(* Every file operation is one of those the lemmas above are about. *)
LEMMA FileOperationDoes ==
    ASSUME DiskInv, NEW p \in Procs, FileOperation(p)
    PROVE  /\ pc[p] \in Working /\ pc' = pc /\ job' = job /\ answer' = answer /\ uncertain' = uncertain
           /\ \E z : /\ Does(marker, tree, todo[p], marker', tree', z)
                     /\ todo' = [todo EXCEPT ![p] = z]
           /\ promoted' = [promoted EXCEPT ![p] = Knows(promoted[p], Head(todo[p]))]
PROOF
<1> DEFINE s == todo[p]
           q == At(p)
           o == Head(s).op
<1>1. s # <<>> /\ s \in Seq(Programs) /\ pc[p] \in Working
  BY DEF FileOperation, Delete, MoveAside, MoveIn, MoveBack, RestoreOne, MarkCommitted, DeleteMarker, Doing,
         DiskInv, CallTypes
<1>2. Head(s) \in Programs
  BY <1>1
<1>3. q \in Paths /\ q = Head(s).path
  BY <1>2 DEF Programs, At
<1>4. /\ tree \in Trees /\ marker \in Markers /\ todo \in [Procs -> Seq(Programs)]
      /\ promoted \in [Procs -> SUBSET Paths]
  BY DEF DiskInv, CallTypes
<1>5. pc' = pc /\ job' = job /\ answer' = answer /\ uncertain' = uncertain
  BY DEF FileOperation, Delete, MoveAside, MoveIn, MoveBack, RestoreOne, MarkCommitted, DeleteMarker, locks
<1>6. /\ todo' = [todo EXCEPT ![p] = Tail(s)] <=> Pop(p)
      /\ todo = [todo EXCEPT ![p] = s]
      /\ promoted = [promoted EXCEPT ![p] = promoted[p]]
  BY <1>4 DEF Pop
<1>7. /\ "cur" \in Areas /\ "bak" \in Areas /\ "stg" \in Areas
      /\ "cur" # "bak" /\ "cur" # "stg" /\ "bak" # "stg"
  BY DEF Areas
<1> HIDE DEF s, q, o
<1>8. CASE Delete(p)
  <2>1. /\ o = "remove" /\ Lessen(Head(s).area, q) /\ marker' = marker /\ promoted' = promoted
        /\ IF Whole(Head(s).area, q) THEN todo' = todo ELSE Pop(p)
    BY <1>8 DEF Delete, Doing, s, q, o
  <2>2. tree' \in Trees
        /\ \/ Whole(Head(s).area, q) /\ Placed(tree, tree', Head(s).area, q, Torn) /\ tree[Head(s).area][q] # None
           \/ ~ Whole(Head(s).area, q) /\ Placed(tree, tree', Head(s).area, q, None)
    BY <1>3, <1>4, <2>1, LessenPlaces
  <2>3. PICK z : z = IF Whole(Head(s).area, q) THEN s ELSE Tail(s)
    OBVIOUS
  <2>4. Removes(tree, tree', s, z, Head(s).area, q) /\ todo' = [todo EXCEPT ![p] = z]
    BY <1>6, <2>1, <2>2, <2>3 DEF Removes
  <2>5. Does(marker, tree, s, marker', tree', z)
    BY <1>1, <1>3, <1>4, <2>1, <2>2, <2>4 DEF Does, o
  <2>6. Knows(promoted[p], Head(s)) = promoted[p]
    BY <2>1 DEF Knows, o
  <2> QED BY <1>1, <1>5, <1>6, <2>1, <2>4, <2>5, <2>6 DEF s
<1>9. CASE MoveAside(p)
  <2>1. o = "aside" /\ Move("cur", "bak", q) /\ marker' = marker /\ promoted' = promoted /\ Pop(p)
    BY <1>9 DEF MoveAside, Doing, s, q, o
  <2>2. tree' \in Trees /\ Moved(tree, tree', "cur", "bak", q)
    BY <1>3, <1>4, <1>7, <2>1, MoveMoves
  <2>3. Does(marker, tree, s, marker', tree', Tail(s))
    BY <1>1, <1>3, <1>4, <2>1, <2>2 DEF Does, o
  <2>4. Knows(promoted[p], Head(s)) = promoted[p]
    BY <2>1 DEF Knows, o
  <2> QED BY <1>1, <1>5, <1>6, <2>1, <2>3, <2>4 DEF s
<1>10. CASE MoveIn(p)
  <2>1. /\ o = "promote" /\ Move("stg", "cur", q) /\ marker' = marker /\ Pop(p)
        /\ promoted' = [promoted EXCEPT ![p] = @ \union {q}]
    BY <1>10 DEF MoveIn, Doing, s, q, o
  <2>2. tree' \in Trees /\ Moved(tree, tree', "stg", "cur", q)
    BY <1>3, <1>4, <1>7, <2>1, MoveMoves
  <2>3. Does(marker, tree, s, marker', tree', Tail(s))
    BY <1>1, <1>3, <1>4, <2>1, <2>2 DEF Does, o
  <2>4. Knows(promoted[p], Head(s)) = promoted[p] \union {q}
    BY <1>3, <2>1 DEF Knows, o
  <2> QED BY <1>1, <1>5, <1>6, <2>1, <2>3, <2>4 DEF s
<1>11. CASE MoveBack(p)
  <2>1. /\ o = "putback" /\ marker' = marker /\ promoted' = promoted /\ Pop(p)
        /\ IF tree["cur"][q] = None /\ tree["bak"][q] # None THEN Move("bak", "cur", q) ELSE tree' = tree
    BY <1>11 DEF MoveBack, Doing, s, q, o
  <2>2. tree' \in Trees /\ PutsBack(tree, tree', q)
    BY <1>3, <1>4, <1>7, <2>1, MoveMoves DEF PutsBack
  <2>3. Does(marker, tree, s, marker', tree', Tail(s))
    BY <1>1, <1>3, <1>4, <2>1, <2>2 DEF Does, o
  <2>4. Knows(promoted[p], Head(s)) = promoted[p]
    BY <2>1 DEF Knows, o
  <2> QED BY <1>1, <1>5, <1>6, <2>1, <2>3, <2>4 DEF s
<1>12. CASE RestoreOne(p)
  <2>1. /\ o = "restore" /\ marker' = marker /\ promoted' = promoted
        /\ \/ /\ Keeps(q) \/ (tree["cur"][q] = None /\ tree["bak"][q] = None)
              /\ Pop(p) /\ tree' = tree
           \/ /\ ~ Keeps(q) /\ tree["cur"][q] # None
              /\ Lessen("cur", q) /\ todo' = todo
           \/ /\ tree["cur"][q] = None /\ tree["bak"][q] # None
              /\ Move("bak", "cur", q) /\ Pop(p)
    BY <1>12 DEF RestoreOne, Doing, s, q, o
  <2>2. Keeps(q) <=> Kept(marker, tree, q)
    BY DEF Keeps, Kept
  <2>3. PICK z : z = IF Pop(p) THEN Tail(s) ELSE s
    OBVIOUS
  <2>4. tree' \in Trees /\ todo' = [todo EXCEPT ![p] = z] /\ RestoresPath(marker, tree, tree', s, z, q)
    <3>1. CASE (Keeps(q) \/ (tree["cur"][q] = None /\ tree["bak"][q] = None)) /\ Pop(p) /\ tree' = tree
      BY <1>4, <1>6, <2>2, <2>3, <3>1 DEF RestoresPath
    <3>2. CASE ~ Keeps(q) /\ tree["cur"][q] # None /\ Lessen("cur", q) /\ todo' = todo
      <4>1. s # Tail(s)
        BY <1>1
      <4>2. ~ Pop(p)
        BY <1>4, <3>2, <4>1 DEF Pop, s
      <4>3. tree' \in Trees
            /\ (Placed(tree, tree', "cur", q, Torn) \/ Placed(tree, tree', "cur", q, None))
        BY <1>3, <1>4, <3>2, LessenPlaces
      <4> QED BY <1>6, <2>2, <2>3, <3>2, <4>2, <4>3 DEF RestoresPath
    <3>3. CASE tree["cur"][q] = None /\ tree["bak"][q] # None /\ Move("bak", "cur", q) /\ Pop(p)
      <4>1. tree' \in Trees /\ Moved(tree, tree', "bak", "cur", q)
        BY <1>3, <1>4, <1>7, <3>3, MoveMoves
      <4> QED BY <1>6, <2>3, <3>3, <4>1 DEF RestoresPath
    <3> QED BY <2>1, <3>1, <3>2, <3>3
  <2>5. Does(marker, tree, s, marker', tree', z)
    BY <1>1, <1>3, <1>4, <2>1, <2>4 DEF Does, o
  <2>6. Knows(promoted[p], Head(s)) = promoted[p]
    BY <2>1 DEF Knows, o
  <2> QED BY <1>1, <1>5, <1>6, <2>1, <2>4, <2>5, <2>6 DEF s
<1>13. CASE MarkCommitted(p)
  <2>1. /\ o = "commit" /\ marker' = [marker EXCEPT !.phase = "committed"]
        /\ tree' = tree /\ promoted' = promoted /\ Pop(p)
    BY <1>13 DEF MarkCommitted, Doing, s, q, o
  <2>2. marker' \in Markers
    BY <1>4, <2>1 DEF Markers
  <2>3. Does(marker, tree, s, marker', tree', Tail(s))
    BY <1>1, <1>4, <2>1, <2>2 DEF Does, o
  <2>4. Knows(promoted[p], Head(s)) = promoted[p]
    BY <2>1 DEF Knows, o
  <2> QED BY <1>1, <1>5, <1>6, <2>1, <2>3, <2>4 DEF s
<1>14. CASE DeleteMarker(p)
  <2>1. o = "unmark" /\ marker' = NoMarker /\ tree' = tree /\ promoted' = promoted /\ Pop(p)
    BY <1>14 DEF DeleteMarker, Doing, s, q, o
  <2>2. marker' \in Markers
    BY <2>1 DEF Markers, NoMarker
  <2>3. Does(marker, tree, s, marker', tree', Tail(s))
    BY <1>1, <1>4, <2>1, <2>2 DEF Does, o
  <2>4. Knows(promoted[p], Head(s)) = promoted[p]
    BY <2>1 DEF Knows, o
  <2> QED BY <1>1, <1>5, <1>6, <2>1, <2>3, <2>4 DEF s
<1> QED BY <1>8, <1>9, <1>10, <1>11, <1>12, <1>13, <1>14 DEF FileOperation
-----------------------------------------------------------------------------
(* What a step of p means for the package store.                           *)

(* What a step of p means for the package store: what p has asked for, and *)
(* whether it has had its effect.                                          *)
Asked(p)   == IF pc[p] = "done" THEN None ELSE job[p]
Applied(p) == pc[p] \in {"committing", "cleaning"} /\ (pc[p] = "committing" => todo[p] = <<>>)

(* Every path will be what it would have been. *)
SameStore == \A q \in Paths : Value(marker', tree', q) = Value(marker, tree, q)

(* Nothing; *)
Rests(p) == /\ SameStore /\ Asked(p)' = Asked(p) /\ (Applied(p)' <=> Applied(p))
            /\ answer'[p] = answer[p]

(* a call, *)
Asks(p, v) == /\ SameStore /\ Asked(p) = None /\ answer[p] = "none"
              /\ Asked(p)' = v /\ (Applied(p)' <=> Applied(p)) /\ answer'[p] = answer[p]

(* its effect, *)
Applies(p) == /\ Asked(p) # None /\ ~ Applied(p)
              /\ \A q \in Paths : Value(marker', tree', q) = Part(Asked(p), q)
              /\ Asked(p)' = Asked(p) /\ Applied(p)' /\ answer'[p] = answer[p]

(* its answer, *)
Answers(p) == /\ SameStore /\ Asked(p) # None /\ Asked(p)' = None
              /\ ~ Applied(p)' /\ answer'[p] = IF Applied(p) THEN "ok" ELSE "error"

(* which is heard; *)
Hears(p) == /\ SameStore /\ answer[p] # "none" /\ answer'[p] = "none"
            /\ Asked(p)' = Asked(p) /\ (Applied(p)' <=> Applied(p))

(* or the process dies. *)
Dies(p) == SameStore /\ Asked(p)' = None /\ ~ Applied(p)' /\ answer'[p] = "none"

(* What a step of p means for the store. *)
Means(p) == \/ Rests(p) \/ \E v \in Targets : Asks(p, v)
            \/ Applies(p) \/ Answers(p) \/ Hears(p) \/ Dies(p)

(* The state of the store, as the refinement maps it. *)
installed == [q \in Paths |-> Settled(q)]
asked     == [p \in Procs |-> Asked(p)]
applied   == {p \in Procs : Applied(p)}

(* What the abstract store says is installed is what each path will be, *)
LEMMA SettledIsValue == \A q \in Paths : Settled(q) = Value(marker, tree, q)
PROOF BY DEF Settled, Value, Covers

(* before the step and after it, *)
LEMMA SettledNext == \A q \in Paths : Settled(q)' = Value(marker', tree', q)
PROOF BY DEF Settled, Value, Covers

(* and changes only with it. *)
LEMMA Installed ==
    /\ SameStore => installed' = installed
    /\ \A v : (\A q \in Paths : Value(marker', tree', q) = Part(v, q)) => installed' = Store!Whole(v)
PROOF
<1>1. installed' = [q \in Paths |-> Value(marker', tree', q)] /\ installed = [q \in Paths |-> Value(marker, tree, q)]
  BY SettledIsValue, SettledNext DEF installed
<1>2. \A v : Store!Whole(v) = [q \in Paths |-> Part(v, q)]
  BY DEF Store!Whole, Part
<1> QED BY <1>1, <1>2 DEF SameStore

(* To the abstract store the other processes stay what they are. *)
LEMMA OthersMean ==
    ASSUME NEW p \in Procs, Apart(p)
    PROVE  /\ asked' = [asked EXCEPT ![p] = Asked(p)']
           /\ Applied(p)' => applied' = applied \union {p}
           /\ ~ Applied(p)' => applied' = applied \ {p}
PROOF
<1>1. \A q \in Procs : q # p => Asked(q)' = Asked(q) /\ (Applied(q)' <=> Applied(q))
  BY DEF Apart, Asked, Applied
<1>2. asked' = [q \in Procs |-> Asked(q)'] /\ applied' = {q \in Procs : Applied(q)'}
  BY DEF asked, applied
<1> QED BY <1>1, <1>2 DEF asked, applied

(* What a step means is a step of the abstract store, or none. *)
LEMMA MeansStore ==
    ASSUME NEW p \in Procs, Apart(p), Means(p), answer \in [Procs -> {"none", "ok", "error"}],
           answer' \in [Procs -> {"none", "ok", "error"}]
    PROVE  [Store!Next]_(Store!vars)
PROOF
<1>1. /\ asked' = [asked EXCEPT ![p] = Asked(p)']
      /\ Applied(p)' => applied' = applied \union {p}
      /\ ~ Applied(p)' => applied' = applied \ {p}
  BY OthersMean
<1>2. /\ answer' = [answer EXCEPT ![p] = answer'[p]]
      /\ answer'[p] = answer[p] => answer' = answer
  BY DEF Apart
<1>3. asked[p] = Asked(p) /\ (p \in applied <=> Applied(p))
  BY DEF asked, applied
<1>4. Asked(p)' = Asked(p) => asked' = asked
  BY <1>1, <1>3 DEF asked
<1>5. (Applied(p)' <=> Applied(p)) => applied' = applied
  BY <1>1, <1>3
<1>6. CASE Rests(p)
  <2>1. SameStore /\ asked' = asked /\ applied' = applied /\ answer' = answer
    BY <1>2, <1>4, <1>5, <1>6 DEF Rests
  <2>2. installed' = installed
    BY <2>1, Installed
  <2>3. UNCHANGED Store!vars
    BY <2>1, <2>2 DEF Store!vars, installed, asked, applied, Asked, Applied
  <2> QED BY <2>3
<1>7. CASE \E v \in Targets : Asks(p, v)
  <2>1. PICK v \in Targets : Asks(p, v)
    BY <1>7
  <2>2. /\ installed' = installed /\ applied' = applied /\ answer' = answer
        /\ asked[p] = None /\ answer[p] = "none" /\ asked' = [asked EXCEPT ![p] = v]
    BY <1>1, <1>2, <1>3, <1>5, <2>1, Installed DEF Asks
  <2>3. Store!Ask(p, v)
    BY <2>2 DEF Store!Ask, installed, asked, applied, Asked, Applied
  <2> QED BY <2>3 DEF Store!Next
<1>8. CASE Applies(p)
  <2>1. /\ installed' = Store!Whole(asked[p]) /\ applied' = applied \union {p} /\ answer' = answer
        /\ asked[p] # None /\ p \notin applied /\ asked' = asked
    BY <1>1, <1>2, <1>3, <1>4, <1>8, Installed DEF Applies
  <2>2. Store!Apply(p)
    BY <2>1 DEF Store!Apply, installed, asked, applied, Asked, Applied
  <2> QED BY <2>2 DEF Store!Next
<1>9. CASE Answers(p)
  <2>1. /\ installed' = installed /\ applied' = applied \ {p}
        /\ answer' = [answer EXCEPT ![p] = IF p \in applied THEN "ok" ELSE "error"]
        /\ asked[p] # None /\ asked' = [asked EXCEPT ![p] = None]
    BY <1>1, <1>2, <1>3, <1>9, Installed DEF Answers
  <2>2. Store!Answer(p)
    BY <2>1 DEF Store!Answer, installed, asked, applied, Asked, Applied
  <2> QED BY <2>2 DEF Store!Next
<1>10. CASE Hears(p)
  <2>1. /\ installed' = installed /\ applied' = applied /\ asked' = asked
        /\ answer' = [answer EXCEPT ![p] = "none"] /\ answer[p] # "none"
    BY <1>1, <1>2, <1>3, <1>4, <1>5, <1>10, Installed DEF Hears
  <2>2. Store!Hear(p)
    BY <2>1 DEF Store!Hear, installed, asked, applied, Asked, Applied
  <2> QED BY <2>2 DEF Store!Next
<1>11. CASE Dies(p)
  <2>1. /\ installed' = installed /\ applied' = applied \ {p}
        /\ answer' = [answer EXCEPT ![p] = "none"] /\ asked' = [asked EXCEPT ![p] = None]
    BY <1>1, <1>2, <1>3, <1>11, Installed DEF Dies
  <2>2. Store!Crash(p)
    BY <2>1 DEF Store!Crash, installed, asked, applied, Asked, Applied
  <2> QED BY <2>2 DEF Store!Next
<1> QED BY <1>6, <1>7, <1>8, <1>9, <1>10, <1>11 DEF Means
-----------------------------------------------------------------------------
(* Each step keeps the invariant and is one of the package store.          *)

(* A step of p that keeps the invariant leaves the other processes alone. *)
LEMMA Arrives ==
    ASSUME DiskInv, LockInv, NEW p \in Procs, NEW at, NEW s, NEW v, NEW done, NEW a,
           Goes(p, at, s, v, done, a), Controls(at, s, v, done, a),
           uncertain' \in BOOLEAN,
           \/ marker' = marker /\ tree' = tree
           \/ pc[p] \in Leased /\ marker' \in Markers /\ tree' \in Trees /\ DiskOK(marker', tree'),
           Runs(marker', tree', at, s, v, done)
    PROVE  /\ DiskInv' /\ Apart(p) /\ answer'[p] = a
           /\ Asked(p)' = IF at = "done" THEN None ELSE v
           /\ Applied(p)' <=> at \in {"committing", "cleaning"} /\ (at = "committing" => s = <<>>)
PROOF
<1>1. DiskInv'
  BY GoesKeeps
<1>2. /\ Apart(p) /\ pc'[p] = at /\ todo'[p] = s /\ job'[p] = v /\ answer'[p] = a
  BY GoesApart
<1> QED BY <1>1, <1>2 DEF Asked, Applied

(* What a step does not change of p is as it was. *)
LEMMA Stays ==
    ASSUME DiskInv, LockInv, NEW p \in Procs
    PROVE  /\ pc = [pc EXCEPT ![p] = pc[p]] /\ todo = [todo EXCEPT ![p] = todo[p]]
           /\ job = [job EXCEPT ![p] = job[p]] /\ promoted = [promoted EXCEPT ![p] = promoted[p]]
           /\ answer = [answer EXCEPT ![p] = answer[p]]
PROOF BY DEF DiskInv, CallTypes, LockInv, LockTypes

(* What the invariant says of the disk and of p. *)
LEMMA InvFacts ==
    ASSUME DiskInv, NEW p \in Procs
    PROVE  /\ marker \in Markers /\ tree \in Trees /\ DiskOK(marker, tree) /\ uncertain \in BOOLEAN
           /\ Controls(pc[p], todo[p], job[p], promoted[p], answer[p])
           /\ Runs(marker, tree, pc[p], todo[p], job[p], promoted[p])
PROOF BY DEF DiskInv, InControl, OnCourse

(* A step that leaves the disk alone leaves each path what it will be. *)
LEMMA SameDisk == marker' = marker /\ tree' = tree => SameStore
PROOF BY DEF SameStore

(* acquireExtensionOperation: a process that competes for the lock is not  *)
(* seen in the store.                                                      *)
LEMMA CompetingMeans ==
    ASSUME DiskInv, LockInv, NEW p \in Procs, Publish(p) \/ Look(p) \/ Judge(p) \/ BackOff(p)
    PROVE  DiskInv' /\ Apart(p) /\ Means(p)
PROOF
<1>1. /\ marker' = marker /\ tree' = tree /\ uncertain' = uncertain /\ pc[p] \in Bare
      /\ todo' = todo /\ job' = job /\ promoted' = promoted /\ answer' = answer
  BY DEF Publish, Look, Judge, BackOff, disk, locks, Bare
<1>2. PICK at \in Bare : pc' = [pc EXCEPT ![p] = at]
  <2>1. CASE Publish(p) \/ Look(p) \/ BackOff(p)
    BY <2>1 DEF Publish, Look, BackOff, Goto, Bare
  <2>2. CASE Judge(p)
    BY <2>2, Stays DEF Judge, Goto, Bare
  <2> QED BY <2>1, <2>2
<1>3. Goes(p, at, todo[p], job[p], promoted[p], answer[p])
  BY <1>1, <1>2, Stays DEF Goes
<1>4. Controls(at, todo[p], job[p], promoted[p], answer[p])
  BY <1>1, InvFacts DEF Controls, Bare, Running, Working
<1>5. Runs(marker', tree', at, todo[p], job[p], promoted[p])
  BY NoProgram DEF Bare, Running
<1>6. /\ DiskInv' /\ Apart(p) /\ answer'[p] = answer[p]
      /\ Asked(p)' = IF at = "done" THEN None ELSE job[p]
      /\ Applied(p)' <=> at \in {"committing", "cleaning"} /\ (at = "committing" => todo[p] = <<>>)
  BY <1>1, <1>3, <1>4, <1>5, InvFacts, Arrives
<1>7. Rests(p)
  BY <1>1, <1>6, SameDisk DEF Rests, Asked, Applied, Bare
<1> QED BY <1>6, <1>7 DEF Means

(* The lease is granted, and the call begins. *)
LEMMA EnterMeans ==
    ASSUME DiskInv, LockInv, NEW p \in Procs, NEW v \in Targets \union {None}, EnterLease(p, v)
    PROVE  DiskInv' /\ Apart(p) /\ Means(p)
PROOF
<1>1. /\ marker' = marker /\ tree' = tree /\ uncertain' = uncertain /\ pc[p] = "judging"
      /\ pc' = [pc EXCEPT ![p] = "recovering"] /\ todo' = [todo EXCEPT ![p] = Recovery(marker)]
      /\ job' = [job EXCEPT ![p] = v] /\ promoted' = promoted /\ answer' = answer
  BY DEF EnterLease, Run, Goto, disk, locks
<1>2. Goes(p, "recovering", Recovery(marker), v, promoted[p], answer[p])
  BY <1>1, Stays DEF Goes
<1>3. Clears(marker, tree, Recovery(marker))
  BY InvFacts, RecoveryClears
<1>4. Recovery(marker) \in Seq(Programs)
  BY <1>3 DEF Clears, Proper
<1>5. job[p] = None /\ promoted[p] = {} /\ answer[p] = "none"
  BY <1>1, InvFacts DEF Controls, Working, Running
<1>6. Controls("recovering", Recovery(marker), v, promoted[p], answer[p])
  BY <1>4, <1>5 DEF Controls, Running, Working
<1>7. Runs(marker', tree', "recovering", Recovery(marker), v, promoted[p])
  BY <1>1, <1>3 DEF Runs
<1>8. /\ DiskInv' /\ Apart(p) /\ answer'[p] = answer[p] /\ Asked(p)' = v /\ ~ Applied(p)'
  BY <1>1, <1>2, <1>6, <1>7, InvFacts, Arrives
<1>9. Asked(p) = None /\ ~ Applied(p) /\ SameStore
  BY <1>1, <1>5, SameDisk DEF Asked, Applied
<1>10. CASE v \in Targets
  BY <1>5, <1>8, <1>9, <1>10 DEF Means, Asks
<1>11. CASE v = None
  BY <1>5, <1>8, <1>9, <1>11 DEF Means, Rests
<1> QED BY <1>8, <1>10, <1>11

(* A step that leaves the disk alone and takes p, whose program does what  *)
(* Runs says, somewhere in its call.                                       *)
LEMMA GoesOn ==
    ASSUME DiskInv, LockInv, NEW p \in Procs, NEW at \in Working, at # "done",
           NEW s, NEW done, marker' = marker, tree' = tree, uncertain' = uncertain,
           Goes(p, at, s, job[p], done, answer[p]), Controls(at, s, job[p], done, answer[p]),
           Runs(marker, tree, at, s, job[p], done),
           pc[p] # "done", Applied(p) <=> at \in {"committing", "cleaning"} /\ (at = "committing" => s = <<>>)
    PROVE  DiskInv' /\ Apart(p) /\ Means(p)
PROOF
<1>1. /\ DiskInv' /\ Apart(p) /\ answer'[p] = answer[p] /\ Asked(p)' = job[p]
      /\ Applied(p)' <=> at \in {"committing", "cleaning"} /\ (at = "committing" => s = <<>>)
  BY InvFacts, Arrives
<1>2. Rests(p)
  BY <1>1, SameDisk DEF Rests, Asked
<1> QED BY <1>1, <1>2 DEF Means

(* A call of a process ends with the answer a. *)
LEMMA FinishMeans ==
    ASSUME DiskInv, LockInv, NEW p \in Procs, NEW a, pc[p] \in Working, pc[p] # "done",
           uncertain' \in BOOLEAN, job' = job, promoted' = promoted, Finish(p, a),
           \/ marker' = marker /\ tree' = tree
           \/ marker' \in Markers /\ tree' \in Trees /\ DiskOK(marker', tree'),
           SameStore,
           job[p] \in Targets => a = IF Applied(p) THEN "ok" ELSE "error",
           job[p] = None => a = "none"
    PROVE  DiskInv' /\ Apart(p) /\ Means(p)
PROOF
<1>1. Goes(p, "done", <<>>, job[p], promoted[p], a)
  BY Stays DEF Goes, Finish, Run, Goto, Reply
<1>2. Controls(pc[p], todo[p], job[p], promoted[p], answer[p])
  BY InvFacts
<1>3. Controls("done", <<>>, job[p], promoted[p], a)
  BY <1>2 DEF Controls, Running, Working
<1>4. Runs(marker', tree', "done", <<>>, job[p], promoted[p])
  BY NoProgram DEF Running
<1>5. pc[p] \in Leased
  BY DEF Leased
<1>6. DiskInv' /\ Apart(p) /\ answer'[p] = a /\ Asked(p)' = None /\ ~ Applied(p)'
  BY <1>1, <1>3, <1>4, <1>5, Arrives
<1>7. Asked(p) = job[p]
  BY DEF Asked
<1>8. CASE job[p] \in Targets
  <2>1. job[p] # None
    BY <1>8, NothingThere
  <2>2. Answers(p)
    BY <1>6, <1>7, <1>8, <2>1 DEF Answers
  <2> QED BY <1>6, <2>2 DEF Means
<1>9. CASE job[p] = None
  <2>1. answer[p] = "none" /\ ~ Applied(p)
    <3>1. pc[p] \notin {"committing", "cleaning"}
      BY <1>2, <1>9, NothingThere DEF Controls, Running
    <3> QED BY <1>2, <3>1 DEF Controls, Applied
  <2>2. Rests(p)
    BY <1>6, <1>7, <1>9, <2>1 DEF Rests
  <2> QED BY <1>6, <2>2 DEF Means
<1> QED BY <1>2, <1>8, <1>9 DEF Controls

(* recoverUnderLease ends, or fails. *)
LEMMA RecoveringMeans ==
    ASSUME DiskInv, LockInv, NEW p \in Procs, Recovered(p) \/ RecoveryFails(p)
    PROVE  DiskInv' /\ Apart(p) /\ Means(p)
PROOF
<1>1. /\ marker' = marker /\ tree' = tree /\ uncertain' = uncertain /\ pc[p] = "recovering"
      /\ job' = job /\ promoted' = promoted
  BY DEF Recovered, RecoveryFails, disk, locks
<1>2. Controls(pc[p], todo[p], job[p], promoted[p], answer[p]) /\ marker \in Markers /\ uncertain \in BOOLEAN
      /\ Runs(marker, tree, pc[p], todo[p], job[p], promoted[p])
  BY InvFacts
<1>3. ~ Applied(p) /\ pc[p] \in Working /\ pc[p] # "done"
  BY <1>1 DEF Applied, Working
<1>4. CASE Recovered(p) /\ job[p] # None
  <2>1. todo[p] = <<>> /\ job[p] \in Targets
    BY <1>2, <1>4 DEF Recovered, Controls
  <2>2. marker.phase = "none"
    BY <1>1, <1>2, <2>1, ClearedAtTheEnd DEF Runs
  <2>3. pc' = [pc EXCEPT ![p] = "preparing"] /\ todo' = todo /\ answer' = answer
    BY <1>4 DEF Recovered, Goto
  <2>4. Goes(p, "preparing", <<>>, job[p], promoted[p], answer[p])
    BY <1>1, <2>1, <2>3, Stays DEF Goes
  <2>5. Controls("preparing", <<>>, job[p], promoted[p], answer[p])
    BY <1>1, <1>2, <2>1 DEF Controls, Running, Working
  <2>6. Runs(marker, tree, "preparing", <<>>, job[p], promoted[p])
    BY <2>2 DEF Runs
  <2> QED BY <1>1, <1>3, <2>4, <2>5, <2>6, GoesOn DEF Working
<1>5. CASE Recovered(p) /\ job[p] = None
  <2>1. Finish(p, "none")
    BY <1>5 DEF Recovered
  <2> QED BY <1>1, <1>2, <1>3, <1>5, <2>1, NothingThere, SameDisk, FinishMeans
<1>6. CASE RecoveryFails(p)
  <2>1. Finish(p, IF job[p] \in Targets THEN "error" ELSE "none")
    BY <1>6 DEF RecoveryFails
  <2> QED BY <1>1, <1>2, <1>3, <2>1, NothingThere, SameDisk, FinishMeans
<1> QED BY <1>4, <1>5, <1>6

(* A call that fails before its transaction begins answers an error. *)
LEMMA PrepareMeans ==
    ASSUME DiskInv, LockInv, NEW p \in Procs, PrepareFails(p)
    PROVE  DiskInv' /\ Apart(p) /\ Means(p)
PROOF
<1>1. /\ marker' = marker /\ tree' = tree /\ pc[p] = "preparing" /\ uncertain' \in {uncertain, TRUE}
      /\ job' = job /\ promoted' = promoted /\ Finish(p, "error") /\ job[p] \in Versions
  BY DEF PrepareFails, disk
<1>2. uncertain' \in BOOLEAN
  BY <1>1, InvFacts
<1>3. ~ Applied(p) /\ pc[p] \in Working /\ pc[p] # "done" /\ job[p] # None
  BY <1>1, NothingThere DEF Applied, Working, Targets
<1> QED BY <1>1, <1>2, <1>3, SameDisk, FinishMeans

(* Before a transaction begins nothing is under way. *)
LEMMA Prepared ==
    ASSUME DiskInv, NEW p \in Procs, pc[p] = "preparing"
    PROVE  /\ marker.phase = "none" /\ job[p] \in Targets /\ job[p] # None /\ promoted[p] = {}
           /\ todo[p] = <<>> /\ answer[p] = "none" /\ Asked(p) = job[p] /\ ~ Applied(p)
PROOF BY InvFacts, NothingThere DEF Controls, Runs, Running, Working, Asked, Applied

(* beginExtensionInstallTransaction: the marker is written, over a store   *)
(* that stays as it was.                                                   *)
LEMMA BeginMeans ==
    ASSUME DiskInv, LockInv, NEW p \in Procs, Begin(p)
    PROVE  DiskInv' /\ Apart(p) /\ Means(p)
PROOF
<1> DEFINE v == job[p]
<1>1. /\ pc[p] = "preparing" /\ job' = job /\ promoted' = promoted /\ answer' = answer /\ uncertain' = uncertain
  BY DEF Begin, locks
<1>2. /\ marker.phase = "none" /\ v \in Targets /\ v # None /\ promoted[p] = {}
      /\ todo[p] = <<>> /\ answer[p] = "none" /\ Asked(p) = v /\ ~ Applied(p)
  BY <1>1, Prepared
<1>3. pc[p] \in Leased
  BY <1>1 DEF Leased, Working
<1>4. CASE v = Absent /\ tree["cur"][package] = None
  <2>1. /\ marker' = marker /\ tree' = tree /\ pc' = [pc EXCEPT ![p] = "cleaning"]
        /\ todo' = [todo EXCEPT ![p] = <<>>]
    BY <1>4 DEF Begin, Run, Goto, disk
  <2>2. Goes(p, "cleaning", <<>>, v, {}, answer[p])
    BY <1>1, <1>2, <2>1, Stays DEF Goes
  <2>3. Controls("cleaning", <<>>, v, {}, answer[p])
    BY <1>2 DEF Controls, Running, Working
  <2>4. Runs(marker', tree', "cleaning", <<>>, v, {})
    BY <1>2, <2>1, NothingToClear DEF Runs
  <2>5. /\ DiskInv' /\ Apart(p) /\ answer'[p] = answer[p] /\ Asked(p)' = v /\ Applied(p)'
    BY <1>1, <2>1, <2>2, <2>3, <2>4, InvFacts, Arrives
  <2>6. \A q \in Paths : Value(marker', tree', q) = Part(v, q)
    <3>1. PICK w \in Targets : \A q \in Paths : Value(marker, tree, q) = Part(w, q)
      BY InvFacts DEF DiskOK
    <3>2. Value(marker, tree, package) = None
      BY <1>2, <1>4 DEF Value
    <3>3. package \notin Parts[w]
      BY <3>1, <3>2, ThreePaths, NothingThere DEF Part
    <3>4. Parts[w] = {} /\ Parts[v] = {}
      BY <1>4, <3>3, PartsAssumption DEF Targets
    <3> QED BY <2>1, <3>1, <3>4 DEF Part
  <2>7. Applies(p)
    BY <1>2, <2>5, <2>6 DEF Applies
  <2> QED BY <2>5, <2>7 DEF Means
<1>5. CASE ~ (v = Absent /\ tree["cur"][package] = None)
  <2>1. /\ marker' = Transaction(v) /\ tree' = Stage(v) /\ pc' = [pc EXCEPT ![p] = "committing"]
        /\ todo' = [todo EXCEPT ![p] = Moves(marker', v)]
    BY <1>5 DEF Begin, Run, Goto
  <2>2. Opens(marker', tree, tree', v)
    BY <2>1 DEF Opens, Transaction, Stage
  <2>3. PICK m, u : m = marker' /\ u = tree'
    OBVIOUS
  <2>4. marker \in Markers /\ tree \in Trees /\ DiskOK(marker, tree) /\ Opens(m, tree, u, v)
    BY <2>2, <2>3, InvFacts
  <2>5. /\ m \in Markers /\ u \in Trees
        /\ \A q \in Paths : Value(m, u, q) = Value(marker, tree, q)
        /\ DiskOK(m, u) /\ Installs(m, u, Moves(m, v), v, {}) /\ Moves(m, v) # <<>>
    BY <1>2, <2>4, MovesInstalls
  <2>6. Goes(p, "committing", Moves(m, v), v, {}, answer[p])
    BY <1>1, <1>2, <2>1, <2>3, Stays DEF Goes
  <2>7. Controls("committing", Moves(m, v), v, {}, answer[p])
    <3>1. Moves(m, v) \in Seq(Programs)
      BY <2>5 DEF Installs, Proper
    <3> QED BY <1>2, <3>1 DEF Controls, Running, Working
  <2>8. Runs(m, u, "committing", Moves(m, v), v, {})
    BY <2>5 DEF Runs
  <2>9. /\ DiskInv' /\ Apart(p) /\ answer'[p] = answer[p] /\ Asked(p)' = v /\ ~ Applied(p)'
    BY <1>1, <1>3, <2>3, <2>5, <2>6, <2>7, <2>8, InvFacts, Arrives
  <2>10. SameStore
    BY <2>3, <2>5 DEF SameStore
  <2>11. Rests(p)
    BY <1>2, <2>9, <2>10 DEF Rests
  <2> QED BY <2>9, <2>11 DEF Means
<1> QED BY <1>4, <1>5

(* A transaction that cannot begin is taken back. *)
LEMMA BeginFailsMeans ==
    ASSUME DiskInv, LockInv, NEW p \in Procs, BeginFails(p)
    PROVE  DiskInv' /\ Apart(p) /\ Means(p)
PROOF
<1> DEFINE v == job[p]
<1>1. /\ pc[p] = "preparing" /\ job' = job /\ promoted' = promoted /\ uncertain' = uncertain
      /\ tree' = Stage(v) /\ marker' \in {marker, Transaction(v)}
  BY DEF BeginFails, locks
<1>2. /\ marker.phase = "none" /\ v \in Targets /\ v # None /\ promoted[p] = {}
      /\ todo[p] = <<>> /\ answer[p] = "none" /\ Asked(p) = v /\ ~ Applied(p)
  BY <1>1, Prepared
<1>3. pc[p] \in Leased /\ pc[p] \in Working /\ pc[p] # "done"
  BY <1>1 DEF Leased, Working
<1>4. PICK m, u : m = Transaction(v) /\ u = tree'
  OBVIOUS
<1>5. Opens(m, tree, u, v)
  BY <1>1, <1>4 DEF Opens, Transaction, Stage
<1>6. marker \in Markers /\ tree \in Trees /\ DiskOK(marker, tree)
  BY InvFacts
<1>7. /\ m \in Markers /\ u \in Trees
      /\ \A q \in Paths : /\ Value(marker, u, q) = Value(marker, tree, q) /\ Value(m, u, q) = Value(marker, tree, q)
                          /\ Undoable(marker, u, q, {}) /\ Undoable(m, u, q, {})
      /\ DiskOK(marker, u) /\ DiskOK(m, u)
  BY <1>2, <1>5, <1>6, MovesInstalls
<1>8. PICK k : k = marker'
  OBVIOUS
<1>9. /\ k \in Markers /\ DiskOK(k, u) /\ \A q \in Paths : Undoable(k, u, q, {})
      /\ \A q \in Paths : Value(k, u, q) = Value(marker, tree, q)
  <2>1. CASE k = marker
    BY <1>6, <1>7, <2>1
  <2>2. CASE k = m
    BY <1>7, <2>2
  <2> QED BY <1>1, <1>4, <1>8, <2>1, <2>2
<1>13. k.phase = "none" \/ (k.phase = "prepared" /\ k = m)
  <2>1. m.phase = "prepared"
    BY <1>5 DEF Opens
  <2>2. k = marker \/ k = m
    BY <1>1, <1>4, <1>8
  <2>3. k = marker => k.phase = "none"
    BY <1>2
  <2>4. k = m => k.phase = "prepared"
    BY <2>1
  <2> QED BY <2>2, <2>3, <2>4
<1>10. SameStore
  BY <1>4, <1>8, <1>9 DEF SameStore
<1>11. CASE v = Absent
  <2>1. Finish(p, "error")
    BY <1>11 DEF BeginFails
  <2>2. marker' \in Markers /\ tree' \in Trees /\ DiskOK(marker', tree')
    BY <1>4, <1>7, <1>8, <1>9
  <2>3. uncertain' \in BOOLEAN
    BY <1>1, InvFacts
  <2> QED BY <1>1, <1>2, <1>3, <1>10, <2>1, <2>2, <2>3, FinishMeans
<1>12. CASE v # Absent
  <2>1. /\ pc' = [pc EXCEPT ![p] = "unwinding"] /\ answer' = answer
        /\ todo' = [todo EXCEPT ![p] = Undo(m, {})]
    BY <1>4, <1>12 DEF BeginFails, Run, Goto
  <2>2. PICK none : none = {}
    OBVIOUS
  <2>3. /\ (k.phase = "none" /\ none = {}) \/ (k.phase = "prepared" /\ k = m)
        /\ \A q \in Paths : Undoable(k, u, q, none)
    BY <1>9, <1>13, <2>2
  <2>4. Clears(k, u, Undo(m, none))
    BY <1>7, <1>9, <2>3, UndoClears
  <2>5. Goes(p, "unwinding", Undo(m, none), v, none, answer[p])
    BY <1>1, <1>2, <2>1, <2>2, Stays DEF Goes
  <2>6. Controls("unwinding", Undo(m, none), v, none, answer[p])
    <3>1. Undo(m, none) \in Seq(Programs)
      BY <2>4 DEF Clears, Proper
    <3> QED BY <1>2, <2>2, <3>1 DEF Controls, Running, Working
  <2>7. Runs(k, u, "unwinding", Undo(m, none), v, none)
    BY <2>4 DEF Runs
  <2>8. /\ DiskInv' /\ Apart(p) /\ answer'[p] = answer[p] /\ Asked(p)' = v /\ ~ Applied(p)'
    BY <1>1, <1>3, <1>4, <1>7, <1>8, <1>9, <2>5, <2>6, <2>7, InvFacts, Arrives
  <2>9. Rests(p)
    BY <1>2, <1>10, <2>8 DEF Rests
  <2> QED BY <2>8, <2>9 DEF Means
<1> QED BY <1>11, <1>12

(* After the commit the call cleans up. *)
LEMMA CommittedMeans ==
    ASSUME DiskInv, LockInv, NEW p \in Procs, Committed(p)
    PROVE  DiskInv' /\ Apart(p) /\ Means(p)
PROOF
<1>1. /\ pc[p] = "committing" /\ todo[p] = <<>> /\ marker' = marker /\ tree' = tree /\ uncertain' = uncertain
      /\ job' = job /\ promoted' = promoted /\ answer' = answer
      /\ pc' = [pc EXCEPT ![p] = "cleaning"] /\ todo' = [todo EXCEPT ![p] = Recovery(marker)]
  BY DEF Committed, Run, Goto, disk, locks
<1>2. /\ Controls(pc[p], todo[p], job[p], promoted[p], answer[p])
      /\ Runs(marker, tree, pc[p], todo[p], job[p], promoted[p])
  BY InvFacts
<1>3. marker.phase = "committed"
  BY <1>1, <1>2 DEF Runs, Installs
<1>4. Clears(marker, tree, Recovery(marker))
  BY InvFacts, RecoveryClears
<1>5. Goes(p, "cleaning", Recovery(marker), job[p], promoted[p], answer[p])
  BY <1>1, Stays DEF Goes
<1>6. Controls("cleaning", Recovery(marker), job[p], promoted[p], answer[p])
  <2>1. Recovery(marker) \in Seq(Programs)
    BY <1>4 DEF Clears, Proper
  <2> QED BY <1>1, <1>2, <2>1 DEF Controls, Running, Working
<1>7. Runs(marker, tree, "cleaning", Recovery(marker), job[p], promoted[p])
  BY <1>3, <1>4 DEF Runs
<1>8. Applied(p)
  BY <1>1 DEF Applied
<1>9. "cleaning" \in Working
  BY DEF Working
<1> QED BY <1>1, <1>5, <1>6, <1>7, <1>8, <1>9, GoesOn

(* The call ends, with its success or with the error of what was taken     *)
(* back.                                                                   *)
LEMMA EndingMeans ==
    ASSUME DiskInv, LockInv, NEW p \in Procs, Cleaned(p) \/ Unwound(p)
    PROVE  DiskInv' /\ Apart(p) /\ Means(p)
PROOF
<1>1. /\ pc[p] \in {"cleaning", "unwinding"} /\ marker' = marker /\ tree' = tree /\ uncertain' = uncertain
      /\ job' = job /\ promoted' = promoted
      /\ Finish(p, IF pc[p] = "cleaning" THEN "ok" ELSE "error")
  BY DEF Cleaned, Unwound, disk, locks
<1>2. Controls(pc[p], todo[p], job[p], promoted[p], answer[p])
  BY InvFacts
<1>3. job[p] # None /\ pc[p] \in Working /\ pc[p] # "done"
  BY <1>1, <1>2, NothingThere DEF Controls, Running, Working
<1>4. Applied(p) <=> pc[p] = "cleaning"
  BY <1>1 DEF Applied
<1> QED BY <1>1, <1>3, <1>4, InvFacts, SameDisk, FinishMeans
-----------------------------------------------------------------------------
(* An installation whose commands may fail to be taken back has no command *)
(* to take back.                                                           *)
CommandsReturn == \A v \in Fragile : command \notin Parts[v]

(* A move fails, and the catch block begins. *)
LEMMA MoveFailsMeans ==
    ASSUME CommandsReturn, DiskInv, LockInv, NEW p \in Procs, MoveFails(p)
    PROVE  DiskInv' /\ Apart(p) /\ Means(p)
PROOF
<1>1. /\ pc[p] = "committing" /\ todo[p] # <<>> /\ marker' = marker /\ tree' = tree /\ uncertain' = uncertain
      /\ job' = job /\ promoted' = promoted /\ answer' = answer
  BY DEF MoveFails, disk, locks
<1>2. PICK v, done : v = job[p] /\ done = promoted[p]
  OBVIOUS
<1>3. /\ Controls(pc[p], todo[p], v, done, answer[p]) /\ Installs(marker, tree, todo[p], v, done)
      /\ marker \in Markers /\ tree \in Trees /\ DiskOK(marker, tree)
  BY <1>1, <1>2, InvFacts DEF Runs
<1>4. marker.phase = "prepared" /\ \A q \in Paths : Undoable(marker, tree, q, done)
  BY <1>1, <1>3, InstallsUndoable
<1>5. v \in Targets /\ done \subseteq Parts[v] /\ v # None
  BY <1>1, <1>3, NothingThere DEF Controls, Running
<1>6. ~ Applied(p) /\ pc[p] # "done"
  BY <1>1 DEF Applied
<1>7. \E at \in {"undoing", "unwinding"} : \E s :
          /\ pc' = [pc EXCEPT ![p] = at] /\ todo' = [todo EXCEPT ![p] = s]
          /\ Proper(s) /\ Runs(marker, tree, at, s, v, done)
  <2>1. CASE v = Absent
    <3>1. pc' = [pc EXCEPT ![p] = "unwinding"] /\ todo' = [todo EXCEPT ![p] = Recovery(marker)]
      BY <1>2, <2>1 DEF MoveFails, Run, Goto
    <3>2. Clears(marker, tree, Recovery(marker))
      BY <1>3, RecoveryClears
    <3>3. Proper(Recovery(marker)) /\ Runs(marker, tree, "unwinding", Recovery(marker), v, done)
      BY <3>2 DEF Runs, Clears
    <3> QED BY <3>1, <3>3
  <2>2. CASE v # Absent /\ package \in done /\ Head(todo[p]) # Commit
    <3>1. pc' = [pc EXCEPT ![p] = "undoing"] /\ todo' = [todo EXCEPT ![p] = UndoCommands(marker, done)]
      BY <1>2, <2>2 DEF MoveFails, Run, Goto
    <3>2. v \in Fragile => command \notin done
      BY <1>5 DEF CommandsReturn
    <3>3. TakesBack(marker, tree, UndoCommands(marker, done), v, done)
      BY <1>3, <1>4, <2>2, <3>2, UndoCommandsTakesBack
    <3>4. Proper(UndoCommands(marker, done)) /\ Runs(marker, tree, "undoing", UndoCommands(marker, done), v, done)
      BY <3>3 DEF Runs, TakesBack
    <3> QED BY <3>1, <3>4
  <2>3. CASE v # Absent /\ ~ (package \in done /\ Head(todo[p]) # Commit)
    <3>1. pc' = [pc EXCEPT ![p] = "unwinding"] /\ todo' = [todo EXCEPT ![p] = Undo(marker, done)]
      BY <1>2, <2>3 DEF MoveFails, Run, Goto
    <3>2. Clears(marker, tree, Undo(marker, done))
      BY <1>3, <1>4, UndoClears
    <3>3. Proper(Undo(marker, done)) /\ Runs(marker, tree, "unwinding", Undo(marker, done), v, done)
      BY <3>2 DEF Runs, Clears
    <3> QED BY <3>1, <3>3
  <2> QED BY <2>1, <2>2, <2>3
<1>13. PICK at \in {"undoing", "unwinding"} : \E s :
          /\ pc' = [pc EXCEPT ![p] = at] /\ todo' = [todo EXCEPT ![p] = s]
          /\ Proper(s) /\ Runs(marker, tree, at, s, v, done)
  BY <1>7
<1>14. PICK s : /\ pc' = [pc EXCEPT ![p] = at] /\ todo' = [todo EXCEPT ![p] = s]
                /\ Proper(s) /\ Runs(marker, tree, at, s, v, done)
  BY <1>13
<1>8. Goes(p, at, s, job[p], done, answer[p])
  BY <1>1, <1>2, <1>14, Stays DEF Goes
<1>9. Controls(at, s, job[p], done, answer[p])
  BY <1>1, <1>2, <1>3, <1>5, <1>14 DEF Controls, Running, Working, Proper
<1>10. Runs(marker, tree, at, s, job[p], done) /\ at \in Working /\ at # "done"
       /\ at \notin {"committing", "cleaning"}
  BY <1>2, <1>14 DEF Working
<1> QED BY <1>1, <1>6, <1>8, <1>9, <1>10, GoesOn

(* The commands are back, or that has failed, and the package is to        *)
(* follow.                                                                 *)
LEMMA UndoneMeans ==
    ASSUME DiskInv, LockInv, NEW p \in Procs, Undone(p)
    PROVE  DiskInv' /\ Apart(p) /\ Means(p)
PROOF
<1>1. /\ pc[p] = "undoing" /\ marker' = marker /\ tree' = tree /\ uncertain' = uncertain
      /\ job' = job /\ answer' = answer
      /\ pc' = [pc EXCEPT ![p] = "unwinding"] /\ todo' = [todo EXCEPT ![p] = Undo(marker, promoted'[p])]
      /\ \/ todo[p] = <<>> /\ promoted' = [promoted EXCEPT ![p] = {package}]
         \/ todo[p] # <<>> /\ job[p] \in Fragile /\ promoted' = promoted
  BY DEF Undone, Run, Goto, disk, locks
<1>2. PICK v, done, left : /\ v = job[p] /\ done = promoted[p]
                           /\ left = IF todo[p] = <<>> THEN {package} ELSE done
  OBVIOUS
<1>3. /\ Controls(pc[p], todo[p], v, done, answer[p]) /\ TakesBack(marker, tree, todo[p], v, done)
      /\ marker \in Markers /\ tree \in Trees /\ DiskOK(marker, tree)
  BY <1>1, <1>2, InvFacts DEF Runs
<1>4. /\ promoted' = [promoted EXCEPT ![p] = left]
      /\ (todo[p] = <<>> /\ left = {package}) \/ (todo[p] # <<>> /\ v \in Fragile /\ left = done)
  <2>1. promoted = [promoted EXCEPT ![p] = promoted[p]]
    BY Stays
  <2>2. CASE todo[p] = <<>>
    <3>1. left = {package}
      BY <1>2, <2>2
    <3>2. promoted' = [promoted EXCEPT ![p] = {package}]
      BY <1>1, <2>2
    <3>3. promoted' = [promoted EXCEPT ![p] = left]
      BY <3>1, <3>2
    <3> QED BY <2>2, <3>1, <3>3
  <2>3. CASE todo[p] # <<>>
    <3>1. left = done /\ promoted' = promoted /\ v \in Fragile
      BY <1>1, <1>2, <2>3
    <3> QED BY <1>2, <2>1, <2>3, <3>1
  <2> QED BY <2>2, <2>3
<1>12. promoted'[p] = left
  BY <1>4 DEF DiskInv, CallTypes
<1>5. marker.phase = "prepared" /\ \A q \in Paths : Undoable(marker, tree, q, left)
  BY <1>3, <1>4, TakenUndoable
<1>6. Clears(marker, tree, Undo(marker, left))
  BY <1>3, <1>5, UndoClears
<1>7. package \in done
  BY <1>3 DEF TakesBack
<1>8. Goes(p, "unwinding", Undo(marker, left), job[p], left, answer[p])
  BY <1>1, <1>4, <1>12, Stays DEF Goes
<1>9. Controls("unwinding", Undo(marker, left), job[p], left, answer[p])
  <2>1. Undo(marker, left) \in Seq(Programs)
    BY <1>6 DEF Clears, Proper
  <2>2. left \in SUBSET Paths /\ (v \in Targets => left \subseteq Parts[v])
    BY <1>3, <1>4, <1>7, ThreePaths DEF Controls
  <2> QED BY <1>1, <1>2, <1>3, <2>1, <2>2 DEF Controls, Running, Working
<1>10. Runs(marker, tree, "unwinding", Undo(marker, left), job[p], left)
  BY <1>6 DEF Runs
<1>11. ~ Applied(p) /\ pc[p] # "done" /\ "unwinding" \in Working
  BY <1>1 DEF Applied, Working
<1> QED BY <1>1, <1>8, <1>9, <1>10, <1>11, GoesOn

(* The answer is heard and the ticket deleted. *)
LEMMA ReleaseMeans ==
    ASSUME DiskInv, LockInv, NEW p \in Procs, Release(p)
    PROVE  DiskInv' /\ Apart(p) /\ Means(p)
PROOF
<1>1. /\ pc[p] = "done" /\ marker' = marker /\ tree' = tree /\ uncertain' = uncertain /\ todo' = todo
      /\ job' = [job EXCEPT ![p] = None] /\ promoted' = [promoted EXCEPT ![p] = {}]
      /\ answer' = [answer EXCEPT ![p] = "none"]
  BY DEF Release, Forget, Reply, disk
<1>2. PICK at \in {"idle", "stuck"} : pc' = [pc EXCEPT ![p] = at]
  BY DEF Release, Goto
<1>3. Controls(pc[p], todo[p], job[p], promoted[p], answer[p])
  BY InvFacts
<1>4. todo[p] = <<>>
  BY <1>1, <1>3 DEF Controls, Running
<1>5. Goes(p, at, <<>>, None, {}, "none")
  BY <1>1, <1>2, <1>4, Stays DEF Goes
<1>6. Controls(at, <<>>, None, {}, "none")
  BY NothingThere DEF Controls, Running, Working
<1>7. Runs(marker', tree', at, <<>>, None, {})
  BY NoProgram DEF Running
<1>8. DiskInv' /\ Apart(p) /\ answer'[p] = "none" /\ Asked(p)' = None /\ ~ Applied(p)'
  BY <1>1, <1>5, <1>6, <1>7, InvFacts, Arrives
<1>9. Asked(p) = None /\ ~ Applied(p)
  BY <1>1 DEF Asked, Applied
<1>10. Rests(p) \/ Hears(p)
  BY <1>1, <1>8, <1>9, SameDisk DEF Rests, Hears
<1> QED BY <1>8, <1>10 DEF Means

(* A process dies, wherever it is, and whatever it knew is lost. *)
LEMMA CrashMeans ==
    ASSUME DiskInv, LockInv, NEW p \in Procs, Crash(p)
    PROVE  DiskInv' /\ Apart(p) /\ Means(p)
PROOF
<1>1. /\ marker' = marker /\ tree' = tree /\ uncertain' = uncertain
      /\ Goes(p, "dead", <<>>, None, {}, "none")
  BY DEF Crash, Forget, Reply, Run, Goto, disk, locks, Goes
<1>2. Controls("dead", <<>>, None, {}, "none")
  BY NothingThere DEF Controls, Running, Working
<1>3. Runs(marker', tree', "dead", <<>>, None, {})
  BY NoProgram DEF Running
<1>4. DiskInv' /\ Apart(p) /\ answer'[p] = "none" /\ Asked(p)' = None /\ ~ Applied(p)'
  BY <1>1, <1>2, <1>3, InvFacts, Arrives
<1>5. Dies(p)
  BY <1>1, <1>4, SameDisk DEF Dies
<1> QED BY <1>4, <1>5 DEF Means

(* The programs that end what is marked promote nothing. *)
LEMMA NothingPromoted ==
    ASSUME NEW m \in Markers, NEW t, NEW s, NEW v, NEW done, s # <<>>,
           Clears(m, t, s) \/ TakesBack(m, t, s, v, done)
    PROVE  Knows(done, Head(s)) = done
PROOF
<1>1. Proper(s)
  BY DEF Clears, TakesBack
<1>2. Head(s) \in Coming(s)
  BY <1>1, ComingTail
<1>3. Coming(s) \subseteq Staged \union Currents \union Backups \union PutBacks \union Restores \union {Unmark}
  BY DEF Clears, TakesBack, Markers
<1>4. Head(s).op # "promote"
  BY <1>2, <1>3, OpFields DEF Staged, Currents, Backups, PutBacks, Restores
<1> QED BY <1>4 DEF Knows

(* Only parts of the version being installed are promoted. *)
LEMMA PartsPromoted ==
    ASSUME NEW m, NEW t, NEW s, NEW v, NEW done, s # <<>>, Installs(m, t, s, v, done),
           done \in SUBSET Paths, done \subseteq Parts[v]
    PROVE  Knows(done, Head(s)) \in SUBSET Paths /\ Knows(done, Head(s)) \subseteq Parts[v]
PROOF
<1>1. Proper(s) /\ Head(s) \in Coming(s) /\ Coming(s) \subseteq Asides \union Promotes \union {Commit}
      /\ \A q \in Paths : Promote(q) \in Coming(s) => q \in Parts[v]
  BY ComingTail DEF Installs, Moving
<1>2. CASE Head(s).op = "promote"
  <2>1. PICK q \in Paths : Head(s) = Promote(q)
    BY <1>1, <1>2, OpFields DEF Asides, Promotes
  <2>2. q \in Parts[v] /\ Head(s).path = q
    BY <1>1, <2>1, OpFields
  <2> QED BY <1>2, <2>2 DEF Knows
<1>3. CASE Head(s).op # "promote"
  BY <1>3 DEF Knows
<1> QED BY <1>2, <1>3

(* A file operation keeps the invariant; to the store it is the effect of  *)
(* the call when it is the commit, and nothing otherwise.                  *)
LEMMA FileOperationMeans ==
    ASSUME DiskInv, LockInv, NEW p \in Procs, FileOperation(p)
    PROVE  DiskInv' /\ Apart(p) /\ Means(p)
PROOF
<1>1. /\ pc[p] \in Working /\ pc' = pc /\ job' = job /\ answer' = answer /\ uncertain' = uncertain
      /\ promoted' = [promoted EXCEPT ![p] = Knows(promoted[p], Head(todo[p]))]
  BY FileOperationDoes
<1>2. PICK z : /\ Does(marker, tree, todo[p], marker', tree', z)
               /\ todo' = [todo EXCEPT ![p] = z]
  BY FileOperationDoes
<1>3. PICK at, s, v, done, n, u, left :
          /\ at = pc[p] /\ s = todo[p] /\ v = job[p] /\ done = promoted[p] /\ n = marker' /\ u = tree'
          /\ left = Knows(done, Head(s))
  OBVIOUS
<1>4. /\ marker \in Markers /\ tree \in Trees /\ DiskOK(marker, tree) /\ uncertain \in BOOLEAN
      /\ Controls(at, s, v, done, answer[p]) /\ Runs(marker, tree, at, s, v, done)
  BY <1>3, InvFacts
<1>5. s # <<>> /\ n \in Markers /\ u \in Trees /\ Does(marker, tree, s, n, u, z)
  BY <1>2, <1>3 DEF Does
<1>6. at \in Running
  BY <1>4, <1>5 DEF Controls
<1>7. Goes(p, at, z, job[p], left, answer[p])
  BY <1>1, <1>2, <1>3, Stays DEF Goes
<1>8. pc[p] \in Leased
  BY <1>1 DEF Leased
<1>9. at # "done" /\ Asked(p) = v /\ (Applied(p) <=> at = "cleaning")
  BY <1>3, <1>5, <1>6 DEF Running, Asked, Applied
<1>10. ASSUME at # "committing", DiskOK(n, u), left = done, Proper(z), Runs(n, u, at, z, v, done),
              \A q \in Paths : Value(n, u, q) = Value(marker, tree, q)
       PROVE  DiskInv' /\ Apart(p) /\ Means(p)
  <2>1. Controls(at, z, v, left, answer[p])
    BY <1>4, <1>6, <1>10 DEF Controls, Proper, Running, Working
  <2>2. /\ DiskInv' /\ Apart(p) /\ answer'[p] = answer[p] /\ Asked(p)' = v
        /\ Applied(p)' <=> at = "cleaning"
    <3>1. Controls(at, z, job[p], left, answer[p]) /\ Runs(marker', tree', at, z, job[p], left)
          /\ marker' \in Markers /\ tree' \in Trees /\ DiskOK(marker', tree') /\ uncertain' \in BOOLEAN
      BY <1>1, <1>3, <1>4, <1>5, <1>10, <2>1
    <3> QED BY <1>3, <1>7, <1>8, <1>9, <1>10, <3>1, Arrives
  <2>3. SameStore
    BY <1>3, <1>10 DEF SameStore
  <2>4. Rests(p)
    BY <1>9, <2>2, <2>3 DEF Rests
  <2> QED BY <2>2, <2>4 DEF Means
<1>11. CASE at \in {"recovering", "unwinding", "cleaning"}
  <2>1. Clears(marker, tree, s)
    BY <1>4, <1>11 DEF Runs
  <2>2. /\ DiskOK(n, u) /\ Clears(n, u, z)
        /\ \A r \in Paths : Value(n, u, r) = Value(marker, tree, r)
        /\ n.phase \in {marker.phase, "none"}
    BY <1>4, <1>5, <2>1, ClearsStep
  <2>3. left = done
    BY <1>3, <1>4, <1>5, <2>1, NothingPromoted
  <2>4. Proper(z) /\ Runs(n, u, at, z, v, done)
    <3>1. at = "cleaning" => n.phase # "prepared"
      BY <1>4, <2>2 DEF Runs
    <3> QED BY <1>11, <2>2, <3>1 DEF Runs, Clears
  <2> QED BY <1>10, <1>11, <2>2, <2>3, <2>4
<1>12. CASE at = "undoing"
  <2>1. TakesBack(marker, tree, s, v, done)
    BY <1>4, <1>12 DEF Runs
  <2>2. /\ n = marker /\ DiskOK(marker, u) /\ TakesBack(marker, u, z, v, done)
        /\ \A r \in Paths : Value(marker, u, r) = Value(marker, tree, r)
    <3>1. /\ marker \in Markers /\ tree \in Trees /\ DiskOK(marker, tree)
          /\ TakesBack(marker, tree, s, v, done) /\ Does(marker, tree, s, n, u, z)
      BY <1>4, <1>5, <2>1
    <3>2. n = marker /\ DiskOK(marker, u) /\ TakesBack(marker, u, z, v, done) /\ SameValues(marker, tree, u)
      BY <3>1, TakesBackStep
    <3> QED BY <3>2 DEF SameValues
  <2>3. left = done
    BY <1>3, <1>4, <1>5, <2>1, NothingPromoted
  <2>4. Proper(z) /\ Runs(n, u, at, z, v, done)
    BY <1>12, <2>2 DEF Runs, TakesBack
  <2> QED BY <1>10, <1>12, <2>2, <2>3, <2>4
<1>13. CASE at = "committing"
  <2>1. Installs(marker, tree, s, v, done) /\ v \in Targets /\ done \in SUBSET Paths /\ done \subseteq Parts[v]
    BY <1>4, <1>13 DEF Runs, Controls, Running
  <2>2. /\ DiskOK(n, u) /\ Installs(n, u, z, v, left)
        /\ Head(s) = Commit => z = <<>> /\ \A r \in Paths : Value(n, u, r) = Part(v, r)
        /\ Head(s) # Commit => z # <<>> /\ \A r \in Paths : Value(n, u, r) = Value(marker, tree, r)
    BY <1>3, <1>4, <1>5, <2>1, InstallsStep
  <2>3. left \in SUBSET Paths /\ left \subseteq Parts[v]
    BY <1>3, <1>5, <2>1, PartsPromoted
  <2>4. Controls(at, z, v, left, answer[p])
    BY <1>4, <1>13, <2>1, <2>2, <2>3 DEF Controls, Installs, Proper, Running, Working
  <2>5. Runs(n, u, at, z, v, left)
    BY <1>13, <2>2 DEF Runs
  <2>6. /\ DiskInv' /\ Apart(p) /\ answer'[p] = answer[p] /\ Asked(p)' = v
        /\ Applied(p)' <=> z = <<>>
    <3>1. Controls(at, z, job[p], left, answer[p]) /\ Runs(marker', tree', at, z, job[p], left)
          /\ marker' \in Markers /\ tree' \in Trees /\ DiskOK(marker', tree') /\ uncertain' \in BOOLEAN
      BY <1>1, <1>3, <1>4, <1>5, <2>2, <2>4, <2>5
    <3> QED BY <1>3, <1>7, <1>8, <1>13, <3>1, Arrives
  <2>7. CASE Head(s) = Commit
    <3>1. v # None
      BY <2>1, NothingThere
    <3>2. \A q \in Paths : Value(marker', tree', q) = Part(v, q)
      BY <1>3, <2>2, <2>7
    <3>3. Applies(p)
      BY <1>9, <1>13, <2>2, <2>6, <2>7, <3>1, <3>2 DEF Applies
    <3> QED BY <2>6, <3>3 DEF Means
  <2>8. CASE Head(s) # Commit
    <3>1. SameStore
      BY <1>3, <2>2, <2>8 DEF SameStore
    <3>2. Rests(p)
      BY <1>9, <1>13, <2>2, <2>6, <2>8, <3>1 DEF Rests
    <3> QED BY <2>6, <3>2 DEF Means
  <2> QED BY <2>7, <2>8
<1> QED BY <1>6, <1>11, <1>12, <1>13 DEF Running
-----------------------------------------------------------------------------
(* Every step keeps the invariant and means one step of the store, or      *)
(* none.                                                                   *)
LEMMA StepMeans ==
    ASSUME CommandsReturn, DiskInv, LockInv, Next
    PROVE  DiskInv' /\ \E p \in Procs : Apart(p) /\ Means(p)
PROOF
<1>1. PICK p \in Procs :
            \/ Publish(p) \/ Look(p) \/ Judge(p) \/ BackOff(p)
            \/ \E v \in Targets \union {None} : EnterLease(p, v)
            \/ FileOperation(p)
            \/ Recovered(p) \/ RecoveryFails(p) \/ PrepareFails(p)
            \/ Begin(p) \/ BeginFails(p) \/ Committed(p) \/ Cleaned(p)
            \/ MoveFails(p) \/ Undone(p) \/ Unwound(p)
            \/ Release(p) \/ Crash(p)
  BY DEF Next
<1>2. DiskInv' /\ Apart(p) /\ Means(p)
  <2>1. CASE Publish(p) \/ Look(p) \/ Judge(p) \/ BackOff(p)
    BY <2>1, CompetingMeans
  <2>2. CASE \E v \in Targets \union {None} : EnterLease(p, v)
    BY <2>2, EnterMeans
  <2>3. CASE FileOperation(p)
    BY <2>3, FileOperationMeans
  <2>4. CASE Recovered(p) \/ RecoveryFails(p)
    BY <2>4, RecoveringMeans
  <2>5. CASE PrepareFails(p)
    BY <2>5, PrepareMeans
  <2>6. CASE Begin(p)
    BY <2>6, BeginMeans
  <2>7. CASE BeginFails(p)
    BY <2>7, BeginFailsMeans
  <2>8. CASE Committed(p)
    BY <2>8, CommittedMeans
  <2>9. CASE Cleaned(p) \/ Unwound(p)
    BY <2>9, EndingMeans
  <2>10. CASE MoveFails(p)
    BY <2>10, MoveFailsMeans
  <2>11. CASE Undone(p)
    BY <2>11, UndoneMeans
  <2>12. CASE Release(p)
    BY <2>12, ReleaseMeans
  <2>13. CASE Crash(p)
    BY <2>13, CrashMeans
  <2> QED BY <1>1, <2>1, <2>2, <2>3, <2>4, <2>5, <2>6, <2>7, <2>8, <2>9, <2>10, <2>11, <2>12, <2>13
<1> QED BY <1>2

(* At first nothing is installed and nothing is under way. *)
LEMMA DiskInit == Init => DiskInv
PROOF
<1> SUFFICES ASSUME Init PROVE DiskInv
  OBVIOUS
<1>1. /\ uncertain = FALSE /\ marker = NoMarker /\ tree = [a \in Areas |-> Nothing]
      /\ job = [p \in Procs |-> None] /\ todo = [p \in Procs |-> <<>>]
      /\ promoted = [p \in Procs |-> {}] /\ answer = [p \in Procs |-> "none"]
      /\ pc = [p \in Procs |-> "idle"]
  BY DEF Init
<1>2. marker \in Markers /\ marker.phase = "none"
  BY <1>1 DEF Markers, NoMarker
<1>3. tree \in Trees /\ \A q \in Paths : tree["cur"][q] = None /\ tree["bak"][q] = None
  BY <1>1 DEF Trees, Nothing, Areas
<1>4. CallTypes
  BY <1>1 DEF CallTypes
<1>5. DiskOK(marker, tree)
  <2>1. Absent \in Targets /\ \A q \in Paths : Value(marker, tree, q) = Part(Absent, q)
    BY <1>2, <1>3, PartsAssumption DEF Targets, Value, Part
  <2> QED BY <1>3, <2>1 DEF DiskOK
<1>6. ASSUME NEW p \in Procs PROVE InControl(p) /\ OnCourse(p)
  <2>1. pc[p] = "idle" /\ todo[p] = <<>> /\ job[p] = None /\ promoted[p] = {} /\ answer[p] = "none"
    BY <1>1
  <2>2. InControl(p)
    BY <2>1, NothingThere DEF InControl, Controls, Running, Working
  <2>3. OnCourse(p)
    BY <2>1, NoProgram DEF OnCourse, Running
  <2> QED BY <2>2, <2>3
<1> QED BY <1>1, <1>2, <1>3, <1>4, <1>5, <1>6 DEF DiskInv

(* The invariant is inductive, beside that of the lock. *)
LEMMA DiskNext ==
    ASSUME CommandsReturn, DiskInv, LockInv, [Next]_vars
    PROVE  DiskInv'
PROOF
<1>1. CASE Next
  BY <1>1, StepMeans
<1>2. CASE UNCHANGED vars
  BY <1>2 DEF vars, locks, disk, DiskInv, CallTypes, InControl, OnCourse
<1> QED BY <1>1, <1>2

(* Every step is a step of the abstract store or a stutter, *)
LEMMA StoreNext ==
    ASSUME CommandsReturn, DiskInv, DiskInv', LockInv, [Next]_vars
    PROVE  [Store!Next]_(Store!vars)
PROOF
<1>1. CASE Next
  <2>1. PICK p \in Procs : Apart(p) /\ Means(p)
    BY <1>1, StepMeans
  <2>2. /\ answer \in [Procs -> {"none", "ok", "error"}]
        /\ answer' \in [Procs -> {"none", "ok", "error"}]
    BY DEF DiskInv, CallTypes
  <2> QED BY <2>1, <2>2, MeansStore
<1>2. CASE UNCHANGED vars
  BY <1>2 DEF vars, locks, disk, Store!vars, Settled
<1> QED BY <1>1, <1>2

(* and it begins where the store begins. *)
LEMMA StoreInit == Init => Store!Init
PROOF
<1> SUFFICES ASSUME Init PROVE Store!Init
  OBVIOUS
<1>1. marker = NoMarker /\ tree = [a \in Areas |-> Nothing]
  BY DEF Init
<1>2. \A q \in Paths : Settled(q) = None
  BY <1>1 DEF Settled, NoMarker, Nothing, Areas
<1>3. \A p \in Procs : pc[p] = "idle" /\ job[p] = None
  BY DEF Init
<1>4. answer = [p \in Procs |-> "none"]
  BY DEF Init
<1> QED BY <1>2, <1>3, <1>4 DEF Store!Init

(* What is moved aside is described by a marker, so that nothing is aside  *)
(* without one.                                                            *)
LEMMA InvSound == LockInv /\ DiskInv => Sound
PROOF
<1> SUFFICES ASSUME LockInv, DiskInv PROVE Sound
  OBVIOUS
<1>1. /\ tickets \subseteq Procs \X {"new", "old"} /\ uncertain \in BOOLEAN
      /\ seen \in [Procs -> SUBSET (Procs \X {"new", "old"})]
  BY DEF LockInv, LockTypes, Tickets, DiskInv
<1>2. pc \in [Procs -> Leased \union {"idle", "published", "judging", "backing", "dead"}]
  BY DEF LockInv, LockTypes, Points, Competing
<1>3. /\ marker \in [phase: {"none", "prepared", "committed"}, existed: SUBSET Paths, entries: BOOLEAN]
      /\ tree \in [Areas -> [Paths -> Versions \union {None, Torn}]]
  BY DEF DiskInv, Markers, Trees
<1>4. /\ job \in [Procs -> Targets \union {None}] /\ todo \in [Procs -> Seq(Programs)]
      /\ promoted \in [Procs -> SUBSET Paths] /\ answer \in [Procs -> {"none", "ok", "error"}]
  BY DEF DiskInv, CallTypes
<1>5. \A p \in Procs : todo[p] # <<>> => pc[p] \in Working
  BY InvFacts DEF Controls, Running, Working
<1>6. TypeOK
  BY <1>1, <1>2, <1>3, <1>4, <1>5 DEF TypeOK
<1>7. NothingForgotten
  <2>1. SUFFICES ASSUME marker.phase = "none" PROVE tree["bak"] = Nothing
    BY DEF NothingForgotten
  <2>2. \A q \in Paths : tree["bak"][q] = None
    BY <2>1 DEF DiskInv, DiskOK
  <2>3. tree["bak"] \in [Paths -> Versions \union {None, Torn}]
    BY <1>3 DEF Areas
  <2> QED BY <2>2, <2>3 DEF Nothing
<1> QED BY <1>6, <1>7 DEF Sound

(* commitExtensionPackage, removeExtension (registry.js) and               *)
(* recoverUnderLease (installTransaction.js): whatever the number of       *)
(* processes, wherever they die and whichever file operation fails,        *)
(* nothing that an installation moved aside is still there when its marker *)
(* is gone, and the variables have their types. Supposed is that an        *)
(* installation whose commands may fail to be taken back has no command of *)
(* its own: of the others run install_undo shows that the catch block      *)
(* loses the original.                                                     *)
THEOREM NothingOutlivesItsMarker ==
    ASSUME CommandsReturn
    PROVE  Spec => []Sound
PROOF
<1>1. DiskInv /\ LockInv /\ [Next]_vars => DiskInv'
  BY DiskNext
<1> QED BY LockInit, LockNext, DiskInit, <1>1, InvSound, PTL DEF Spec

(* To whoever asks whether a package is installed, and will be told after  *)
(* the recovery that every operation begins with, commitExtensionPackage   *)
(* and removeExtension are atomic: the package, its command and the owner  *)
(* of the command are those of one version, the one installed last, or     *)
(* none; they change in one step, the one that writes the committed        *)
(* marker, between the call and its answer; a call that answers an error,  *)
(* or dies before that step, has changed nothing. Under the same           *)
(* hypothesis.                                                             *)
THEOREM InstallsAtomically ==
    ASSUME CommandsReturn
    PROVE  Spec => ImplementsPackageStore
PROOF
<1>1. DiskInv /\ LockInv /\ [Next]_vars => DiskInv'
  BY DiskNext
<1>2. DiskInv /\ DiskInv' /\ LockInv /\ [Next]_vars => [Store!Next]_(Store!vars)
  BY StoreNext
<1> QED BY LockInit, LockNext, DiskInit, StoreInit, <1>1, <1>2, PTL DEF Spec, ImplementsPackageStore, Store!Spec
=============================================================================
