--------------------- MODULE WorkspaceQueueOwners_proof ---------------------
(***************************************************************************)
(* The counters of a lock state agree with its owners, a lock state owned  *)
(* for writing has one owner, nobody waits for what nobody holds, and the  *)
(* lock states implement ReadWriteLock.                                    *)
(***************************************************************************)
EXTENDS WorkspaceQueue_proof, WorkspaceLocks

Inv == Shape /\ HoldersCounted /\ StateExclusive

LEMMA HoldersFinite ==
    ASSUME NEW o, NEW m
    PROVE  IsFiniteSet(Holders(o, m)) /\ Cardinality(Holders(o, m)) \in Nat
PROOF
<1>1. IsFiniteSet(Levels)
  BY PlanFacts, FS_Interval DEF Levels
<1>2. IsFiniteSet(Clients \X Levels)
  BY <1>1, ClientsAssumption, FS_Product DEF ClientsAssumption
<1>3. Holders(o, m) \in SUBSET (Clients \X Levels)
  BY DEF Holders
<1>4. IsFiniteSet(Holders(o, m))
  BY <1>2, <1>3, FS_Subset
<1> QED BY <1>4, FS_CardinalityType

(* Every client owns what it owned. *)
SameOwner(c) ==
    \A l \in Levels : /\ Holds(c, l)' <=> Holds(c, l)
                      /\ Holds(c, l) => stack'[c][l] = stack[c][l]

LEMMA SameHolders ==
    ASSUME \A c \in Clients : SameOwner(c), NEW o, NEW m
    PROVE  Holders(o, m)' = Holders(o, m)
PROOF
<1>1. Holders(o, m)' = {u \in Clients \X Levels :
        Holds(u[1], u[2])' /\ stack'[u[1]][u[2]] = o /\ ModeAt(u[1], u[2]) = m}
  BY DEF Holders, ModeAt
<1>2. \A u \in Clients \X Levels : u[1] \in Clients /\ u[2] \in Levels
  OBVIOUS
<1>3. \A u \in Clients \X Levels :
        Holds(u[1], u[2])' /\ stack'[u[1]][u[2]] = o
          <=> Holds(u[1], u[2]) /\ stack[u[1]][u[2]] = o
  BY <1>2 DEF SameOwner
<1> QED BY <1>1, <1>3 DEF Holders

LEMMA OwnersKept ==
    ASSUME Inv, \A c \in Clients : SameOwner(c),
           \A o \in Objs :
             \/ obj'[o].readers = obj[o].readers /\ obj'[o].writer = obj[o].writer
             \/ /\ Holders(o, READ) = {} /\ Holders(o, WRITE) = {}
                /\ obj'[o].readers = 0 /\ obj'[o].writer = FALSE
    PROVE  HoldersCounted' /\ StateExclusive'
PROOF
<1>1. \A o \in Objs : /\ Holders(o, READ)' = Holders(o, READ)
                      /\ Holders(o, WRITE)' = Holders(o, WRITE)
  BY SameHolders
<1>2. ASSUME NEW o \in Objs
      PROVE  /\ obj'[o].readers = Cardinality(Holders(o, READ)')
             /\ obj'[o].writer <=> Holders(o, WRITE)' # {}
  <2>1. CASE obj'[o].readers = obj[o].readers /\ obj'[o].writer = obj[o].writer
    BY <1>1, <2>1 DEF Inv, HoldersCounted
  <2>2. CASE /\ Holders(o, READ) = {} /\ Holders(o, WRITE) = {}
             /\ obj'[o].readers = 0 /\ obj'[o].writer = FALSE
    BY <1>1, <2>2, FS_EmptySet
  <2> QED BY <2>1, <2>2
<1>3. HoldersCounted'
  BY <1>2 DEF HoldersCounted
<1>4. StateExclusive'
  BY <1>1 DEF Inv, StateExclusive
<1> QED BY <1>3, <1>4

(***************************************************************************)
(* Entering a queue, leaving one rejected, and steps that do neither.      *)
(***************************************************************************)
LEMMA EnterSameOwner ==
    ASSUME Inv, NEW c \in Clients, NEW o \in Objs, EnterQueue(c, o),
           pc[c] \notin {"waiting", "rejected"}, depth[c] <= Len(Plan[c])
    PROVE  \A d \in Clients : SameOwner(d)
PROOF
<1>1. TypeOK /\ Shape
  BY DEF Inv, Shape
<1>2. depth[c] \in Nat /\ depth[c] + 1 \in Levels
  BY <1>1, EnterTyped DEF TypeOK
<1>3. SameOwner(c)
  <2>1. depth'[c] = depth[c] + 1 /\ pc'[c] = "waiting"
    BY <1>1 DEF EnterQueue, TypeOK
  <2>2. \A l \in Levels : l # depth[c] + 1 => stack'[c][l] = stack[c][l]
    BY <1>1 DEF EnterQueue, TypeOK
  <2>3. \A l \in Levels : l \in Nat
    BY PlanFacts DEF Levels
  <2>4. ASSUME NEW l \in Levels
        PROVE  /\ Holds(c, l)' <=> l <= depth[c]
               /\ Holds(c, l) <=> l <= depth[c]
    BY <1>2, <2>1, <2>3 DEF Holds
  <2> QED BY <1>2, <2>2, <2>3, <2>4 DEF SameOwner
<1>4. ASSUME NEW d \in Clients, d # c PROVE SameOwner(d)
  <2>1. depth'[d] = depth[d] /\ pc'[d] = pc[d] /\ stack'[d] = stack[d]
    BY <1>1, <1>4 DEF EnterQueue, TypeOK
  <2> QED BY <2>1 DEF SameOwner, Holds
<1> QED BY <1>3, <1>4

LEMMA EnterOwners ==
    ASSUME Inv, NEW c \in Clients, NEW o \in Objs, EnterQueue(c, o),
           pc[c] \notin {"waiting", "rejected"}, depth[c] <= Len(Plan[c])
    PROVE  HoldersCounted' /\ StateExclusive'
PROOF
<1>1. TypeOK /\ Shape
  BY DEF Inv, Shape
<1>2. \A d \in Clients : SameOwner(d)
  BY EnterSameOwner
<1>3. ASSUME NEW p \in Objs
      PROVE  \/ obj'[p].readers = obj[p].readers /\ obj'[p].writer = obj[p].writer
             \/ /\ Holders(p, READ) = {} /\ Holders(p, WRITE) = {}
                /\ obj'[p].readers = 0 /\ obj'[p].writer = FALSE
  <2>1. CASE p # o
    <3>1. obj'[p] = obj[p]
      BY <2>1, <1>1 DEF EnterQueue, TypeOK
    <3> QED BY <3>1
  <2>2. CASE p = o /\ locks[KeyAt(c, depth[c] + 1)] = NoState
    <3>1. \A d \in Clients, l \in Levels : l <= depth[d] => stack[d][l] # o
      BY <2>2 DEF EnterQueue, NewObj, Unused
    <3>2. Holders(o, READ) = {} /\ Holders(o, WRITE) = {}
      BY <3>1 DEF Holders, Holds
    <3>3. obj' = [obj EXCEPT ![o] = [Free EXCEPT !.queue = <<c>>]]
      BY <2>2 DEF EnterQueue
    <3>4. obj'[o].readers = 0 /\ obj'[o].writer = FALSE
      BY <3>3, <1>1 DEF TypeOK, Free
    <3> QED BY <2>2, <3>2, <3>4
  <2>3. CASE p = o /\ locks[KeyAt(c, depth[c] + 1)] # NoState
    <3>1. obj' = [obj EXCEPT ![o].queue = Append(@, c)]
      BY <2>3 DEF EnterQueue
    <3>2. obj[o] \in LockStates
      BY <1>1 DEF TypeOK
    <3>3. obj'[o] = [obj[o] EXCEPT !.queue = Append(obj[o].queue, c)]
      BY <3>1, <1>1 DEF TypeOK
    <3> QED BY <2>3, <3>2, <3>3 DEF LockStates
  <2> QED BY <2>1, <2>2, <2>3
<1> QED BY <1>2, <1>3, OwnersKept

LEMMA QuietOwners ==
    ASSUME Inv, UNCHANGED <<stack, depth>>,
           \A o \in Objs :
             obj'[o].readers = obj[o].readers /\ obj'[o].writer = obj[o].writer,
           \A d \in Clients :
             pc'[d] \in {"waiting", "rejected"} <=> pc[d] \in {"waiting", "rejected"}
    PROVE  HoldersCounted' /\ StateExclusive'
PROOF
<1>1. \A d \in Clients : SameOwner(d)
  BY DEF SameOwner, Holds
<1> QED BY <1>1, OwnersKept

LEMMA RejectedSameOwner ==
    ASSUME Inv, NEW c \in Clients, PopLevel(c), pc[c] = "rejected"
    PROVE  \A d \in Clients : SameOwner(d)
PROOF
<1>1. TypeOK /\ Shape
  BY DEF Inv, Shape
<1>2. /\ depth[c] \in 1 .. MaxDepth /\ depth'[c] = depth[c] - 1
      /\ pc'[c] \notin {"waiting", "rejected"}
      /\ \A l \in Levels : l < depth[c] => stack'[c][l] = stack[c][l]
  BY <1>1, PopEffect DEF AfterLevel
<1>3. \A l \in Levels : l \in Nat
  BY PlanFacts DEF Levels
<1>4. SameOwner(c)
  <2>1. ASSUME NEW l \in Levels
        PROVE  /\ Holds(c, l)' <=> l < depth[c]
               /\ Holds(c, l) <=> l < depth[c]
    BY <1>2, <1>3, PlanFacts DEF Holds
  <2> QED BY <1>2, <2>1 DEF SameOwner
<1>5. ASSUME NEW d \in Clients, d # c PROVE SameOwner(d)
  <2>1. depth'[d] = depth[d] /\ pc'[d] = pc[d] /\ stack'[d] = stack[d]
    BY <1>1, <1>5, PopEffect
  <2> QED BY <2>1 DEF SameOwner, Holds
<1> QED BY <1>4, <1>5

LEMMA RejectedOwners ==
    ASSUME Inv, NEW c \in Clients, PopLevel(c), pc[c] = "rejected", UNCHANGED obj
    PROVE  HoldersCounted' /\ StateExclusive'
BY RejectedSameOwner, OwnersKept

(***************************************************************************)
(* Giving a lock back.                                                     *)
(***************************************************************************)
LEMMA ReleaseHolders ==
    ASSUME Inv, NEW c \in Clients, ReleaseTop(c),
           pc[c] \notin {"idle", "waiting", "rejected"}, NEW o \in Objs, NEW m
    PROVE  /\ <<c, depth[c]>> \in Holders(Top(c), ModeAt(c, depth[c]))
           /\ Holders(o, m)' = IF o = Top(c) /\ m = ModeAt(c, depth[c])
                               THEN Holders(o, m) \ {<<c, depth[c]>>}
                               ELSE Holders(o, m)
PROOF
<1> DEFINE x == <<c, depth[c]>>
<1>1. TypeOK /\ Shape /\ PopLevel(c)
  BY DEF Inv, Shape, ReleaseTop
<1>2. /\ depth[c] \in 1 .. MaxDepth /\ depth'[c] = depth[c] - 1
      /\ pc'[c] \notin {"waiting", "rejected"}
      /\ \A l \in Levels : l < depth[c] => stack'[c][l] = stack[c][l]
  BY <1>1, PopEffect DEF AfterLevel
<1>3. MaxDepth \in Nat /\ \A l \in Levels : l \in Nat
  BY PlanFacts DEF Levels
<1>4. x \in Clients \X Levels /\ Holds(c, depth[c])
  BY <1>2, <1>3 DEF Levels, Holds
<1>5. x \in Holders(Top(c), ModeAt(c, depth[c]))
  BY <1>4 DEF Holders, Top
<1>6. ASSUME NEW u \in Clients \X Levels
      PROVE  u \in Holders(o, m)' <=> u \in Holders(o, m) /\ u # x
  <2>1. PICK d \in Clients, l \in Levels : u = <<d, l>>
    OBVIOUS
  <2>2. u \in Holders(o, m)' <=> Holds(d, l)' /\ stack'[d][l] = o /\ ModeAt(d, l) = m
    BY <2>1 DEF Holders, ModeAt
  <2>3. u \in Holders(o, m) <=> Holds(d, l) /\ stack[d][l] = o /\ ModeAt(d, l) = m
    BY <2>1 DEF Holders
  <2>4. CASE d # c
    <3>1. depth'[d] = depth[d] /\ pc'[d] = pc[d] /\ stack'[d] = stack[d]
      BY <1>1, <2>4, PopEffect
    <3> QED BY <2>1, <2>2, <2>3, <2>4, <3>1 DEF Holds
  <2>5. CASE d = c
    <3>1. Holds(c, l)' <=> l < depth[c]
      BY <1>2, <1>3 DEF Holds
    <3>2. Holds(c, l) <=> l <= depth[c]
      BY <1>2, <1>3 DEF Holds
    <3>3. u # x <=> l # depth[c]
      BY <2>1, <2>5
    <3> QED BY <1>2, <1>3, <2>2, <2>3, <2>5, <3>1, <3>2, <3>3
  <2> QED BY <2>4, <2>5
<1>7. Holders(o, m)' = Holders(o, m) \ {x}
  <2>1. Holders(o, m) \subseteq Clients \X Levels
    BY DEF Holders
  <2>2. Holders(o, m)' \subseteq Clients \X Levels
    BY DEF Holders
  <2> HIDE DEF x
  <2> QED BY <2>1, <2>2, <1>6
<1>8. ~(o = Top(c) /\ m = ModeAt(c, depth[c])) => x \notin Holders(o, m)
  BY DEF Holders, Top
<1> QED BY <1>5, <1>7, <1>8

LEMMA ReleaseOwners ==
    ASSUME Inv, NEW c \in Clients, ReleaseTop(c),
           pc[c] \notin {"idle", "waiting", "rejected"}
    PROVE  HoldersCounted' /\ StateExclusive'
PROOF
<1> DEFINE x == <<c, depth[c]>>
           t == Top(c)
<1>1. TypeOK /\ Placed /\ HoldersCounted /\ StateExclusive
  BY DEF Inv, Shape
<1>2. t \in Objs /\ ModeAt(c, depth[c]) \in {READ, WRITE}
  <2>1. PopLevel(c) /\ Shape
    BY DEF ReleaseTop, Inv
  <2>2. depth[c] \in Levels
    BY <2>1, PopEffect DEF Levels
  <2> QED BY <2>2, <1>1, PlanFacts DEF Placed, Top, TypeOK, Levels
<1>3. x \in Holders(t, ModeAt(c, depth[c]))
  BY <1>2, ReleaseHolders
<1>4. obj[t] \in LockStates /\ READ # WRITE
  BY <1>1, <1>2 DEF TypeOK, READ, WRITE
<1>5. ASSUME NEW o \in Objs
      PROVE  /\ obj'[o].readers = Cardinality(Holders(o, READ)')
             /\ obj'[o].writer <=> Holders(o, WRITE)' # {}
  <2>1. CASE o # t
    <3>1. obj'[o] = obj[o]
      BY <2>1, <1>1 DEF ReleaseTop, TypeOK
    <3>2. Holders(o, READ)' = Holders(o, READ) /\ Holders(o, WRITE)' = Holders(o, WRITE)
      BY <2>1, ReleaseHolders
    <3> QED BY <3>1, <3>2, <1>1 DEF HoldersCounted
  <2>2. CASE o = t /\ ModeAt(c, depth[c]) = READ
    <3>1. obj[t].readers = Cardinality(Holders(t, READ)) /\ obj[t].readers \in Nat
      BY <1>1, <1>2, <1>4 DEF HoldersCounted, LockStates
    <3>2. Cardinality(Holders(t, READ) \ {x}) = Cardinality(Holders(t, READ)) - 1
          /\ Cardinality(Holders(t, READ) \ {x}) \in Nat
      BY <1>3, <2>2, HoldersFinite, FS_RemoveElement, FS_CardinalityType
    <3>3. Holders(o, READ)' = Holders(o, READ) \ {x} /\ Holders(o, WRITE)' = Holders(o, WRITE)
      BY <1>2, <1>4, <2>2, ReleaseHolders
    <3>4. obj' = [obj EXCEPT ![t].readers = IF obj[t].readers > 0 THEN obj[t].readers - 1 ELSE 0]
      BY <2>2 DEF ReleaseTop
    <3> HIDE DEF x, t
    <3>5. obj'[t] = [obj[t] EXCEPT !.readers =
                        IF obj[t].readers > 0 THEN obj[t].readers - 1 ELSE 0]
      BY <3>4, <1>1, <1>2 DEF TypeOK
    <3>6. obj'[t].readers = obj[t].readers - 1 /\ obj'[t].writer = obj[t].writer
      BY <3>1, <3>2, <3>5, <1>4 DEF LockStates
    <3> QED BY <2>2, <3>1, <3>2, <3>3, <3>6, <1>1, <1>2 DEF HoldersCounted
  <2>3. CASE o = t /\ ModeAt(c, depth[c]) = WRITE
    <3>1. Holders(o, WRITE)' = Holders(o, WRITE) \ {x} /\ Holders(o, READ)' = Holders(o, READ)
      BY <1>2, <1>4, <2>3, ReleaseHolders
    <3>2. \A v \in Holders(t, WRITE) : v = x
      BY <1>1, <1>2, <1>3, <2>3 DEF StateExclusive
    <3>3. obj' = [obj EXCEPT ![t].writer = FALSE]
      BY <2>3, <1>4 DEF ReleaseTop
    <3> HIDE DEF x, t
    <3>4. obj'[t] = [obj[t] EXCEPT !.writer = FALSE]
      BY <3>3, <1>1, <1>2 DEF TypeOK
    <3>5. obj'[t].readers = obj[t].readers /\ obj'[t].writer = FALSE
      BY <3>4, <1>4 DEF LockStates
    <3> QED BY <2>3, <3>1, <3>2, <3>5, <1>1, <1>2 DEF HoldersCounted
  <2> QED BY <1>2, <2>1, <2>2, <2>3
<1>6. HoldersCounted'
  BY <1>5 DEF HoldersCounted
<1>7. \A o \in Objs : /\ Holders(o, READ)' \subseteq Holders(o, READ)
                      /\ Holders(o, WRITE)' \subseteq Holders(o, WRITE)
  BY ReleaseHolders
<1>8. StateExclusive'
  BY <1>1, <1>7 DEF StateExclusive
<1> QED BY <1>6, <1>8

(***************************************************************************)
(* Admission.                                                              *)
(***************************************************************************)
Admitted(c) ==
    /\ pc[c] = "waiting"
    /\ pc' = [pc EXCEPT ![c] = "admitted"]
    /\ UNCHANGED <<stack, depth>>

LEMMA AdmitHolders ==
    ASSUME Inv, NEW t \in Objs, NEW c \in Clients, Admitted(c), Top(c) = t,
           NEW o \in Objs, NEW m
    PROVE  /\ <<c, depth[c]>> \notin Holders(o, m)
           /\ o = t /\ m = ModeAt(c, depth[c])
                => Holders(o, m)' = Holders(o, m) \union {<<c, depth[c]>>}
           /\ ~(o = t /\ m = ModeAt(c, depth[c])) => Holders(o, m)' = Holders(o, m)
PROOF
<1> DEFINE x == <<c, depth[c]>>
<1>1. TypeOK /\ Placed
  BY DEF Inv, Shape
<1>a. pc[c] = "waiting" /\ pc' = [pc EXCEPT ![c] = "admitted"] /\ UNCHANGED <<stack, depth>>
  BY DEF Admitted
<1>2. depth[c] \in Nat /\ depth[c] \in Levels
  BY <1>1, <1>a, PlanFacts DEF TypeOK, Placed, Levels
<1>3. x \notin Holders(o, m)
  BY <1>2, <1>a DEF Holders, Holds
<1>4. ASSUME NEW u \in Clients \X Levels
      PROVE  u \in Holders(o, m)' <=>
               u \in Holders(o, m) \/ (u = x /\ o = t /\ m = ModeAt(c, depth[c]))
  <2>1. PICK d \in Clients, l \in Levels : u = <<d, l>>
    OBVIOUS
  <2>2. u \in Holders(o, m)' <=> Holds(d, l)' /\ stack[d][l] = o /\ ModeAt(d, l) = m
    BY <2>1, <1>a DEF Holders, ModeAt
  <2>3. u \in Holders(o, m) <=> Holds(d, l) /\ stack[d][l] = o /\ ModeAt(d, l) = m
    BY <2>1 DEF Holders
  <2>4. CASE d # c
    <3>1. Holds(d, l)' <=> Holds(d, l)
      BY <2>4, <1>1, <1>a DEF Holds, TypeOK
    <3> QED BY <2>1, <2>2, <2>3, <2>4, <3>1
  <2>5. CASE d = c
    <3>1. pc'[c] = "admitted"
      BY <1>1, <1>a DEF TypeOK
    <3>2. Holds(c, l)' <=> l <= depth[c]
      BY <3>1, <1>2, <1>a DEF Holds
    <3>3. Holds(c, l) <=> l <= depth[c] /\ l # depth[c]
      BY <1>2, <1>a DEF Holds
    <3>4. u = x <=> l = depth[c]
      BY <2>1, <2>5
    <3> QED BY <1>2, <2>2, <2>3, <2>5, <3>2, <3>3, <3>4 DEF Top
  <2> QED BY <2>4, <2>5
<1>5. Holders(o, m) \subseteq Clients \X Levels /\ Holders(o, m)' \subseteq Clients \X Levels
  BY DEF Holders
<1>6. x \in Clients \X Levels
  BY <1>2
<1> HIDE DEF x
<1>7. Holders(o, m)' = IF o = t /\ m = ModeAt(c, depth[c])
                       THEN Holders(o, m) \union {x} ELSE Holders(o, m)
  BY <1>4, <1>5, <1>6
<1> QED BY <1>3, <1>7 DEF x

(* admitWaiting at the lock state it works on: the waiter it meets there. *)
LEMMA FrontWaits ==
    ASSUME Inv, pump # NoState, pump \in Objs, obj[pump].queue # <<>>
    PROVE  /\ obj[pump] \in LockStates
           /\ Waiter \in Clients /\ pc[Waiter] = "waiting" /\ Top(Waiter) = pump
PROOF
<1>1. TypeOK /\ Queued
  BY DEF Inv, Shape
<1>2. obj[pump] \in LockStates /\ obj[pump].queue \in Seq(Clients)
  BY <1>1 DEF TypeOK, LockStates
<1>3. 1 \in 1 .. Len(obj[pump].queue) /\ Waiter = obj[pump].queue[1]
  BY <1>2, WithoutTail DEF Waiter
<1>4. pc[Waiter] = "waiting" /\ Top(Waiter) = pump
  BY <1>1, <1>3 DEF Queued
<1> QED BY <1>2, <1>3, <1>4

LEMMA AdmitReaderOwners ==
    ASSUME Inv, AdmitReader
    PROVE  HoldersCounted' /\ StateExclusive'
PROOF
<1>1. TypeOK /\ HoldersCounted /\ StateExclusive
  BY DEF Inv, Shape
<1>2. PICK t \in Objs : t = pump
  BY <1>1 DEF AdmitReader, TypeOK
<1>3. /\ pump # NoState /\ obj[pump].queue # <<>>
      /\ ModeAt(Waiter, depth[Waiter]) = READ /\ ~obj[pump].writer
      /\ obj' = [obj EXCEPT ![pump].queue = Tail(@), ![pump].readers = @ + 1]
      /\ pc' = [pc EXCEPT ![Waiter] = "admitted"]
      /\ UNCHANGED <<stack, depth>>
  BY DEF AdmitReader
<1>4. PICK c \in Clients : c = Waiter /\ pc[c] = "waiting" /\ Top(c) = t
  BY <1>2, <1>3, FrontWaits
<1> DEFINE x == <<c, depth[c]>>
<1>5. obj[t] \in LockStates /\ READ # WRITE
  BY <1>2, <1>3, FrontWaits DEF READ, WRITE
<1>6. \A o \in Objs : \A m :
                /\ x \notin Holders(o, m)
                /\ o = t /\ m = READ => Holders(o, m)' = Holders(o, m) \union {x}
                /\ ~(o = t /\ m = READ) => Holders(o, m)' = Holders(o, m)
  <2>1. Top(c) = t /\ ModeAt(c, depth[c]) = READ
    BY <1>3, <1>4
  <2>2. Admitted(c)
    BY <1>3, <1>4 DEF Admitted
  <2> TAKE o \in Objs
  <2> TAKE m
  <2> QED BY <2>1, <2>2, AdmitHolders
<1>7. obj'[t].readers = obj[t].readers + 1 /\ obj'[t].writer = obj[t].writer
  <2>1. obj'[t] = [obj[t] EXCEPT !.queue = Tail(obj[t].queue), !.readers = obj[t].readers + 1]
    BY <1>1, <1>2, <1>3, <1>5 DEF TypeOK, LockStates
  <2> QED BY <2>1, <1>5 DEF LockStates
<1>8. \A o \in Objs : o # t => obj'[o] = obj[o]
  BY <1>1, <1>2, <1>3 DEF TypeOK
<1>9. Holders(t, WRITE) = {}
  BY <1>1, <1>2, <1>3 DEF HoldersCounted
<1> HIDE DEF x
<1>10. ASSUME NEW o \in Objs
       PROVE  /\ obj'[o].readers = Cardinality(Holders(o, READ)')
              /\ obj'[o].writer <=> Holders(o, WRITE)' # {}
  <2>1. CASE o # t
    BY <2>1, <1>1, <1>6, <1>8 DEF HoldersCounted
  <2>2. CASE o = t
    <3>1. Cardinality(Holders(t, READ) \union {x}) = Cardinality(Holders(t, READ)) + 1
      BY <1>6, HoldersFinite, FS_AddElement
    <3> QED BY <2>2, <3>1, <1>1, <1>5, <1>6, <1>7 DEF HoldersCounted
  <2> QED BY <2>1, <2>2
<1>11. HoldersCounted'
  BY <1>10 DEF HoldersCounted
<1>12. ASSUME NEW o \in Objs, NEW u \in Holders(o, READ)' \union Holders(o, WRITE)',
              NEW v \in Holders(o, READ)' \union Holders(o, WRITE)',
              u \in Holders(o, WRITE)'
       PROVE  u = v
  BY <1>1, <1>5, <1>6, <1>9, <1>12 DEF StateExclusive
<1>13. StateExclusive'
  BY <1>12 DEF StateExclusive
<1> QED BY <1>11, <1>13

LEMMA AdmitWriterOwners ==
    ASSUME Inv, AdmitWriter
    PROVE  HoldersCounted' /\ StateExclusive'
PROOF
<1>1. TypeOK /\ HoldersCounted /\ StateExclusive
  BY DEF Inv, Shape
<1>2. PICK t \in Objs : t = pump
  BY <1>1 DEF AdmitWriter, TypeOK
<1>3. /\ pump # NoState /\ obj[pump].queue # <<>>
      /\ ModeAt(Waiter, depth[Waiter]) = WRITE
      /\ ~obj[pump].writer /\ obj[pump].readers = 0
      /\ obj' = [obj EXCEPT ![pump].queue = Tail(@), ![pump].writer = TRUE]
      /\ pc' = [pc EXCEPT ![Waiter] = "admitted"]
      /\ UNCHANGED <<stack, depth>>
  BY DEF AdmitWriter
<1>4. PICK c \in Clients : c = Waiter /\ pc[c] = "waiting" /\ Top(c) = t
  BY <1>2, <1>3, FrontWaits
<1> DEFINE x == <<c, depth[c]>>
<1>5. obj[t] \in LockStates /\ READ # WRITE
  BY <1>2, <1>3, FrontWaits DEF READ, WRITE
<1>6. \A o \in Objs : \A m :
                /\ x \notin Holders(o, m)
                /\ o = t /\ m = WRITE => Holders(o, m)' = Holders(o, m) \union {x}
                /\ ~(o = t /\ m = WRITE) => Holders(o, m)' = Holders(o, m)
  <2>1. Top(c) = t /\ ModeAt(c, depth[c]) = WRITE
    BY <1>3, <1>4
  <2>2. Admitted(c)
    BY <1>3, <1>4 DEF Admitted
  <2> TAKE o \in Objs
  <2> TAKE m
  <2> QED BY <2>1, <2>2, AdmitHolders
<1>7. obj'[t].readers = obj[t].readers /\ obj'[t].writer = TRUE
  <2>1. obj'[t] = [obj[t] EXCEPT !.queue = Tail(obj[t].queue), !.writer = TRUE]
    BY <1>1, <1>2, <1>3, <1>5 DEF TypeOK, LockStates
  <2> QED BY <2>1, <1>5 DEF LockStates
<1>8. \A o \in Objs : o # t => obj'[o] = obj[o]
  BY <1>1, <1>2, <1>3 DEF TypeOK
<1>9. Holders(t, WRITE) = {} /\ Holders(t, READ) = {}
  BY <1>1, <1>2, <1>3, HoldersFinite, FS_EmptySet DEF HoldersCounted
<1> HIDE DEF x
<1>10. ASSUME NEW o \in Objs
       PROVE  /\ obj'[o].readers = Cardinality(Holders(o, READ)')
              /\ obj'[o].writer <=> Holders(o, WRITE)' # {}
  BY <1>1, <1>5, <1>6, <1>7, <1>8 DEF HoldersCounted
<1>11. HoldersCounted'
  BY <1>10 DEF HoldersCounted
<1>12. ASSUME NEW o \in Objs, NEW u \in Holders(o, READ)' \union Holders(o, WRITE)',
              NEW v \in Holders(o, READ)' \union Holders(o, WRITE)',
              u \in Holders(o, WRITE)'
       PROVE  u = v
  BY <1>1, <1>5, <1>6, <1>9, <1>12 DEF StateExclusive
<1>13. StateExclusive'
  BY <1>12 DEF StateExclusive
<1> QED BY <1>11, <1>13

(* A waiter leaves the queue rejected. *)
LEMMA RejectOwners ==
    ASSUME Inv, NEW c \in Clients, pc[c] = "waiting",
           pc' = [pc EXCEPT ![c] = "rejected"], UNCHANGED <<stack, depth>>,
           NEW t \in Objs, NEW q, obj' = [obj EXCEPT ![t].queue = q]
    PROVE  HoldersCounted' /\ StateExclusive'
PROOF
<1>1. TypeOK
  BY DEF Inv, Shape
<1>2. \A d \in Clients : pc'[d] \in {"waiting", "rejected"} <=> pc[d] \in {"waiting", "rejected"}
  BY <1>1 DEF TypeOK
<1>3. ASSUME NEW o \in Objs
      PROVE  obj'[o].readers = obj[o].readers /\ obj'[o].writer = obj[o].writer
  <2>1. obj[o] \in LockStates
    BY <1>1 DEF TypeOK
  <2>2. obj'[o] = obj[o] \/ obj'[o] = [obj[o] EXCEPT !.queue = q]
    BY <1>1 DEF TypeOK
  <2> QED BY <2>1, <2>2 DEF LockStates
<1> QED BY <1>2, <1>3, QuietOwners

LEMMA AdmissionOwners ==
    ASSUME Inv, AdmitWaiting
    PROVE  HoldersCounted' /\ StateExclusive'
PROOF
<1>1. TypeOK
  BY DEF Inv, Shape
<1>2. CASE DropExpired
  <2>1. pump # NoState /\ pump \in Objs /\ obj[pump].queue # <<>>
    BY <1>1, <1>2 DEF DropExpired, TypeOK
  <2>2. PICK c \in Clients, t \in Objs : c = Waiter /\ t = pump /\ pc[c] = "waiting"
    BY <2>1, FrontWaits
  <2>3. /\ pc' = [pc EXCEPT ![c] = "rejected"] /\ UNCHANGED <<stack, depth>>
        /\ obj' = [obj EXCEPT ![t].queue = Tail(obj[t].queue)]
    BY <1>2, <2>2 DEF DropExpired
  <2> QED BY <2>2, <2>3, RejectOwners
<1>3. CASE EndAdmission
  BY <1>3, QuietOwners DEF EndAdmission
<1> QED BY <1>2, <1>3, AdmitReaderOwners, AdmitWriterOwners DEF AdmitWaiting

LEMMA WithdrawOwners ==
    ASSUME Inv, NEW c \in Clients, pc[c] = "waiting", Withdraw(c), UNCHANGED <<stack, depth>>
    PROVE  HoldersCounted' /\ StateExclusive'
PROOF
<1>1. TypeOK /\ Placed
  BY DEF Inv, Shape
<1>2. depth[c] \in Levels
  BY <1>1, PlanFacts DEF TypeOK, Placed, Levels
<1>3. PICK t \in Objs : t = Top(c)
  BY <1>1, <1>2 DEF Placed, Top, Levels
<1>4. PICK i \in DOMAIN obj[t].queue : obj' = [obj EXCEPT ![t].queue = RemoveAt(@, i)]
  BY <1>3 DEF Withdraw
<1>5. pc' = [pc EXCEPT ![c] = "rejected"]
  BY DEF Withdraw
<1> QED BY <1>4, <1>5, RejectOwners

LEMMA ClientOwners ==
    ASSUME Inv, NEW c \in Clients, ClientStep(c)
    PROVE  HoldersCounted' /\ StateExclusive'
PROOF
<1>1. TypeOK /\ Placed
  BY DEF Inv, Shape
<1>2. CASE Submit(c) \/ EnterBoundary(c) \/ ResumeNextLock(c)
  <2>1. PICK o \in Objs : EnterQueue(c, o)
    BY <1>2 DEF Submit, EnterBoundary, ResumeNextLock
  <2>2. depth[c] \in Nat /\ Len(Plan[c]) \in Nat /\ Len(Plan[c]) >= 1
    BY <1>1, PlanFacts DEF TypeOK
  <2>3. pc[c] \notin {"waiting", "rejected"}
    BY <1>2 DEF Submit, EnterBoundary, ResumeNextLock
  <2>4. depth[c] <= Len(Plan[c])
    BY <1>1, <1>2, <2>2
    DEF Submit, EnterBoundary, ResumeNextLock, Placed, InBoundary
  <2> QED BY <2>1, <2>3, <2>4, EnterOwners
<1>3. CASE LeaveBoundary(c) \/ Unwind(c) \/ ResumeRefused(c)
  BY <1>3, ReleaseOwners DEF LeaveBoundary, Unwind, ResumeRefused
<1>4. CASE ResumeRejected(c)
  BY <1>4, RejectedOwners DEF ResumeRejected
<1>5. CASE TimerFires(c) \/ (OnAbort(c) /\ pc[c] = "waiting")
  BY <1>5, WithdrawOwners DEF TimerFires, OnAbort
<1>6. CASE OnAbort(c) /\ pc[c] # "waiting"
  BY <1>6, QuietOwners DEF OnAbort
<1>7. CASE ResumeRun(c) \/ Finish(c)
  <2>1. UNCHANGED <<obj, stack, depth>>
    BY <1>7 DEF ResumeRun, Finish, FinishSafely, FinishInDoubt, FinishUnconfirmed, Finishing
  <2>2. /\ pc[c] \in {"admitted", "running"}
        /\ \E w \in {"running", "unwinding"} : pc' = [pc EXCEPT ![c] = w]
    BY <1>7 DEF ResumeRun, Finish, FinishSafely, FinishInDoubt, FinishUnconfirmed, Finishing
  <2>3. \A d \in Clients : pc'[d] \in {"waiting", "rejected"} <=> pc[d] \in {"waiting", "rejected"}
    BY <2>2, <1>1 DEF TypeOK
  <2> QED BY <2>1, <2>3, QuietOwners
<1>8. CASE RefuseAborted(c) \/ Abort(c) \/ Expire(c) \/ WatchdogQuarantine(c)
  BY <1>8, QuietOwners DEF RefuseAborted, Abort, Expire, WatchdogQuarantine
<1> QED BY <1>2, <1>3, <1>4, <1>5, <1>6, <1>7, <1>8 DEF ClientStep, Resumption

LEMMA InitOwners == Init => HoldersCounted /\ StateExclusive
PROOF
<1> SUFFICES ASSUME Init PROVE HoldersCounted /\ StateExclusive
  OBVIOUS
<1>1. \A o, m : Holders(o, m) = {}
  BY PlanFacts DEF Init, Holders, Holds, Levels
<1> QED BY <1>1, FS_EmptySet DEF Init, Free, HoldersCounted, StateExclusive

LEMMA NextInv == Inv /\ [Next]_vars => Inv'
PROOF
<1> SUFFICES ASSUME Inv, [Next]_vars PROVE Inv'
  OBVIOUS
<1>1. Shape'
  BY NextShape DEF Inv
<1>2. HoldersCounted' /\ StateExclusive'
  <2>1. CASE UNCHANGED vars
    BY <2>1, QuietOwners DEF vars
  <2>2. CASE RecoveryQuarantine \/ RecoveryClear
    BY <2>2, QuietOwners DEF RecoveryQuarantine, RecoveryClear
  <2> QED BY <2>1, <2>2, AdmissionOwners, ClientOwners DEF Next
<1> QED BY <1>1, <1>2 DEF Inv

LEMMA AlwaysInv == Spec => []Inv
PROOF
<1>1. Init => Inv
  BY InitShape, InitOwners DEF Inv
<1> QED BY <1>1, NextInv, PTL DEF Spec

(* The reader count and the writer flag of a lock state always say who     *)
(* owns it: the guards of release that keep the count from going negative  *)
(* never hide a lock given back twice.                                     *)
THEOREM OwnersCounted == Spec => []HoldersCounted
PROOF
<1>1. Inv => HoldersCounted
  BY DEF Inv
<1> QED BY <1>1, AlwaysInv, PTL

(* Mutual exclusion on a lock state, for any number of clients and any     *)
(* lock plans, whatever is aborted, expired or quarantined meanwhile.      *)
THEOREM WritersExclude == Spec => []StateExclusive
PROOF
<1>1. Inv => StateExclusive
  BY DEF Inv
<1> QED BY <1>1, AlwaysInv, PTL

-----------------------------------------------------------------------------
(***************************************************************************)
(* Who waits, and for what: the queues list those who wait and no others,  *)
(* what they wait for is owned by somebody who does not wait for them, and *)
(* what nobody uses is deleted.                                            *)
(***************************************************************************)

(* A lock state serves the key it was created for. *)
Keyed ==
    /\ \A k \in Keys : locks[k] # NoState => locks[k][1] = k
    /\ \A c \in Clients, l \in Levels : l <= depth[c] => stack[c][l][1] = KeyAt(c, l)

(* Every client that waits is in the queue it waits in. *)
Listed ==
    \A c \in Clients : pc[c] = "waiting" =>
        \E i \in 1 .. Len(obj[Top(c)].queue) : obj[Top(c)].queue[i] = c

(* Every acquire that settled has its resumption due. *)
Due ==
    \A c \in Clients : pc[c] \in {"admitted", "rejected"} =>
        \E i \in 1 .. Len(jobs) : jobs[i] = c

(* A queue that admitWaiting is not at work on cannot move on. *)
Served ==
    \A o \in Objs : obj[o].queue # <<>> =>
        pump = o \/ expired[Head(obj[o].queue)] \/ FrontBlocked(o)

(* A lock state of the Map that nobody uses is about to be deleted. *)
Tidy ==
    \A k \in Keys : locks[k] # NoState /\ Idle(locks[k]) =>
        \/ pump = locks[k] /\ sweep
        \/ \E c \in Clients : pc[c] = "rejected" /\ Top(c) = locks[k]

(* The mutation lane of a boundary is entered by nesting operations only. *)
Nested == \A c \in Clients : boundary[c] => c \in Nesting

Waiting == Keyed /\ Listed /\ Due /\ Served /\ Tidy /\ Nested

WInv == Inv /\ Waiting

(***************************************************************************)
(* The kinds of step there are.                                            *)
(***************************************************************************)
(* A resumption of c, or code that runs between two resumptions. *)
Turn(c) == UNCHANGED jobs \/ (jobs # <<>> /\ c = Head(jobs) /\ jobs' = Tail(jobs))

(* A client's entry goes into a queue. *)
Entered(c, o) ==
    /\ EnterQueue(c, o)
    /\ pump = NoState
    /\ pc[c] \notin {"waiting", "rejected"}
    /\ depth[c] <= Len(Plan[c])
    /\ UNCHANGED expired
    /\ Turn(c)
    /\ \A d \in Clients : boundary'[d] => boundary[d] \/ d \in Nesting

(* A client gives its innermost lock back. *)
Released(c) ==
    /\ ReleaseTop(c)
    /\ pump = NoState
    /\ pc[c] \notin {"idle", "waiting", "rejected"}
    /\ UNCHANGED locks
    /\ Turn(c)

(* A client leaves the queue it waits in. *)
Withdrawn(c) ==
    /\ Withdraw(c)
    /\ pump = NoState
    /\ pc[c] = "waiting"
    /\ UNCHANGED <<locks, stack, depth, request>>

(* Nobody enters or leaves a queue or a lock; the Map forgets at most a    *)
(* lock state nobody uses.                                                 *)
Undisturbed ==
    /\ UNCHANGED <<obj, stack, depth, pump, sweep>>
    /\ \A k \in Keys : \/ locks'[k] = locks[k]
                       \/ locks'[k] = NoState /\ Idle(locks[k])
    /\ \A c \in Clients :
         /\ expired[c] => expired'[c]
         /\ boundary'[c] => boundary[c] \/ c \in Nesting
         /\ \/ pc'[c] = pc[c]
            \/ pc[c] \in {"admitted", "running"} /\ pc'[c] \in {"running", "unwinding"}
    /\ \/ UNCHANGED jobs
       \/ jobs # <<>> /\ jobs' = Tail(jobs) /\ pc'[Head(jobs)] = "running"

LEMMA Kinds ==
    ASSUME Shape, Keyed, [Next]_vars
    PROVE  \/ AdmitWaiting
           \/ \E c \in Clients, o \in Objs : Entered(c, o)
           \/ \E c \in Clients : Released(c) \/ Withdrawn(c) \/ ResumeRejected(c)
           \/ Undisturbed
PROOF
<1> DEFINE G == \/ AdmitWaiting
                \/ \E c \in Clients, o \in Objs : Entered(c, o)
                \/ \E c \in Clients : Released(c) \/ Withdrawn(c) \/ ResumeRejected(c)
                \/ Undisturbed
<1>1. TypeOK /\ Placed
  BY DEF Shape
<1>2. CASE UNCHANGED vars
  <2>1. Undisturbed
    BY <1>2 DEF Undisturbed, vars
  <2> QED BY <2>1
<1>3. CASE RecoveryQuarantine \/ RecoveryClear
  <2>1. Undisturbed
    BY <1>3 DEF Undisturbed, RecoveryQuarantine, RecoveryClear, request, thread
  <2> QED BY <2>1
<1>4. ASSUME NEW c \in Clients, ClientStep(c) PROVE G
  <2>0. depth[c] \in Nat /\ Len(Plan[c]) \in Nat /\ Len(Plan[c]) >= 1
    BY <1>1, PlanFacts DEF TypeOK
  <2>1. CASE Submit(c) \/ EnterBoundary(c) \/ ResumeNextLock(c)
    <3>1. PICK o \in Objs : EnterQueue(c, o)
      BY <2>1 DEF Submit, EnterBoundary, ResumeNextLock
    <3>2. depth[c] <= Len(Plan[c]) /\ pc[c] \notin {"waiting", "rejected"}
      BY <1>1, <2>0, <2>1
      DEF Submit, EnterBoundary, ResumeNextLock, Placed, InBoundary
    <3>3. pump = NoState /\ UNCHANGED expired /\ Turn(c)
      BY <2>1 DEF Submit, EnterBoundary, ResumeNextLock, Ready, Resume, Turn, request
    <3>4. \A d \in Clients : boundary'[d] => boundary[d] \/ d \in Nesting
      BY <2>1, <1>1 DEF Submit, EnterBoundary, ResumeNextLock, request, TypeOK
    <3>5. Entered(c, o)
      BY <3>1, <3>2, <3>3, <3>4 DEF Entered
    <3> QED BY <3>5
  <2>2. CASE LeaveBoundary(c) \/ Unwind(c) \/ ResumeRefused(c)
    <3>1. Released(c)
      BY <2>2 DEF LeaveBoundary, Unwind, ResumeRefused, Released, Ready, Resume, Turn
    <3> QED BY <3>1
  <2>3. CASE ResumeRejected(c)
    BY <2>3
  <2>4. CASE TimerFires(c) \/ (OnAbort(c) /\ pc[c] = "waiting")
    <3>1. Withdrawn(c)
      BY <2>4 DEF TimerFires, OnAbort, Withdrawn, Ready
    <3> QED BY <3>1
  <2>5. CASE RefuseAborted(c)
    <3>1. \A k \in Keys : \/ locks'[k] = locks[k]
                          \/ locks'[k] = NoState /\ Idle(locks[k])
      <4> DEFINE j == KeyAt(c, depth[c] + 1)
      <4>1. \/ locks' = locks
            \/ /\ locks[j] # NoState /\ Idle(locks[j])
               /\ locks' = [locks EXCEPT ![locks[j][1]] = NoState]
        BY <2>5 DEF RefuseAborted, DeleteIdleLock
      <4>2. j \in Keys
        <5>1. depth[c] + 1 <= MaxDepth
          <6>1. pc[c] = "idle" \/ ~boundary[c]
            BY <2>5 DEF RefuseAborted
          <6> QED BY <6>1, <2>0, <1>1, PlanFacts DEF Placed, InBoundary
        <5> QED BY <5>1, <2>0, PlanFacts DEF Levels
      <4> QED BY <4>1, <4>2, <1>1 DEF TypeOK, Keyed
    <3>2. \A d \in Clients : boundary'[d] => boundary[d] \/ d \in Nesting
      <4>1. boundary' = [boundary EXCEPT ![c] = pc[c] = "running"]
        BY <2>5 DEF RefuseAborted
      <4>2. pc[c] = "running" => c \in Nesting
        BY <2>5 DEF RefuseAborted
      <4> QED BY <4>1, <4>2, <1>1 DEF TypeOK
    <3>3. Undisturbed
      BY <2>5, <3>1, <3>2 DEF RefuseAborted, Undisturbed, thread
    <3> QED BY <3>3
  <2>6. CASE Abort(c) \/ Expire(c) \/ WatchdogQuarantine(c)
             \/ (OnAbort(c) /\ pc[c] # "waiting")
    <3>1. \A d \in Clients : expired[d] => expired'[d]
      BY <2>6, <1>1 DEF Abort, Expire, WatchdogQuarantine, OnAbort, request, TypeOK
    <3>2. Undisturbed
      BY <2>6, <3>1 DEF Abort, Expire, WatchdogQuarantine, OnAbort, Undisturbed,
                        request, thread
    <3> QED BY <3>2
  <2>7. CASE Finish(c)
    <3>1. pc[c] = "running" /\ pc' = [pc EXCEPT ![c] = "unwinding"]
      BY <2>7 DEF Finish, FinishSafely, FinishInDoubt, FinishUnconfirmed, Finishing
    <3>2. UNCHANGED <<locks, obj, stack, depth, pump, sweep, expired, boundary, jobs>>
      BY <2>7 DEF Finish, FinishSafely, FinishInDoubt, FinishUnconfirmed, Finishing
    <3>3. Undisturbed
      BY <3>1, <3>2, <1>1 DEF Undisturbed, TypeOK
    <3> QED BY <3>3
  <2>8. CASE ResumeRun(c)
    <3>1. pc[c] = "admitted" /\ pc' = [pc EXCEPT ![c] = "running"]
      BY <2>8 DEF ResumeRun
    <3>2. /\ UNCHANGED <<locks, obj, stack, depth, pump, sweep, expired, boundary>>
          /\ jobs # <<>> /\ jobs' = Tail(jobs) /\ c = Head(jobs)
      BY <2>8 DEF ResumeRun, Resume, request, thread
    <3>3. Undisturbed
      BY <3>1, <3>2, <1>1 DEF Undisturbed, TypeOK
    <3> QED BY <3>3
  <2> QED BY <1>4, <2>1, <2>2, <2>3, <2>4, <2>5, <2>6, <2>7, <2>8
          DEF ClientStep, Resumption
<1> QED BY <1>2, <1>3, <1>4 DEF Next

(* What a step does to the client it is about, and that it does nothing to *)
(* the others.                                                             *)
LEMMA EnterEffect ==
    ASSUME Shape, NEW c \in Clients, NEW o \in Objs, Entered(c, o)
    PROVE  /\ depth[c] + 1 \in Levels /\ depth'[c] = depth[c] + 1
           /\ pc'[c] = "waiting" /\ stack'[c][depth[c] + 1] = o
           /\ \A l \in Levels : l # depth[c] + 1 => stack'[c][l] = stack[c][l]
           /\ \A d \in Clients : d # c => /\ depth'[d] = depth[d]
                                          /\ pc'[d] = pc[d]
                                          /\ stack'[d] = stack[d]
           /\ \A p \in Objs : p # o => obj'[p] = obj[p]
           /\ obj[o].queue \in Seq(Clients)
           /\ \/ obj'[o].queue = <<c>>
                 /\ \A d \in Clients, l \in Levels : l <= depth[d] => stack[d][l] # o
              \/ obj'[o].queue = Append(obj[o].queue, c)
           /\ pump' = o
PROOF
<1>1. TypeOK
  BY DEF Shape
<1>2. EnterQueue(c, o) /\ pc[c] # "waiting" /\ depth[c] <= Len(Plan[c])
  BY DEF Entered
<1>3. depth[c] + 1 \in Levels
  BY <1>2, EnterTyped
<1>4. depth'[c] = depth[c] + 1 /\ pc'[c] = "waiting" /\ pump' = o
  BY <1>1, <1>2 DEF EnterQueue, TypeOK
<1>5. /\ stack'[c][depth[c] + 1] = o
      /\ \A l \in Levels : l # depth[c] + 1 => stack'[c][l] = stack[c][l]
  BY <1>1, <1>2, <1>3 DEF EnterQueue, TypeOK
<1>6. \A d \in Clients : d # c => /\ depth'[d] = depth[d]
                                  /\ pc'[d] = pc[d]
                                  /\ stack'[d] = stack[d]
  BY <1>1, <1>2 DEF EnterQueue, TypeOK
<1>7. \A p \in Objs : p # o => obj'[p] = obj[p]
  BY <1>1, <1>2 DEF EnterQueue, TypeOK
<1>8. obj[o] \in LockStates /\ obj[o].queue \in Seq(Clients)
  BY <1>1 DEF TypeOK, LockStates
<1>9. \/ obj'[o].queue = <<c>>
         /\ \A d \in Clients, l \in Levels : l <= depth[d] => stack[d][l] # o
      \/ obj'[o].queue = Append(obj[o].queue, c)
  <2> DEFINE k == KeyAt(c, depth[c] + 1)
  <2>1. CASE locks[k] = NoState
    <3>1. obj' = [obj EXCEPT ![o] = [Free EXCEPT !.queue = <<c>>]] /\ Unused(o, k)
      BY <2>1, <1>2 DEF EnterQueue, NewObj
    <3>2. obj'[o].queue = <<c>>
      BY <3>1, <1>1 DEF TypeOK, Free
    <3> QED BY <3>1, <3>2 DEF Unused
  <2>2. CASE locks[k] # NoState
    <3>1. obj' = [obj EXCEPT ![o].queue = Append(@, c)]
      BY <2>2, <1>2 DEF EnterQueue
    <3>2. obj'[o] = [obj[o] EXCEPT !.queue = Append(obj[o].queue, c)]
      BY <3>1, <1>1 DEF TypeOK
    <3> QED BY <3>2, <1>8 DEF LockStates
  <2> QED BY <2>1, <2>2
<1> QED BY <1>3, <1>4, <1>5, <1>6, <1>7, <1>8, <1>9

LEMMA ReleaseEffect ==
    ASSUME Shape, NEW c \in Clients, Released(c)
    PROVE  /\ Top(c) \in Objs /\ pump' = Top(c) /\ sweep'
           /\ pc'[c] \notin {"waiting", "admitted", "rejected"}
           /\ \A o \in Objs : obj'[o].queue = obj[o].queue
           /\ \A o \in Objs : o # Top(c) => obj'[o] = obj[o]
PROOF
<1>1. TypeOK /\ Placed
  BY DEF Shape
<1>2. ReleaseTop(c) /\ PopLevel(c) /\ pc[c] # "idle"
  BY DEF Released, ReleaseTop
<1>3. depth[c] \in Levels /\ pc'[c] = AfterLevel(c)
  BY <1>2, PopEffect DEF Levels
<1>4. Top(c) \in Objs
  BY <1>1, <1>3, PlanFacts DEF Top, Placed, Levels
<1>5. pump' = Top(c) /\ sweep'
  BY <1>2 DEF ReleaseTop
<1>6. \/ \E n : obj' = [obj EXCEPT ![Top(c)].readers = n]
      \/ obj' = [obj EXCEPT ![Top(c)].writer = FALSE]
  BY <1>2 DEF ReleaseTop
<1>7. obj[Top(c)] \in LockStates
  BY <1>1, <1>4 DEF TypeOK
<1>8. \A o \in Objs : o # Top(c) => obj'[o] = obj[o]
  BY <1>1, <1>6 DEF TypeOK
<1>9. obj'[Top(c)].queue = obj[Top(c)].queue
  BY <1>1, <1>4, <1>6, <1>7 DEF TypeOK, LockStates
<1> QED BY <1>3, <1>4, <1>5, <1>8, <1>9 DEF AfterLevel

LEMMA RejectedEffect ==
    ASSUME Shape, NEW c \in Clients, ResumeRejected(c)
    PROVE  /\ Top(c) \in Objs
           /\ pc'[c] \notin {"waiting", "admitted", "rejected"}
           /\ UNCHANGED <<obj, pump, sweep>>
           /\ \A k \in Keys : \/ locks'[k] = locks[k]
                              \/ locks'[k] = NoState /\ k = Top(c)[1] /\ Idle(Top(c))
           /\ Idle(Top(c)) => locks'[Top(c)[1]] = NoState
PROOF
<1>1. TypeOK /\ Placed
  BY DEF Shape
<1>2. PopLevel(c) /\ pc[c] # "idle" /\ DeleteIdleLock(Top(c)) /\ UNCHANGED <<obj, thread>>
  BY DEF ResumeRejected
<1>3. depth[c] \in Levels /\ pc'[c] = AfterLevel(c)
  BY <1>2, PopEffect DEF Levels
<1>4. Top(c) \in Objs
  BY <1>1, <1>3, PlanFacts DEF Top, Placed, Levels
<1>5. Top(c)[1] \in Keys
  BY <1>4 DEF Objs
<1> QED BY <1>1, <1>2, <1>3, <1>4, <1>5 DEF AfterLevel, DeleteIdleLock, TypeOK, thread

(* A client leaves the i-th place of the queue of o, as w; admitWaiting    *)
(* leaves by the front only.                                               *)
Leaves(c, o, i, w) ==
    /\ c \in Clients /\ o \in Objs /\ i \in 1 .. Len(obj[o].queue)
    /\ c = obj[o].queue[i] /\ pc[c] = "waiting" /\ Top(c) = o
    /\ obj[o].queue \in Seq(Clients)
    /\ Without(obj[o].queue, i, obj'[o].queue)
    /\ \A p \in Objs : p # o => obj'[p] = obj[p]
    /\ pc' = [pc EXCEPT ![c] = w]
    /\ jobs' = Append(jobs, c)
    /\ UNCHANGED <<locks, stack, depth, request>>

LEMMA AdmissionKinds ==
    ASSUME Shape, AdmitWaiting, NEW t \in Objs, t = pump
    PROVE  \/ /\ DropExpired /\ Leaves(Waiter, t, 1, "rejected")
              /\ obj'[t].readers = obj[t].readers /\ obj'[t].writer = obj[t].writer
           \/ /\ AdmitReader /\ Leaves(Waiter, t, 1, "admitted")
              /\ obj'[t].readers > 0
           \/ /\ AdmitWriter /\ Leaves(Waiter, t, 1, "admitted")
              /\ obj'[t].writer
           \/ EndAdmission
PROOF
<1>1. TypeOK /\ Queued
  BY DEF Shape
<1> DEFINE q == obj[t].queue
<1>2. obj[t] \in LockStates /\ q \in Seq(Clients)
  BY <1>1 DEF TypeOK, LockStates
<1>3. ASSUME q # <<>>
      PROVE  /\ 1 \in 1 .. Len(q) /\ Waiter = q[1] /\ Waiter \in Clients
             /\ pc[Waiter] = "waiting" /\ Top(Waiter) = t
             /\ Without(q, 1, Tail(q))
  <2>1. 1 \in 1 .. Len(q) /\ Waiter = q[1] /\ Without(q, 1, Tail(q))
    BY <1>2, <1>3, WithoutTail DEF Waiter
  <2> QED BY <2>1, <1>1, <1>2 DEF Queued
<1>4. CASE DropExpired
  <2>1. q # <<>> /\ obj' = [obj EXCEPT ![t].queue = Tail(@)]
    BY <1>4 DEF DropExpired
  <2>2. obj'[t] = [obj[t] EXCEPT !.queue = Tail(q)]
    BY <2>1, <1>1 DEF TypeOK
  <2>3. /\ obj'[t].queue = Tail(q) /\ obj'[t].readers = obj[t].readers
        /\ obj'[t].writer = obj[t].writer
    BY <2>2, <1>2 DEF LockStates
  <2>4. \A p \in Objs : p # t => obj'[p] = obj[p]
    BY <2>1, <1>1 DEF TypeOK
  <2>5. Leaves(Waiter, t, 1, "rejected")
    BY <1>2, <1>3, <1>4, <2>1, <2>3, <2>4 DEF Leaves, DropExpired
  <2> QED BY <1>4, <2>3, <2>5
<1>5. CASE AdmitReader
  <2>1. q # <<>> /\ obj' = [obj EXCEPT ![t].queue = Tail(@), ![t].readers = @ + 1]
    BY <1>5 DEF AdmitReader
  <2>2. obj'[t] = [obj[t] EXCEPT !.queue = Tail(q), !.readers = obj[t].readers + 1]
    BY <2>1, <1>1, <1>2 DEF TypeOK, LockStates
  <2>3. obj'[t].queue = Tail(q) /\ obj'[t].readers = obj[t].readers + 1
    BY <2>2, <1>2 DEF LockStates
  <2>4. obj'[t].readers > 0
    BY <2>3, <1>2 DEF LockStates
  <2>5. \A p \in Objs : p # t => obj'[p] = obj[p]
    BY <2>1, <1>1 DEF TypeOK
  <2>6. Leaves(Waiter, t, 1, "admitted")
    BY <1>2, <1>3, <1>5, <2>1, <2>3, <2>5 DEF Leaves, AdmitReader
  <2> QED BY <1>5, <2>4, <2>6
<1>6. CASE AdmitWriter
  <2>1. q # <<>> /\ obj' = [obj EXCEPT ![t].queue = Tail(@), ![t].writer = TRUE]
    BY <1>6 DEF AdmitWriter
  <2>2. obj'[t] = [obj[t] EXCEPT !.queue = Tail(q), !.writer = TRUE]
    BY <2>1, <1>1, <1>2 DEF TypeOK, LockStates
  <2>3. obj'[t].queue = Tail(q) /\ obj'[t].writer
    BY <2>2, <1>2 DEF LockStates
  <2>4. \A p \in Objs : p # t => obj'[p] = obj[p]
    BY <2>1, <1>1 DEF TypeOK
  <2>5. Leaves(Waiter, t, 1, "admitted")
    BY <1>2, <1>3, <1>6, <2>1, <2>3, <2>4 DEF Leaves, AdmitWriter
  <2> QED BY <1>6, <2>3, <2>5
<1> QED BY <1>4, <1>5, <1>6 DEF AdmitWaiting

LEMMA WithdrawnLeaves ==
    ASSUME Shape, NEW c \in Clients, Withdrawn(c)
    PROVE  \E i \in 1 .. Len(obj[Top(c)].queue) : Leaves(c, Top(c), i, "rejected")
PROOF
<1>1. TypeOK /\ Placed /\ pc[c] = "waiting" /\ Withdraw(c)
  BY DEF Shape, Withdrawn
<1>2. depth[c] \in Levels
  BY <1>1, PlanFacts DEF TypeOK, Placed, Levels
<1> DEFINE o == Top(c)
           q == obj[o].queue
<1>3. o \in Objs
  BY <1>1, <1>2 DEF Placed, Top, Levels
<1>4. obj[o] \in LockStates /\ q \in Seq(Clients)
  BY <1>1, <1>3 DEF TypeOK, LockStates
<1>5. PICK i \in 1 .. Len(q) : q[i] = c /\ obj' = [obj EXCEPT ![o].queue = RemoveAt(@, i)]
  <2>1. DOMAIN q = 1 .. Len(q)
    BY <1>4
  <2> QED BY <2>1, <1>1 DEF Withdraw
<1>6. Without(q, i, RemoveAt(q, i))
  BY <1>4, WithoutRemoveAt
<1>7. obj'[o].queue = RemoveAt(q, i)
  BY <1>1, <1>3, <1>4, <1>5 DEF TypeOK, LockStates
<1>8. \A p \in Objs : p # o => obj'[p] = obj[p]
  BY <1>1, <1>5 DEF TypeOK
<1>9. pc' = [pc EXCEPT ![c] = "rejected"] /\ jobs' = Append(jobs, c)
  BY <1>1 DEF Withdraw
<1>10. UNCHANGED <<locks, stack, depth, request>>
  BY DEF Withdrawn
<1>11. Leaves(c, o, i, "rejected")
  BY <1>1, <1>3, <1>4, <1>5, <1>6, <1>7, <1>8, <1>9, <1>10 DEF Leaves
<1> QED BY <1>11

LEMMA AdmissionAt == ASSUME Shape, AdmitWaiting PROVE pump \in Objs /\ pump # NoState
BY DEF Shape, TypeOK, AdmitWaiting, DropExpired, AdmitReader, AdmitWriter, EndAdmission

LEMMA LeavesEffect ==
    ASSUME Shape, NEW c, NEW o, NEW i, NEW w \in {"admitted", "rejected"}, Leaves(c, o, i, w)
    PROVE  /\ pc'[c] = w
           /\ \A d \in Clients : d # c => pc'[d] = pc[d]
           /\ UNCHANGED <<locks, stack, depth, boundary, expired>>
BY DEF Leaves, Shape, TypeOK, request

LEMMA NextKeyed == ASSUME Shape, Keyed, [Next]_vars PROVE Keyed'
PROOF
<1>1. TypeOK /\ Placed
  BY DEF Shape
<1>2. ASSUME UNCHANGED <<stack, depth>>, \A k \in Keys : locks'[k] \in {locks[k], NoState}
      PROVE  Keyed'
  BY <1>2 DEF Keyed, KeyAt
<1>3. CASE AdmitWaiting
  <2>1. pump \in Objs
    BY <1>3, AdmissionAt
  <2>2. CASE EndAdmission
    <3>1. \A k \in Keys : locks'[k] \in {locks[k], NoState}
      BY <2>1, <2>2, <1>1 DEF EndAdmission, DeleteIdleLock, TypeOK
    <3> QED BY <3>1, <1>2, <2>2 DEF EndAdmission
  <2>3. CASE ~EndAdmission
    BY <1>2, <1>3, <2>3 DEF AdmitWaiting, DropExpired, AdmitReader, AdmitWriter
  <2> QED BY <2>2, <2>3
<1>4. ASSUME NEW c \in Clients, NEW o \in Objs, Entered(c, o) PROVE Keyed'
  <2> DEFINE n == depth[c] + 1
             j == KeyAt(c, n)
  <2>1. EnterQueue(c, o) /\ n \in Levels /\ j \in Keys
    BY <1>4, EnterEffect, PlanFacts DEF Entered
  <2>2. o[1] = j
    <3>1. CASE locks[j] = NoState
      BY <2>1, <3>1 DEF EnterQueue, NewObj, Unused
    <3>2. CASE locks[j] # NoState
      BY <2>1, <3>2 DEF EnterQueue, Keyed
    <3> QED BY <3>1, <3>2
  <2>3. ASSUME NEW k \in Keys, locks'[k] # NoState PROVE locks'[k][1] = k
    <3>1. locks' = [locks EXCEPT ![j] = o]
      BY <2>1 DEF EnterQueue
    <3>2. locks'[k] = IF k = j THEN o ELSE locks[k]
      BY <3>1, <1>1 DEF TypeOK
    <3> QED BY <3>2, <2>2, <2>3 DEF Keyed
  <2>4. ASSUME NEW d \in Clients, NEW l \in Levels, l <= depth'[d]
        PROVE  stack'[d][l][1] = KeyAt(d, l)
    <3>1. CASE d = c /\ l = n
      BY <1>4, <2>2, <3>1, EnterEffect
    <3>2. CASE d = c /\ l # n
      <4>1. depth[c] \in Nat /\ l \in Nat /\ depth'[c] = depth[c] + 1
        BY <1>1, <1>4, EnterEffect, PlanFacts DEF TypeOK, Levels
      <4>2. l <= depth[c] /\ stack'[c][l] = stack[c][l]
        BY <4>1, <3>2, <2>4, <1>4, EnterEffect
      <4> QED BY <4>2, <3>2 DEF Keyed
    <3>3. CASE d # c
      BY <1>4, <2>4, <3>3, EnterEffect DEF Keyed
    <3> QED BY <3>1, <3>2, <3>3
  <2>5. \A d \in Clients, l \in Levels : KeyAt(d, l)' = KeyAt(d, l)
    BY DEF KeyAt
  <2> QED BY <2>3, <2>4, <2>5 DEF Keyed
<1>5. ASSUME NEW c \in Clients, Released(c) \/ ResumeRejected(c) PROVE Keyed'
  <2>1. PopLevel(c) /\ pc[c] # "idle"
    BY <1>5 DEF Released, ReleaseTop, ResumeRejected
  <2>2. \A k \in Keys : locks'[k] \in {locks[k], NoState}
    BY <1>5, RejectedEffect DEF Released
  <2>3. ASSUME NEW d \in Clients, NEW l \in Levels, l <= depth'[d]
        PROVE  stack'[d][l][1] = KeyAt(d, l)
    <3>1. CASE d = c
      <4>1. depth[c] \in Nat /\ depth'[c] = depth[c] - 1 /\ l \in Nat
        BY <2>1, PopEffect, PlanFacts DEF Levels
      <4>2. l < depth[c] /\ l <= depth[c]
        BY <4>1, <2>3, <3>1
      <4>3. stack'[c][l] = stack[c][l]
        BY <4>2, <2>1, PopEffect
      <4> QED BY <4>2, <4>3, <3>1 DEF Keyed
    <3>2. CASE d # c
      BY <2>1, <2>3, <3>2, PopEffect DEF Keyed
    <3> QED BY <3>1, <3>2
  <2>4. \A d \in Clients, l \in Levels : KeyAt(d, l)' = KeyAt(d, l)
    BY DEF KeyAt
  <2> QED BY <2>2, <2>3, <2>4 DEF Keyed
<1>6. ASSUME NEW c \in Clients, Withdrawn(c) PROVE Keyed'
  BY <1>2, <1>6 DEF Withdrawn
<1>7. CASE Undisturbed
  BY <1>2, <1>7 DEF Undisturbed
<1> QED BY <1>3, <1>4, <1>5, <1>6, <1>7, Kinds

LEMMA NextListed == ASSUME Shape, Keyed, Listed, [Next]_vars PROVE Listed'
PROOF
<1>1. TypeOK /\ Placed /\ Queued
  BY DEF Shape
<1>t. \A d \in Clients : pc[d] = "waiting" => depth[d] \in Levels /\ Top(d) \in Objs
  BY <1>1, PlanFacts DEF TypeOK, Placed, Top, Levels
<1>2. ASSUME \A o \in Objs : obj'[o].queue = obj[o].queue,
             \A d \in Clients : pc'[d] = "waiting" => /\ pc[d] = "waiting"
                                                      /\ depth'[d] = depth[d]
                                                      /\ stack'[d] = stack[d]
      PROVE  Listed'
  <2>1. \A d \in Clients : pc'[d] = "waiting" => stack'[d][depth'[d]] = Top(d) /\ Top(d) \in Objs
    BY <1>2, <1>t DEF Top
  <2> QED BY <2>1, <1>2 DEF Listed, Top
<1>3. ASSUME NEW c, NEW o, NEW i, NEW w \in {"admitted", "rejected"}, Leaves(c, o, i, w)
      PROVE  Listed'
  <2> DEFINE s == obj[o].queue
             q == obj'[o].queue
  <2>1. /\ o \in Objs /\ i \in 1 .. Len(s) /\ c = s[i] /\ s \in Seq(Clients)
        /\ Without(s, i, q)
        /\ \A p \in Objs : p # o => obj'[p] = obj[p]
    BY <1>3 DEF Leaves
  <2>2. SUFFICES ASSUME NEW d \in Clients, pc'[d] = "waiting"
                 PROVE  \E j \in 1 .. Len(obj'[Top(d)].queue) : obj'[Top(d)].queue[j] = d
    BY <1>3, LeavesEffect DEF Listed, Top
  <2>3. d # c /\ pc[d] = "waiting"
    BY <1>3, <2>2, LeavesEffect
  <2>4. PICK j \in 1 .. Len(obj[Top(d)].queue) : obj[Top(d)].queue[j] = d
    BY <2>3 DEF Listed
  <2>5. CASE Top(d) = o
    <3> HIDE DEF s, q
    <3>1. j \in 1 .. Len(s) /\ s[j] = d /\ j # i
      BY <2>1, <2>3, <2>4, <2>5 DEF s
    <3>2. Len(s) \in Nat /\ Len(q) = Len(s) - 1
          /\ \A m \in 1 .. Len(q) : q[m] = IF m < i THEN s[m] ELSE s[m + 1]
      BY <2>1 DEF Without
    <3>3. CASE j < i
      <4>1. j \in 1 .. Len(q) /\ q[j] = d
        BY <3>1, <3>2, <3>3, <2>1
      <4> QED BY <4>1, <2>5 DEF q
    <3>4. CASE j > i
      <4>1. j - 1 \in 1 .. Len(q) /\ ~(j - 1 < i) /\ (j - 1) + 1 = j
        BY <3>1, <3>2, <3>4, <2>1
      <4>2. q[j - 1] = d
        BY <4>1, <3>1, <3>2
      <4> QED BY <4>1, <4>2, <2>5 DEF q
    <3> QED BY <3>1, <3>2, <3>3, <3>4, <2>1
  <2>6. CASE Top(d) # o
    BY <2>1, <2>3, <2>4, <2>6, <1>t
  <2> QED BY <2>5, <2>6
<1>4. CASE AdmitWaiting
  <2>1. PICK t \in Objs : t = pump
    BY <1>4, AdmissionAt
  <2>2. CASE EndAdmission
    BY <1>2, <2>2 DEF EndAdmission
  <2> QED BY <1>3, <1>4, <2>1, <2>2, AdmissionKinds
<1>5. ASSUME NEW c \in Clients, NEW o \in Objs, Entered(c, o) PROVE Listed'
  <2> DEFINE q == obj'[o].queue
  <2>1. SUFFICES ASSUME NEW d \in Clients, pc'[d] = "waiting"
                 PROVE  \E j \in 1 .. Len(obj'[Top(d)'].queue) : obj'[Top(d)'].queue[j] = d
    BY DEF Listed
  <2>2. obj[o].queue \in Seq(Clients)
    BY <1>5, EnterEffect
  <2>3. CASE d = c
    <3>1. Top(d)' = o
      BY <1>5, <2>3, EnterEffect DEF Top
    <3>2. CASE q = <<c>>
      <4>1. 1 \in 1 .. Len(q) /\ q[1] = c
        BY <3>2
      <4> QED BY <4>1, <3>1, <2>3
    <3>3. CASE q = Append(obj[o].queue, c)
      <4>1. Len(q) \in 1 .. Len(q) /\ q[Len(q)] = c
        BY <2>2, <3>3
      <4> QED BY <4>1, <3>1, <2>3
    <3> QED BY <1>5, <3>2, <3>3, EnterEffect
  <2>4. CASE d # c
    <3>1. pc[d] = "waiting" /\ Top(d)' = Top(d) /\ Top(d) \in Objs /\ depth[d] \in Levels
      BY <1>5, <1>t, <2>1, <2>4, EnterEffect DEF Top
    <3>2. PICK j \in 1 .. Len(obj[Top(d)].queue) : obj[Top(d)].queue[j] = d
      BY <3>1 DEF Listed
    <3>3. CASE Top(d) # o
      BY <3>1, <3>2, <3>3, <1>5, EnterEffect
    <3>4. CASE Top(d) = o
      <4>1. depth[d] <= depth[d] /\ stack[d][depth[d]] = o
        BY <3>1, <3>4, PlanFacts DEF Top, Levels
      <4>2. q = Append(obj[o].queue, c)
        BY <4>1, <3>1, <1>5, EnterEffect
      <4>3. j \in 1 .. Len(q) /\ q[j] = d
        BY <4>2, <2>2, <3>2, <3>4
      <4> QED BY <4>3, <3>1, <3>4
    <3> QED BY <3>3, <3>4
  <2> QED BY <2>3, <2>4
<1>6. ASSUME NEW c \in Clients, Released(c) \/ ResumeRejected(c) PROVE Listed'
  <2>1. PopLevel(c) /\ pc[c] # "idle"
    BY <1>6 DEF Released, ReleaseTop, ResumeRejected
  <2>2. pc'[c] # "waiting" /\ \A o \in Objs : obj'[o].queue = obj[o].queue
    BY <1>6, ReleaseEffect, RejectedEffect
  <2> QED BY <2>1, <2>2, <1>2, PopEffect
<1>7. ASSUME NEW c \in Clients, Withdrawn(c) PROVE Listed'
  BY <1>3, <1>7, WithdrawnLeaves
<1>8. CASE Undisturbed
  <2>1. \A d \in Clients : pc'[d] = "waiting" => pc[d] = "waiting"
    BY <1>8 DEF Undisturbed
  <2> QED BY <2>1, <1>2, <1>8 DEF Undisturbed
<1> QED BY <1>4, <1>5, <1>6, <1>7, <1>8, Kinds

LEMMA NextDue == ASSUME Shape, Keyed, Due, [Next]_vars PROVE Due'
PROOF
<1> DEFINE S == {"admitted", "rejected"}
<1>1. TypeOK /\ jobs \in Seq(Clients)
  BY DEF Shape, TypeOK
<1>2. ASSUME \A d \in Clients : pc'[d] \in S => pc[d] \in S,
             \/ jobs' = jobs
             \/ jobs # <<>> /\ jobs' = Tail(jobs) /\ pc'[Head(jobs)] \notin S
      PROVE  Due'
  <2>1. SUFFICES ASSUME NEW d \in Clients, pc'[d] \in S
                 PROVE  \E j \in 1 .. Len(jobs') : jobs'[j] = d
    BY DEF Due
  <2>2. PICK i \in 1 .. Len(jobs) : jobs[i] = d
    BY <1>2, <2>1 DEF Due
  <2>3. CASE jobs' = jobs
    BY <2>2, <2>3
  <2>4. CASE jobs # <<>> /\ jobs' = Tail(jobs) /\ pc'[Head(jobs)] \notin S
    <3>1. Head(jobs) = jobs[1] /\ i # 1
      BY <1>1, <2>1, <2>2, <2>4
    <3>2. i - 1 \in 1 .. Len(jobs') /\ jobs'[i - 1] = jobs[(i - 1) + 1]
      BY <1>1, <2>2, <2>4, <3>1
    <3> QED BY <2>2, <3>2
  <2> QED BY <1>2, <2>3, <2>4
<1>3. ASSUME NEW c, NEW o, NEW i, NEW w \in S, Leaves(c, o, i, w) PROVE Due'
  <2>1. c \in Clients /\ jobs' = Append(jobs, c)
    BY <1>3 DEF Leaves
  <2>2. SUFFICES ASSUME NEW d \in Clients, pc'[d] \in S
                 PROVE  \E j \in 1 .. Len(jobs') : jobs'[j] = d
    BY DEF Due
  <2>3. CASE d = c
    <3>1. Len(jobs') \in 1 .. Len(jobs') /\ jobs'[Len(jobs')] = c
      BY <1>1, <2>1
    <3> QED BY <3>1, <2>3
  <2>4. CASE d # c
    <3>1. pc[d] \in S
      BY <1>3, <2>2, <2>4, LeavesEffect
    <3>2. PICK j \in 1 .. Len(jobs) : jobs[j] = d
      BY <3>1 DEF Due
    <3>3. j \in 1 .. Len(jobs') /\ jobs'[j] = d
      BY <1>1, <2>1, <3>2
    <3> QED BY <3>3
  <2> QED BY <2>3, <2>4
<1>4. ASSUME NEW c \in Clients, pc'[c] \notin S, \A d \in Clients : d # c => pc'[d] = pc[d],
             Turn(c)
      PROVE  Due'
  BY <1>2, <1>4 DEF Turn
<1>5. CASE AdmitWaiting
  <2>1. PICK t \in Objs : t = pump
    BY <1>5, AdmissionAt
  <2>2. CASE EndAdmission
    BY <1>2, <2>2 DEF EndAdmission
  <2> QED BY <1>3, <1>5, <2>1, <2>2, AdmissionKinds
<1>6. ASSUME NEW c \in Clients, NEW o \in Objs, Entered(c, o) PROVE Due'
  BY <1>4, <1>6, EnterEffect DEF Entered
<1>7. ASSUME NEW c \in Clients, Released(c) \/ ResumeRejected(c) PROVE Due'
  <2>1. PopLevel(c) /\ pc[c] # "idle" /\ Turn(c)
    BY <1>7 DEF Released, ReleaseTop, ResumeRejected, Resume, Turn
  <2>2. pc'[c] \notin S
    BY <1>7, ReleaseEffect, RejectedEffect
  <2> QED BY <1>4, <2>1, <2>2, PopEffect
<1>8. ASSUME NEW c \in Clients, Withdrawn(c) PROVE Due'
  BY <1>3, <1>8, WithdrawnLeaves
<1>9. CASE Undisturbed
  <2>1. \A d \in Clients : pc'[d] \in S => pc[d] \in S
    BY <1>9 DEF Undisturbed
  <2> QED BY <2>1, <1>2, <1>9 DEF Undisturbed
<1> QED BY <1>5, <1>6, <1>7, <1>8, <1>9, Kinds

LEMMA HeadWaits ==
    ASSUME Shape, NEW o \in Objs, obj[o].queue # <<>>
    PROVE  /\ Head(obj[o].queue) \in Clients /\ pc[Head(obj[o].queue)] = "waiting"
           /\ Top(Head(obj[o].queue)) = o
PROOF
<1>1. TypeOK /\ Queued
  BY DEF Shape
<1>2. obj[o].queue \in Seq(Clients)
  BY <1>1 DEF TypeOK, LockStates
<1>3. 1 \in 1 .. Len(obj[o].queue) /\ Head(obj[o].queue) = obj[o].queue[1]
  BY <1>2, WithoutTail
<1> QED BY <1>1, <1>2, <1>3 DEF Queued

LEMMA NextServed == ASSUME Shape, Keyed, Served, [Next]_vars PROVE Served'
PROOF
<1> DEFINE Blocked(o) == expired[Head(obj[o].queue)] \/ FrontBlocked(o)
<1>1. TypeOK
  BY DEF Shape
<1>2. ASSUME NEW o \in Objs, obj'[o] = obj[o], obj[o].queue # <<>>, Blocked(o),
             \A d \in Clients : pc[d] = "waiting" => /\ depth'[d] = depth[d]
                                                     /\ expired[d] => expired'[d]
      PROVE  Blocked(o)'
  <2> DEFINE d == Head(obj[o].queue)
  <2>1. d \in Clients /\ depth'[d] = depth[d] /\ (expired[d] => expired'[d])
    BY <1>2, HeadWaits
  <2> QED BY <1>2, <2>1 DEF FrontBlocked, ModeAt
<1>3. ASSUME NEW t \in Objs, pump = NoState \/ pump = t,
             \A o \in Objs : o # t => obj'[o] = obj[o],
             pump' = t \/ (obj'[t].queue # <<>> => Blocked(t)'),
             \A d \in Clients : pc[d] = "waiting" => /\ depth'[d] = depth[d]
                                                     /\ expired[d] => expired'[d]
      PROVE  Served'
  <2>1. ASSUME NEW o \in Objs, obj'[o].queue # <<>>, pump' # o PROVE Blocked(o)'
    <3>1. CASE o = t
      BY <1>3, <2>1, <3>1
    <3>2. CASE o # t
      <4>1. obj'[o] = obj[o] /\ obj[o].queue # <<>> /\ pump # o
        BY <1>3, <2>1, <3>2, ObjsAssumption DEF ObjsAssumption
      <4>2. Blocked(o)
        BY <4>1 DEF Served
      <4> QED BY <4>1, <4>2, <1>2, <1>3
    <3> QED BY <3>1, <3>2
  <2> QED BY <2>1 DEF Served
<1>4. ASSUME UNCHANGED <<obj, pump>>,
             \A d \in Clients : pc[d] = "waiting" => /\ depth'[d] = depth[d]
                                                     /\ expired[d] => expired'[d]
      PROVE  Served'
  <2>1. ASSUME NEW o \in Objs, obj'[o].queue # <<>>, pump' # o PROVE Blocked(o)'
    <3>1. Blocked(o)
      BY <1>4, <2>1 DEF Served
    <3> QED BY <3>1, <2>1, <1>2, <1>4
  <2> QED BY <2>1 DEF Served
<1>5. CASE AdmitWaiting
  <2>1. PICK t \in Objs : t = pump
    BY <1>5, AdmissionAt
  <2>2. \A d \in Clients : pc[d] = "waiting" => /\ depth'[d] = depth[d]
                                                /\ expired[d] => expired'[d]
    BY <1>5 DEF AdmitWaiting, DropExpired, AdmitReader, AdmitWriter, EndAdmission, request
  <2>3. CASE EndAdmission
    <3>1. UNCHANGED <<obj, depth, expired>> /\ (obj[t].queue # <<>> => FrontBlocked(t))
      BY <2>1, <2>3 DEF EndAdmission, request
    <3>2. obj'[t].queue # <<>> => Blocked(t)'
      BY <3>1 DEF FrontBlocked, ModeAt
    <3> QED BY <1>3, <2>1, <2>2, <3>1, <3>2
  <2>4. CASE AdmitWriter /\ obj'[t].writer /\ Leaves(Waiter, t, 1, "admitted")
    <3>1. obj'[t].queue # <<>> => Blocked(t)'
      BY <2>4 DEF FrontBlocked
    <3> QED BY <1>3, <2>1, <2>2, <2>4, <3>1 DEF Leaves
  <2>5. CASE \/ DropExpired /\ Leaves(Waiter, t, 1, "rejected")
             \/ AdmitReader /\ Leaves(Waiter, t, 1, "admitted")
    <3>1. pump' = t /\ \A o \in Objs : o # t => obj'[o] = obj[o]
      BY <2>1, <2>5 DEF Leaves, DropExpired, AdmitReader, thread
    <3> QED BY <1>3, <2>1, <2>2, <3>1
  <2> QED BY <1>5, <2>1, <2>3, <2>4, <2>5, AdmissionKinds
<1>6. ASSUME NEW c \in Clients, NEW o \in Objs, Entered(c, o) PROVE Served'
  <2>1. pump = NoState /\ pc[c] # "waiting" /\ UNCHANGED expired
    BY <1>6 DEF Entered
  <2>2. \A d \in Clients : pc[d] = "waiting" => depth'[d] = depth[d]
    BY <1>6, <2>1, EnterEffect
  <2> QED BY <1>3, <1>6, <2>1, <2>2, EnterEffect
<1>7. ASSUME NEW c \in Clients, Released(c) \/ ResumeRejected(c) PROVE Served'
  <2>1. PopLevel(c) /\ pc[c] \notin {"idle", "waiting"}
    BY <1>7 DEF Released, ReleaseTop, ResumeRejected
  <2>2. \A d \in Clients : d # c => expired'[d] = expired[d]
    BY <1>1, <2>1 DEF PopLevel, Cleared, TypeOK
  <2>3. \A d \in Clients : pc[d] = "waiting" => /\ depth'[d] = depth[d]
                                                /\ expired[d] => expired'[d]
    BY <2>1, <2>2, PopEffect
  <2>4. CASE Released(c)
    BY <1>3, <2>3, <2>4, ReleaseEffect DEF Released
  <2>5. CASE ResumeRejected(c)
    BY <1>4, <2>3, <2>5, RejectedEffect
  <2> QED BY <1>7, <2>4, <2>5
<1>8. ASSUME NEW c \in Clients, Withdrawn(c) PROVE Served'
  <2>1. PICK i \in 1 .. Len(obj[Top(c)].queue) : Leaves(c, Top(c), i, "rejected")
    BY <1>8, WithdrawnLeaves
  <2>2. pump = NoState /\ pump' = Top(c) /\ UNCHANGED <<depth, expired>>
    BY <1>8 DEF Withdrawn, Withdraw, request
  <2> QED BY <1>3, <2>1, <2>2 DEF Leaves
<1>9. CASE Undisturbed
  BY <1>4, <1>9 DEF Undisturbed
<1> QED BY <1>5, <1>6, <1>7, <1>8, <1>9, Kinds

LEMMA NextTidy == ASSUME Shape, Keyed, Tidy, [Next]_vars PROVE Tidy'
PROOF
<1> DEFINE Cleaner(d, o) == pc[d] = "rejected" /\ Top(d) = o
           Used(o) == obj[o].readers > 0 \/ obj[o].writer \/ obj[o].queue # <<>>
<1>1. TypeOK /\ Placed
  BY DEF Shape
<1>2. \A k \in Keys : locks[k] # NoState => locks[k] \in Objs /\ locks[k][1] = k
  BY <1>1 DEF TypeOK, Keyed
<1>3. \A o \in Objs : Used(o) => ~Idle(o)
  BY <1>1 DEF Idle, TypeOK, LockStates
<1>4. ASSUME NEW c, NEW o, NEW i, NEW w \in {"admitted", "rejected"}, Leaves(c, o, i, w),
             \/ w = "rejected"
             \/ obj'[o].readers > 0
             \/ obj'[o].writer,
             pump = NoState \/ pump = o
      PROVE  Tidy'
  <2>1. /\ c \in Clients /\ o \in Objs /\ pc[c] = "waiting" /\ Top(c) = o
        /\ \A p \in Objs : p # o => obj'[p] = obj[p]
        /\ UNCHANGED <<locks, stack, depth>>
    BY <1>4 DEF Leaves
  <2>2. pc'[c] = w /\ \A d \in Clients : d # c => pc'[d] = pc[d]
    BY <1>4, LeavesEffect
  <2>3. ASSUME NEW k \in Keys, locks'[k] # NoState, Idle(locks[k])'
        PROVE  \E d \in Clients : Cleaner(d, locks[k])'
    <3>1. locks'[k] = locks[k] /\ locks[k] \in Objs
      BY <2>1, <2>3, <1>2
    <3>2. CASE locks[k] = o
      <4>1. w = "rejected"
        BY <1>4, <2>3, <3>1, <3>2 DEF Idle
      <4> QED BY <4>1, <2>1, <2>2, <3>1, <3>2 DEF Top
    <3>3. CASE locks[k] # o
      <4>1. Idle(locks[k]) /\ pump # locks[k]
        BY <1>4, <2>1, <2>3, <3>1, <3>3, ObjsAssumption DEF Idle, ObjsAssumption
      <4>2. PICK d \in Clients : Cleaner(d, locks[k])
        BY <2>3, <3>1, <4>1 DEF Tidy
      <4> QED BY <4>2, <2>1, <2>2, <3>1 DEF Top
    <3> QED BY <3>2, <3>3
  <2> QED BY <2>3 DEF Tidy
<1>5. CASE AdmitWaiting
  <2>1. PICK t \in Objs : t = pump
    BY <1>5, AdmissionAt
  <2>2. CASE EndAdmission
    <3>1. UNCHANGED <<obj, stack, depth, pc>>
      BY <2>2 DEF EndAdmission
    <3>2. ASSUME NEW k \in Keys, locks'[k] # NoState, Idle(locks'[k])
          PROVE  \E d \in Clients : Cleaner(d, locks'[k])
      <4>1. locks'[k] = locks[k] /\ (sweep /\ Idle(t) => k # t[1])
        BY <2>1, <2>2, <3>2, <1>1 DEF EndAdmission, DeleteIdleLock, TypeOK, Objs
      <4>2. ~(pump = locks[k] /\ sweep)
        BY <2>1, <3>2, <4>1, <1>2
      <4> QED BY <4>1, <4>2, <3>2 DEF Tidy
    <3>3. \A d \in Clients : Top(d)' = Top(d)
      BY <3>1 DEF Top
    <3> QED BY <3>1, <3>2, <3>3 DEF Tidy, Idle
  <2> QED BY <1>4, <1>5, <2>1, <2>2, AdmissionKinds
<1>6. ASSUME NEW c \in Clients, NEW o \in Objs, Entered(c, o) PROVE Tidy'
  <2> DEFINE j == KeyAt(c, depth[c] + 1)
  <2>1. EnterQueue(c, o) /\ pump = NoState /\ pc[c] # "rejected" /\ j \in Keys
    BY <1>6, EnterEffect, PlanFacts DEF Entered
  <2>2. locks' = [locks EXCEPT ![j] = o]
    BY <2>1 DEF EnterQueue
  <2>3. o[1] = j
    <3>1. CASE locks[j] = NoState
      BY <2>1, <3>1 DEF EnterQueue, NewObj, Unused
    <3>2. CASE locks[j] # NoState
      BY <2>1, <3>2, <1>2 DEF EnterQueue
    <3> QED BY <3>1, <3>2
  <2>4. obj'[o].queue # <<>>
    <3>1. obj[o].queue \in Seq(Clients)
      BY <1>6, EnterEffect
    <3>2. <<c>> # <<>> /\ Append(obj[o].queue, c) # <<>>
      BY <3>1
    <3> QED BY <1>6, <3>2, EnterEffect
  <2>5. ASSUME NEW k \in Keys, locks'[k] # NoState, Idle(locks[k])'
        PROVE  \E d \in Clients : Cleaner(d, locks[k])'
    <3>1. locks'[k] = IF k = j THEN o ELSE locks[k]
      BY <2>2, <1>1 DEF TypeOK
    <3>2. k # j
      BY <2>4, <2>5, <3>1 DEF Idle
    <3>3. locks'[k] = locks[k] /\ locks[k] \in Objs /\ locks[k] # o
      BY <2>3, <2>5, <3>1, <3>2, <1>2
    <3>4. Idle(locks[k]) /\ pump # locks[k]
      BY <1>6, <2>1, <2>5, <3>3, EnterEffect, ObjsAssumption DEF Idle, ObjsAssumption
    <3>5. PICK d \in Clients : Cleaner(d, locks[k])
      BY <2>5, <3>3, <3>4 DEF Tidy
    <3>6. d # c
      BY <2>1, <3>5
    <3> QED BY <1>6, <3>3, <3>5, <3>6, EnterEffect DEF Top
  <2> QED BY <2>5 DEF Tidy
<1>7. ASSUME NEW c \in Clients, Released(c) PROVE Tidy'
  <2>1. /\ pump = NoState /\ pc[c] \notin {"idle", "rejected"} /\ UNCHANGED locks
        /\ PopLevel(c)
    BY <1>7 DEF Released, ReleaseTop
  <2>2. ASSUME NEW k \in Keys, locks'[k] # NoState, Idle(locks[k])', pump' # locks[k]
        PROVE  \E d \in Clients : Cleaner(d, locks[k])'
    <3>1. locks'[k] = locks[k] /\ locks[k] \in Objs
      BY <2>1, <2>2, <1>2
    <3>2. Idle(locks[k]) /\ pump # locks[k]
      BY <1>7, <2>1, <2>2, <3>1, ReleaseEffect, ObjsAssumption DEF Idle, ObjsAssumption
    <3>3. PICK d \in Clients : Cleaner(d, locks[k])
      BY <2>2, <3>1, <3>2 DEF Tidy
    <3> QED BY <2>1, <3>1, <3>3, PopEffect DEF Top
  <2> QED BY <1>7, <2>1, <2>2, ReleaseEffect DEF Tidy
<1>8. ASSUME NEW c \in Clients, ResumeRejected(c) PROVE Tidy'
  <2>1. PopLevel(c) /\ pc[c] # "idle" /\ UNCHANGED <<obj, pump, sweep>>
    BY <1>8, RejectedEffect DEF ResumeRejected
  <2>2. ASSUME NEW k \in Keys, locks'[k] # NoState, Idle(locks[k])',
               ~(pump' = locks'[k] /\ sweep')
        PROVE  \E d \in Clients : Cleaner(d, locks[k])'
    <3>1. locks'[k] = locks[k] /\ locks[k] \in Objs /\ locks[k][1] = k
      BY <1>8, <2>2, <1>2, RejectedEffect
    <3>2. Idle(locks[k]) /\ ~(pump = locks[k] /\ sweep)
      BY <2>1, <2>2, <3>1 DEF Idle
    <3>3. PICK d \in Clients : Cleaner(d, locks[k])
      BY <2>2, <3>1, <3>2 DEF Tidy
    <3>4. d # c
      <4>1. SUFFICES ASSUME d = c PROVE FALSE
        OBVIOUS
      <4>2. Idle(Top(c)) /\ Top(c)[1] = k
        BY <3>1, <3>2, <3>3, <4>1
      <4> QED BY <4>2, <1>8, <2>2, RejectedEffect
    <3> QED BY <2>1, <3>1, <3>3, <3>4, PopEffect DEF Top
  <2> QED BY <2>2 DEF Tidy
<1>9. ASSUME NEW c \in Clients, Withdrawn(c) PROVE Tidy'
  <2>1. pump = NoState
    BY <1>9 DEF Withdrawn
  <2> QED BY <1>4, <1>9, <2>1, WithdrawnLeaves
<1>10. CASE Undisturbed
  <2>1. UNCHANGED <<obj, stack, depth, pump, sweep>>
    BY <1>10 DEF Undisturbed
  <2>2. ASSUME NEW k \in Keys, locks'[k] # NoState PROVE locks'[k] = locks[k]
    BY <1>10, <2>2 DEF Undisturbed
  <2>3. \A d \in Clients : pc[d] = "rejected" => pc'[d] = "rejected"
    BY <1>10 DEF Undisturbed
  <2> QED BY <2>1, <2>2, <2>3 DEF Tidy, Idle, Top
<1> QED BY <1>5, <1>6, <1>7, <1>8, <1>9, <1>10, Kinds

LEMMA NextNested == ASSUME Shape, Keyed, Nested, [Next]_vars PROVE Nested'
PROOF
<1>1. TypeOK
  BY DEF Shape
<1>2. CASE AdmitWaiting
  BY <1>2 DEF Nested, AdmitWaiting, DropExpired, AdmitReader, AdmitWriter,
              EndAdmission, request
<1>3. ASSUME NEW c \in Clients, NEW o \in Objs, Entered(c, o) PROVE Nested'
  BY <1>3 DEF Nested, Entered
<1>4. ASSUME NEW c \in Clients, Released(c) \/ ResumeRejected(c) PROVE Nested'
  <2>1. PopLevel(c)
    BY <1>4 DEF Released, ReleaseTop, ResumeRejected
  <2>2. \A d \in Clients : boundary'[d] => boundary[d]
    BY <1>1, <2>1 DEF PopLevel, Cleared, TypeOK
  <2> QED BY <2>2 DEF Nested
<1>5. ASSUME NEW c \in Clients, Withdrawn(c) PROVE Nested'
  BY <1>5 DEF Nested, Withdrawn, request
<1>6. CASE Undisturbed
  BY <1>6 DEF Nested, Undisturbed
<1> QED BY <1>2, <1>3, <1>4, <1>5, <1>6, Kinds

LEMMA AlwaysWInv == Spec => []WInv
PROOF
<1>1. Init => WInv
  <2> SUFFICES ASSUME Init PROVE Waiting
    BY InitShape, InitOwners DEF WInv, Inv
  <2>1. \A c \in Clients, l \in Levels : ~(l <= depth[c])
    BY PlanFacts DEF Init, Levels
  <2>2. \A o \in Objs : obj[o].queue = <<>>
    BY DEF Init, Free
  <2> QED BY <2>1, <2>2 DEF Init, Waiting, Keyed, Listed, Due, Served, Tidy, Nested
<1>2. WInv /\ [Next]_vars => WInv'
  <2> SUFFICES ASSUME WInv, [Next]_vars PROVE WInv'
    OBVIOUS
  <2>1. Shape /\ Keyed /\ Listed /\ Due /\ Served /\ Tidy /\ Nested
    BY DEF WInv, Inv, Waiting
  <2>2. Inv'
    BY NextInv DEF WInv
  <2> QED BY <2>1, <2>2, NextKeyed, NextListed, NextDue, NextServed, NextTidy, NextNested
          DEF WInv, Waiting
<1> QED BY <1>1, <1>2, PTL DEF Spec

LEMMA WInvQueueSound == WInv => QueueSound
PROOF
<1> SUFFICES ASSUME WInv PROVE QueueSound
  OBVIOUS
<1>1. TypeOK /\ Placed /\ Queued /\ Listed
  BY DEF WInv, Inv, Shape, Waiting
<1>2. \A o \in Objs : obj[o].queue \in Seq(Clients) /\ DOMAIN obj[o].queue = 1 .. Len(obj[o].queue)
  BY <1>1 DEF TypeOK, LockStates
<1>3. ASSUME NEW o \in Objs, NEW i \in DOMAIN obj[o].queue
      PROVE  LET c == obj[o].queue[i]
             IN /\ pc[c] = "waiting" /\ depth[c] > 0 /\ Top(c) = o
                /\ \A j \in DOMAIN obj[o].queue : obj[o].queue[j] = c => i = j
  <2> DEFINE c == obj[o].queue[i]
  <2>1. c \in Clients /\ i \in 1 .. Len(obj[o].queue)
    BY <1>2
  <2>2. pc[c] = "waiting" /\ Top(c) = o
        /\ \A j \in 1 .. Len(obj[o].queue) : obj[o].queue[j] = c => i = j
    BY <1>1, <2>1 DEF Queued
  <2>3. depth[c] > 0
    BY <1>1, <2>1, <2>2 DEF TypeOK, Placed
  <2> QED BY <1>2, <2>2, <2>3
<1>4. ASSUME NEW c \in Clients, pc[c] = "waiting"
      PROVE  \E i \in DOMAIN obj[Top(c)].queue : obj[Top(c)].queue[i] = c
  <2>1. Top(c) \in Objs
    BY <1>1, <1>4, PlanFacts DEF TypeOK, Placed, Top, Levels
  <2> QED BY <1>1, <1>2, <1>4, <2>1 DEF Listed
<1> QED BY <1>3, <1>4 DEF QueueSound

LEMMA WInvNoStrandedWaiter == WInv => NoStrandedWaiter
PROOF
<1> SUFFICES ASSUME WInv, Ready, NEW o \in Objs, obj[o].queue # <<>>,
                    ~expired[Head(obj[o].queue)], Holders(o, WRITE) = {}
             PROVE  /\ Holders(o, READ) # {}
                    /\ ModeAt(Head(obj[o].queue), depth[Head(obj[o].queue)]) = WRITE
  BY DEF NoStrandedWaiter
<1>1. HoldersCounted /\ Served
  BY DEF WInv, Inv, Waiting
<1>2. pump # o
  BY ObjsAssumption DEF Ready, ObjsAssumption
<1>3. FrontBlocked(o) /\ ~obj[o].writer
  BY <1>1, <1>2 DEF Served, HoldersCounted
<1>4. obj[o].readers > 0 /\ obj[o].readers = Cardinality(Holders(o, READ))
  BY <1>1, <1>3 DEF FrontBlocked, HoldersCounted
<1>5. Cardinality({}) = 0
  BY FS_EmptySet
<1>6. Holders(o, READ) # {}
  <2>1. Holders(o, READ) = {} => Cardinality(Holders(o, READ)) = 0
    BY <1>5, Zenon
  <2> QED BY <1>4, <2>1
<1> QED BY <1>3, <1>6 DEF FrontBlocked

LEMMA WInvNoIdleStateKept == WInv => NoIdleStateKept
PROOF
<1> SUFFICES ASSUME WInv, Ready, jobs = <<>>, NEW k \in Keys, locks[k] # NoState,
                    Idle(locks[k])
             PROVE  FALSE
  BY DEF NoIdleStateKept
<1>1. Tidy /\ Due /\ TypeOK
  BY DEF WInv, Inv, Shape, Waiting
<1>2. \A c \in Clients : pc[c] # "rejected"
  BY <1>1 DEF Due
<1> QED BY <1>1, <1>2 DEF Tidy, Ready

(* Among finitely many there is one with the greatest number: one whose    *)
(* set of those with a greater number is least for inclusion.              *)
LEMMA Greatest ==
    ASSUME NEW S, IsFiniteSet(S), S # {}, NEW f \in [S -> Int]
    PROVE  \E x \in S : \A y \in S : f[y] <= f[x]
PROOF
<1> DEFINE Above(x) == {z \in S : f[z] > f[x]}
           T == {Above(x) : x \in S}
<1>1. T \subseteq FiniteSubsetsOf(S) /\ T # {}
  <2>1. ASSUME NEW x \in S PROVE Above(x) \in FiniteSubsetsOf(S)
    <3>1. Above(x) \in SUBSET S
      OBVIOUS
    <3> HIDE DEF Above
    <3> QED BY <3>1, FS_Subset DEF FiniteSubsetsOf
  <2> HIDE DEF Above
  <2> QED BY <2>1
<1>2. IsWellFoundedOn(StrictSubsetOrdering(S), FiniteSubsetsOf(S))
  BY FS_StrictSubsetOrderingWellFounded
<1>3. PICK t \in T : \A u \in T : ~(<<u, t>> \in StrictSubsetOrdering(S))
  <2> HIDE DEF T
  <2> QED BY <1>1, <1>2, WFMin
<1>4. PICK x \in S : t = Above(x)
  BY <1>3
<1>5. ASSUME NEW y \in S, f[y] > f[x] PROVE FALSE
  <2>1. Above(y) \subseteq Above(x)
    BY <1>5
  <2>2. y \in Above(x) /\ y \notin Above(y)
    BY <1>5
  <2>3. Above(y) \in SUBSET S /\ Above(x) \in SUBSET S
    OBVIOUS
  <2>4. Above(y) # Above(x)
    <3> HIDE DEF Above
    <3> QED BY <2>2
  <2> HIDE DEF Above
  <2>5. <<Above(y), Above(x)>> \in StrictSubsetOrdering(S)
    BY <2>1, <2>3, <2>4 DEF StrictSubsetOrdering
  <2> QED BY <2>5, <1>3, <1>4
<1> QED BY <1>5

LEMMA WInvNoCircularWait ==
    ASSUME NEW rank \in [Keys -> Int], TakenInOrder(rank), WInv
    PROVE  NoCircularWait
PROOF
<1> SUFFICES ASSUME NEW group \in SUBSET Clients, group # {},
                    \A c \in group : pc[c] = "waiting"
             PROVE  \E c \in group : Blockers(c) \cap group = {}
  BY DEF NoCircularWait
<1>1. TypeOK /\ Placed /\ Queued /\ Keyed /\ Nested
  BY DEF WInv, Inv, Shape, Waiting
<1>2. \A c \in group : depth[c] \in Levels /\ Top(c) \in Objs /\ depth[c] \in Nat
  BY <1>1, PlanFacts DEF TypeOK, Placed, Top, Levels
<1>3. \A c \in group : KeyAt(c, depth[c]) \in Keys /\ rank[KeyAt(c, depth[c])] \in Int
  BY <1>2, PlanFacts
(* The highest lock somebody of the group waits for. *)
<1>5. PICK h \in group : \A c \in group :
        rank[KeyAt(c, depth[c])] <= rank[KeyAt(h, depth[h])]
  <2> DEFINE f == [c \in group |-> rank[KeyAt(c, depth[c])]]
  <2>1. IsFiniteSet(group)
    BY ClientsAssumption, FS_Subset DEF ClientsAssumption
  <2>2. f \in [group -> Int]
    BY <1>3
  <2> HIDE DEF f
  <2>3. PICK h \in group : \A c \in group : f[c] <= f[h]
    BY <2>1, <2>2, Greatest
  <2> QED BY <2>3 DEF f
<1> DEFINE o == Top(h)
           q == obj[o].queue
           P == {i \in 1 .. Len(q) : q[i] \in group}
<1>6. o \in Objs /\ q \in Seq(Clients) /\ DOMAIN q = 1 .. Len(q)
  BY <1>1, <1>2 DEF TypeOK, LockStates
(* Nobody of the group owns it. *)
<1>7. ASSUME NEW u \in Holders(o, READ) \union Holders(o, WRITE), u[1] \in group
      PROVE  FALSE
  <2> DEFINE d == u[1]
             l == u[2]
  <2>1. d \in Clients /\ l \in Levels /\ Holds(d, l) /\ stack[d][l] = o
    BY DEF Holders
  <2>2. pc[d] = "waiting" /\ l <= depth[d] /\ l # depth[d]
    BY <1>7, <2>1 DEF Holds
  <2>3. l < depth[d] /\ depth[d] \in Levels
    BY <1>2, <1>7, <2>1, <2>2, PlanFacts DEF Levels
  <2>4. KeyAt(d, l) = o[1] /\ KeyAt(h, depth[h]) = o[1]
    BY <1>1, <1>2, <2>1, <2>2 DEF Keyed, Top
  <2>5. depth[d] <= Len(Plan[d]) + (IF d \in Nesting THEN 1 ELSE 0)
    <3>1. depth[d] <= Len(Plan[d]) + 1 /\ (depth[d] > Len(Plan[d]) => d \in Nesting)
      BY <1>1, <2>1 DEF Placed, Nested, InBoundary
    <3>2. depth[d] \in Nat /\ Len(Plan[d]) \in Nat
      <4>1. d \in Clients /\ d \in group
        BY <1>7, <2>1
      <4> HIDE DEF d
      <4> QED BY <4>1, <1>2, PlanFacts
    <3>3. depth[d] <= Len(Plan[d]) \/ (d \in Nesting /\ depth[d] <= Len(Plan[d]) + 1)
      <4> HIDE DEF d
      <4> QED BY <3>1, <3>2
    <3> HIDE DEF d
    <3>4. CASE d \in Nesting
      BY <3>1, <3>4
    <3>5. CASE d \notin Nesting
      BY <3>3, <3>2, <3>5
    <3> QED BY <3>4, <3>5
  <2>6. rank[KeyAt(d, l)] < rank[KeyAt(d, depth[d])]
    BY <2>1, <2>3, <2>5 DEF TakenInOrder
  <2>7. rank[KeyAt(d, depth[d])] <= rank[KeyAt(h, depth[h])]
    BY <1>5, <1>7
  <2> QED BY <1>3, <1>7, <2>4, <2>6, <2>7
<1>8. CASE P = {}
  <2>1. Blockers(h) \cap group = {}
    BY <1>6, <1>7, <1>8 DEF Blockers
  <2> QED BY <2>1
<1>9. CASE P # {}
  (* The first of the group in that queue. *)
  <2>1. PICK i \in P : \A j \in P : i <= j
    <3> DEFINE f == [i \in P |-> 0 - i]
    <3>0. Len(q) \in Nat /\ P \subseteq 1 .. Len(q)
      BY <1>6
    <3>1. IsFiniteSet(1 .. Len(q)) /\ P \subseteq 1 .. Len(q) /\ Len(q) \in Nat
      <4> HIDE DEF q, P
      <4> QED BY <3>0, FS_Interval
    <3>2. IsFiniteSet(P) /\ f \in [P -> Int]
      <4>1. IsFiniteSet(P)
        BY <3>1, FS_Subset
      <4> QED BY <3>1, <4>1
    <3> HIDE DEF P
    <3>3. PICK i \in P : \A j \in P : f[j] <= f[i]
      <4> HIDE DEF f
      <4> QED BY <1>9, <3>2, Greatest
    <3> QED BY <3>1, <3>3
  <2>2. i \in 1 .. Len(q) /\ q[i] \in group /\ Top(q[i]) = o
    BY <1>1, <1>6, <2>1 DEF Queued
  <2>3. \A k \in 1 .. Len(q) : q[k] = q[i] => k = i
    BY <1>1, <1>6, <2>2 DEF Queued
  <2>4. ASSUME NEW b \in Blockers(q[i]), b \in group PROVE FALSE
    <3>1. \/ \E u \in Holders(o, READ) \union Holders(o, WRITE) : b = u[1]
          \/ \E j \in 1 .. Len(q) : b = q[j] /\ \E k \in 1 .. Len(q) : j < k /\ q[k] = q[i]
      BY <1>6, <2>2, <2>4 DEF Blockers
    <3>2. CASE \E u \in Holders(o, READ) \union Holders(o, WRITE) : b = u[1]
      BY <1>7, <2>4, <3>2
    <3>3. ASSUME NEW j \in 1 .. Len(q), b = q[j],
                 NEW k \in 1 .. Len(q), j < k, q[k] = q[i]
          PROVE  FALSE
      <4>1. k = i /\ i <= j
        BY <2>1, <2>3, <2>4, <3>3
      <4> QED BY <4>1, <3>3, <1>6, <2>2
    <3> QED BY <3>1, <3>2, <3>3
  <2> QED BY <2>2, <2>4
<1> QED BY <1>8, <1>9

(* Whatever is aborted, refused, expired or quarantined meanwhile, and for *)
(* any number of clients: a queue lists exactly those who wait in it, its  *)
(* front waits for a present owner, no callers wait for each other in a    *)
(* circle, and the Map keeps no lock state that nobody uses. The plans     *)
(* must take their locks in one order, as those of WorkspaceScopes do.     *)
THEOREM NobodyWaitsInVain ==
    ASSUME NEW rank \in [Keys -> Int], TakenInOrder(rank)
    PROVE  Spec => []NothingIdle
PROOF
<1>1. WInv => NothingIdle
  BY WInvQueueSound, WInvNoStrandedWaiter, WInvNoCircularWait, WInvNoIdleStateKept
  DEF NothingIdle
<1> QED BY <1>1, AlwaysWInv, PTL

(* deleteIdleLock deletes by key whatever the Map holds: the lock state it *)
(* deletes is one nobody uses, unless the call was meant for an older lock *)
(* state of the key.                                                       *)
THEOREM OnlyStaleForgets == Spec => OnlyStaleTidyingForgets
PROOF
<1> DEFINE A == \A k \in Keys :
                  locks[k] # NoState /\ locks'[k] # locks[k]
                  => Idle(locks[k]) \/ StaleTidied(k)
<1>1. WInv /\ [Next]_vars => [A]_vars
  <2> SUFFICES ASSUME WInv, [Next]_vars, NEW k \in Keys,
                      locks[k] # NoState, locks'[k] # locks[k]
               PROVE  Idle(locks[k]) \/ StaleTidied(k)
    OBVIOUS
  <2>1. Shape /\ TypeOK /\ Keyed
    BY DEF WInv, Inv, Waiting, Shape
  <2>2. locks[k] \in Objs /\ locks[k][1] = k
    BY <2>1 DEF TypeOK, Keyed
  <2>3. CASE AdmitWaiting
    <3>1. EndAdmission /\ pump \in Objs
      BY <2>1, <2>3, AdmissionAt
      DEF AdmitWaiting, DropExpired, AdmitReader, AdmitWriter
    <3>2. sweep /\ Idle(pump) /\ k = pump[1]
      BY <2>1, <3>1 DEF EndAdmission, DeleteIdleLock, TypeOK
    <3> QED BY <3>2 DEF StaleTidied
  <2>4. ASSUME NEW c \in Clients, NEW o \in Objs, Entered(c, o) PROVE FALSE
    <3> DEFINE j == KeyAt(c, depth[c] + 1)
    <3>1. locks' = [locks EXCEPT ![j] = o] /\ (locks[j] # NoState => o = locks[j])
      BY <2>4 DEF Entered, EnterQueue
    <3> QED BY <2>1, <3>1 DEF TypeOK
  <2>5. ASSUME NEW c \in Clients, Released(c) \/ Withdrawn(c) PROVE FALSE
    BY <2>5 DEF Released, Withdrawn
  <2>6. ASSUME NEW c \in Clients, ResumeRejected(c) PROVE Idle(locks[k]) \/ StaleTidied(k)
    <3>1. k = Top(c)[1] /\ Idle(Top(c)) /\ pc[c] = "rejected"
      BY <2>1, <2>6, RejectedEffect DEF ResumeRejected
    <3> QED BY <3>1 DEF StaleTidied
  <2>7. CASE Undisturbed
    BY <2>7 DEF Undisturbed
  <2> QED BY <2>1, <2>3, <2>4, <2>5, <2>6, <2>7, Kinds
<1>2. Spec => [][A]_vars
  BY <1>1, AlwaysWInv, PTL DEF Spec
<1> QED BY <1>2 DEF OnlyStaleTidyingForgets

-----------------------------------------------------------------------------
(***************************************************************************)
(* The lock states implement ReadWriteLock.  What admitWaiting, a          *)
(* withdrawal, a new entry and a release do to the line and the owners of  *)
(* one lock state, and that they do nothing to another.                    *)
(***************************************************************************)
LinesTyped ==
    \A o \in Objs :
        /\ Line(o) \in Seq(Clients \X Levels)
        /\ Len(Line(o)) = Len(obj[o].queue)
        /\ Len(obj[o].queue) \in Nat
        /\ \A i \in 1 .. Len(obj[o].queue) :
             /\ obj[o].queue[i] \in Clients
             /\ Line(o)[i] = <<obj[o].queue[i], depth[obj[o].queue[i]]>>

LEMMA LineTyped == Shape => LinesTyped
PROOF
<1> SUFFICES ASSUME Shape, NEW o \in Objs
             PROVE  /\ Line(o) \in Seq(Clients \X Levels)
                    /\ Len(Line(o)) = Len(obj[o].queue)
                    /\ Len(obj[o].queue) \in Nat
                    /\ \A i \in 1 .. Len(obj[o].queue) :
                         /\ obj[o].queue[i] \in Clients
                         /\ Line(o)[i] = <<obj[o].queue[i], depth[obj[o].queue[i]]>>
  BY DEF LinesTyped
<1> DEFINE q == obj[o].queue
<1>1. TypeOK /\ Placed /\ Queued
  BY DEF Shape
<1>2. q \in Seq(Clients)
  BY <1>1 DEF TypeOK, LockStates
<1>3. Len(q) \in Nat /\ DOMAIN q = 1 .. Len(q)
  BY <1>2
<1>4. ASSUME NEW i \in 1 .. Len(q)
      PROVE  q[i] \in Clients /\ depth[q[i]] \in Levels
  <2>1. q[i] \in Clients
    BY <1>2
  <2>2. pc[q[i]] = "waiting"
    BY <1>1 DEF Queued
  <2> HIDE DEF q
  <2>3. depth[q[i]] \in 0 .. MaxDepth /\ depth[q[i]] # 0
    BY <1>1, <2>1, <2>2 DEF TypeOK, Placed
  <2> QED BY <2>1, <2>3, PlanFacts DEF Levels
<1>5. Line(o) = [i \in 1 .. Len(q) |-> <<q[i], depth[q[i]]>>]
  BY <1>3 DEF Line
<1> HIDE DEF q
<1>6. \A i \in 1 .. Len(q) : <<q[i], depth[q[i]]>> \in Clients \X Levels
  BY <1>4
<1>7. Line(o) \in [1 .. Len(q) -> Clients \X Levels]
  BY <1>5, <1>6
<1>8. Line(o) \in Seq(Clients \X Levels) /\ Len(Line(o)) = Len(q)
  BY <1>3, <1>7
<1> QED BY <1>3, <1>4, <1>5, <1>8 DEF q

LEMMA LineTypedNext == Shape' => LinesTyped'
BY LineTyped, PTL

LEMMA SameLine ==
    ASSUME Shape, Shape', NEW o \in Objs, obj'[o].queue = obj[o].queue,
           \A d \in Clients : pc[d] = "waiting" => depth'[d] = depth[d]
    PROVE  Line(o)' = Line(o)
PROOF
<1> DEFINE q == obj[o].queue
<1>1. Queued /\ q \in Seq(Clients) /\ DOMAIN q = 1 .. Len(q)
  BY DEF Shape, TypeOK, LockStates
<1>2. \A i \in DOMAIN q : q[i] \in Clients /\ pc[q[i]] = "waiting"
  BY <1>1 DEF Queued
<1>3. \A i \in DOMAIN q : depth'[q[i]] = depth[q[i]]
  BY <1>2
<1>4. Line(o)' = [i \in DOMAIN q |-> <<q[i], depth'[q[i]]>>]
  BY DEF Line
<1> QED BY <1>3, <1>4 DEF Line

LEMMA EnterLine ==
    ASSUME Shape, Shape', NEW c \in Clients, NEW o \in Objs, Entered(c, o)
    PROVE  /\ Line(o)' = Append(Line(o), <<c, depth[c] + 1>>)
           /\ <<c, depth[c] + 1>> \in Clients \X Levels
           /\ \A p \in Objs : p # o => Line(p)' = Line(p)
PROOF
<1> DEFINE q == obj[o].queue
           r == obj'[o].queue
           u == <<c, depth[c] + 1>>
<1>1. Queued /\ pc[c] # "waiting" /\ c \in Clients
  BY DEF Shape, Entered
<1>2. depth[c] + 1 \in Levels /\ depth'[c] = depth[c] + 1
  BY EnterEffect
<1>3. \A d \in Clients : pc[d] = "waiting" => depth'[d] = depth[d]
  BY <1>1, EnterEffect
<1>4. \A p \in Objs : p # o => obj'[p] = obj[p]
  BY EnterEffect
<1>5. \A p \in Objs : p # o => Line(p)' = Line(p)
  <2> TAKE p \in Objs
  <2> HAVE p # o
  <2>1. obj'[p].queue = obj[p].queue
    BY <1>4
  <2> QED BY <1>3, <2>1, SameLine
<1>6. q \in Seq(Clients) /\ ((r = <<c>> /\ q = <<>>) \/ r = Append(q, c))
  <2>1. /\ q \in Seq(Clients)
        /\ \/ r = <<c>> /\ \A d \in Clients, l \in Levels : l <= depth[d] => stack[d][l] # o
           \/ r = Append(q, c)
    BY EnterEffect
  <2>2. CASE r = Append(q, c)
    BY <2>1, <2>2
  <2>3. CASE r = <<c>> /\ \A d \in Clients, l \in Levels : l <= depth[d] => stack[d][l] # o
    <3>1. SUFFICES ASSUME q # <<>> PROVE FALSE
      BY <2>1, <2>3
    <3>2. 1 \in 1 .. Len(q) /\ q[1] \in Clients
      BY <2>1, <3>1
    <3>3. pc[q[1]] = "waiting" /\ Top(q[1]) = o
      BY <1>1, <3>2 DEF Queued
    <3>4. Line(o)[1] = <<q[1], depth[q[1]]>> /\ Len(Line(o)) = Len(q)
          /\ Line(o) \in Seq(Clients \X Levels)
      BY <3>2, LineTyped DEF LinesTyped
    <3>5. Line(o)[1] \in Clients \X Levels
      BY <3>2, <3>4
    <3>6. depth[q[1]] \in Levels
      BY <3>4, <3>5
    <3>7. depth[q[1]] <= depth[q[1]]
      BY <3>6, PlanFacts DEF Levels
    <3> QED BY <2>3, <3>2, <3>3, <3>6, <3>7 DEF Top
  <2> QED BY <2>1, <2>2, <2>3
<1>8. /\ Line(o) \in Seq(Clients \X Levels) /\ Len(Line(o)) = Len(q) /\ Len(q) \in Nat
      /\ \A i \in 1 .. Len(q) : /\ q[i] \in Clients /\ pc[q[i]] = "waiting"
                                /\ Line(o)[i] = <<q[i], depth[q[i]]>>
  BY <1>1, LineTyped DEF Queued, LinesTyped
<1>9. /\ Line(o)' \in Seq(Clients \X Levels) /\ Len(Line(o)') = Len(r) /\ Len(r) \in Nat
      /\ \A i \in 1 .. Len(r) : Line(o)'[i] = <<r[i], depth'[r[i]]>>
  BY LineTypedNext DEF LinesTyped
<1>10. u \in Clients \X Levels
  BY <1>2
<1> HIDE DEF q, r
<1>11. Len(r) = Len(q) + 1 /\ \A i \in 1 .. Len(r) : r[i] = IF i <= Len(q) THEN q[i] ELSE c
  <2>1. CASE r = <<c>> /\ q = <<>>
    <3>1. Len(r) = 1 /\ Len(q) = 0 /\ r[1] = c
      BY <2>1
    <3> QED BY <3>1
  <2>2. CASE r = Append(q, c)
    BY <2>2, <1>1, <1>6
  <2> QED BY <1>6, <2>1, <2>2
<1>12. \A i \in 1 .. Len(r) : Line(o)'[i] = IF i <= Len(q) THEN Line(o)[i] ELSE u
  <2> TAKE i \in 1 .. Len(r)
  <2>1. Line(o)'[i] = <<r[i], depth'[r[i]]>>
    BY <1>9
  <2>2. CASE i <= Len(q)
    <3>1. i \in 1 .. Len(q) /\ r[i] = q[i]
      BY <1>8, <1>9, <1>11, <2>2
    <3>2. depth'[q[i]] = depth[q[i]] /\ Line(o)[i] = <<q[i], depth[q[i]]>>
      BY <1>3, <1>8, <3>1
    <3> QED BY <2>1, <2>2, <3>1, <3>2
  <2>3. CASE ~(i <= Len(q))
    <3>1. r[i] = c
      BY <1>11, <2>3
    <3> QED BY <1>2, <2>1, <2>3, <3>1
  <2> QED BY <2>2, <2>3
<1> HIDE DEF u
<1>13. /\ Append(Line(o), u) \in Seq(Clients \X Levels)
       /\ Len(Append(Line(o), u)) = Len(r)
       /\ \A i \in 1 .. Len(r) : Append(Line(o), u)[i] = IF i <= Len(q) THEN Line(o)[i] ELSE u
  BY <1>8, <1>10, <1>11
<1>14. Line(o)' = Append(Line(o), u)
  BY <1>9, <1>12, <1>13, SeqEqual
<1> QED BY <1>5, <1>10, <1>14 DEF u

LEMMA LeavesLine ==
    ASSUME Shape, Shape', NEW c, NEW o, NEW i, NEW w \in {"admitted", "rejected"},
           Leaves(c, o, i, w)
    PROVE  /\ i \in 1 .. Len(Line(o)) /\ Line(o)[i] = <<c, depth[c]>>
           /\ <<c, depth[c]>> \in Clients \X Levels
           /\ Line(o) \in Seq(Clients \X Levels)
           /\ Line(o)' = RemoveAt(Line(o), i)
           /\ \A p \in Objs : p # o => Line(p)' = Line(p)
PROOF
<1> DEFINE q == obj[o].queue
           r == obj'[o].queue
<1>1. /\ c \in Clients /\ o \in Objs /\ i \in 1 .. Len(q) /\ c = q[i]
      /\ Without(q, i, r) /\ UNCHANGED depth
      /\ \A p \in Objs : p # o => obj'[p] = obj[p]
  BY DEF Leaves
<1>2. \A p \in Objs : p # o => Line(p)' = Line(p)
  <2> TAKE p \in Objs
  <2> HAVE p # o
  <2>1. obj'[p].queue = obj[p].queue
    BY <1>1
  <2> QED BY <1>1, <2>1, SameLine
<1>3. /\ Line(o) \in Seq(Clients \X Levels) /\ Len(Line(o)) = Len(q) /\ Len(q) \in Nat
      /\ \A j \in 1 .. Len(q) : Line(o)[j] = <<q[j], depth[q[j]]>>
  BY <1>1, LineTyped DEF LinesTyped
<1>4. /\ Line(o)' \in Seq(Clients \X Levels) /\ Len(Line(o)') = Len(r) /\ Len(r) \in Nat
      /\ \A j \in 1 .. Len(r) : Line(o)'[j] = <<r[j], depth'[r[j]]>>
  BY <1>1, LineTypedNext DEF LinesTyped
<1>5. Len(r) = Len(q) - 1 /\ \A j \in 1 .. Len(r) : r[j] = IF j < i THEN q[j] ELSE q[j + 1]
  BY <1>1 DEF Without
<1> HIDE DEF q, r
<1>6. i \in 1 .. Len(Line(o)) /\ Line(o)[i] = <<c, depth[c]>>
  BY <1>1, <1>3
<1>7. Line(o)[i] \in Clients \X Levels
  BY <1>3, <1>6
<1>8. \A j \in 1 .. Len(r) : Line(o)'[j] = IF j < i THEN Line(o)[j] ELSE Line(o)[j + 1]
  <2> TAKE j \in 1 .. Len(r)
  <2>1. Line(o)'[j] = <<r[j], depth[r[j]]>>
    BY <1>1, <1>4
  <2>2. CASE j < i
    <3>1. j \in 1 .. Len(q) /\ r[j] = q[j]
      BY <1>1, <1>3, <1>5, <2>2
    <3>2. Line(o)[j] = <<q[j], depth[q[j]]>>
      BY <1>3, <3>1
    <3> QED BY <2>1, <2>2, <3>1, <3>2
  <2>3. CASE ~(j < i)
    <3>1. j + 1 \in 1 .. Len(q) /\ r[j] = q[j + 1]
      BY <1>1, <1>3, <1>5, <2>3
    <3>2. Line(o)[j + 1] = <<q[j + 1], depth[q[j + 1]]>>
      BY <1>3, <3>1
    <3> QED BY <2>1, <2>3, <3>1, <3>2
  <2> QED BY <2>2, <2>3
<1>9. /\ RemoveAt(Line(o), i) \in Seq(Clients \X Levels)
      /\ Len(RemoveAt(Line(o), i)) = Len(r)
      /\ \A j \in 1 .. Len(r) :
           RemoveAt(Line(o), i)[j] = IF j < i THEN Line(o)[j] ELSE Line(o)[j + 1]
  BY <1>3, <1>5, <1>6, RemoveAtProperties
<1>10. Line(o)' = RemoveAt(Line(o), i)
  BY <1>4, <1>8, <1>9, SeqEqual
<1> QED BY <1>2, <1>3, <1>6, <1>7, <1>10

(* The first of a line leaves by the front. *)
LEMMA FrontLine ==
    ASSUME NEW S, NEW s \in Seq(S), 1 \in 1 .. Len(s)
    PROVE  s # <<>> /\ Head(s) = s[1] /\ RemoveAt(s, 1) = Tail(s)
PROOF
<1>1. s # <<>> /\ Head(s) = s[1] /\ Len(s) \in Nat /\ Len(s) >= 1
  OBVIOUS
<1>2. /\ Tail(s) \in Seq(S) /\ Len(Tail(s)) = Len(s) - 1
      /\ \A j \in 1 .. Len(s) - 1 : Tail(s)[j] = s[j + 1]
  BY <1>1
<1>3. /\ RemoveAt(s, 1) \in Seq(S) /\ Len(RemoveAt(s, 1)) = Len(s) - 1
      /\ \A j \in 1 .. Len(s) - 1 : RemoveAt(s, 1)[j] = s[j + 1]
  <2>1. \A j \in 1 .. Len(s) - 1 : RemoveAt(s, 1)[j] = IF j < 1 THEN s[j] ELSE s[j + 1]
    BY RemoveAtProperties
  <2> QED BY <1>1, <2>1, RemoveAtProperties
<1> QED BY <1>1, <1>2, <1>3, SeqEqual

LEMMA LocksUntouched ==
    ASSUME \A p \in Objs : /\ Line(p)' = Line(p)
                           /\ Holders(p, READ)' = Holders(p, READ)
                           /\ Holders(p, WRITE)' = Holders(p, WRITE)
    PROVE  UNCHANGED StateLocks!vars
BY DEF StateLocks!vars

LEMMA EnteredAsks ==
    ASSUME Inv, Inv', NEW c \in Clients, NEW o \in Objs, Entered(c, o)
    PROVE  StateLocks!Ask(o)
PROOF
<1> DEFINE u == <<c, depth[c] + 1>>
<1>1. Shape /\ Shape'
  BY DEF Inv
<1>2. /\ Line(o)' = Append(Line(o), u) /\ u \in Clients \X Levels
      /\ \A p \in Objs : p # o => Line(p)' = Line(p)
  BY <1>1, EnterLine
<1>3. \A d \in Clients : SameOwner(d)
  BY EnterSameOwner DEF Entered
<1>4. \A p \in Objs : \A m : Holders(p, m)' = Holders(p, m)
  BY <1>3, SameHolders
<1> HIDE DEF u
<1>5. /\ [p \in Objs |-> Line(p)]' = [[p \in Objs |-> Line(p)] EXCEPT ![o] = Append(Line(o), u)]
      /\ [p \in Objs |-> Holders(p, READ)]' = [p \in Objs |-> Holders(p, READ)]
      /\ [p \in Objs |-> Holders(p, WRITE)]' = [p \in Objs |-> Holders(p, WRITE)]
  BY <1>2, <1>4
<1> QED BY <1>2, <1>5 DEF StateLocks!Ask

LEMMA LeavesGivesUp ==
    ASSUME Inv, Inv', NEW c, NEW o, NEW i, Leaves(c, o, i, "rejected")
    PROVE  o \in Objs /\ StateLocks!GiveUp(o)
PROOF
<1>1. Shape /\ Shape' /\ TypeOK
  BY DEF Inv, Shape
<1>2. /\ o \in Objs /\ c \in Clients /\ pc[c] = "waiting"
      /\ pc' = [pc EXCEPT ![c] = "rejected"] /\ UNCHANGED <<stack, depth>>
  BY DEF Leaves
<1>3. /\ i \in 1 .. Len(Line(o)) /\ Line(o) \in Seq(Clients \X Levels)
      /\ Line(o)' = RemoveAt(Line(o), i)
      /\ \A p \in Objs : p # o => Line(p)' = Line(p)
  BY <1>1, LeavesLine
<1>4. \A d \in Clients : SameOwner(d)
  BY <1>1, <1>2 DEF SameOwner, Holds, TypeOK
<1>5. \A p \in Objs : \A m : Holders(p, m)' = Holders(p, m)
  BY <1>4, SameHolders
<1>6. i \in DOMAIN Line(o)
  BY <1>3
<1>7. /\ [p \in Objs |-> Line(p)]' = [[p \in Objs |-> Line(p)] EXCEPT ![o] = RemoveAt(Line(o), i)]
      /\ [p \in Objs |-> Holders(p, READ)]' = [p \in Objs |-> Holders(p, READ)]
      /\ [p \in Objs |-> Holders(p, WRITE)]' = [p \in Objs |-> Holders(p, WRITE)]
  BY <1>2, <1>3, <1>5
<1> DEFINE line == [p \in Objs |-> Line(p)]
<1>8. line[o] = Line(o)
  BY <1>2
<1>9. \E j \in DOMAIN line[o] : line' = [line EXCEPT ![o] = RemoveAt(line[o], j)]
  <2>1. line' = [line EXCEPT ![o] = RemoveAt(line[o], i)]
    BY <1>7, <1>8
  <2> HIDE DEF line
  <2> QED BY <1>6, <1>8, <2>1
<1>10. UNCHANGED <<[p \in Objs |-> Holders(p, READ)], [p \in Objs |-> Holders(p, WRITE)]>>
  BY <1>7
<1>11. StateLocks!GiveUp(o)
  BY <1>9, <1>10 DEF StateLocks!GiveUp, StateLocks!RemoveAt, RemoveAt
<1> QED BY <1>2, <1>11

LEMMA ReleasedReleases ==
    ASSUME Inv, Inv', NEW c \in Clients, Released(c)
    PROVE  Top(c) \in Objs /\ StateLocks!Release(Top(c), <<c, depth[c]>>)
           /\ <<c, depth[c]>> \in Clients \X Levels
PROOF
<1> DEFINE x == <<c, depth[c]>>
           n == ModeAt(c, depth[c])
<1>1. Shape /\ Shape' /\ ReleaseTop(c) /\ pc[c] \notin {"idle", "waiting", "rejected"}
  BY DEF Inv, Released
<1>a. PICK o \in Objs : o = Top(c)
  BY <1>1, ReleaseEffect
<1>2. o \in Objs /\ \A p \in Objs : obj'[p].queue = obj[p].queue
  BY <1>1, ReleaseEffect
<1>3. /\ depth[c] \in Levels
      /\ \A d \in Clients : d # c => depth'[d] = depth[d]
  BY <1>1, PopEffect DEF ReleaseTop, Levels
<1>4. \A d \in Clients : pc[d] = "waiting" => depth'[d] = depth[d]
  BY <1>1, <1>3
<1>5. \A p \in Objs : Line(p)' = Line(p)
  BY <1>1, <1>2, <1>4, SameLine
<1>6. n \in {READ, WRITE}
  BY <1>3, PlanFacts
<1>7. x \in Holders(o, n)
  BY <1>1, <1>a, ReleaseHolders
<1>8. \A p \in Objs : \A m : Holders(p, m)' = IF p = o /\ m = n THEN Holders(p, m) \ {x}
                                                  ELSE Holders(p, m)
  BY <1>1, <1>a, ReleaseHolders
<1>9. \A m : m # n => x \notin Holders(o, m)
  BY <1>a DEF Holders, Top
<1> HIDE DEF x, n
<1>10. \A m : Holders(o, m)' = Holders(o, m) \ {x}
  <2> TAKE m
  <2>1. CASE m = n
    BY <1>2, <1>8, <2>1
  <2>2. CASE m # n
    <3>1. Holders(o, m)' = Holders(o, m)
      BY <1>2, <1>8, <2>2
    <3>2. x \notin Holders(o, m)
      BY <1>9, <2>2
    <3> QED BY <3>1, <3>2
  <2> QED BY <2>1, <2>2
<1>11. x \in Holders(o, READ) \union Holders(o, WRITE)
  BY <1>6, <1>7
<1>12. /\ [p \in Objs |-> Line(p)]' = [p \in Objs |-> Line(p)]
       /\ [p \in Objs |-> Holders(p, READ)]'
            = [[p \in Objs |-> Holders(p, READ)] EXCEPT ![o] = Holders(o, READ) \ {x}]
       /\ [p \in Objs |-> Holders(p, WRITE)]'
            = [[p \in Objs |-> Holders(p, WRITE)] EXCEPT ![o] = Holders(o, WRITE) \ {x}]
  <2>1. \A p \in Objs : p # o => /\ Holders(p, READ)' = Holders(p, READ)
                                 /\ Holders(p, WRITE)' = Holders(p, WRITE)
    BY <1>8
  <2>2. /\ Holders(o, READ)' = Holders(o, READ) \ {x}
        /\ Holders(o, WRITE)' = Holders(o, WRITE) \ {x}
    BY <1>10
  <2>3. [p \in Objs |-> Line(p)]' = [p \in Objs |-> Line(p)]
    BY <1>5
  <2>4. [p \in Objs |-> Holders(p, READ)]'
          = [[p \in Objs |-> Holders(p, READ)] EXCEPT ![o] = Holders(o, READ) \ {x}]
    BY <2>1, <2>2
  <2>5. [p \in Objs |-> Holders(p, WRITE)]'
          = [[p \in Objs |-> Holders(p, WRITE)] EXCEPT ![o] = Holders(o, WRITE) \ {x}]
    BY <2>1, <2>2
  <2> QED BY <2>3, <2>4, <2>5
<1>13. x \in Clients \X Levels
  BY <1>3 DEF x
<1> QED BY <1>a, <1>11, <1>12, <1>13 DEF StateLocks!Release, x

(* What the admission of the waiter at the front does, in either mode. *)
LEMMA GrantEffect ==
    ASSUME Inv, Inv', NEW o \in Objs, o = pump, NEW m \in {READ, WRITE},
           Leaves(Waiter, o, 1, "admitted"), ModeAt(Waiter, depth[Waiter]) = m
    PROVE  /\ Line(o) # <<>> /\ Line(o)' = Tail(Line(o))
           /\ \A p \in Objs : p # o => Line(p)' = Line(p)
           /\ Holders(o, m)' = Holders(o, m) \union {Head(Line(o))}
           /\ \A p \in Objs, k \in {READ, WRITE} :
                ~(p = o /\ k = m) => Holders(p, k)' = Holders(p, k)
PROOF
<1>1. Shape /\ Shape'
  BY DEF Inv
<1>2. PICK c \in Clients : c = Waiter
  BY DEF Leaves
<1>3. /\ 1 \in 1 .. Len(Line(o)) /\ Line(o)[1] = <<c, depth[c]>>
      /\ Line(o) \in Seq(Clients \X Levels)
      /\ Line(o)' = RemoveAt(Line(o), 1)
      /\ \A p \in Objs : p # o => Line(p)' = Line(p)
  BY <1>1, <1>2, LeavesLine
<1>4. Line(o) # <<>> /\ Head(Line(o)) = <<c, depth[c]>> /\ RemoveAt(Line(o), 1) = Tail(Line(o))
  BY <1>3, FrontLine
<1>5. Admitted(c) /\ Top(c) = o /\ ModeAt(c, depth[c]) = m
  BY <1>2 DEF Leaves, Admitted
<1>6. \A p \in Objs : \A k :
        /\ p = o /\ k = m => Holders(p, k)' = Holders(p, k) \union {<<c, depth[c]>>}
        /\ ~(p = o /\ k = m) => Holders(p, k)' = Holders(p, k)
  <2> TAKE p \in Objs
  <2> TAKE k
  <2>1. Admitted(c) /\ Top(c) = o
    BY <1>5
  <2>2. /\ <<c, depth[c]>> \notin Holders(p, k)
        /\ p = o /\ k = ModeAt(c, depth[c])
             => Holders(p, k)' = Holders(p, k) \union {<<c, depth[c]>>}
        /\ ~(p = o /\ k = ModeAt(c, depth[c])) => Holders(p, k)' = Holders(p, k)
    BY <2>1, AdmitHolders
  <2> QED BY <1>5, <2>2
<1> QED BY <1>3, <1>4, <1>6

LEMMA ReaderGranted ==
    ASSUME Inv, Inv', NEW o \in Objs, o = pump,
           AdmitReader, Leaves(Waiter, o, 1, "admitted")
    PROVE  StateLocks!GrantRead(o)
PROOF
<1>1. ModeAt(Waiter, depth[Waiter]) = READ /\ Holders(o, WRITE) = {}
  BY DEF AdmitReader, Inv, HoldersCounted
<1>2. READ # WRITE /\ READ \in {READ, WRITE} /\ WRITE \in {READ, WRITE}
  BY DEF READ, WRITE
<1>3. /\ Line(o) # <<>> /\ Line(o)' = Tail(Line(o))
      /\ \A p \in Objs : p # o => Line(p)' = Line(p)
      /\ Holders(o, READ)' = Holders(o, READ) \union {Head(Line(o))}
      /\ \A p \in Objs : p # o => Holders(p, READ)' = Holders(p, READ)
      /\ \A p \in Objs : Holders(p, WRITE)' = Holders(p, WRITE)
  <2>1. \A p \in Objs, k \in {READ, WRITE} :
          ~(p = o /\ k = READ) => Holders(p, k)' = Holders(p, k)
    BY <1>1, <1>2, GrantEffect
  <2> QED BY <1>1, <1>2, <2>1, GrantEffect
<1>4. [p \in Objs |-> Line(p)]' = [[p \in Objs |-> Line(p)] EXCEPT ![o] = Tail(Line(o))]
  BY <1>3
<1>5. [p \in Objs |-> Holders(p, READ)]'
        = [[p \in Objs |-> Holders(p, READ)] EXCEPT ![o] = Holders(o, READ) \union {Head(Line(o))}]
  BY <1>3
<1>6. [p \in Objs |-> Holders(p, WRITE)]' = [p \in Objs |-> Holders(p, WRITE)]
  BY <1>3
<1>7. StateLocks!Serve(o)
  BY <1>3, <1>4 DEF StateLocks!Serve
<1> QED BY <1>1, <1>5, <1>6, <1>7 DEF StateLocks!GrantRead

LEMMA WriterGranted ==
    ASSUME Inv, Inv', NEW o \in Objs, o = pump,
           AdmitWriter, Leaves(Waiter, o, 1, "admitted")
    PROVE  StateLocks!GrantWrite(o)
PROOF
<1>1. ModeAt(Waiter, depth[Waiter]) = WRITE /\ Holders(o, WRITE) = {}
  BY DEF AdmitWriter, Inv, HoldersCounted
<1>2. Holders(o, READ) = {}
  BY HoldersFinite, FS_EmptySet DEF AdmitWriter, Inv, HoldersCounted
<1>3. READ # WRITE /\ READ \in {READ, WRITE} /\ WRITE \in {READ, WRITE}
  BY DEF READ, WRITE
<1>4. /\ Line(o) # <<>> /\ Line(o)' = Tail(Line(o))
      /\ \A p \in Objs : p # o => Line(p)' = Line(p)
      /\ Holders(o, WRITE)' = {Head(Line(o))}
      /\ \A p \in Objs : p # o => Holders(p, WRITE)' = Holders(p, WRITE)
      /\ \A p \in Objs : Holders(p, READ)' = Holders(p, READ)
  <2>1. \A p \in Objs, k \in {READ, WRITE} :
          ~(p = o /\ k = WRITE) => Holders(p, k)' = Holders(p, k)
    BY <1>1, <1>3, GrantEffect
  <2>2. Holders(o, WRITE)' = Holders(o, WRITE) \union {Head(Line(o))}
    BY <1>1, <1>3, GrantEffect
  <2>3. Holders(o, WRITE)' = {Head(Line(o))}
    BY <1>1, <2>2
  <2> QED BY <1>1, <1>3, <2>1, <2>3, GrantEffect
<1>5. [p \in Objs |-> Line(p)]' = [[p \in Objs |-> Line(p)] EXCEPT ![o] = Tail(Line(o))]
  BY <1>4
<1>6. [p \in Objs |-> Holders(p, WRITE)]'
        = [[p \in Objs |-> Holders(p, WRITE)] EXCEPT ![o] = {Head(Line(o))}]
  BY <1>4
<1>7. [p \in Objs |-> Holders(p, READ)]' = [p \in Objs |-> Holders(p, READ)]
  BY <1>4
<1>8. StateLocks!Serve(o)
  BY <1>4, <1>5 DEF StateLocks!Serve
<1> QED BY <1>1, <1>2, <1>6, <1>7, <1>8 DEF StateLocks!GrantWrite

(* A step that moves nobody into or out of a queue or a lock. *)
LEMMA NobodyMoved ==
    ASSUME Inv, Inv', UNCHANGED obj, \A d \in Clients : SameOwner(d),
           \A d \in Clients : pc[d] = "waiting" => depth'[d] = depth[d]
    PROVE  UNCHANGED StateLocks!vars
PROOF
<1>1. \A p \in Objs : Line(p)' = Line(p)
  BY SameLine DEF Inv
<1>2. \A p \in Objs : \A m : Holders(p, m)' = Holders(p, m)
  BY SameHolders
<1> QED BY <1>1, <1>2, LocksUntouched

LEMMA LockStep ==
    ASSUME WInv, WInv', [Next]_vars
    PROVE  [StateLocks!Next]_StateLocks!vars
PROOF
<1>1. Inv /\ Inv' /\ Shape /\ TypeOK /\ Keyed
  BY DEF WInv, Inv, Shape, Waiting
<1>2. CASE AdmitWaiting
  <2>1. PICK o \in Objs : o = pump
    BY <1>1, <1>2, AdmissionAt
  <2>2. \/ \E c : Leaves(c, o, 1, "rejected")
        \/ AdmitReader /\ Leaves(Waiter, o, 1, "admitted")
        \/ AdmitWriter /\ Leaves(Waiter, o, 1, "admitted")
        \/ EndAdmission
    BY <1>1, <1>2, <2>1, AdmissionKinds
  <2>3. ASSUME NEW c, Leaves(c, o, 1, "rejected") PROVE StateLocks!Next
    BY <1>1, <2>3, LeavesGivesUp DEF StateLocks!Next
  <2>4. CASE AdmitReader /\ Leaves(Waiter, o, 1, "admitted")
    BY <1>1, <2>1, <2>4, ReaderGranted DEF StateLocks!Next
  <2>5. CASE AdmitWriter /\ Leaves(Waiter, o, 1, "admitted")
    BY <1>1, <2>1, <2>5, WriterGranted DEF StateLocks!Next
  <2>6. CASE EndAdmission
    <3>1. UNCHANGED <<obj, stack, depth, pc>>
      BY <2>6 DEF EndAdmission
    <3>2. \A d \in Clients : SameOwner(d)
      BY <3>1 DEF SameOwner, Holds
    <3> QED BY <1>1, <3>1, <3>2, NobodyMoved
  <2> QED BY <2>2, <2>3, <2>4, <2>5, <2>6
<1>3. ASSUME NEW c \in Clients, NEW o \in Objs, Entered(c, o) PROVE StateLocks!Next
  BY <1>1, <1>3, EnteredAsks DEF StateLocks!Next
<1>4. ASSUME NEW c \in Clients, Released(c) PROVE StateLocks!Next
  BY <1>1, <1>4, ReleasedReleases DEF StateLocks!Next
<1>5. ASSUME NEW c \in Clients, Withdrawn(c) PROVE StateLocks!Next
  <2>1. PICK i \in 1 .. Len(obj[Top(c)].queue) : Leaves(c, Top(c), i, "rejected")
    BY <1>1, <1>5, WithdrawnLeaves
  <2>2. Top(c) \in Objs
    BY <2>1 DEF Leaves
  <2>3. PICK o \in Objs : o = Top(c)
    BY <2>2
  <2>4. Leaves(c, o, i, "rejected")
    BY <2>1, <2>3
  <2>5. StateLocks!GiveUp(o)
    BY <1>1, <2>4, LeavesGivesUp
  <2> QED BY <2>5 DEF StateLocks!Next
<1>6. ASSUME NEW c \in Clients, ResumeRejected(c) PROVE UNCHANGED StateLocks!vars
  <2>1. PopLevel(c) /\ pc[c] = "rejected" /\ UNCHANGED obj
    BY <1>6 DEF ResumeRejected
  <2>2. \A d \in Clients : SameOwner(d)
    BY <1>1, <2>1, RejectedSameOwner
  <2>3. \A d \in Clients : d # c => depth'[d] = depth[d]
    BY <1>1, <2>1, PopEffect
  <2>4. \A d \in Clients : pc[d] = "waiting" => depth'[d] = depth[d]
    BY <2>1, <2>3
  <2> QED BY <1>1, <2>1, <2>2, <2>4, NobodyMoved
<1>7. CASE Undisturbed
  <2>1. /\ UNCHANGED <<obj, stack, depth>>
        /\ \A d \in Clients :
             \/ pc'[d] = pc[d]
             \/ pc[d] \in {"admitted", "running"} /\ pc'[d] \in {"running", "unwinding"}
    BY <1>7 DEF Undisturbed
  <2>2. \A d \in Clients : SameOwner(d)
    BY <2>1 DEF SameOwner, Holds
  <2> QED BY <1>1, <2>1, <2>2, NobodyMoved
<1> QED BY <1>1, <1>2, <1>3, <1>4, <1>5, <1>6, <1>7, Kinds

LEMMA LocksStart == Init => StateLocks!Init
PROOF
<1> SUFFICES ASSUME Init PROVE StateLocks!Init
  OBVIOUS
<1>1. \A o, m : Holders(o, m) = {}
  BY PlanFacts DEF Init, Holders, Holds, Levels
<1>2. \A o \in Objs : Line(o) = <<>>
  <2> TAKE o \in Objs
  <2>1. Shape /\ obj[o].queue = <<>>
    BY InitShape DEF Init, Free
  <2>2. Line(o) \in Seq(Clients \X Levels) /\ Len(Line(o)) = 0
    BY <2>1, LineTyped DEF LinesTyped
  <2> QED BY <2>2
<1> QED BY <1>1, <1>2 DEF StateLocks!Init

(* The lock states implement ReadWriteLock, for any number of clients and  *)
(* any lock plans: a line is left by its front or by a withdrawal, never   *)
(* jumped; a reader is let in beside readers only and a writer alone; and  *)
(* no step concerns two locks at once.                                     *)
THEOREM QueueImplementsLocks == Spec => StatesAreLocks
PROOF
<1>1. Init => StateLocks!Init
  BY LocksStart
<1>2. WInv /\ WInv' /\ [Next]_vars => [StateLocks!Next]_StateLocks!vars
  BY LockStep
<1> QED BY <1>1, <1>2, AlwaysWInv, PTL DEF Spec, StatesAreLocks, StateLocks!Spec
=============================================================================
