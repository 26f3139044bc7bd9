------------------------ MODULE WorkspaceQueue_proof ------------------------
(***************************************************************************)
(* Proofs about WorkspaceQueue: the types of its variables and the shape   *)
(* of its queues, and what the mutation quarantine guarantees, for any     *)
(* number of clients and any lock plans.                                   *)
(***************************************************************************)
EXTENDS WorkspaceQueue, FiniteSetTheorems, SequenceTheorems, TLAPS

(* Where a client may be at each of its levels. *)
Placed ==
    \A c \in Clients :
        /\ pc[c] = "idle" <=> depth[c] = 0
        /\ depth[c] <= Len(Plan[c]) + 1
        /\ InBoundary(c) => boundary[c] /\ pc[c] # "unwinding"
        /\ pc[c] = "running" => depth[c] >= Len(Plan[c])
        /\ \A l \in Levels : l <= depth[c] => stack[c][l] \in Objs

(* A queue lists clients waiting for the lock state, each once. *)
Queued ==
    \A o \in Objs : \A i \in 1 .. Len(obj[o].queue) :
        LET c == obj[o].queue[i]
        IN /\ pc[c] = "waiting" /\ Top(c) = o
           /\ \A j \in 1 .. Len(obj[o].queue) : obj[o].queue[j] = c => i = j

Shape == TypeOK /\ Placed /\ Queued

LEMMA PlanFacts ==
    /\ MaxDepth \in Nat
    /\ \A c \in Clients :
         /\ Len(Plan[c]) \in Nat /\ Len(Plan[c]) >= 1 /\ Len(Plan[c]) + 1 <= MaxDepth
         /\ \A l \in Levels : KeyAt(c, l) \in Keys /\ ModeAt(c, l) \in {READ, WRITE}
PROOF
<1>1. MaxDepth \in Nat
  BY PlanAssumption DEF PlanAssumption
<1>2. ASSUME NEW c \in Clients
      PROVE  /\ Len(Plan[c]) \in Nat /\ Len(Plan[c]) >= 1 /\ Len(Plan[c]) + 1 <= MaxDepth
             /\ Plan[c] \in Seq(LockRequests)
  <2>1. Plan[c] \in Seq(LockRequests)
    BY PlanAssumption DEF PlanAssumption
  <2>2. Len(Plan[c]) \in 1 .. MaxDepth - 1
    BY PlanAssumption DEF PlanAssumption
  <2>3. Len(Plan[c]) \in Nat
    BY <2>1
  <2> QED BY <1>1, <2>1, <2>2, <2>3
<1>3. ASSUME NEW c \in Clients, NEW l \in Levels
      PROVE  KeyAt(c, l) \in Keys /\ ModeAt(c, l) \in {READ, WRITE}
  <2>1. CASE l <= Len(Plan[c])
    <3>1. Plan[c][l] \in LockRequests
      BY <1>1, <1>2, <2>1 DEF Levels
    <3> QED BY <3>1, <2>1 DEF KeyAt, ModeAt, LockRequests
  <2>2. CASE ~(l <= Len(Plan[c]))
    BY <2>2, PlanAssumption DEF PlanAssumption, KeyAt, ModeAt
  <2> QED BY <2>1, <2>2
<1> QED BY <1>1, <1>2, <1>3

LEMMA InitShape == Init => Shape
PROOF
<1> SUFFICES ASSUME Init PROVE Shape
  OBVIOUS
<1>1. Free \in LockStates
  BY DEF Free, LockStates
<1>2. TypeOK
  <2>1. /\ locks \in [Keys -> Objs \union {NoState}]
        /\ obj \in [Objs -> LockStates]
        /\ stack \in [Clients -> [Levels -> Objs \union {NoState}]]
    BY <1>1 DEF Init
  <2>2. depth \in [Clients -> 0 .. MaxDepth]
    BY PlanFacts DEF Init
  <2>3. jobs \in Seq(Clients)
    BY DEF Init
  <2> QED BY <2>1, <2>2, <2>3 DEF Init, TypeOK
<1>3. Placed
  BY PlanFacts DEF Init, Placed, InBoundary, Levels
<1>4. Queued
  <2>1. \A o \in Objs : obj[o].queue = <<>>
    BY DEF Init, Free
  <2> QED BY <2>1 DEF Queued
<1> QED BY <1>2, <1>3, <1>4 DEF Shape

(***************************************************************************)
(* Entering a queue.                                                       *)
(***************************************************************************)
LEMMA EnterTyped ==
    ASSUME Shape, NEW c \in Clients, NEW o \in Objs, EnterQueue(c, o),
           depth[c] <= Len(Plan[c])
    PROVE  /\ depth[c] + 1 \in Levels
           /\ KeyAt(c, depth[c] + 1) \in Keys
           /\ locks' \in [Keys -> Objs \union {NoState}]
           /\ obj' \in [Objs -> LockStates]
           /\ stack' \in [Clients -> [Levels -> Objs \union {NoState}]]
           /\ depth' \in [Clients -> 0 .. MaxDepth]
           /\ pc' \in [Clients -> {"idle", "waiting", "admitted", "rejected",
                                    "running", "unwinding"}]
           /\ pump' \in Objs \union {NoState}
           /\ sweep' \in BOOLEAN
PROOF
<1> DEFINE l == depth[c] + 1
           k == KeyAt(c, l)
<1>1. TypeOK
  BY DEF Shape
<1>2. depth[c] \in Nat /\ l \in Levels
  BY <1>1, PlanFacts DEF TypeOK, Levels
<1>3. k \in Keys
  BY <1>2, PlanFacts
<1>4. obj[o] \in LockStates
  BY <1>1 DEF TypeOK
<1>5. [Free EXCEPT !.queue = <<c>>] \in LockStates
  <2>1. <<c>> \in Seq(Clients)
    OBVIOUS
  <2> QED BY <2>1 DEF LockStates, Free
<1>6. [obj[o] EXCEPT !.queue = Append(@, c)] \in LockStates
  <2>1. obj[o].queue \in Seq(Clients)
    BY <1>4 DEF LockStates
  <2>2. Append(obj[o].queue, c) \in Seq(Clients)
    BY <2>1
  <2> QED BY <1>4, <2>2 DEF LockStates
<1>7. obj' \in [Objs -> LockStates]
  <2>1. \/ obj' = [obj EXCEPT ![o] = [Free EXCEPT !.queue = <<c>>]]
        \/ obj' = [obj EXCEPT ![o].queue = Append(@, c)]
    BY DEF EnterQueue
  <2> QED BY <2>1, <1>1, <1>5, <1>6 DEF TypeOK
<1>a. /\ locks' = [locks EXCEPT ![k] = o]
      /\ stack' = [stack EXCEPT ![c][l] = o]
      /\ depth' = [depth EXCEPT ![c] = l]
      /\ pc' = [pc EXCEPT ![c] = "waiting"]
      /\ pump' = o
      /\ sweep' = FALSE
  BY DEF EnterQueue
<1> HIDE DEF k
<1>8. locks' \in [Keys -> Objs \union {NoState}]
  BY <1>a, <1>1, <1>3 DEF TypeOK
<1>9. stack' \in [Clients -> [Levels -> Objs \union {NoState}]]
  BY <1>a, <1>1, <1>2 DEF TypeOK
<1>10. depth' \in [Clients -> 0 .. MaxDepth]
  BY <1>a, <1>1, <1>2, PlanFacts DEF TypeOK, Levels
<1>11. pc' \in [Clients -> {"idle", "waiting", "admitted", "rejected",
                            "running", "unwinding"}]
  BY <1>a, <1>1 DEF TypeOK
<1> QED
  BY <1>a, <1>2, <1>3, <1>7, <1>8, <1>9, <1>10, <1>11 DEF k

LEMMA EnterPlaced ==
    ASSUME Shape, NEW c \in Clients, NEW o \in Objs, EnterQueue(c, o),
           depth[c] <= Len(Plan[c]),
           \A d \in Clients : boundary[d] => boundary'[d],
           depth[c] = Len(Plan[c]) => boundary'[c]
    PROVE  Placed'
PROOF
<1>1. TypeOK /\ Placed
  BY DEF Shape
<1>2. depth[c] \in Nat /\ depth[c] + 1 \in Levels
  BY EnterTyped, <1>1 DEF TypeOK
<1>3. SUFFICES ASSUME NEW d \in Clients
               PROVE  /\ pc'[d] = "idle" <=> depth'[d] = 0
                      /\ depth'[d] <= Len(Plan[d]) + 1
                      /\ depth'[d] > Len(Plan[d]) => boundary'[d] /\ pc'[d] # "unwinding"
                      /\ pc'[d] = "running" => depth'[d] >= Len(Plan[d])
                      /\ \A l \in Levels : l <= depth'[d] => stack'[d][l] \in Objs
  BY DEF Placed, InBoundary
<1>4. CASE d = c
  <2>1. depth'[c] = depth[c] + 1 /\ pc'[c] = "waiting"
    BY <1>1, <1>2 DEF EnterQueue, TypeOK
  <2>2. ASSUME NEW l \in Levels, l <= depth'[c] PROVE stack'[c][l] \in Objs
    <3>1. stack'[c] = [stack[c] EXCEPT ![depth[c] + 1] = o]
      BY <1>1 DEF EnterQueue, TypeOK
    <3>2. CASE l = depth[c] + 1
      BY <3>1, <3>2, <1>1 DEF TypeOK
    <3>3. CASE l # depth[c] + 1
      <4>1. l <= depth[c]
        BY <3>3, <2>1, <2>2, <1>2, PlanFacts DEF Levels
      <4> QED BY <4>1, <3>1, <3>3, <1>1 DEF Placed, TypeOK
    <3> QED BY <3>2, <3>3
  <2> QED BY <1>2, <1>4, <2>1, <2>2, PlanFacts
<1>5. CASE d # c
  <2>1. depth'[d] = depth[d] /\ pc'[d] = pc[d] /\ stack'[d] = stack[d]
    BY <1>1, <1>5 DEF EnterQueue, TypeOK
  <2> QED BY <2>1, <1>1 DEF Placed, InBoundary
<1> QED BY <1>4, <1>5

LEMMA EnterQueued ==
    ASSUME Shape, NEW c \in Clients, NEW o \in Objs, EnterQueue(c, o),
           depth[c] <= Len(Plan[c]), pc[c] # "waiting"
    PROVE  Queued'
PROOF
<1>1. TypeOK /\ Queued
  BY DEF Shape
<1>2. depth[c] + 1 \in Levels /\ depth'[c] = depth[c] + 1 /\ stack'[c][depth[c] + 1] = o
  BY EnterTyped, <1>1 DEF EnterQueue, TypeOK
<1>3. pc'[c] = "waiting" /\ stack'[c][depth'[c]] = o
  BY <1>1, <1>2 DEF EnterQueue, TypeOK
<1>4. \A d \in Clients : pc[d] = "waiting" =>
         pc'[d] = "waiting" /\ stack'[d][depth'[d]] = Top(d)
  BY <1>1 DEF EnterQueue, TypeOK, Top
<1>5. \A p \in Objs : p # o => obj'[p] = obj[p]
  BY <1>1 DEF EnterQueue, TypeOK
<1>6. \A p \in Objs : obj[p].queue \in Seq(Clients)
  BY <1>1 DEF TypeOK, LockStates
<1>7. obj'[o].queue = <<c>> \/ obj'[o].queue = Append(obj[o].queue, c)
  <2>1. \/ obj' = [obj EXCEPT ![o] = [Free EXCEPT !.queue = <<c>>]]
        \/ obj' = [obj EXCEPT ![o].queue = Append(@, c)]
    BY DEF EnterQueue
  <2>2. obj[o] \in LockStates
    BY <1>1 DEF TypeOK
  <2>3. obj' = [obj EXCEPT ![o] = obj'[o]]
    BY <2>1, <1>1 DEF TypeOK
  <2> QED BY <2>1, <2>2, <1>1 DEF LockStates, TypeOK, Free
<1>8. ASSUME NEW p \in Objs, NEW i \in 1 .. Len(obj'[p].queue)
      PROVE  LET d == obj'[p].queue[i]
             IN /\ pc'[d] = "waiting" /\ stack'[d][depth'[d]] = p
                /\ \A j \in 1 .. Len(obj'[p].queue) : obj'[p].queue[j] = d => i = j
  <2>1. CASE p # o
    <3>1. obj'[p].queue = obj[p].queue
      BY <1>5, <2>1
    <3>2. i \in 1 .. Len(obj[p].queue) /\ obj[p].queue[i] \in Clients
      BY <3>1, <1>6
    <3>3. /\ pc[obj[p].queue[i]] = "waiting" /\ Top(obj[p].queue[i]) = p
          /\ \A j \in 1 .. Len(obj[p].queue) :
                obj[p].queue[j] = obj[p].queue[i] => i = j
      BY <3>2, <1>1 DEF Queued
    <3> QED BY <3>1, <3>2, <3>3, <1>4
  <2>2. CASE p = o /\ obj'[o].queue = <<c>>
    BY <2>2, <1>3
  <2>3. CASE p = o /\ obj'[o].queue = Append(obj[o].queue, c)
    <3> DEFINE q == obj[o].queue
    <3>1. q \in Seq(Clients) /\ obj'[p].queue = Append(q, c)
      BY <1>6, <2>3
    <3>2. \A j \in 1 .. Len(q) : /\ q[j] \in Clients /\ q[j] # c
                                /\ pc'[q[j]] = "waiting"
                                /\ stack'[q[j]][depth'[q[j]]] = o
                                /\ Append(q, c)[j] = q[j]
      BY <3>1, <1>1, <1>4 DEF Queued
    <3>3. Len(Append(q, c)) = Len(q) + 1 /\ Append(q, c)[Len(q) + 1] = c
      BY <3>1
    <3>4. \A j, m \in 1 .. Len(q) : q[j] = q[m] => j = m
      BY <1>1 DEF Queued
    <3>5. CASE i = Len(q) + 1
      BY <3>1, <3>2, <3>3, <3>5, <1>3, <2>3
    <3>6. CASE i \in 1 .. Len(q)
      BY <3>1, <3>2, <3>3, <3>4, <3>6, <1>3, <2>3
    <3> QED BY <3>1, <3>3, <3>5, <3>6
  <2> QED BY <2>1, <2>2, <2>3, <1>7
<1> QED BY <1>8 DEF Queued, Top

(***************************************************************************)
(* Leaving a level.                                                        *)
(***************************************************************************)
ControlTyped ==
    /\ stack \in [Clients -> [Levels -> Objs \union {NoState}]]
    /\ depth \in [Clients -> 0 .. MaxDepth]
    /\ pc \in [Clients -> {"idle", "waiting", "admitted", "rejected",
                           "running", "unwinding"}]

RequestTyped ==
    /\ boundary \in [Clients -> BOOLEAN]
    /\ cancelled \in [Clients -> BOOLEAN]
    /\ blocked \in [Clients -> BOOLEAN]
    /\ expired \in [Clients -> BOOLEAN]

LEMMA PopEffect ==
    ASSUME Shape, NEW c \in Clients, PopLevel(c), pc[c] # "idle"
    PROVE  /\ depth[c] \in 1 .. MaxDepth
           /\ depth'[c] = depth[c] - 1
           /\ pc'[c] = AfterLevel(c)
           /\ \A l \in Levels : l < depth[c] => stack'[c][l] = stack[c][l]
           /\ \A d \in Clients : d # c => /\ depth'[d] = depth[d]
                                          /\ pc'[d] = pc[d]
                                          /\ stack'[d] = stack[d]
                                          /\ boundary'[d] = boundary[d]
PROOF
<1>1. TypeOK /\ Placed
  BY DEF Shape
<1>2. depth[c] \in 1 .. MaxDepth
  BY <1>1, PlanFacts DEF TypeOK, Placed
<1>3. depth'[c] = depth[c] - 1 /\ pc'[c] = AfterLevel(c)
  BY <1>1 DEF PopLevel, TypeOK
<1>4. \A l \in Levels : l < depth[c] => stack'[c][l] = stack[c][l]
  <2>1. stack' = [stack EXCEPT ![c][depth[c]] = NoState]
    BY DEF PopLevel
  <2> QED BY <2>1, <1>1, <1>2, PlanFacts DEF TypeOK, Levels
<1>5. ASSUME NEW d \in Clients, d # c
      PROVE  /\ depth'[d] = depth[d] /\ pc'[d] = pc[d] /\ stack'[d] = stack[d]
             /\ boundary'[d] = boundary[d]
  BY <1>1, <1>5 DEF PopLevel, TypeOK, Cleared
<1> QED BY <1>2, <1>3, <1>4, <1>5

LEMMA PopTyped ==
    ASSUME Shape, NEW c \in Clients, PopLevel(c), pc[c] # "idle"
    PROVE  ControlTyped' /\ RequestTyped'
PROOF
<1>1. TypeOK
  BY DEF Shape
<1>2. depth[c] \in 1 .. MaxDepth /\ MaxDepth \in Nat
  BY PopEffect, PlanFacts
<1>3. AfterLevel(c) \in {"idle", "running", "unwinding"}
  BY DEF AfterLevel
<1>4. stack' \in [Clients -> [Levels -> Objs \union {NoState}]]
  BY <1>1, <1>2 DEF PopLevel, TypeOK, Levels
<1>5. depth' \in [Clients -> 0 .. MaxDepth]
  BY <1>1, <1>2 DEF PopLevel, TypeOK
<1>6. pc' \in [Clients -> {"idle", "waiting", "admitted", "rejected",
                           "running", "unwinding"}]
  BY <1>1, <1>3 DEF PopLevel, TypeOK
<1>7. RequestTyped'
  BY <1>1 DEF PopLevel, TypeOK, RequestTyped, Cleared
<1> QED BY <1>4, <1>5, <1>6, <1>7 DEF ControlTyped

LEMMA PopPlaced ==
    ASSUME Shape, NEW c \in Clients, PopLevel(c), pc[c] # "idle"
    PROVE  Placed'
PROOF
<1>1. TypeOK /\ Placed
  BY DEF Shape
<1>2. SUFFICES ASSUME NEW d \in Clients
               PROVE  /\ pc'[d] = "idle" <=> depth'[d] = 0
                      /\ depth'[d] <= Len(Plan[d]) + 1
                      /\ depth'[d] > Len(Plan[d]) => boundary'[d] /\ pc'[d] # "unwinding"
                      /\ pc'[d] = "running" => depth'[d] >= Len(Plan[d])
                      /\ \A l \in Levels : l <= depth'[d] => stack'[d][l] \in Objs
  BY DEF Placed, InBoundary
<1>3. CASE d = c
  <2>1. depth[c] \in 1 .. MaxDepth /\ depth'[c] = depth[c] - 1 /\ pc'[c] = AfterLevel(c)
    BY PopEffect
  <2>2. depth[c] <= Len(Plan[c]) + 1 /\ Len(Plan[c]) \in Nat /\ Len(Plan[c]) >= 1
        /\ MaxDepth \in Nat
    BY <1>1, PlanFacts DEF Placed
  <2>3. ASSUME NEW l \in Levels, l <= depth'[c] PROVE stack'[c][l] \in Objs
    <3>1. l < depth[c] /\ l <= depth[c]
      BY <2>1, <2>2, <2>3 DEF Levels
    <3> QED BY <3>1, PopEffect, <1>1 DEF Placed
  <2> QED BY <1>3, <2>1, <2>2, <2>3 DEF AfterLevel, InBoundary
<1>4. CASE d # c
  <2>1. /\ depth'[d] = depth[d] /\ pc'[d] = pc[d] /\ stack'[d] = stack[d]
        /\ boundary'[d] = boundary[d]
    BY <1>4, PopEffect
  <2> QED BY <2>1, <1>1 DEF Placed, InBoundary
<1> QED BY <1>3, <1>4

(* The queues are as they were, and so are those who wait in them. *)
LEMMA QueuedKept ==
    ASSUME Shape,
           \A o \in Objs : obj'[o].queue = obj[o].queue,
           \A d \in Clients : pc[d] = "waiting" =>
               pc'[d] = "waiting" /\ stack'[d][depth'[d]] = stack[d][depth[d]]
    PROVE  Queued'
PROOF
<1>1. TypeOK /\ Queued
  BY DEF Shape
<1>2. SUFFICES ASSUME NEW o \in Objs, NEW i \in 1 .. Len(obj'[o].queue)
               PROVE  LET c == obj'[o].queue[i]
                      IN /\ pc'[c] = "waiting" /\ stack'[c][depth'[c]] = o
                         /\ \A j \in 1 .. Len(obj'[o].queue) :
                               obj'[o].queue[j] = c => i = j
  BY DEF Queued, Top
<1>3. obj[o].queue \in Seq(Clients)
  BY <1>1 DEF TypeOK, LockStates
<1>4. obj'[o].queue = obj[o].queue
  OBVIOUS
<1>5. i \in 1 .. Len(obj[o].queue) /\ obj[o].queue[i] \in Clients
  BY <1>3, <1>4
<1> QED BY <1>1, <1>4, <1>5 DEF Queued, Top

(* A sequence with its i-th entry taken out. *)
LEMMA RemoveAtProperties ==
    ASSUME NEW S, NEW s \in Seq(S), NEW i \in 1 .. Len(s)
    PROVE  /\ RemoveAt(s, i) \in Seq(S) /\ Len(RemoveAt(s, i)) = Len(s) - 1
           /\ \A j \in 1 .. Len(s) - 1 :
                RemoveAt(s, i)[j] = IF j < i THEN s[j] ELSE s[j + 1]
PROOF
<1> DEFINE q == RemoveAt(s, i)
           a == SubSeq(s, 1, i - 1)
           b == SubSeq(s, i + 1, Len(s))
<1>1. Len(s) \in Nat /\ \A j \in 1 .. Len(s) : s[j] \in S
  OBVIOUS
<1>2. q = a \o b
  BY DEF RemoveAt
<1>3. i \in Int /\ i >= 1 /\ i <= Len(s)
  BY <1>1
<1>4. (\A j \in 1 .. i - 1 : s[j] \in S) /\ \A j \in i + 1 .. Len(s) : s[j] \in S
  BY <1>1, <1>3
<1>5. /\ a \in Seq(S) /\ Len(a) = i - 1
      /\ \A j \in 1 .. i - 1 : a[j] = s[j]
  BY <1>3, <1>4, SubSeqProperties
<1>6. /\ b \in Seq(S) /\ Len(b) = Len(s) - i
      /\ \A j \in 1 .. Len(s) - i : b[j] = s[i + j]
  BY <1>1, <1>3, <1>4, SubSeqProperties
<1> HIDE DEF a, b, q
<1>7. q \in Seq(S) /\ Len(q) = Len(s) - 1
  BY <1>1, <1>2, <1>5, <1>6, ConcatProperties
<1>8. ASSUME NEW j \in 1 .. Len(q)
      PROVE  q[j] = IF j < i THEN s[j] ELSE s[j + 1]
  <2>1. q[j] = IF j <= Len(a) THEN a[j] ELSE b[j - Len(a)]
    BY <1>1, <1>2, <1>5, <1>6, <1>7, ConcatProperties
  <2>2. CASE j < i
    BY <2>1, <2>2, <1>1, <1>5, <1>7
  <2>3. CASE ~(j < i)
    <3>1. j - (i - 1) \in 1 .. Len(s) - i /\ i + (j - (i - 1)) = j + 1
      BY <2>3, <1>1, <1>7
    <3> QED BY <2>1, <2>3, <3>1, <1>1, <1>5, <1>6
  <2> QED BY <2>2, <2>3
<1> QED BY <1>7, <1>8 DEF q

Without(s, i, q) ==
    /\ q \in Seq(Clients) /\ Len(q) = Len(s) - 1
    /\ \A j \in 1 .. Len(q) : q[j] = IF j < i THEN s[j] ELSE s[j + 1]

LEMMA WithoutRemoveAt ==
    ASSUME NEW s \in Seq(Clients), NEW i \in 1 .. Len(s)
    PROVE  Without(s, i, RemoveAt(s, i))
BY RemoveAtProperties DEF Without

LEMMA WithoutTail ==
    ASSUME NEW s \in Seq(Clients), s # <<>>
    PROVE  1 \in 1 .. Len(s) /\ Head(s) = s[1] /\ Without(s, 1, Tail(s))
PROOF
<1>1. Len(s) \in Nat /\ Len(s) >= 1 /\ Head(s) = s[1]
  OBVIOUS
<1>2. Tail(s) \in Seq(Clients) /\ Len(Tail(s)) = Len(s) - 1
  OBVIOUS
<1>3. \A j \in 1 .. Len(Tail(s)) : Tail(s)[j] = s[j + 1]
  OBVIOUS
<1> QED BY <1>1, <1>2, <1>3 DEF Without

(* One client leaves the queue it waits in. *)
LEMMA QueuedWithout ==
    ASSUME Shape, NEW o \in Objs, NEW i \in 1 .. Len(obj[o].queue), NEW q,
           Without(obj[o].queue, i, q),
           obj'[o].queue = q,
           \A p \in Objs : p # o => obj'[p].queue = obj[p].queue,
           \A d \in Clients : d # obj[o].queue[i] /\ pc[d] = "waiting" =>
               pc'[d] = "waiting" /\ stack'[d][depth'[d]] = stack[d][depth[d]]
    PROVE  Queued'
PROOF
<1> DEFINE s == obj[o].queue
<1>1. TypeOK /\ Queued
  BY DEF Shape
<1>2. s \in Seq(Clients) /\ Len(s) \in Nat
  BY <1>1 DEF TypeOK, LockStates
<1>6. q \in Seq(Clients) /\ Len(q) = Len(s) - 1
  BY DEF Without
<1>7. \A j \in 1 .. Len(q) : q[j] = IF j < i THEN s[j] ELSE s[j + 1]
  BY DEF Without
<1>8. \A j, m \in 1 .. Len(s) : s[j] = s[m] => j = m
  BY <1>1 DEF Queued
<1>9. \A j \in 1 .. Len(s) : pc[s[j]] = "waiting" /\ stack[s[j]][depth[s[j]]] = o
  BY <1>1 DEF Queued, Top
<1> HIDE DEF s
<1>s. i \in 1 .. Len(s) /\ \A d \in Clients : d # s[i] /\ pc[d] = "waiting" =>
               pc'[d] = "waiting" /\ stack'[d][depth'[d]] = stack[d][depth[d]]
  BY DEF s
<1>10. ASSUME NEW p \in Objs, NEW j \in 1 .. Len(obj'[p].queue)
       PROVE  LET c == obj'[p].queue[j]
              IN /\ pc'[c] = "waiting" /\ stack'[c][depth'[c]] = p
                 /\ \A m \in 1 .. Len(obj'[p].queue) : obj'[p].queue[m] = c => j = m
  <2>1. CASE p = o
    <3>1. j \in 1 .. Len(q) /\ q[j] \in Clients
      BY <2>1, <1>6
    <3> DEFINE n == IF j < i THEN j ELSE j + 1
    <3>2. n \in 1 .. Len(s) /\ n # i /\ q[j] = s[n]
      BY <3>1, <1>s, <1>2, <1>6, <1>7
    <3>3. s[n] # s[i]
      BY <3>2, <1>s, <1>8
    <3>4. pc'[q[j]] = "waiting" /\ stack'[q[j]][depth'[q[j]]] = o
      BY <3>1, <3>2, <3>3, <1>9, <1>s
    <3>5. ASSUME NEW m \in 1 .. Len(q), q[m] = q[j] PROVE j = m
      <4> DEFINE r == IF m < i THEN m ELSE m + 1
      <4>1. r \in 1 .. Len(s) /\ r # i /\ q[m] = s[r]
        BY <1>s, <1>2, <1>6, <1>7
      <4>2. n = r
        <5> HIDE DEF n, r
        <5>1. s[n] = s[r]
          BY <4>1, <3>2, <3>5
        <5> QED BY <5>1, <4>1, <3>2, <1>8
      <4> QED BY <4>2, <3>1, <1>s, <1>2, <1>6
    <3> QED BY <2>1, <3>4, <3>5
  <2>2. CASE p # o
    <3>1. obj'[p].queue = obj[p].queue /\ obj[p].queue \in Seq(Clients)
      BY <2>2, <1>1 DEF TypeOK, LockStates
    <3>2. j \in 1 .. Len(obj[p].queue) /\ obj[p].queue[j] \in Clients
      BY <3>1
    <3>3. /\ pc[obj[p].queue[j]] = "waiting"
          /\ stack[obj[p].queue[j]][depth[obj[p].queue[j]]] = p
          /\ \A m \in 1 .. Len(obj[p].queue) : obj[p].queue[m] = obj[p].queue[j] => j = m
      BY <3>2, <1>1 DEF Queued, Top
    <3>4. obj[p].queue[j] # s[i]
      BY <3>3, <1>9, <1>s, <2>2
    <3> QED BY <3>1, <3>2, <3>3, <3>4, <1>s
  <2> QED BY <2>1, <2>2
<1> QED BY <1>10 DEF Queued, Top

(***************************************************************************)
(* The shapes a step can have.                                             *)
(***************************************************************************)
ThreadTyped ==
    /\ jobs \in Seq(Clients)
    /\ pump \in Objs \union {NoState}
    /\ sweep \in BOOLEAN
    /\ dispatch \subseteq Clients
    /\ block \in Clients \union {"none", "unowned", "recovery"}

(* A client enters a queue. *)
LEMMA EnterShape ==
    ASSUME Shape, NEW c \in Clients, NEW o \in Objs, EnterQueue(c, o),
           depth[c] <= Len(Plan[c]), pc[c] # "waiting",
           RequestTyped', ThreadTyped',
           \A d \in Clients : boundary[d] => boundary'[d],
           depth[c] = Len(Plan[c]) => boundary'[c]
    PROVE  Shape'
PROOF
<1>1. Placed' /\ Queued'
  BY EnterPlaced, EnterQueued
<1>2. TypeOK'
  BY EnterTyped DEF TypeOK, RequestTyped, ThreadTyped
<1> QED BY <1>1, <1>2 DEF Shape

(* A client leaves the queue it waits in, admitted or rejected. *)
LEMMA LeaveShape ==
    ASSUME Shape, NEW o \in Objs, NEW i \in 1 .. Len(obj[o].queue),
           NEW r \in LockStates, Without(obj[o].queue, i, r.queue),
           NEW w \in {"admitted", "rejected"},
           obj' = [obj EXCEPT ![o] = r],
           pc' = [pc EXCEPT ![obj[o].queue[i]] = w],
           ThreadTyped',
           UNCHANGED <<locks, stack, depth, request>>
    PROVE  Shape'
PROOF
<1> DEFINE c == obj[o].queue[i]
<1>1. TypeOK /\ Placed /\ Queued
  BY DEF Shape
<1>2. obj[o].queue \in Seq(Clients)
  BY <1>1 DEF TypeOK, LockStates
<1>3. c \in Clients /\ pc[c] = "waiting"
  BY <1>1, <1>2 DEF Queued
<1>4. Queued'
  <2>1. obj'[o].queue = r.queue /\ \A p \in Objs : p # o => obj'[p].queue = obj[p].queue
    BY <1>1 DEF TypeOK
  <2>2. \A d \in Clients : d # c /\ pc[d] = "waiting" =>
          pc'[d] = "waiting" /\ stack'[d][depth'[d]] = stack[d][depth[d]]
    BY <1>1 DEF TypeOK
  <2> HIDE DEF LockStates
  <2> QED BY <2>1, <2>2, QueuedWithout
<1>5. Placed'
  <2>1. \A d \in Clients : pc'[d] = pc[d] \/ (d = c /\ pc'[d] = w)
    BY <1>1 DEF TypeOK
  <2> HIDE DEF c
  <2> QED BY <2>1, <1>1, <1>3 DEF Placed, InBoundary, request
<1>6. TypeOK'
  <2>1. obj' \in [Objs -> LockStates]
    BY <1>1 DEF TypeOK
  <2>2. pc' \in [Clients -> {"idle", "waiting", "admitted", "rejected",
                             "running", "unwinding"}]
    BY <1>1, <1>3 DEF TypeOK
  <2> QED BY <2>1, <2>2, <1>1 DEF TypeOK, ThreadTyped, request
<1> QED BY <1>4, <1>5, <1>6 DEF Shape

(* A client gives its innermost lock back. *)
LEMMA ReleaseShape ==
    ASSUME Shape, NEW c \in Clients, ReleaseTop(c), pc[c] \notin {"idle", "waiting"},
           jobs' \in Seq(Clients), UNCHANGED <<locks, dispatch, block>>
    PROVE  Shape'
PROOF
<1>1. TypeOK /\ Placed
  BY DEF Shape
<1>2. PopLevel(c)
  BY DEF ReleaseTop
<1>3. depth[c] \in Levels /\ Top(c) \in Objs
  BY <1>1, <1>2, PopEffect, PlanFacts DEF Top, Placed, Levels
<1>4. /\ obj' \in [Objs -> LockStates]
      /\ \A o \in Objs : obj'[o].queue = obj[o].queue
  <2>1. obj[Top(c)] \in LockStates
    BY <1>1, <1>3 DEF TypeOK
  <2>2. CASE ModeAt(c, depth[c]) = READ
    <3>1. obj' = [obj EXCEPT ![Top(c)].readers =
                    IF obj[Top(c)].readers > 0 THEN obj[Top(c)].readers - 1 ELSE 0]
      BY <2>2 DEF ReleaseTop
    <3>2. (IF obj[Top(c)].readers > 0 THEN obj[Top(c)].readers - 1 ELSE 0) \in Nat
      BY <2>1 DEF LockStates
    <3>3. \A o \in Objs : o # Top(c) => obj'[o] = obj[o]
      BY <3>1, <1>1 DEF TypeOK
    <3>4. obj'[Top(c)] = [obj[Top(c)] EXCEPT !.readers =
                    IF obj[Top(c)].readers > 0 THEN obj[Top(c)].readers - 1 ELSE 0]
      BY <3>1, <1>1, <1>3 DEF TypeOK
    <3>5. obj'[Top(c)] \in LockStates /\ obj'[Top(c)].queue = obj[Top(c)].queue
      BY <3>2, <3>4, <2>1 DEF LockStates
    <3> QED BY <3>1, <3>3, <3>5, <1>1 DEF TypeOK
  <2>3. CASE ModeAt(c, depth[c]) # READ
    <3>1. obj' = [obj EXCEPT ![Top(c)].writer = FALSE]
      BY <2>3 DEF ReleaseTop
    <3>3. \A o \in Objs : o # Top(c) => obj'[o] = obj[o]
      BY <3>1, <1>1 DEF TypeOK
    <3>4. obj'[Top(c)] = [obj[Top(c)] EXCEPT !.writer = FALSE]
      BY <3>1, <1>1, <1>3 DEF TypeOK
    <3>5. obj'[Top(c)] \in LockStates /\ obj'[Top(c)].queue = obj[Top(c)].queue
      BY <3>4, <2>1 DEF LockStates
    <3> QED BY <3>1, <3>3, <3>5, <1>1 DEF TypeOK
  <2> QED BY <2>2, <2>3
<1>5. \A d \in Clients : pc[d] = "waiting" =>
        pc'[d] = "waiting" /\ stack'[d][depth'[d]] = stack[d][depth[d]]
  BY <1>2, PopEffect
<1>6. Placed' /\ Queued'
  BY <1>2, <1>4, <1>5, PopPlaced, QueuedKept
<1>7. TypeOK'
  <2>1. ControlTyped' /\ RequestTyped'
    BY <1>2, PopTyped
  <2>2. pump' \in Objs \union {NoState} /\ sweep' \in BOOLEAN
    BY <1>3 DEF ReleaseTop
  <2> QED BY <2>1, <2>2, <1>1, <1>4 DEF TypeOK, ControlTyped, RequestTyped
<1> QED BY <1>6, <1>7 DEF Shape

(* Nobody enters or leaves a lock or a queue. *)
LEMMA QuietShape ==
    ASSUME Shape, UNCHANGED <<obj, stack, depth>>,
           locks' \in [Keys -> Objs \union {NoState}],
           pc' \in [Clients -> {"idle", "waiting", "admitted", "rejected",
                                "running", "unwinding"}],
           RequestTyped', ThreadTyped',
           \A d \in Clients : boundary[d] => boundary'[d] \/ ~InBoundary(d),
           \A d \in Clients :
             \/ pc'[d] = pc[d]
             \/ /\ pc[d] = "admitted" /\ pc'[d] = "running"
                /\ depth[d] >= Len(Plan[d])
             \/ pc[d] = "running" /\ pc'[d] = "unwinding" /\ ~InBoundary(d)
    PROVE  Shape'
PROOF
<1>1. TypeOK /\ Placed
  BY DEF Shape
<1>2. Queued'
  BY <1>1, QueuedKept
<1>3. Placed'
  BY <1>1 DEF Placed, InBoundary
<1>4. TypeOK'
  BY <1>1 DEF TypeOK, RequestTyped, ThreadTyped
<1> QED BY <1>2, <1>3, <1>4 DEF Shape

LEMMA DeleteIdleTyped ==
    ASSUME TypeOK, NEW o \in Objs, DeleteIdleLock(o)
    PROVE  locks' \in [Keys -> Objs \union {NoState}]
BY DEF TypeOK, DeleteIdleLock, Objs

(***************************************************************************)
(* Every action is one of them.                                            *)
(***************************************************************************)
LEMMA AdmissionShape == Shape /\ AdmitWaiting => Shape'
PROOF
<1> SUFFICES ASSUME Shape, AdmitWaiting PROVE Shape'
  OBVIOUS
<1>1. TypeOK
  BY DEF Shape
<1>2. pump \in Objs
  BY <1>1 DEF TypeOK, AdmitWaiting, DropExpired, AdmitReader, AdmitWriter, EndAdmission
<1> DEFINE q == obj[pump].queue
<1>3. obj[pump] \in LockStates /\ q \in Seq(Clients)
  BY <1>1, <1>2 DEF TypeOK, LockStates
<1>4. ASSUME q # <<>>
      PROVE  /\ 1 \in 1 .. Len(q) /\ Waiter = q[1] /\ Waiter \in Clients
             /\ Without(q, 1, Tail(q)) /\ Tail(q) \in Seq(Clients)
             /\ Append(jobs, Waiter) \in Seq(Clients)
  <2>1. 1 \in 1 .. Len(q) /\ Waiter = q[1] /\ Without(q, 1, Tail(q))
    BY <1>3, <1>4, WithoutTail DEF Waiter
  <2>2. Waiter \in Clients
    BY <2>1, <1>3
  <2> QED BY <2>1, <2>2, <1>1 DEF Without, TypeOK
<1>5. CASE DropExpired
  <2> DEFINE r == [obj[pump] EXCEPT !.queue = Tail(q)]
  <2>1. q # <<>>
    BY <1>5 DEF DropExpired
  <2>2. r \in LockStates /\ r.queue = Tail(q)
    BY <1>3, <1>4, <2>1 DEF LockStates
  <2>3. obj' = [obj EXCEPT ![pump] = r]
    BY <1>5, <1>1, <1>2 DEF DropExpired, TypeOK
  <2>4. /\ pc' = [pc EXCEPT ![q[1]] = "rejected"]
        /\ ThreadTyped'
        /\ UNCHANGED <<locks, stack, depth, request>>
    BY <1>5, <1>1, <1>4, <2>1 DEF DropExpired, ThreadTyped, TypeOK, thread
  <2> HIDE DEF r
  <2> QED BY <2>1, <2>2, <2>3, <2>4, <1>2, <1>4, LeaveShape
<1>6. CASE AdmitReader
  <2> DEFINE n == obj[pump].readers + 1
             r == [obj[pump] EXCEPT !.queue = Tail(q), !.readers = n]
  <2>1. q # <<>>
    BY <1>6 DEF AdmitReader
  <2>2. r \in LockStates /\ r.queue = Tail(q)
    <3>1. n \in Nat
      BY <1>3 DEF LockStates
    <3>2. Tail(q) \in Seq(Clients)
      BY <1>4, <2>1
    <3> HIDE DEF n, q
    <3> QED BY <1>3, <3>1, <3>2 DEF LockStates
  <2>3. obj' = [obj EXCEPT ![pump] = r]
    BY <1>6, <1>1, <1>2, <1>3 DEF AdmitReader, TypeOK, LockStates
  <2>4. /\ pc' = [pc EXCEPT ![q[1]] = "admitted"]
        /\ ThreadTyped'
        /\ UNCHANGED <<locks, stack, depth, request>>
    BY <1>6, <1>1, <1>4, <2>1 DEF AdmitReader, ThreadTyped, TypeOK, thread
  <2> HIDE DEF r
  <2> QED BY <2>1, <2>2, <2>3, <2>4, <1>2, <1>4, LeaveShape
<1>7. CASE AdmitWriter
  <2> DEFINE r == [obj[pump] EXCEPT !.queue = Tail(q), !.writer = TRUE]
  <2>1. q # <<>>
    BY <1>7 DEF AdmitWriter
  <2>2. r \in LockStates /\ r.queue = Tail(q)
    BY <1>3, <1>4, <2>1 DEF LockStates
  <2>3. obj' = [obj EXCEPT ![pump] = r]
    BY <1>7, <1>1, <1>2, <1>3 DEF AdmitWriter, TypeOK, LockStates
  <2>4. /\ pc' = [pc EXCEPT ![q[1]] = "admitted"]
        /\ ThreadTyped'
        /\ UNCHANGED <<locks, stack, depth, request>>
    BY <1>7, <1>1, <1>4, <2>1 DEF AdmitWriter, ThreadTyped, TypeOK
  <2> HIDE DEF r
  <2> QED BY <2>1, <2>2, <2>3, <2>4, <1>2, <1>4, LeaveShape
<1>8. CASE EndAdmission
  <2>1. locks' \in [Keys -> Objs \union {NoState}]
    BY <1>8, <1>1, <1>2, DeleteIdleTyped DEF EndAdmission, TypeOK
  <2>2. RequestTyped' /\ ThreadTyped' /\ UNCHANGED <<obj, stack, depth, pc, boundary>>
    BY <1>8, <1>1 DEF EndAdmission, RequestTyped, ThreadTyped, TypeOK, request
  <2> QED BY <2>1, <2>2, <1>1, QuietShape DEF TypeOK
<1> QED BY <1>5, <1>6, <1>7, <1>8 DEF AdmitWaiting

LEMMA EnteringShape ==
    ASSUME Shape, NEW c \in Clients, Submit(c) \/ EnterBoundary(c) \/ ResumeNextLock(c)
    PROVE  Shape'
PROOF
<1>1. TypeOK /\ Placed
  BY DEF Shape
<1>2. PICK o \in Objs : EnterQueue(c, o)
  BY DEF Submit, EnterBoundary, ResumeNextLock
<1>3. pump' \in Objs \union {NoState} /\ sweep' \in BOOLEAN
  BY <1>2 DEF EnterQueue
<1>4. depth[c] \in Nat /\ Len(Plan[c]) \in Nat /\ Len(Plan[c]) >= 1
  BY <1>1, PlanFacts DEF TypeOK
<1>5. CASE Submit(c)
  <2>1. depth[c] < Len(Plan[c]) /\ pc[c] = "idle"
    BY <1>5, <1>1, <1>4 DEF Submit, Placed
  <2>2. RequestTyped' /\ ThreadTyped' /\ UNCHANGED boundary
    BY <1>5, <1>1, <1>3 DEF Submit, RequestTyped, ThreadTyped, TypeOK, request
  <2> QED BY <1>2, <1>4, <2>1, <2>2, EnterShape
<1>6. CASE EnterBoundary(c)
  <2>1. depth[c] <= Len(Plan[c]) /\ pc[c] = "running"
    BY <1>6, <1>1, <1>4 DEF EnterBoundary, Placed, InBoundary
  <2>2. RequestTyped' /\ ThreadTyped'
    BY <1>6, <1>1, <1>3 DEF EnterBoundary, RequestTyped, ThreadTyped, TypeOK
  <2>3. boundary'[c] /\ \A d \in Clients : boundary[d] => boundary'[d]
    BY <1>6, <1>1 DEF EnterBoundary, TypeOK
  <2> QED BY <1>2, <2>1, <2>2, <2>3, EnterShape
<1>7. CASE ResumeNextLock(c)
  <2>1. depth[c] < Len(Plan[c]) /\ pc[c] = "admitted"
    BY <1>7 DEF ResumeNextLock
  <2>2. Tail(jobs) \in Seq(Clients)
    BY <1>7, <1>1 DEF ResumeNextLock, Resume, TypeOK
  <2>3. RequestTyped' /\ ThreadTyped' /\ UNCHANGED boundary
    BY <1>7, <1>1, <1>3, <2>2
    DEF ResumeNextLock, Resume, RequestTyped, ThreadTyped, TypeOK, request
  <2> QED BY <1>2, <1>4, <2>1, <2>3, EnterShape
<1> QED BY <1>5, <1>6, <1>7

LEMMA LeavingShape ==
    ASSUME Shape, NEW c \in Clients,
           LeaveBoundary(c) \/ Unwind(c) \/ ResumeRefused(c) \/ ResumeRejected(c)
    PROVE  Shape'
PROOF
<1>1. TypeOK /\ Placed
  BY DEF Shape
<1>2. CASE LeaveBoundary(c) \/ Unwind(c)
  BY <1>1, <1>2, ReleaseShape DEF LeaveBoundary, Unwind, TypeOK
<1>3. jobs # <<>> => Tail(jobs) \in Seq(Clients)
  BY <1>1 DEF TypeOK
<1>4. CASE ResumeRefused(c)
  BY <1>1, <1>3, <1>4, ReleaseShape DEF ResumeRefused, Resume
<1>5. CASE ResumeRejected(c)
  <2>1. PopLevel(c) /\ pc[c] = "rejected"
    BY <1>5 DEF ResumeRejected
  <2>2. ControlTyped' /\ RequestTyped' /\ Placed'
    BY <2>1, PopTyped, PopPlaced
  <2>3. Queued'
    <3>1. \A d \in Clients : pc[d] = "waiting" =>
            pc'[d] = "waiting" /\ stack'[d][depth'[d]] = stack[d][depth[d]]
      BY <2>1, PopEffect
    <3>2. UNCHANGED obj
      BY <1>5 DEF ResumeRejected
    <3> QED BY <3>1, <3>2, QueuedKept
  <2>4. Top(c) \in Objs
    BY <2>1, <1>1, PopEffect, PlanFacts DEF Placed, Top, Levels
  <2>5. locks' \in [Keys -> Objs \union {NoState}]
    BY <1>5, <1>1, <2>4, DeleteIdleTyped DEF ResumeRejected
  <2>6. TypeOK'
    BY <1>5, <1>1, <1>3, <2>2, <2>5
    DEF ResumeRejected, Resume, thread, TypeOK, ControlTyped, RequestTyped
  <2> QED BY <2>2, <2>3, <2>6 DEF Shape
<1> QED BY <1>2, <1>4, <1>5

LEMMA WithdrawShape ==
    ASSUME Shape, NEW c \in Clients, pc[c] = "waiting", Withdraw(c),
           dispatch' \subseteq Clients, UNCHANGED <<locks, stack, depth, request, block>>
    PROVE  Shape'
PROOF
<1> DEFINE o == Top(c)
<1>1. TypeOK /\ Placed
  BY DEF Shape
<1>2. depth[c] \in Levels
  BY <1>1, PlanFacts DEF TypeOK, Placed, Levels
<1>3. o \in Objs
  BY <1>1, <1>2 DEF Placed, Top, Levels
<1>4. obj[o] \in LockStates /\ obj[o].queue \in Seq(Clients)
  BY <1>1, <1>3 DEF TypeOK, LockStates
<1>5. PICK i \in 1 .. Len(obj[o].queue) :
        /\ obj[o].queue[i] = c
        /\ obj' = [obj EXCEPT ![o].queue = RemoveAt(@, i)]
  <2>1. \E i \in DOMAIN obj[o].queue :
          /\ obj[o].queue[i] = c
          /\ obj' = [obj EXCEPT ![o].queue = RemoveAt(@, i)]
    BY DEF Withdraw
  <2>2. DOMAIN obj[o].queue = 1 .. Len(obj[o].queue)
    BY <1>4
  <2> QED BY <2>1, <2>2
<1> DEFINE r == [obj[o] EXCEPT !.queue = RemoveAt(obj[o].queue, i)]
<1>6. Without(obj[o].queue, i, RemoveAt(obj[o].queue, i))
  BY <1>4, WithoutRemoveAt
<1>7. r \in LockStates /\ r.queue = RemoveAt(obj[o].queue, i)
  BY <1>4, <1>6 DEF LockStates, Without
<1>8. obj' = [obj EXCEPT ![o] = r]
  BY <1>5, <1>1, <1>3 DEF TypeOK
<1>9. ThreadTyped'
  <2>1. Append(jobs, c) \in Seq(Clients)
    BY <1>1 DEF TypeOK
  <2> QED BY <2>1, <1>1, <1>3 DEF Withdraw, ThreadTyped, TypeOK
<1>10. pc' = [pc EXCEPT ![obj[o].queue[i]] = "rejected"]
  BY <1>5 DEF Withdraw
<1> HIDE DEF r, o
<1> QED BY <1>3, <1>6, <1>7, <1>8, <1>9, <1>10, LeaveShape

LEMMA CallerShape ==
    ASSUME Shape, NEW c \in Clients,
           RefuseAborted(c) \/ Abort(c) \/ OnAbort(c) \/ Expire(c) \/ TimerFires(c)
    PROVE  Shape'
PROOF
<1>1. TypeOK /\ Placed
  BY DEF Shape
<1>2. CASE RefuseAborted(c)
  <2>1. depth[c] \in 0 .. MaxDepth - 1
    <3>1. /\ depth[c] \in Nat /\ Len(Plan[c]) \in Nat /\ MaxDepth \in Nat
          /\ Len(Plan[c]) >= 1 /\ Len(Plan[c]) + 1 <= MaxDepth
      BY <1>1, PlanFacts DEF TypeOK
    <3>2. depth[c] = 0 \/ ~InBoundary(c)
      BY <1>2, <1>1 DEF RefuseAborted, Placed
    <3> QED BY <3>1, <3>2 DEF InBoundary
  <2>2. KeyAt(c, depth[c] + 1) \in Keys
    BY <2>1, PlanFacts DEF Levels
  <2>3. locks' \in [Keys -> Objs \union {NoState}]
    BY <1>2, <1>1, <2>2, DeleteIdleTyped DEF RefuseAborted, TypeOK
  <2>4. /\ RequestTyped' /\ ThreadTyped' /\ UNCHANGED <<obj, stack, depth, pc>>
        /\ \A d \in Clients : boundary[d] => boundary'[d] \/ ~InBoundary(d)
    <3>1. pc[c] = "idle" => ~InBoundary(c)
      BY <1>1, PlanFacts DEF Placed, InBoundary
    <3> QED BY <3>1, <1>2, <1>1
            DEF RefuseAborted, RequestTyped, ThreadTyped, TypeOK, thread
  <2> QED BY <2>3, <2>4, <1>1, QuietShape DEF TypeOK
<1>3. CASE Abort(c) \/ Expire(c)
  <2>1. /\ RequestTyped' /\ ThreadTyped'
        /\ UNCHANGED <<locks, obj, stack, depth, pc, boundary>>
    BY <1>3, <1>1 DEF Abort, Expire, RequestTyped, ThreadTyped, TypeOK, thread
  <2> QED BY <2>1, <1>1, QuietShape DEF TypeOK
<1>4. CASE OnAbort(c)
  <2>1. dispatch' \subseteq Clients
    BY <1>4, <1>1 DEF OnAbort, TypeOK
  <2>2. CASE pc[c] = "waiting"
    BY <1>4, <2>1, <2>2, WithdrawShape DEF OnAbort
  <2>3. CASE pc[c] # "waiting"
    <3>1. /\ RequestTyped' /\ ThreadTyped'
          /\ UNCHANGED <<locks, obj, stack, depth, pc, boundary>>
      BY <1>4, <1>1, <2>1, <2>3 DEF OnAbort, RequestTyped, ThreadTyped, TypeOK, request
    <3> QED BY <3>1, <1>1, QuietShape DEF TypeOK
  <2> QED BY <2>2, <2>3
<1>5. CASE TimerFires(c)
  BY <1>5, <1>1, WithdrawShape DEF TimerFires, TypeOK
<1> QED BY <1>2, <1>3, <1>4, <1>5

LEMMA RunShape ==
    ASSUME Shape, NEW c \in Clients,
           ResumeRun(c) \/ Finish(c) \/ WatchdogQuarantine(c)
    PROVE  Shape'
PROOF
<1>1. TypeOK /\ Placed
  BY DEF Shape
<1>2. CASE ResumeRun(c)
  <2>1. Tail(jobs) \in Seq(Clients)
    BY <1>2, <1>1 DEF ResumeRun, Resume, TypeOK
  <2>2. /\ RequestTyped' /\ ThreadTyped' /\ UNCHANGED <<locks, obj, stack, depth, boundary>>
    BY <1>2, <1>1, <2>1
    DEF ResumeRun, Resume, RequestTyped, ThreadTyped, TypeOK, request, thread
  <2>3. /\ pc' = [pc EXCEPT ![c] = "running"]
        /\ pc[c] = "admitted" /\ depth[c] >= Len(Plan[c])
    BY <1>2 DEF ResumeRun
  <2> QED BY <2>2, <2>3, <1>1, QuietShape DEF TypeOK
<1>3. CASE Finish(c)
  <2>1. /\ RequestTyped' /\ ThreadTyped' /\ UNCHANGED <<locks, obj, stack, depth, boundary>>
    BY <1>3, <1>1
    DEF Finish, FinishSafely, FinishInDoubt, FinishUnconfirmed, Finishing, RaiseBlock,
        RequestTyped, ThreadTyped, TypeOK
  <2>2. /\ pc' = [pc EXCEPT ![c] = "unwinding"]
        /\ pc[c] = "running" /\ ~InBoundary(c)
    BY <1>3 DEF Finish, FinishSafely, FinishInDoubt, FinishUnconfirmed, Finishing
  <2> QED BY <2>1, <2>2, <1>1, QuietShape DEF TypeOK
<1>4. CASE WatchdogQuarantine(c)
  <2>1. /\ RequestTyped' /\ ThreadTyped'
        /\ UNCHANGED <<locks, obj, stack, depth, pc, boundary>>
    BY <1>4, <1>1
    DEF WatchdogQuarantine, RaiseBlock, RequestTyped, ThreadTyped, TypeOK
  <2> QED BY <2>1, <1>1, QuietShape DEF TypeOK
<1> QED BY <1>2, <1>3, <1>4

LEMMA RecoveryShape == Shape /\ (RecoveryQuarantine \/ RecoveryClear) => Shape'
PROOF
<1> SUFFICES ASSUME Shape, RecoveryQuarantine \/ RecoveryClear PROVE Shape'
  OBVIOUS
<1>1. TypeOK
  BY DEF Shape
<1>2. /\ RequestTyped' /\ ThreadTyped'
      /\ UNCHANGED <<locks, obj, stack, depth, pc, boundary>>
  BY <1>1 DEF RecoveryQuarantine, RecoveryClear, RaiseBlock, RequestTyped,
              ThreadTyped, TypeOK, request, thread
<1> QED BY <1>1, <1>2, QuietShape DEF TypeOK

LEMMA StutterShape == Shape /\ UNCHANGED vars => Shape'
BY DEF Shape, TypeOK, Placed, Queued, InBoundary, Top, vars

LEMMA NextShape == Shape /\ [Next]_vars => Shape'
PROOF
<1> SUFFICES ASSUME Shape, [Next]_vars PROVE Shape'
  OBVIOUS
<1>1. CASE AdmitWaiting
  BY <1>1, AdmissionShape
<1>2. ASSUME NEW c \in Clients, ClientStep(c) PROVE Shape'
  <2>1. CASE Submit(c) \/ EnterBoundary(c) \/ ResumeNextLock(c)
    BY <2>1, EnteringShape
  <2>2. CASE LeaveBoundary(c) \/ Unwind(c) \/ ResumeRefused(c) \/ ResumeRejected(c)
    BY <2>2, LeavingShape
  <2>3. CASE RefuseAborted(c) \/ Abort(c) \/ OnAbort(c) \/ Expire(c) \/ TimerFires(c)
    BY <2>3, CallerShape
  <2>4. CASE ResumeRun(c) \/ Finish(c) \/ WatchdogQuarantine(c)
    BY <2>4, RunShape
  <2> QED BY <1>2, <2>1, <2>2, <2>3, <2>4 DEF ClientStep, Resumption
<1>3. CASE RecoveryQuarantine \/ RecoveryClear
  BY <1>3, RecoveryShape
<1>4. CASE UNCHANGED vars
  BY <1>4, StutterShape
<1> QED BY <1>1, <1>2, <1>3, <1>4 DEF Next

LEMMA AlwaysShape == Spec => []Shape
PROOF
<1>1. Init => Shape
  BY InitShape
<1>2. Shape /\ [Next]_vars => Shape'
  BY NextShape
<1> QED BY <1>1, <1>2, PTL DEF Spec

(* Every variable of the queue keeps its type: in particular no client     *)
(* leaves its first lock twice, and none is queued without being there.    *)
THEOREM TypeCorrect == Spec => []TypeOK
PROOF
<1>1. Shape => TypeOK
  BY DEF Shape
<1> QED BY <1>1, AlwaysShape, PTL

-----------------------------------------------------------------------------
(***************************************************************************)
(* What the mutation quarantine guarantees.                                *)
(***************************************************************************)

(* Whoever the quarantine concerns and has not started carries its mark.   *)
(* It is what makes the check of the signal after admission sufficient:    *)
(* the path scope does not look at the quarantine itself again.            *)
Marked ==
    block # "none" => \A c \in Clients : BlockSignalled(c) => blocked[c]

QInv == Shape /\ Marked /\ TokenOwnerRuns

LEMMA MarkedKept ==
    ASSUME Shape, Marked, UNCHANGED block,
           \A c \in Clients :
             BlockSignalled(c)' => \/ BlockSignalled(c) /\ (blocked[c] => blocked'[c])
                                   \/ block = "none"
    PROVE  Marked'
BY DEF Marked

(* A client whose signal is not aborted and that the quarantine concerns   *)
(* is not refused only while there is no quarantine.                       *)
LEMMA NotRefused ==
    ASSUME Marked, NEW c \in Clients, pc[c] = "admitted", ~Refused(c),
           c \in Signalled \/ InBoundary(c)
    PROVE  block = "none"
BY DEF Marked, BlockSignalled, Refused, Aborted

LEMMA EnteringMarked ==
    ASSUME QInv, NEW c \in Clients, Submit(c) \/ EnterBoundary(c) \/ ResumeNextLock(c)
    PROVE  Marked' /\ TokenOwnerRuns'
PROOF
<1>1. TypeOK /\ Placed /\ Marked /\ TokenOwnerRuns /\ Shape
  BY DEF QInv, Shape
<1>2. PICK o \in Objs : EnterQueue(c, o)
  BY DEF Submit, EnterBoundary, ResumeNextLock
<1>3. depth[c] \in Nat /\ Len(Plan[c]) \in Nat /\ Len(Plan[c]) >= 1
  BY <1>1, PlanFacts DEF TypeOK
<1>4. depth'[c] = depth[c] + 1 /\ pc' = [pc EXCEPT ![c] = "waiting"]
  BY <1>1, <1>2 DEF EnterQueue, TypeOK
<1>5. \A d \in Clients : d # c => depth'[d] = depth[d] /\ pc'[d] = pc[d]
  BY <1>1, <1>2 DEF EnterQueue, TypeOK
<1>6. \A d \in Clients : d # c => blocked'[d] = blocked[d]
  BY <1>1 DEF Submit, EnterBoundary, ResumeNextLock, request, TypeOK
<1>7. UNCHANGED block
  BY DEF Submit, EnterBoundary, ResumeNextLock
<1>8. c \in Signalled \/ InBoundary(c)' => block = "none"
  <2>1. CASE Submit(c)
    <3>1. depth[c] = 0
      BY <1>1, <2>1 DEF Submit, Placed
    <3> QED BY <2>1, <3>1, <1>3, <1>4 DEF Submit, InBoundary
  <2>2. CASE EnterBoundary(c)
    BY <2>2 DEF EnterBoundary
  <2>3. CASE ResumeNextLock(c)
    <3>1. pc[c] = "admitted" /\ ~Refused(c) /\ depth[c] < Len(Plan[c])
      BY <2>3 DEF ResumeNextLock
    <3> QED BY <3>1, <1>1, <1>3, <1>4, NotRefused DEF InBoundary
  <2> QED BY <2>1, <2>2, <2>3
<1>9. Marked'
  <2>1. ASSUME NEW d \in Clients, BlockSignalled(d)'
        PROVE  \/ BlockSignalled(d) /\ (blocked[d] => blocked'[d])
               \/ block = "none"
    <3>1. CASE d = c
      BY <2>1, <3>1, <1>8 DEF BlockSignalled
    <3>2. CASE d # c
      BY <2>1, <3>2, <1>5, <1>6 DEF BlockSignalled, InBoundary
    <3> QED BY <3>1, <3>2
  <2> QED BY <2>1, <1>1, <1>7, MarkedKept
<1>10. TokenOwnerRuns'
  <2>1. block = c => block = "none" \/ pc[c] # "running"
    BY DEF Submit, EnterBoundary, ResumeNextLock
  <2>2. c # "none"
    BY OwnersAssumption DEF OwnersAssumption
  <2> QED BY <2>1, <2>2, <1>1, <1>5, <1>7 DEF TokenOwnerRuns
<1> QED BY <1>9, <1>10

(* Steps after which c owns or awaits less than before. *)
LEMMA PopMarked ==
    ASSUME QInv, NEW c \in Clients, PopLevel(c), pc[c] # "idle",
           pc[c] = "running" => InBoundary(c), UNCHANGED block
    PROVE  Marked' /\ TokenOwnerRuns'
PROOF
<1>1. TypeOK /\ Marked /\ TokenOwnerRuns /\ Shape
  BY DEF QInv, Shape
<1>2. pc'[c] = AfterLevel(c) /\ \A d \in Clients : d # c =>
        depth'[d] = depth[d] /\ pc'[d] = pc[d]
  BY <1>1, PopEffect
<1>3. \A d \in Clients : d # c => blocked'[d] = blocked[d]
  BY <1>1 DEF PopLevel, Cleared, TypeOK
<1>4. AfterLevel(c) \in {"idle", "running", "unwinding"}
  BY DEF AfterLevel
<1>5. \A d \in Clients : BlockSignalled(d)' => d # c /\ BlockSignalled(d) /\ blocked'[d] = blocked[d]
  BY <1>2, <1>3, <1>4 DEF BlockSignalled, InBoundary
<1>6. Marked'
  BY <1>1, <1>5, MarkedKept
<1>7. TokenOwnerRuns'
  BY <1>1, <1>2 DEF TokenOwnerRuns, AfterLevel
<1> QED BY <1>6, <1>7

(* Steps that change no depth and make nobody wait or leave its operation. *)
LEMMA QuietMarked ==
    ASSUME QInv, UNCHANGED <<depth, blocked, block>>,
           \A d \in Clients :
             /\ pc[d] = "running" => pc'[d] = "running"
             /\ pc'[d] \in {"waiting", "admitted"} => pc[d] \in {"waiting", "admitted"}
    PROVE  Marked' /\ TokenOwnerRuns'
BY MarkedKept DEF QInv, TokenOwnerRuns, BlockSignalled, InBoundary

(* A quarantine is raised: by an operation that runs on, or by nobody that *)
(* could lift it by its token.                                             *)
LEMMA RaiseMarked ==
    ASSUME QInv, NEW owner, RaiseBlock(owner), UNCHANGED depth,
           \A d \in Clients :
             /\ pc'[d] \in {"waiting", "admitted"} => pc[d] \in {"waiting", "admitted"}
             /\ owner = d => pc'[d] = "running"
    PROVE  Marked' /\ TokenOwnerRuns'
PROOF
<1>1. TypeOK
  BY DEF QInv, Shape
<1>2. ASSUME NEW d \in Clients, BlockSignalled(d)' PROVE blocked'[d]
  <2>1. BlockSignalled(d)
    BY <1>2 DEF BlockSignalled, InBoundary
  <2> QED BY <2>1 DEF RaiseBlock
<1>3. block' = owner
  BY DEF RaiseBlock
<1> QED BY <1>2, <1>3 DEF Marked, TokenOwnerRuns

(***************************************************************************)
(* Every action is one of them.                                            *)
(***************************************************************************)
LEMMA AdmissionMarked ==
    ASSUME QInv, AdmitWaiting
    PROVE  Marked' /\ TokenOwnerRuns'
PROOF
<1>1. TypeOK /\ Queued
  BY DEF QInv, Shape
<1>2. CASE EndAdmission
  BY <1>2, QuietMarked DEF EndAdmission, request
<1>3. CASE DropExpired \/ AdmitReader \/ AdmitWriter
  <2>1. /\ pump \in Objs /\ obj[pump].queue # <<>>
        /\ UNCHANGED <<depth, blocked, block>>
        /\ \E w \in {"admitted", "rejected"} : pc' = [pc EXCEPT ![Waiter] = w]
    BY <1>1, <1>3 DEF DropExpired, AdmitReader, AdmitWriter, request, TypeOK
  <2>2. obj[pump].queue \in Seq(Clients)
    BY <1>1, <2>1 DEF TypeOK, LockStates
  <2>3. 1 \in 1 .. Len(obj[pump].queue) /\ Waiter = obj[pump].queue[1]
    BY <2>1, <2>2, WithoutTail DEF Waiter
  <2>4. pc[Waiter] = "waiting"
    BY <1>1, <2>1, <2>3 DEF Queued
  <2>5. \A d \in Clients : /\ pc[d] = "running" => pc'[d] = "running"
                           /\ pc'[d] \in {"waiting", "admitted"} => pc[d] \in {"waiting", "admitted"}
    BY <1>1, <2>1, <2>4 DEF TypeOK
  <2> QED BY <2>1, <2>5, QuietMarked
<1> QED BY <1>2, <1>3 DEF AdmitWaiting

LEMMA ClientMarked ==
    ASSUME QInv, NEW c \in Clients, ClientStep(c)
    PROVE  Marked' /\ TokenOwnerRuns'
PROOF
<1>1. TypeOK /\ Placed /\ Marked /\ TokenOwnerRuns
  BY DEF QInv, Shape
<1>2. CASE Submit(c) \/ EnterBoundary(c) \/ ResumeNextLock(c)
  BY <1>2, EnteringMarked
<1>3. CASE LeaveBoundary(c) \/ Unwind(c) \/ ResumeRefused(c) \/ ResumeRejected(c)
  <2>1. PopLevel(c) /\ UNCHANGED block
    BY <1>3 DEF LeaveBoundary, Unwind, ResumeRefused, ResumeRejected, ReleaseTop
  <2>2. pc[c] # "idle" /\ (pc[c] = "running" => InBoundary(c))
    BY <1>3 DEF LeaveBoundary, Unwind, ResumeRefused, ResumeRejected
  <2> QED BY <2>1, <2>2, PopMarked
<1>4. CASE TimerFires(c) \/ (OnAbort(c) /\ pc[c] = "waiting")
  <2>1. /\ pc[c] = "waiting" /\ pc' = [pc EXCEPT ![c] = "rejected"]
        /\ UNCHANGED <<depth, blocked, block>>
    BY <1>4 DEF TimerFires, OnAbort, Withdraw, request
  <2>2. \A d \in Clients : /\ pc[d] = "running" => pc'[d] = "running"
                           /\ pc'[d] \in {"waiting", "admitted"} => pc[d] \in {"waiting", "admitted"}
    BY <1>1, <2>1 DEF TypeOK
  <2> QED BY <2>1, <2>2, QuietMarked
<1>5. CASE \/ RefuseAborted(c) \/ Abort(c) \/ Expire(c)
           \/ OnAbort(c) /\ pc[c] # "waiting"
  <2>1. UNCHANGED <<depth, blocked, block, pc>>
    BY <1>5 DEF RefuseAborted, Abort, Expire, OnAbort, request
  <2> QED BY <2>1, QuietMarked
<1>6. CASE ResumeRun(c)
  <2>1. /\ pc[c] = "admitted" /\ pc' = [pc EXCEPT ![c] = "running"]
        /\ UNCHANGED <<depth, blocked, block>>
    BY <1>6 DEF ResumeRun, request
  <2>2. \A d \in Clients : /\ pc[d] = "running" => pc'[d] = "running"
                           /\ pc'[d] \in {"waiting", "admitted"} => pc[d] \in {"waiting", "admitted"}
    BY <1>1, <2>1 DEF TypeOK
  <2> QED BY <2>1, <2>2, QuietMarked
<1>7. CASE WatchdogQuarantine(c)
  <2>1. RaiseBlock(c) /\ UNCHANGED <<depth, pc>> /\ pc[c] = "running"
    BY <1>7 DEF WatchdogQuarantine
  <2> QED BY <2>1, RaiseMarked
<1>8. CASE Finish(c)
  <2>1. pc' = [pc EXCEPT ![c] = "unwinding"] /\ UNCHANGED depth
    BY <1>8 DEF Finish, FinishSafely, FinishInDoubt, FinishUnconfirmed, Finishing
  <2>2. \A d \in Clients : pc'[d] = pc[d] \/ (d = c /\ pc'[d] = "unwinding")
    BY <1>1, <2>1 DEF TypeOK
  <2>3. c \notin {"none", "unowned", "recovery"} /\ "unowned" \notin Clients /\ "none" \notin Clients
    BY OwnersAssumption DEF OwnersAssumption
  <2>4. CASE FinishUnconfirmed(c)
    <3>1. RaiseBlock("unowned")
      BY <2>4 DEF FinishUnconfirmed
    <3> QED BY <3>1, <2>1, <2>2, <2>3, RaiseMarked
  <2>5. CASE FinishSafely(c) \/ FinishInDoubt(c)
    <3>1. /\ UNCHANGED blocked /\ block' # c
          /\ block' = block \/ (block = c /\ block' \in {"none", "unowned"})
      BY <2>3, <2>5 DEF FinishSafely, FinishInDoubt
    <3>2. \A d \in Clients : BlockSignalled(d)' => BlockSignalled(d)
      BY <2>1, <2>2 DEF BlockSignalled, InBoundary
    <3>3. Marked'
      BY <3>1, <3>2, <2>3, <1>1 DEF Marked
    <3>4. TokenOwnerRuns'
      BY <3>1, <2>2, <2>3, <1>1 DEF TokenOwnerRuns
    <3> QED BY <3>3, <3>4
  <2> QED BY <1>8, <2>4, <2>5 DEF Finish
<1> QED BY <1>2, <1>3, <1>4, <1>5, <1>6, <1>7, <1>8 DEF ClientStep, Resumption

LEMMA NextQInv == QInv /\ [Next]_vars => QInv'
PROOF
<1> SUFFICES ASSUME QInv, [Next]_vars PROVE QInv'
  OBVIOUS
<1>1. Shape'
  BY NextShape DEF QInv
<1>2. Marked' /\ TokenOwnerRuns'
  <2>1. CASE UNCHANGED vars
    BY <2>1, QuietMarked DEF vars
  <2>2. CASE RecoveryQuarantine
    <3>1. RaiseBlock("recovery") /\ UNCHANGED <<depth, pc>> /\ "recovery" \notin Clients
      BY <2>2, OwnersAssumption DEF RecoveryQuarantine, OwnersAssumption
    <3> QED BY <3>1, RaiseMarked
  <2>3. CASE RecoveryClear
    <3>1. block' = "none" /\ "none" \notin Clients
      BY <2>3, OwnersAssumption DEF RecoveryClear, OwnersAssumption
    <3> QED BY <3>1 DEF Marked, TokenOwnerRuns
  <2> QED BY <2>1, <2>2, <2>3, AdmissionMarked, ClientMarked DEF Next
<1> QED BY <1>1, <1>2 DEF QInv

LEMMA AlwaysQInv == Spec => []QInv
PROOF
<1>1. Init => QInv
  <2>1. "none" \notin Clients
    BY OwnersAssumption DEF OwnersAssumption
  <2> QED BY <2>1, InitShape DEF Init, QInv, Marked, TokenOwnerRuns
<1> QED BY <1>1, NextQInv, PTL DEF Spec

(* A quarantine that carries a token can be lifted by it: the operation    *)
(* that raised it has not settled.                                         *)
THEOREM TokensAreLive == Spec => []TokenOwnerRuns
PROOF
<1>1. QInv => TokenOwnerRuns
  BY DEF QInv
<1> QED BY <1>1, AlwaysQInv, PTL

(* A step in which an operation, or the body of a boundary, starts is a    *)
(* resumption that was not refused.                                        *)
LEMMA OnlyResumeRunStarts ==
    ASSUME Shape, Next, NEW c \in Clients, Starts(c)
    PROVE  ~Refused(c) /\ pc[c] = "admitted"
PROOF
<1>1. TypeOK
  BY DEF Shape
<1>2. pc[c] = "admitted" /\ pc'[c] = "running" /\ depth'[c] = depth[c]
  BY DEF Starts
<1>3. CASE AdmitWaiting
  <2>1. \A d \in Clients : pc'[d] = pc[d] \/ pc'[d] \in {"admitted", "rejected"}
    BY <1>1, <1>3 DEF AdmitWaiting, DropExpired, AdmitReader, AdmitWriter,
                      EndAdmission, TypeOK
  <2> QED BY <1>2, <2>1
<1>4. ASSUME NEW d \in Clients, ClientStep(d) PROVE ~Refused(c)
  <2>1. CASE Submit(d) \/ EnterBoundary(d) \/ ResumeNextLock(d)
    <3>1. pc' = [pc EXCEPT ![d] = "waiting"]
      BY <2>1 DEF Submit, EnterBoundary, ResumeNextLock, EnterQueue
    <3> QED BY <3>1, <1>1, <1>2 DEF TypeOK
  <2>2. CASE LeaveBoundary(d) \/ Unwind(d) \/ ResumeRefused(d) \/ ResumeRejected(d)
    <3>1. PopLevel(d) /\ pc[d] # "idle"
      BY <2>2 DEF LeaveBoundary, Unwind, ResumeRefused, ResumeRejected, ReleaseTop
    <3>2. d = c => depth'[c] # depth[c]
      BY <3>1, <1>1, PopEffect
    <3>3. d # c => pc'[c] = pc[c]
      BY <3>1, <1>1, PopEffect
    <3> QED BY <3>2, <3>3, <1>2
  <2>3. CASE RefuseAborted(d) \/ Abort(d) \/ OnAbort(d) \/ Expire(d) \/ TimerFires(d)
             \/ WatchdogQuarantine(d)
    <3>1. UNCHANGED pc \/ pc' = [pc EXCEPT ![d] = "rejected"]
      BY <2>3 DEF RefuseAborted, Abort, OnAbort, Expire, TimerFires, WatchdogQuarantine,
                  Withdraw
    <3> QED BY <3>1, <1>1, <1>2 DEF TypeOK
  <2>4. CASE Finish(d)
    <3>1. pc' = [pc EXCEPT ![d] = "unwinding"]
      BY <2>4 DEF Finish, FinishSafely, FinishInDoubt, FinishUnconfirmed, Finishing
    <3> QED BY <3>1, <1>1, <1>2 DEF TypeOK
  <2>5. CASE ResumeRun(d)
    <3>1. d = c
      BY <2>5, <1>1, <1>2 DEF ResumeRun, TypeOK
    <3> QED BY <2>5, <3>1 DEF ResumeRun
  <2> QED BY <1>4, <2>1, <2>2, <2>3, <2>4, <2>5 DEF ClientStep, Resumption
<1>5. CASE RecoveryQuarantine \/ RecoveryClear
  BY <1>2, <1>5 DEF RecoveryQuarantine, RecoveryClear
<1> QED BY <1>2, <1>3, <1>4, <1>5 DEF Next

(* No mutation starts under a quarantine, whatever the lock plans and      *)
(* however many clients were queued when it was raised.                    *)
THEOREM NoneStartsBlocked == Spec => NoMutationStartsBlocked
PROOF
<1> DEFINE A == \A c \in Clients :
                  Starts(c) /\ (c \in Signalled \/ InBoundary(c)) => block = "none"
<1>1. QInv /\ Next => A
  BY OnlyResumeRunStarts, NotRefused DEF QInv
<1>2. QInv /\ [Next]_vars => [A]_vars
  BY <1>1
<1>3. Spec => [][A]_vars
  BY <1>2, AlwaysQInv, PTL DEF Spec
<1> QED BY <1>3 DEF NoMutationStartsBlocked

(* What a quarantine caught in the queue never runs, even when it is       *)
(* lifted before the call resumes.                                         *)
THEOREM CaughtEndsUnrun == Spec => CaughtNeverStarts
PROOF
<1> DEFINE A == \A c \in Clients : blocked[c] /\ pc[c] # "running" => ~Starts(c)
<1>1. Shape /\ Next => A
  BY OnlyResumeRunStarts DEF Refused, Aborted
<1>2. Shape /\ [Next]_vars => [A]_vars
  BY <1>1
<1>3. Spec => [][A]_vars
  BY <1>2, AlwaysShape, PTL DEF Spec
<1> QED BY <1>3 DEF CaughtNeverStarts
=============================================================================
