----------------------- MODULE ResourceScheduler_proof -----------------------
(***************************************************************************)
(* Proofs about ResourceScheduler and ResourceTurns: types, the accounts   *)
(* of slots and queues, that only capacity delays a ticket, that owners    *)
(* are served first come first served and take turns, and that each step   *)
(* is one of the all-or-nothing pool.                                      *)
(***************************************************************************)
EXTENDS ResourceTurns, FiniteSetTheorems, SequenceTheorems, WellFoundedInduction, TLAPS

(* Among finitely many there is one with the greatest number: one whose    *)
(* set of those with a greater number is least for inclusion.              *)
LEMMA Greatest ==
    ASSUME NEW S, IsFiniteSet(S), S # {}, NEW f \in [S -> Int]
    PROVE  \E x \in S : \A y \in S : f[y] <= f[x]
PROOF
<1> DEFINE Above(x) == {z \in S : f[z] > f[x]}
           T == {Above(x) : x \in S}
<1>1. T \subseteq FiniteSubsetsOf(S) /\ T # {}
  <2>1. ASSUME NEW x \in S PROVE Above(x) \in FiniteSubsetsOf(S)
    <3>1. Above(x) \in SUBSET S
      OBVIOUS
    <3> HIDE DEF Above
    <3> QED BY <3>1, FS_Subset DEF FiniteSubsetsOf
  <2> HIDE DEF Above
  <2> QED BY <2>1
<1>2. IsWellFoundedOn(StrictSubsetOrdering(S), FiniteSubsetsOf(S))
  BY FS_StrictSubsetOrderingWellFounded
<1>3. PICK t \in T : \A u \in T : ~(<<u, t>> \in StrictSubsetOrdering(S))
  <2> HIDE DEF T
  <2> QED BY <1>1, <1>2, WFMin
<1>4. PICK x \in S : t = Above(x)
  BY <1>3
<1>5. ASSUME NEW y \in S, f[y] > f[x] PROVE FALSE
  <2>1. Above(y) \subseteq Above(x)
    BY <1>5
  <2>2. y \in Above(x) /\ y \notin Above(y)
    BY <1>5
  <2>3. Above(y) \in SUBSET S /\ Above(x) \in SUBSET S
    OBVIOUS
  <2>4. Above(y) # Above(x)
    <3> HIDE DEF Above
    <3> QED BY <2>2
  <2> HIDE DEF Above
  <2>5. <<Above(y), Above(x)>> \in StrictSubsetOrdering(S)
    BY <2>1, <2>3, <2>4 DEF StrictSubsetOrdering
  <2> QED BY <2>5, <1>3, <1>4
<1> QED BY <1>5

(* Induction up to n over a set: what 0 has and each number passes on to   *)
(* the next, all have.                                                     *)
LEMMA UpTo ==
    ASSUME NEW n \in Nat, NEW P, 0 \in P, \A i \in 1 .. n : i - 1 \in P => i \in P
    PROVE  0 .. n \subseteq P
PROOF
<1> DEFINE B == {i \in 0 .. n : i \notin P}
           f == [i \in B |-> 0 - i]
<1> SUFFICES ASSUME B # {} PROVE FALSE
  OBVIOUS
<1>1. IsFiniteSet(B)
  <2>1. IsFiniteSet(0 .. n)
    BY FS_Interval
  <2> QED BY <2>1, FS_Subset
<1>2. f \in [B -> Int]
  OBVIOUS
<1>3. PICK b \in B : \A y \in B : f[y] <= f[b]
  <2> HIDE DEF B, f
  <2> QED BY <1>1, <1>2, Greatest
<1>4. b \in 1 .. n /\ b - 1 \notin B
  <2>1. b \in 1 .. n
    OBVIOUS
  <2>2. ASSUME b - 1 \in B PROVE FALSE
    BY <1>3, <2>1, <2>2
  <2> QED BY <2>1, <2>2
<1> QED BY <1>4

-----------------------------------------------------------------------------
(* f lists the results of going through the first n members of s.          *)
IsKept(f, s, S, n) ==
    f = [i \in 0 .. n |-> IF i = 0 THEN <<>>
                          ELSE IF s[i] \in S THEN f[i - 1] ELSE Append(f[i - 1], s[i])]

LEMMA KeptExists ==
    ASSUME NEW s, NEW S, NEW n \in Nat
    PROVE  \E f : IsKept(f, s, S, n)
PROOF
<1> DEFINE P == {k \in 0 .. n : \E f : IsKept(f, s, S, k)}
<1>1. 0 \in P
  <2>1. IsKept([i \in 0 .. 0 |-> <<>>], s, S, 0)
    BY DEF IsKept
  <2> QED BY <2>1
<1>2. ASSUME NEW k \in 1 .. n, k - 1 \in P PROVE k \in P
  <2>1. PICK f : IsKept(f, s, S, k - 1)
    BY <1>2
  <2> DEFINE g == [i \in 0 .. k |-> IF i < k THEN f[i]
                       ELSE IF s[k] \in S THEN f[k - 1] ELSE Append(f[k - 1], s[k])]
             h == [i \in 0 .. k |-> IF i = 0 THEN <<>>
                       ELSE IF s[i] \in S THEN g[i - 1] ELSE Append(g[i - 1], s[i])]
  <2>2. ASSUME NEW i \in 0 .. k PROVE g[i] = h[i]
    <3>1. CASE i = k
      BY <3>1
    <3>2. CASE i < k
      <4>1. i \in 0 .. k - 1 /\ g[i] = f[i]
        BY <3>2
      <4>2. f[i] = IF i = 0 THEN <<>>
                   ELSE IF s[i] \in S THEN f[i - 1] ELSE Append(f[i - 1], s[i])
        BY <2>1, <4>1 DEF IsKept
      <4>3. i # 0 => g[i - 1] = f[i - 1]
        BY <4>1
      <4> QED BY <4>1, <4>2, <4>3
    <3> QED BY <3>1, <3>2
  <2>3. g = h
    BY <2>2
  <2>4. IsKept(g, s, S, k)
    BY <2>3 DEF IsKept
  <2> HIDE DEF g
  <2> QED BY <2>4
<1> HIDE DEF P
<1>3. 0 .. n \subseteq P
  BY <1>1, <1>2, UpTo
<1> QED BY <1>3 DEF P

LEMMA WithoutIsKept ==
    ASSUME NEW s, NEW S, Len(s) \in Nat
    PROVE  \E f : IsKept(f, s, S, Len(s)) /\ Without(s, S) = f[Len(s)]
PROOF
<1> DEFINE f == CHOOSE f : IsKept(f, s, S, Len(s))
<1>1. Without(s, S) = f[Len(s)]
  BY Zenon DEF Without, IsKept
<1>2. IsKept(f, s, S, Len(s))
  BY KeptExists, Zenon
<1> QED BY <1>1, <1>2

(* t is s with some members left out, in the order of s: g tells where they were. *)
Embeds(g, t, s, S, n) ==
    /\ g \in [1 .. Len(t) -> 1 .. n]
    /\ \A i \in 1 .. Len(t) : t[i] = s[g[i]] /\ t[i] \notin S
    /\ \A i, j \in 1 .. Len(t) : i < j => g[i] < g[j]
    /\ \A k \in 1 .. n : s[k] \notin S => \E i \in 1 .. Len(t) : t[i] = s[k]

LEMMA WithoutEmbeds ==
    ASSUME NEW T, NEW s \in Seq(T), NEW S
    PROVE  /\ Without(s, S) \in Seq(T)
           /\ \E g : Embeds(g, Without(s, S), s, S, Len(s))
PROOF
<1> DEFINE n == Len(s)
<1>0. n \in Nat /\ \A i \in 1 .. n : s[i] \in T
  OBVIOUS
<1>1. PICK f : IsKept(f, s, S, n) /\ Without(s, S) = f[n]
  BY <1>0, WithoutIsKept
<1>2. /\ f[0] = <<>>
      /\ \A i \in 1 .. n : f[i] = IF s[i] \in S THEN f[i - 1] ELSE Append(f[i - 1], s[i])
  <2>1. 0 \in 0 .. n /\ \A i \in 1 .. n : i \in 0 .. n /\ i # 0
    BY <1>0
  <2>2. \A i \in 0 .. n : f[i] = IF i = 0 THEN <<>>
                               ELSE IF s[i] \in S THEN f[i - 1] ELSE Append(f[i - 1], s[i])
    BY <1>1, Zenon DEF IsKept
  <2> QED BY <2>1, <2>2
<1> DEFINE P == {k \in 0 .. n : f[k] \in Seq(T) /\ \E g : Embeds(g, f[k], s, S, k)}
<1>3. 0 \in P
  <2>1. f[0] \in Seq(T) /\ Len(f[0]) = 0
    BY <1>2
  <2>2. Embeds([i \in 1 .. 0 |-> 1], f[0], s, S, 0)
    BY <2>1 DEF Embeds
  <2> QED BY <1>0, <2>1, <2>2
<1>4. ASSUME NEW k \in 1 .. n, k - 1 \in P PROVE k \in P
  <2>1. PICK g : Embeds(g, f[k - 1], s, S, k - 1)
    BY <1>4
  <2>2. f[k - 1] \in Seq(T) /\ s[k] \in T
    BY <1>4, <1>0
  <2> DEFINE t == f[k - 1]
  <2>3. CASE s[k] \in S
    <3>1. f[k] = f[k - 1]
      BY <1>2, <2>3
    <3>2. Embeds(g, f[k], s, S, k)
      BY <2>1, <2>2, <2>3, <3>1 DEF Embeds
    <3> QED BY <2>2, <3>1, <3>2
  <2>4. CASE s[k] \notin S
    <3>1. f[k] = Append(t, s[k])
      BY <1>2, <2>4
    <3>2. /\ f[k] \in Seq(T) /\ Len(t) \in Nat /\ Len(f[k]) = Len(t) + 1
          /\ f[k][Len(t) + 1] = s[k]
          /\ \A i \in 1 .. Len(t) : f[k][i] = t[i]
      BY <2>2, <3>1
    <3> DEFINE u == f[k]
               h == [i \in 1 .. Len(u) |-> IF i <= Len(t) THEN g[i] ELSE k]
    <3> HIDE DEF t, u
    <3>3. /\ g \in [1 .. Len(t) -> 1 .. k - 1]
          /\ \A i \in 1 .. Len(t) : t[i] = s[g[i]] /\ t[i] \notin S
          /\ \A i, j \in 1 .. Len(t) : i < j => g[i] < g[j]
          /\ \A m \in 1 .. k - 1 : s[m] \notin S => \E i \in 1 .. Len(t) : t[i] = s[m]
      BY <2>1 DEF Embeds, t
    <3>4. /\ u \in Seq(T) /\ Len(t) \in Nat /\ Len(u) = Len(t) + 1
          /\ u[Len(t) + 1] = s[k] /\ \A i \in 1 .. Len(t) : u[i] = t[i]
      BY <3>2 DEF u
    <3>5. h \in [1 .. Len(u) -> 1 .. k]
      BY <3>3, <3>4
    <3>6. \A i \in 1 .. Len(u) : u[i] = s[h[i]] /\ u[i] \notin S
      BY <3>3, <3>4, <2>4
    <3>7. \A i, j \in 1 .. Len(u) : i < j => h[i] < h[j]
      BY <3>3, <3>4
    <3>8. \A m \in 1 .. k : s[m] \notin S => \E i \in 1 .. Len(u) : u[i] = s[m]
      <4> SUFFICES ASSUME NEW m \in 1 .. k, s[m] \notin S
                   PROVE  \E i \in 1 .. Len(u) : u[i] = s[m]
        OBVIOUS
      <4>1. CASE m = k
        BY <4>1, <3>4
      <4>2. CASE m # k
        BY <4>2, <3>3, <3>4
      <4> QED BY <4>1, <4>2
    <3>9. Embeds(h, u, s, S, k)
      <4> HIDE DEF h
      <4> QED BY <3>5, <3>6, <3>7, <3>8 DEF Embeds
    <3> HIDE DEF h
    <3> QED BY <3>4, <3>9 DEF u
  <2> QED BY <2>3, <2>4
<1> HIDE DEF P
<1>5. 0 .. n \subseteq P
  BY <1>0, <1>3, <1>4, UpTo
<1>6. n \in P
  BY <1>0, <1>5
<1> QED BY <1>1, <1>6 DEF P

Precedes(a, b, s) == \E i, j \in 1 .. Len(s) : i < j /\ s[i] = a /\ s[j] = b

(* What is left without S: the others, each as often as before, in the same order. *)
LEMMA WithoutProperties ==
    ASSUME NEW T, NEW s \in Seq(T), NEW S
    PROVE  /\ Without(s, S) \in Seq(T)
           /\ Range(Without(s, S)) = Range(s) \ S
           /\ IsInjective(s) => IsInjective(Without(s, S))
           /\ \A a, b : Precedes(a, b, Without(s, S)) => Precedes(a, b, s)
PROOF
<1> DEFINE t == Without(s, S)
           n == Len(s)
<1>1. PICK g : Embeds(g, t, s, S, n)
  BY WithoutEmbeds
<1>2. t \in Seq(T)
  BY WithoutEmbeds
<1> HIDE DEF t
<1>3. /\ g \in [1 .. Len(t) -> 1 .. n]
      /\ \A i \in 1 .. Len(t) : t[i] = s[g[i]] /\ t[i] \notin S
      /\ \A i, j \in 1 .. Len(t) : i < j => g[i] < g[j]
      /\ \A k \in 1 .. n : s[k] \notin S => \E i \in 1 .. Len(t) : t[i] = s[k]
  BY <1>1 DEF Embeds
<1>4. DOMAIN t = 1 .. Len(t) /\ DOMAIN s = 1 .. n /\ Len(t) \in Nat /\ n \in Nat
  BY <1>2
<1>5. Range(t) = Range(s) \ S
  <2>1. Range(t) = {t[i] : i \in 1 .. Len(t)} /\ Range(s) = {s[i] : i \in 1 .. n}
    BY <1>4, Zenon DEF Range
  <2>2. ASSUME NEW x \in Range(t) PROVE x \in Range(s) \ S
    <3>1. PICK i \in 1 .. Len(t) : x = t[i]
      BY <2>1, <2>2
    <3>2. g[i] \in 1 .. n /\ x = s[g[i]] /\ x \notin S
      BY <1>3, <3>1
    <3> QED BY <2>1, <3>2
  <2>3. ASSUME NEW x \in Range(s) \ S PROVE x \in Range(t)
    <3>1. PICK k \in 1 .. n : x = s[k]
      BY <2>1, <2>3
    <3>2. PICK i \in 1 .. Len(t) : t[i] = s[k]
      BY <1>3, <2>3, <3>1
    <3> QED BY <2>1, <3>1, <3>2
  <2> QED BY <2>2, <2>3
<1>6. IsInjective(s) => IsInjective(t)
  <2> SUFFICES ASSUME IsInjective(s), NEW a \in 1 .. Len(t), NEW b \in 1 .. Len(t),
                      t[a] = t[b], a # b
               PROVE  FALSE
    BY <1>4, Zenon DEF IsInjective
  <2>1. g[a] = g[b]
    <3>1. g[a] \in DOMAIN s /\ g[b] \in DOMAIN s /\ s[g[a]] = s[g[b]]
      BY <1>3, <1>4
    <3> QED BY <3>1, Zenon DEF IsInjective
  <2>2. g[a] \in Int /\ g[b] \in Int /\ (a < b \/ b < a)
    BY <1>3, <1>4
  <2> QED BY <1>3, <2>1, <2>2
<1>7. \A a, b : Precedes(a, b, t) => Precedes(a, b, s)
  <2> SUFFICES ASSUME NEW a, NEW b, NEW i \in 1 .. Len(t), NEW j \in 1 .. Len(t),
                      i < j, t[i] = a, t[j] = b
               PROVE  \E k, l \in 1 .. n : k < l /\ s[k] = a /\ s[l] = b
    BY Zenon DEF Precedes
  <2>1. g[i] \in 1 .. n /\ g[j] \in 1 .. n /\ g[i] < g[j] /\ s[g[i]] = a /\ s[g[j]] = b
    BY <1>3
  <2> QED BY <2>1, Zenon
<1> QED BY <1>2, <1>5, <1>6, <1>7 DEF t

-----------------------------------------------------------------------------
LEMMA LaneFacts ==
    /\ Len(LaneOrder) \in Nat /\ Len(LaneOrder) >= 1
    /\ \A i \in 1 .. Len(LaneOrder) : LaneOrder[i] \in Lanes
    /\ \A l \in Lanes : \E i \in 1 .. Len(LaneOrder) : LaneOrder[i] = l
    /\ \A l \in Lanes : Limit[l] \in Nat
PROOF
<1>1. LaneOrder \in Seq(Lanes) /\ LaneOrder # <<>> /\ Limit \in [Lanes -> Nat \ {0}]
  BY LanesAssumption DEF LanesAssumption
<1>2. Lanes = {LaneOrder[i] : i \in 1 .. Len(LaneOrder)}
  <2>1. DOMAIN LaneOrder = 1 .. Len(LaneOrder)
    BY <1>1
  <2> QED BY <2>1, Zenon DEF Lanes, Range
<1> HIDE DEF Lanes
<1> QED BY <1>1, <1>2

LEMMA CallerFacts ==
    \A c \in Callers :
        /\ Wanted(c) \subseteq Lanes /\ Primary(c) \in Wanted(c) /\ Primary(c) \in Lanes
        /\ Owner[c] \in Owners /\ Signal[c] \in Signals
PROOF
<1> SUFFICES ASSUME NEW c \in Callers
             PROVE  /\ Wanted(c) \subseteq Lanes /\ Primary(c) \in Wanted(c)
                    /\ Owner[c] \in Owners /\ Signal[c] \in Signals
  BY Zenon
<1>1. /\ Resources[c] \in Seq(Lanes) /\ Resources[c] # <<>>
      /\ Owner[c] \in Owners /\ Signal[c] \in Signals
  BY CallersAssumption DEF CallersAssumption
<1>2. Wanted(c) = {Resources[c][i] : i \in 1 .. Len(Resources[c])}
  <2>1. DOMAIN Resources[c] = 1 .. Len(Resources[c])
    BY <1>1
  <2> QED BY <2>1, Zenon DEF Wanted, Range
<1>3. Len(Resources[c]) \in Nat \ {0}
  BY <1>1, EmptySeq
<1>4. \A i \in 1 .. Len(Resources[c]) : Resources[c][i] \in Lanes
  BY <1>1, ElementOfSeq
<1>5. Resources[c][1] \in Wanted(c)
  BY <1>2, <1>3
<1> QED BY <1>1, <1>2, <1>4, <1>5 DEF Primary

(* The members of a sequence, by position. *)
LEMMA RangeFacts ==
    ASSUME NEW T, NEW s \in Seq(T)
    PROVE  /\ DOMAIN s = 1 .. Len(s) /\ Len(s) \in Nat
           /\ Range(s) = {s[i] : i \in 1 .. Len(s)} /\ Range(s) \subseteq T
           /\ (Range(s) = {}) <=> (s = <<>>)
           /\ s # <<>> => (Len(s) >= 1 /\ Head(s) = s[1] /\ s[1] \in Range(s))
PROOF
<1>1. DOMAIN s = 1 .. Len(s) /\ Len(s) \in Nat /\ \A i \in 1 .. Len(s) : s[i] \in T
  BY LenProperties, ElementOfSeq
<1>2. Range(s) = {s[i] : i \in 1 .. Len(s)}
  BY <1>1, Zenon DEF Range
<1>3. s # <<>> => Len(s) \in Nat \ {0}
  BY EmptySeq
<1>4. s = <<>> => Len(s) = 0
  OBVIOUS
<1>5. s # <<>> => Head(s) = s[1]
  BY <1>1
<1> HIDE DEF Range
<1>6. s # <<>> => 1 \in 1 .. Len(s)
  BY <1>3
<1>7. s # <<>> => s[1] \in Range(s)
  BY <1>2, <1>6
<1>8. s = <<>> => Range(s) = {}
  <2> SUFFICES ASSUME s = <<>>, NEW x \in Range(s) PROVE FALSE
    OBVIOUS
  <2>1. PICK i \in 1 .. Len(s) : x = s[i]
    BY <1>2
  <2> QED BY <1>4, <2>1
<1>9. s # <<>> => Range(s) # {}
  BY <1>7
<1>10. s # <<>> => Len(s) >= 1
  BY <1>3
<1>11. Range(s) \subseteq T
  BY <1>1, <1>2
<1> QED BY <1>1, <1>2, <1>5, <1>7, <1>8, <1>9, <1>10, <1>11, Zenon

LEMMA NonEmpty ==
    ASSUME NEW T, NEW s \in Seq(T), s # <<>>
    PROVE  Range(s) # {} /\ 1 \in 1 .. Len(s) /\ Head(s) = s[1] /\ Head(s) \in Range(s)
  BY RangeFacts

LEMMA AppendFacts ==
    ASSUME NEW T, NEW s \in Seq(T), NEW x \in T
    PROVE  /\ Append(s, x) \in Seq(T) /\ Range(Append(s, x)) = Range(s) \union {x}
           /\ IsInjective(s) /\ x \notin Range(s) => IsInjective(Append(s, x))
           /\ Append(s, x) # <<>>
           /\ \A a, b : Precedes(a, b, Append(s, x)) /\ b # x => Precedes(a, b, s)
PROOF
<1> DEFINE t == Append(s, x)
<1>1. /\ t \in Seq(T) /\ Len(s) \in Nat /\ Len(t) = Len(s) + 1 /\ t[Len(s) + 1] = x
      /\ \A i \in 1 .. Len(s) : t[i] = s[i]
  OBVIOUS
<1> HIDE DEF t
<1>2. Range(t) = {t[i] : i \in 1 .. Len(t)} /\ DOMAIN t = 1 .. Len(t)
  BY <1>1, RangeFacts
<1>3. Range(s) = {s[i] : i \in 1 .. Len(s)} /\ DOMAIN s = 1 .. Len(s)
  BY RangeFacts
<1>4. Range(t) = Range(s) \union {x}
  <2>1. ASSUME NEW i \in 1 .. Len(t) PROVE t[i] \in Range(s) \union {x}
    <3>1. CASE i = Len(s) + 1
      BY <1>1, <3>1
    <3>2. CASE i # Len(s) + 1
      <4>1. i \in 1 .. Len(s) /\ t[i] = s[i]
        BY <1>1, <3>2
      <4> QED BY <1>3, <4>1
    <3> QED BY <3>1, <3>2
  <2>2. ASSUME NEW i \in 1 .. Len(s) PROVE s[i] \in Range(t)
    <3>1. i \in 1 .. Len(t) /\ t[i] = s[i]
      BY <1>1
    <3> QED BY <1>2, <3>1
  <2>3. x \in Range(t)
    <3>1. Len(s) + 1 \in 1 .. Len(t)
      BY <1>1
    <3> QED BY <1>1, <1>2, <3>1
  <2> QED BY <1>2, <1>3, <2>1, <2>2, <2>3
<1>5. ASSUME IsInjective(s), x \notin Range(s) PROVE IsInjective(t)
  <2> SUFFICES ASSUME NEW a \in 1 .. Len(t), NEW b \in 1 .. Len(t), t[a] = t[b]
               PROVE  a = b
    BY <1>2, Zenon DEF IsInjective
  <2>1. \A i, j \in 1 .. Len(s) : s[i] = s[j] => i = j
    BY <1>3, <1>5, Zenon DEF IsInjective
  <2>2. \A i \in 1 .. Len(s) : s[i] # x
    BY <1>3, <1>5
  <2> QED BY <1>1, <2>1, <2>2
<1>6. ASSUME NEW a, NEW b, Precedes(a, b, t), b # x PROVE Precedes(a, b, s)
  <2>1. PICK i \in 1 .. Len(t), j \in 1 .. Len(t) : i < j /\ t[i] = a /\ t[j] = b
    BY <1>6 DEF Precedes
  <2>2. j # Len(s) + 1
    BY <1>1, <1>6, <2>1
  <2>3. i \in 1 .. Len(s) /\ j \in 1 .. Len(s)
    BY <1>1, <2>1, <2>2
  <2> QED BY <1>1, <2>1, <2>3 DEF Precedes
<1>7. t # <<>>
  BY <1>1, EmptySeq
<1> QED BY <1>1, <1>4, <1>5, <1>6, <1>7 DEF t

LEMMA PrecedesIn ==
    ASSUME NEW T, NEW s \in Seq(T), NEW a, NEW b, Precedes(a, b, s)
    PROVE  a \in Range(s) /\ b \in Range(s)
PROOF
<1>1. PICK k \in 1 .. Len(s), l \in 1 .. Len(s) : s[k] = a /\ s[l] = b
  BY DEF Precedes
<1>2. Range(s) = {s[i] : i \in 1 .. Len(s)}
  BY RangeFacts
<1> QED BY <1>1, <1>2

(* Of two members one precedes the other, and where each stands once only one. *)
LEMMA PrecedesTotal ==
    ASSUME NEW T, NEW s \in Seq(T), NEW a \in Range(s), NEW b \in Range(s), a # b
    PROVE  /\ Precedes(a, b, s) \/ Precedes(b, a, s)
           /\ IsInjective(s) => ~(Precedes(a, b, s) /\ Precedes(b, a, s))
PROOF
<1>1. DOMAIN s = 1 .. Len(s) /\ Len(s) \in Nat /\ Range(s) = {s[i] : i \in 1 .. Len(s)}
  BY RangeFacts
<1>2. PICK m \in 1 .. Len(s), n \in 1 .. Len(s) : s[m] = a /\ s[n] = b
  BY <1>1
<1>3. m < n \/ n < m
  BY <1>1, <1>2
<1>4. ASSUME IsInjective(s), Precedes(a, b, s), Precedes(b, a, s) PROVE FALSE
  <2>1. \A k, l \in 1 .. Len(s) : s[k] = s[l] => k = l
    BY <1>1, <1>4, Zenon DEF IsInjective
  <2>2. PICK k \in 1 .. Len(s), l \in 1 .. Len(s) : k < l /\ s[k] = a /\ s[l] = b
    BY <1>4 DEF Precedes
  <2>3. PICK o \in 1 .. Len(s), p \in 1 .. Len(s) : o < p /\ s[o] = b /\ s[p] = a
    BY <1>4 DEF Precedes
  <2>4. k = p /\ l = o
    BY <2>1, <2>2, <2>3
  <2> QED BY <1>1, <2>2, <2>3, <2>4
<1> QED BY <1>2, <1>3, <1>4 DEF Precedes

-----------------------------------------------------------------------------
(* Nobody waits for lanes while holding some. *)
NoneBoth == \A c \in queued : held[c] = {}

(* A listener that has still to run is queued for every aborted ticket. *)
Heard == \A c \in queued : Signal[c] \in aborted => c \in dispatch

Blocked(c) == Rejectable(c) \/ ~Fits(c)

(* Outside pump nothing is left to visit, and nothing could be admitted. *)
Settled ==
    /\ disposed => queued = {} /\ ~pumping
    /\ ~pumping => visit = <<>> /\ \A c \in queued : Blocked(c)

(* The sweep has been at c's owner. *)
Passed(c) ==
    \/ \E i \in 1 .. lane - 1 : LaneOrder[i] = Primary(c)
    \/ LaneOrder[lane] = Primary(c) /\ Owner[c] \notin Range(visit)

(* A sweep without progress leaves behind only tickets that have to wait. *)
Visited == pumping /\ ~progress => \A c \in queued : Passed(c) => Blocked(c)

(* The owners still to be visited are in the lane's order. *)
InTurn ==
    \A i, j \in 1 .. Len(visit) :
        i < j => ~Precedes(visit[j], visit[i], order[LaneOrder[lane]])

(* While a lane is being visited nothing is admitted there. *)
Looked ==
    visit # <<>> =>
        \A c \in queued :
            Primary(c) = LaneOrder[lane] /\ Owner[c] \notin Range(visit) => ~Fits(c)

Base == TypeOK /\ QueuesAgree
Inv  == Base /\ LeasesCounted /\ NoneBoth /\ Heard /\ Settled /\ Visited /\ InTurn /\ Looked

(* Where a ticket stands. *)
LEMMA TicketPlace ==
    ASSUME Base, NEW c \in queued
    PROVE  /\ c \in Callers
           /\ c \in Range(owners[Primary(c)][Owner[c]])
           /\ owners[Primary(c)][Owner[c]] # <<>>
           /\ Owner[c] \in Range(order[Primary(c)])
PROOF
<1>1. c \in Callers /\ Primary(c) \in Lanes /\ Owner[c] \in Owners
  BY CallerFacts DEF Base, TypeOK
<1>2. c \in Range(owners[Primary(c)][Owner[c]])
  BY <1>1 DEF Base, QueuesAgree
<1>3. owners[Primary(c)][Owner[c]] \in Seq(Callers)
  BY <1>1 DEF Base, TypeOK
<1>4. owners[Primary(c)][Owner[c]] # <<>>
  BY <1>2, <1>3, RangeFacts
<1> QED BY <1>1, <1>2, <1>4 DEF Base, QueuesAgree

LEMMA WaitingFinite ==
    ASSUME Base, NEW l \in Lanes, NEW U \in SUBSET waiting[l]
    PROVE  /\ IsFiniteSet(U) /\ Cardinality(U) \in Nat
           /\ IsFiniteSet(waiting[l]) /\ Cardinality(U) <= Cardinality(waiting[l])
           /\ Cardinality(waiting[l]) \in Nat
PROOF
<1>1. waiting[l] \subseteq Callers
  BY DEF Base, TypeOK
<1>2. IsFiniteSet(waiting[l])
  BY <1>1, CallersAssumption, FS_Subset DEF CallersAssumption
<1> QED BY <1>2, FS_Subset, FS_CardinalityType

(* The order o names the owners with tickets in lane l, once each. *)
Lists(o, l) ==
    /\ Range(o[l]) = {w \in Owners : owners[l][w] # <<>>}
    /\ IsInjective(o[l])

LEMMA TakeOutAgrees ==
    ASSUME Base, NEW S \in SUBSET queued, NEW o \in [Lanes -> Seq(Owners)],
           \A l \in Lanes : Lists(o, l), TakeOut(S, o)
    PROVE  /\ queued' \subseteq Callers /\ waiting' \in [Lanes -> SUBSET Callers]
           /\ owners' \in [Lanes -> [Owners -> Seq(Callers)]]
           /\ order' \in [Lanes -> Seq(Owners)] /\ expired' \subseteq queued'
           /\ QueuesAgree'
           /\ \A l \in Lanes : \A a, b : Precedes(a, b, order'[l]) => Precedes(a, b, o[l])
PROOF
<1> DEFINE Gone(l) == {w \in Owners : /\ owners'[l][w] = <<>>
                                      /\ \E c \in S : Primary(c) = l /\ Owner[c] = w}
<1>1. /\ queued' = queued \ S
      /\ expired' = expired \ S
      /\ waiting' = [l \in Lanes |-> waiting[l] \ {c \in S : l \in Wanted(c)}]
      /\ owners' = [l \in Lanes |-> [w \in Owners |-> Without(owners[l][w], S)]]
      /\ order' = [l \in Lanes |-> Without(o[l], Gone(l))]
  BY DEF TakeOut
<1>2. /\ queued \subseteq Callers /\ expired \subseteq queued
      /\ waiting \in [Lanes -> SUBSET Callers]
      /\ owners \in [Lanes -> [Owners -> Seq(Callers)]]
  BY DEF Base, TypeOK
<1>3. ASSUME NEW l \in Lanes, NEW w \in Owners
      PROVE  /\ owners'[l][w] \in Seq(Callers)
             /\ Range(owners'[l][w]) = {c \in queued' : Primary(c) = l /\ Owner[c] = w}
             /\ IsInjective(owners'[l][w])
             /\ owners'[l][w] = <<>> => (owners[l][w] = <<>> \/ w \in Gone(l))
             /\ owners[l][w] = <<>> => owners'[l][w] = <<>>
  <2>1. owners'[l][w] = Without(owners[l][w], S) /\ owners[l][w] \in Seq(Callers)
    BY <1>1, <1>2
  <2>2. /\ Range(owners[l][w]) = {c \in queued : Primary(c) = l /\ Owner[c] = w}
        /\ IsInjective(owners[l][w])
    BY DEF Base, QueuesAgree
  <2>3. /\ owners'[l][w] \in Seq(Callers)
        /\ Range(owners'[l][w]) = Range(owners[l][w]) \ S
        /\ IsInjective(owners'[l][w])
    BY <2>1, <2>2, WithoutProperties
  <2>4. Range(owners'[l][w]) = {c \in queued' : Primary(c) = l /\ Owner[c] = w}
    BY <2>2, <2>3, <1>1
  <2>5. ASSUME owners'[l][w] = <<>>, owners[l][w] # <<>> PROVE w \in Gone(l)
    <3>1. Range(owners'[l][w]) = {}
      <4>1. <<>> \in Seq(Callers)
        OBVIOUS
      <4>2. Range(<<>>) = {}
        BY <4>1, RangeFacts
      <4> QED BY <2>5, <4>2
    <3>4. Range(owners[l][w]) # {}
      BY <2>1, <2>5, NonEmpty
    <3>2. PICK c \in S : c \in Range(owners[l][w])
      BY <2>3, <3>1, <3>4
    <3>3. Primary(c) = l /\ Owner[c] = w
      BY <2>2, <3>2
    <3> QED BY <2>5, <3>3
  <2>6. ASSUME owners[l][w] = <<>> PROVE owners'[l][w] = <<>>
    <3>1. Range(owners[l][w]) = {}
      BY <2>1, <2>6, RangeFacts
    <3>2. Range(owners'[l][w]) = {}
      BY <2>3, <3>1
    <3> QED BY <2>3, <3>2, RangeFacts
  <2> QED BY <2>3, <2>4, <2>5, <2>6
<1>4. owners' \in [Lanes -> [Owners -> Seq(Callers)]]
  <2>1. \A l \in Lanes, w \in Owners : Without(owners[l][w], S) \in Seq(Callers)
    BY <1>2, WithoutProperties
  <2> QED BY <1>1, <2>1
<1>5. ASSUME NEW l \in Lanes
      PROVE  /\ order'[l] \in Seq(Owners)
             /\ Range(order'[l]) = Range(o[l]) \ Gone(l)
             /\ IsInjective(order'[l])
             /\ \A a, b : Precedes(a, b, order'[l]) => Precedes(a, b, o[l])
  <2>1. order'[l] = Without(o[l], Gone(l)) /\ o[l] \in Seq(Owners)
    BY <1>1
  <2>2. IsInjective(o[l])
    BY DEF Lists
  <2> HIDE DEF Gone
  <2> QED BY <2>1, <2>2, WithoutProperties
<1>6. ASSUME NEW l \in Lanes
      PROVE  Range(order'[l]) = {w \in Owners : owners'[l][w] # <<>>}
  <2>1. Range(order'[l]) = {w \in Owners : owners[l][w] # <<>>} \ Gone(l)
    BY <1>5 DEF Lists
  <2>2. \A w \in Owners : w \in Gone(l) => owners'[l][w] = <<>>
    OBVIOUS
  <2> HIDE DEF Gone
  <2> QED BY <1>3, <2>1, <2>2
<1>7. ASSUME NEW l \in Lanes
      PROVE  /\ waiting'[l] = {c \in queued' : l \in Wanted(c)}
             /\ Cardinality(waiting'[l]) <= MaxQueued
             /\ \A w \in Owners : Cardinality({c \in waiting'[l] : Owner[c] = w}) <= MaxQueuedPerOwner
  <2>1. waiting[l] = {c \in queued : l \in Wanted(c)}
    BY DEF Base, QueuesAgree
  <2>2. waiting'[l] = waiting[l] \ {c \in S : l \in Wanted(c)}
    BY <1>1
  <2>3. waiting'[l] = {c \in queued' : l \in Wanted(c)}
    BY <1>1, <2>1, <2>2
  <2>4. MaxQueued \in Nat /\ MaxQueuedPerOwner \in Nat
    BY CallersAssumption DEF CallersAssumption
  <2>5. Cardinality(waiting'[l]) <= MaxQueued
    <3>1. waiting'[l] \in SUBSET waiting[l] /\ Cardinality(waiting[l]) <= MaxQueued
      BY <2>2 DEF Base, QueuesAgree
    <3>2. Cardinality(waiting'[l]) \in Nat /\ Cardinality(waiting[l]) \in Nat
          /\ Cardinality(waiting'[l]) <= Cardinality(waiting[l])
      BY <3>1, WaitingFinite
    <3> QED BY <2>4, <3>1, <3>2
  <2>6. ASSUME NEW w \in Owners
        PROVE  Cardinality({c \in waiting'[l] : Owner[c] = w}) <= MaxQueuedPerOwner
    <3> DEFINE U == {c \in waiting[l] : Owner[c] = w}
               V == {c \in waiting'[l] : Owner[c] = w}
    <3>1. V \in SUBSET U /\ U \in SUBSET waiting[l] /\ Cardinality(U) <= MaxQueuedPerOwner
      BY <2>2 DEF Base, QueuesAgree
    <3> HIDE DEF U, V
    <3>2. IsFiniteSet(U) /\ Cardinality(U) \in Nat
      BY <3>1, WaitingFinite
    <3>3. Cardinality(V) <= Cardinality(U) /\ Cardinality(V) \in Nat
      BY <3>1, <3>2, FS_Subset, FS_CardinalityType
    <3>4. Cardinality(V) <= MaxQueuedPerOwner
      BY <2>4, <3>1, <3>2, <3>3
    <3> QED BY <3>4 DEF V
  <2> QED BY <2>3, <2>5, <2>6
<1>8. QueuesAgree'
  BY <1>3, <1>5, <1>6, <1>7 DEF QueuesAgree
<1>9. order' \in [Lanes -> Seq(Owners)]
  <2>1. \A l \in Lanes : Without(o[l], Gone(l)) \in Seq(Owners)
    <3> HIDE DEF Gone
    <3> QED BY WithoutProperties
  <2> HIDE DEF Gone
  <2> QED BY <1>1, <2>1
<1>10. waiting' \in [Lanes -> SUBSET Callers]
  BY <1>1, <1>2
<1>11. queued' \subseteq Callers /\ expired' \subseteq queued'
  BY <1>1, <1>2
<1> QED BY <1>4, <1>5, <1>8, <1>9, <1>10, <1>11

LEMMA AcquireAgrees ==
    ASSUME Base, NEW c \in Callers, AcquireMany(c)
    PROVE  /\ queued' \subseteq Callers /\ waiting' \in [Lanes -> SUBSET Callers]
           /\ owners' \in [Lanes -> [Owners -> Seq(Callers)]]
           /\ order' \in [Lanes -> Seq(Owners)] /\ expired' \subseteq queued'
           /\ QueuesAgree'
PROOF
<1> DEFINE p == Primary(c)
           w == Owner[c]
<1>1. /\ c \notin queued /\ ~Full(c)
      /\ queued' = queued \union {c} /\ expired' = expired
      /\ waiting' = [l \in Lanes |->
                        IF l \in Wanted(c) THEN waiting[l] \union {c} ELSE waiting[l]]
      /\ owners' = [owners EXCEPT ![p][w] = Append(@, c)]
      /\ order' = IF owners[p][w] = <<>> THEN [order EXCEPT ![p] = Append(@, w)] ELSE order
  BY DEF AcquireMany
<1>2. p \in Lanes /\ w \in Owners /\ p \in Wanted(c) /\ Wanted(c) \subseteq Lanes
  BY CallerFacts
<1>3. /\ queued \subseteq Callers /\ expired \subseteq queued
      /\ waiting \in [Lanes -> SUBSET Callers]
      /\ owners \in [Lanes -> [Owners -> Seq(Callers)]]
      /\ order \in [Lanes -> Seq(Owners)]
  BY DEF Base, TypeOK
<1> HIDE DEF p, w
<1>4. /\ owners[p][w] \in Seq(Callers) /\ order[p] \in Seq(Owners)
      /\ Range(owners[p][w]) = {d \in queued : Primary(d) = p /\ Owner[d] = w}
      /\ IsInjective(owners[p][w])
  BY <1>2, <1>3 DEF Base, QueuesAgree
<1>5. /\ Append(owners[p][w], c) \in Seq(Callers) /\ Append(owners[p][w], c) # <<>>
      /\ Range(Append(owners[p][w], c)) = Range(owners[p][w]) \union {c}
      /\ IsInjective(Append(owners[p][w], c))
  BY <1>1, <1>4, AppendFacts
<1>6. /\ owners' \in [Lanes -> [Owners -> Seq(Callers)]]
      /\ owners'[p][w] = Append(owners[p][w], c)
      /\ \A l \in Lanes, v \in Owners : <<l, v>> # <<p, w>> => owners'[l][v] = owners[l][v]
  BY <1>1, <1>2, <1>3, <1>5
<1>7. ASSUME NEW l \in Lanes, NEW v \in Owners
      PROVE  /\ Range(owners'[l][v]) = {d \in queued' : Primary(d) = l /\ Owner[d] = v}
             /\ IsInjective(owners'[l][v])
  <2>1. /\ Range(owners[l][v]) = {d \in queued : Primary(d) = l /\ Owner[d] = v}
        /\ IsInjective(owners[l][v])
    BY DEF Base, QueuesAgree
  <2>2. CASE l = p /\ v = w
    BY <2>1, <2>2, <1>1, <1>4, <1>5, <1>6 DEF p, w
  <2>3. CASE ~(l = p /\ v = w)
    BY <2>1, <2>3, <1>1, <1>6 DEF p, w
  <2> QED BY <2>2, <2>3
<1>8. ASSUME NEW l \in Lanes
      PROVE  /\ order'[l] \in Seq(Owners)
             /\ Range(order'[l]) = {v \in Owners : owners'[l][v] # <<>>}
             /\ IsInjective(order'[l])
  <2>1. /\ Range(order[l]) = {v \in Owners : owners[l][v] # <<>>}
        /\ IsInjective(order[l]) /\ order[l] \in Seq(Owners)
    BY <1>3 DEF Base, QueuesAgree
  <2>2. CASE l = p /\ owners[p][w] = <<>>
    <3>1. order'[l] = Append(order[p], w) /\ w \notin Range(order[p])
      BY <1>1, <1>2, <1>3, <2>1, <2>2
    <3>2. /\ order'[l] \in Seq(Owners) /\ Range(order'[l]) = Range(order[p]) \union {w}
          /\ IsInjective(order'[l])
      BY <1>2, <1>4, <2>1, <2>2, <3>1, AppendFacts
    <3> QED BY <1>2, <1>5, <1>6, <2>1, <2>2, <3>2
  <2>3. CASE ~(l = p /\ owners[p][w] = <<>>)
    <3>1. order'[l] = order[l]
      BY <1>1, <1>3, <2>3
    <3> QED BY <1>2, <1>5, <1>6, <2>1, <2>3, <3>1
  <2> QED BY <2>2, <2>3
<1>9. ASSUME NEW l \in Lanes
      PROVE  /\ waiting'[l] = {d \in queued' : l \in Wanted(d)}
             /\ Cardinality(waiting'[l]) <= MaxQueued
             /\ \A v \in Owners : Cardinality({d \in waiting'[l] : Owner[d] = v}) <= MaxQueuedPerOwner
  <2>1. /\ waiting[l] = {d \in queued : l \in Wanted(d)} /\ c \notin waiting[l]
        /\ Cardinality(waiting[l]) <= MaxQueued
        /\ \A v \in Owners : Cardinality({d \in waiting[l] : Owner[d] = v}) <= MaxQueuedPerOwner
    BY <1>1 DEF Base, QueuesAgree
  <2>2. MaxQueued \in Nat /\ MaxQueuedPerOwner \in Nat
    BY CallersAssumption DEF CallersAssumption
  <2>3. CASE l \notin Wanted(c)
    <3>1. waiting'[l] = waiting[l]
      BY <1>1, <2>3
    <3> QED BY <1>1, <2>1, <2>3, <3>1
  <2>4. CASE l \in Wanted(c)
    <3>1. waiting'[l] = waiting[l] \union {c}
      BY <1>1, <2>4
    <3>2. /\ IsFiniteSet(waiting[l]) /\ Cardinality(waiting[l]) \in Nat
      BY WaitingFinite
    <3>3. ~(Cardinality(waiting[l]) >= MaxQueued)
          /\ ~(Cardinality({d \in waiting[l] : Owner[d] = w}) >= MaxQueuedPerOwner)
      BY <1>1, <2>4 DEF Full, w
    <3>4. Cardinality(waiting[l] \union {c}) = Cardinality(waiting[l]) + 1
      BY <2>1, <3>2, FS_AddElement
    <3>5. Cardinality(waiting'[l]) <= MaxQueued
      BY <2>2, <3>1, <3>2, <3>3, <3>4
    <3>6. ASSUME NEW v \in Owners
          PROVE  Cardinality({d \in waiting'[l] : Owner[d] = v}) <= MaxQueuedPerOwner
      <4> DEFINE U == {d \in waiting[l] : Owner[d] = v}
                 V == {d \in waiting'[l] : Owner[d] = v}
      <4>1. CASE v = w
        <5>1. V = U \union {c} /\ c \notin U /\ U \in SUBSET waiting[l]
          BY <2>1, <3>1, <4>1 DEF w
        <5>2. ~(Cardinality(U) >= MaxQueuedPerOwner)
          BY <3>3, <4>1
        <5> HIDE DEF U, V
        <5>3. IsFiniteSet(U) /\ Cardinality(U) \in Nat
          BY <5>1, WaitingFinite
        <5>4. Cardinality(U \union {c}) = Cardinality(U) + 1
          BY <5>1, <5>3, FS_AddElement
        <5>5. Cardinality(V) <= MaxQueuedPerOwner
          BY <2>2, <5>1, <5>2, <5>3, <5>4
        <5> QED BY <5>5 DEF V
      <4>2. CASE v # w
        <5>1. V = U
          BY <3>1, <4>2 DEF w
        <5> QED BY <2>1, <5>1
      <4> QED BY <4>1, <4>2
    <3>7. waiting'[l] = {d \in queued' : l \in Wanted(d)}
      BY <1>1, <2>1, <2>4, <3>1
    <3> QED BY <3>5, <3>6, <3>7
  <2> QED BY <2>3, <2>4
<1>10. QueuesAgree'
  BY <1>7, <1>8, <1>9 DEF QueuesAgree
<1>11. order' \in [Lanes -> Seq(Owners)]
  <2>1. Append(order[p], w) \in Seq(Owners)
    BY <1>2, <1>4, AppendFacts
  <2> QED BY <1>1, <1>2, <1>3, <2>1
<1>12. waiting' \in [Lanes -> SUBSET Callers]
  BY <1>1, <1>3
<1>13. queued' \subseteq Callers /\ expired' \subseteq queued'
  BY <1>1, <1>3
<1> QED BY <1>6, <1>10, <1>11, <1>12, <1>13

-----------------------------------------------------------------------------
LEMMA OrderLists == Base => \A l \in Lanes : Lists(order, l)
  BY DEF Base, QueuesAgree, Lists

(* A lane that has just been entered still has all its owners to visit.    *)
LEMMA FreshVisit ==
    /\ Base /\ visit = order[LaneOrder[lane]]
    /\ \A c \in queued, i \in 1 .. lane - 1 :
          ~progress /\ LaneOrder[i] = Primary(c) => Blocked(c)
    => Visited /\ InTurn /\ Looked
PROOF
<1> SUFFICES ASSUME Base, visit = order[LaneOrder[lane]],
                    \A c \in queued, i \in 1 .. lane - 1 :
                        ~progress /\ LaneOrder[i] = Primary(c) => Blocked(c)
             PROVE  Visited /\ InTurn /\ Looked
  OBVIOUS
<1>1. \A c \in queued : LaneOrder[lane] = Primary(c) => Owner[c] \in Range(visit)
  BY TicketPlace
<1>2. Visited
  BY <1>1 DEF Visited, Passed
<1>3. Looked
  BY <1>1 DEF Looked
<1>4. InTurn
  <2>1. LaneOrder[lane] \in Lanes
    BY LaneFacts DEF Base, TypeOK
  <2>2. visit \in Seq(Owners) /\ IsInjective(visit)
    BY <2>1 DEF Base, TypeOK, QueuesAgree
  <2> SUFFICES ASSUME NEW i \in 1 .. Len(visit), NEW j \in 1 .. Len(visit), i < j,
                      Precedes(visit[j], visit[i], visit)
               PROVE  FALSE
    BY DEF InTurn
  <2>3. DOMAIN visit = 1 .. Len(visit) /\ Len(visit) \in Nat
    BY <2>2, RangeFacts
  <2>4. \A k, l \in 1 .. Len(visit) : visit[k] = visit[l] => k = l
    BY <2>2, <2>3, Zenon DEF IsInjective
  <2>5. PICK k \in 1 .. Len(visit), l \in 1 .. Len(visit) :
            k < l /\ visit[k] = visit[j] /\ visit[l] = visit[i]
    BY DEF Precedes
  <2>6. k = j /\ l = i
    BY <2>4, <2>5
  <2> QED BY <2>3, <2>5, <2>6
<1> QED BY <1>2, <1>3, <1>4

LEMMA FreshVisitNext ==
    ( /\ Base /\ visit = order[LaneOrder[lane]]
      /\ \A c \in queued, i \in 1 .. lane - 1 :
            ~progress /\ LaneOrder[i] = Primary(c) => Blocked(c) )'
    => (Visited /\ InTurn /\ Looked)'
  BY FreshVisit, PTL

LEMMA StartPumpTyped ==
    ASSUME TypeOK, order' \in [Lanes -> Seq(Owners)], StartPump(order')
    PROVE  /\ pumping' \in BOOLEAN /\ lane' \in 1 .. Len(LaneOrder)
           /\ visit' \in Seq(Owners) /\ progress' \in BOOLEAN
PROOF
<1>1. CASE disposed
  BY <1>1 DEF TypeOK, StartPump, pumpState
<1>2. CASE ~disposed
  <2>1. pumping' = TRUE /\ lane' = 1 /\ visit' = order'[LaneOrder[1]] /\ progress' = FALSE
    BY <1>2 DEF StartPump
  <2>2. 1 \in 1 .. Len(LaneOrder) /\ LaneOrder[1] \in Lanes
    BY LaneFacts
  <2> QED BY <2>1, <2>2
<1> QED BY <1>1, <1>2

(* What the start of pump leaves is so before its first visit.             *)
LEMMA StartPumpKeeps ==
    ASSUME Inv, Base', StartPump(order'), disposed' = disposed, disposed => queued' = {}
    PROVE  Settled' /\ Visited' /\ InTurn' /\ Looked'
PROOF
<1>1. CASE disposed
  <2>1. queued' = {} /\ ~pumping /\ pumping' = pumping /\ visit' = visit /\ visit = <<>>
    BY <1>1 DEF Inv, Settled, StartPump, pumpState
  <2>2. Len(visit') = 0
    BY <2>1
  <2>3. InTurn'
    BY <2>2 DEF InTurn
  <2> QED BY <2>1, <2>3 DEF Settled, Visited, Looked
<1>2. CASE ~disposed
  <2>1. pumping' = TRUE /\ lane' = 1 /\ visit' = order'[LaneOrder[lane']] /\ progress' = FALSE
    BY <1>2 DEF StartPump
  <2>2. \A i \in 1 .. lane' - 1 : FALSE
    BY <2>1
  <2>3. Visited' /\ InTurn' /\ Looked'
    BY <2>1, <2>2, FreshVisitNext
  <2> QED BY <1>2, <2>1, <2>3 DEF Settled
<1> QED BY <1>1, <1>2

LEMMA AcquireInv ==
    ASSUME Inv, NEW c \in Callers, AcquireMany(c)
    PROVE  Inv'
PROOF
<1>1. Base /\ TypeOK
  BY DEF Inv, Base
<1>2. /\ queued' \subseteq Callers /\ waiting' \in [Lanes -> SUBSET Callers]
      /\ owners' \in [Lanes -> [Owners -> Seq(Callers)]]
      /\ order' \in [Lanes -> Seq(Owners)] /\ expired' \subseteq queued'
      /\ QueuesAgree'
  BY <1>1, AcquireAgrees
<1>3. /\ queued' = queued \union {c} /\ StartPump(order')
      /\ held[c] = {} /\ Signal[c] \notin aborted /\ ~disposed
      /\ UNCHANGED <<held, active, aborted, expired, releasing, dispatch, disposed>>
  BY DEF AcquireMany
<1>4. /\ pumping' \in BOOLEAN /\ lane' \in 1 .. Len(LaneOrder)
      /\ visit' \in Seq(Owners) /\ progress' \in BOOLEAN
  BY <1>1, <1>2, <1>3, StartPumpTyped
<1>5. Base'
  BY <1>1, <1>2, <1>3, <1>4 DEF Base, TypeOK
<1>6. Settled' /\ Visited' /\ InTurn' /\ Looked'
  BY <1>3, <1>5, StartPumpKeeps
<1>7. LeasesCounted'
  BY <1>3 DEF Inv, LeasesCounted, Leases
<1>8. NoneBoth' /\ Heard'
  BY <1>3 DEF Inv, NoneBoth, Heard
<1> QED BY <1>5, <1>6, <1>7, <1>8 DEF Inv

LEMMA LeasesFinite ==
    ASSUME NEW l \in Lanes
    PROVE  IsFiniteSet(Leases(l)) /\ Cardinality(Leases(l)) \in Nat
PROOF
<1>1. Leases(l) \in SUBSET Callers
  BY DEF Leases
<1> QED BY <1>1, CallersAssumption, FS_Subset, FS_CardinalityType DEF CallersAssumption

LEMMA GiveBackCounted ==
    ASSUME Inv, NEW c \in Callers, NEW l \in Lanes, GiveBack(c, l)
    PROVE  /\ held' \in [Callers -> SUBSET Lanes] /\ active' \in [Lanes -> Nat]
           /\ LeasesCounted' /\ c \notin queued
PROOF
<1>1. /\ l \in held[c] /\ held' = [held EXCEPT ![c] = @ \ {l}]
      /\ active' = [active EXCEPT ![l] = IF @ > 0 THEN @ - 1 ELSE 0]
  BY DEF GiveBack
<1>2. held \in [Callers -> SUBSET Lanes] /\ active \in [Lanes -> Nat]
  BY DEF Inv, Base, TypeOK
<1>3. \A m \in Lanes : active[m] = Cardinality(Leases(m)) /\ active[m] <= Limit[m]
  BY DEF Inv, LeasesCounted
<1>4. IsFiniteSet(Leases(l)) /\ Cardinality(Leases(l)) \in Nat
  BY LeasesFinite
<1>5. c \in Leases(l)
  BY <1>1 DEF Leases
<1>6. Leases(l)' = Leases(l) \ {c}
  BY <1>1, <1>2 DEF Leases
<1>7. Cardinality(Leases(l) \ {c}) = Cardinality(Leases(l)) - 1
      /\ Cardinality(Leases(l) \ {c}) \in Nat
  BY <1>4, <1>5, FS_RemoveElement, FS_CardinalityType
<1>8. active'[l] = Cardinality(Leases(l)') /\ active'[l] <= Limit[l]
  <2>1. active[l] = Cardinality(Leases(l)) /\ active[l] <= Limit[l] /\ active[l] \in Nat
    BY <1>2, <1>3
  <2>2. active'[l] = active[l] - 1
    BY <1>1, <1>2, <1>4, <1>7, <2>1
  <2> QED BY <1>6, <1>7, <2>1, <2>2, LaneFacts
<1>9. ASSUME NEW m \in Lanes, m # l
      PROVE  active'[m] = Cardinality(Leases(m)') /\ active'[m] <= Limit[m]
  <2>1. Leases(m)' = Leases(m)
    BY <1>1, <1>2, <1>9 DEF Leases
  <2>2. active'[m] = active[m]
    BY <1>1, <1>2, <1>9
  <2> QED BY <1>3, <2>1, <2>2
<1>10. LeasesCounted'
  BY <1>8, <1>9 DEF LeasesCounted
<1>11. c \notin queued
  BY <1>1 DEF Inv, NoneBoth
<1>12. held' \in [Callers -> SUBSET Lanes]
  BY <1>1, <1>2
<1>13. active' \in [Lanes -> Nat]
  BY <1>1, <1>2
<1> QED BY <1>10, <1>11, <1>12, <1>13

LEMMA GiveBackInv ==
    ASSUME Inv, NEW c \in Callers, NEW l \in Lanes, GiveBack(c, l),
           releasing' \in Callers \union {Nobody},
           UNCHANGED <<queues, aborted, expired, dispatch, disposed>>
    PROVE  Inv'
PROOF
<1>1. Base /\ TypeOK /\ (disposed => queued = {})
  BY DEF Inv, Base, Settled
<1>2. /\ held' \in [Callers -> SUBSET Lanes] /\ active' \in [Lanes -> Nat]
      /\ LeasesCounted' /\ c \notin queued
  BY GiveBackCounted
<1>3. /\ queued' = queued /\ waiting' = waiting /\ owners' = owners /\ order' = order
      /\ aborted' = aborted /\ expired' = expired /\ dispatch' = dispatch /\ disposed' = disposed
  BY DEF queues
<1>4. StartPump(order')
  BY <1>3 DEF GiveBack, StartPump
<1>5. order' \in [Lanes -> Seq(Owners)]
  BY <1>1, <1>3 DEF TypeOK
<1>6. /\ pumping' \in BOOLEAN /\ lane' \in 1 .. Len(LaneOrder)
      /\ visit' \in Seq(Owners) /\ progress' \in BOOLEAN
  BY <1>1, <1>4, <1>5, StartPumpTyped
<1>7. QueuesAgree'
  BY <1>1, <1>3 DEF Base, QueuesAgree
<1>8. Base'
  BY <1>1, <1>2, <1>3, <1>6, <1>7 DEF Base, TypeOK
<1>9. Settled' /\ Visited' /\ InTurn' /\ Looked'
  BY <1>1, <1>3, <1>4, <1>8, StartPumpKeeps
<1>10. NoneBoth'
  <2>1. \A d \in Callers : d # c => held'[d] = held[d]
    BY <1>1 DEF TypeOK, GiveBack
  <2> QED BY <1>1, <1>2, <1>3, <2>1 DEF Inv, NoneBoth, TypeOK
<1>11. Heard'
  BY <1>3 DEF Inv, Heard
<1> QED BY <1>2, <1>8, <1>9, <1>10, <1>11 DEF Inv

LEMMA ReleaseInv ==
    ASSUME Inv, NEW c \in Callers,
           Release(c) \/ \E l \in Lanes : ReleaseResource(c, l)
    PROVE  Inv'
PROOF
<1>1. ASSUME NEW l \in Lanes, ReleaseResource(c, l) PROVE Inv'
  <2>1. releasing' \in Callers \union {Nobody}
    BY <1>1 DEF Inv, Base, TypeOK, ReleaseResource
  <2> QED BY <1>1, <2>1, GiveBackInv DEF ReleaseResource
<1>2. ASSUME Release(c) PROVE Inv'
  <2>1. PICK i \in DOMAIN Resources[c] :
          /\ GiveBack(c, Resources[c][i])
          /\ releasing' = IF held'[c] = {} THEN Nobody ELSE c
    BY <1>2 DEF Release
  <2>2. Resources[c][i] \in Lanes
    BY <2>1 DEF GiveBack, Inv, Base, TypeOK
  <2>3. UNCHANGED <<queues, aborted, expired, dispatch, disposed>>
    BY <1>2 DEF Release
  <2> QED BY <2>1, <2>2, <2>3, GiveBackInv
<1> QED BY <1>1, <1>2

-----------------------------------------------------------------------------
LEMMA RejectAndPumpInv ==
    ASSUME Inv, NEW c \in queued, RejectAndPump(c),
           dispatch' \in {dispatch, dispatch \ {c}},
           UNCHANGED <<held, active, aborted, releasing, disposed>>
    PROVE  Inv'
PROOF
<1>1. Base /\ TypeOK /\ (disposed => queued = {})
  BY DEF Inv, Base, Settled
<1>2. TakeOut({c}, order) /\ StartPump(order')
  BY DEF RejectAndPump
<1>3. /\ queued' \subseteq Callers /\ waiting' \in [Lanes -> SUBSET Callers]
      /\ owners' \in [Lanes -> [Owners -> Seq(Callers)]]
      /\ order' \in [Lanes -> Seq(Owners)] /\ expired' \subseteq queued'
      /\ QueuesAgree'
  <2>1. order \in [Lanes -> Seq(Owners)] /\ {c} \in SUBSET queued
    BY <1>1 DEF TypeOK
  <2> QED BY <1>1, <1>2, <2>1, OrderLists, TakeOutAgrees
<1>4. /\ pumping' \in BOOLEAN /\ lane' \in 1 .. Len(LaneOrder)
      /\ visit' \in Seq(Owners) /\ progress' \in BOOLEAN
  BY <1>1, <1>2, <1>3, StartPumpTyped
<1>5. Base'
  BY <1>1, <1>3, <1>4 DEF Base, TypeOK
<1>6. queued' = queued \ {c}
  BY <1>2 DEF TakeOut
<1>7. Settled' /\ Visited' /\ InTurn' /\ Looked'
  BY <1>1, <1>2, <1>5, <1>6, StartPumpKeeps
<1>8. LeasesCounted'
  BY DEF Inv, LeasesCounted, Leases
<1>9. NoneBoth' /\ Heard'
  BY <1>6 DEF Inv, NoneBoth, Heard
<1> QED BY <1>5, <1>7, <1>8, <1>9 DEF Inv

(* A step that changes neither queues nor slots nor pump, and lets nobody  *)
(* who waits be less blocked.                                              *)
LEMMA QuietInv ==
    ASSUME Inv, UNCHANGED <<queues, held, active, pumpState, releasing, disposed>>,
           aborted' \subseteq Signals, expired' \subseteq queued, dispatch' \subseteq Callers,
           \A c \in queued : Rejectable(c) => Rejectable(c)',
           Heard'
    PROVE  Inv'
PROOF
<1>1. /\ queued' = queued /\ waiting' = waiting /\ owners' = owners /\ order' = order
      /\ held' = held /\ active' = active /\ pumping' = pumping /\ lane' = lane
      /\ visit' = visit /\ progress' = progress /\ releasing' = releasing
      /\ disposed' = disposed
  BY DEF queues, pumpState
<1>2. TypeOK'
  BY <1>1 DEF Inv, Base, TypeOK
<1>3. QueuesAgree' /\ LeasesCounted' /\ NoneBoth'
  BY <1>1 DEF Inv, Base, QueuesAgree, LeasesCounted, Leases, NoneBoth
<1>4. \A c \in queued : Fits(c)' = Fits(c)
  BY <1>1 DEF Fits
<1>5. \A c \in queued : Blocked(c) => Blocked(c)'
  BY <1>4 DEF Blocked
<1>6. Settled'
  BY <1>1, <1>5 DEF Inv, Settled
<1>7. \A c \in queued : Passed(c)' = Passed(c)
  BY <1>1 DEF Passed
<1>8. Visited'
  BY <1>1, <1>5, <1>7 DEF Inv, Visited
<1>9. InTurn' /\ Looked'
  BY <1>1, <1>4 DEF Inv, InTurn, Looked, Precedes
<1> QED BY <1>2, <1>3, <1>6, <1>8, <1>9 DEF Inv, Base

LEMMA SignalInv ==
    ASSUME Inv, NEW s \in Signals, Abort(s) \/ Renew(s)
    PROVE  Inv'
PROOF
<1>1. UNCHANGED <<queues, held, active, pumpState, releasing, disposed>> /\ expired' = expired
  BY DEF Abort, Renew
<1>2. queued' = queued /\ dispatch = {} /\ queued \subseteq Callers /\ expired \subseteq queued
      /\ aborted \subseteq Signals
  BY <1>1 DEF queues, Abort, Renew, Ready, Inv, Base, TypeOK
<1>3. \A c \in queued : Signal[c] \notin aborted
  BY <1>2 DEF Inv, Heard
<1>4. ASSUME Abort(s) PROVE Inv'
  <2>1. aborted' = aborted \union {s} /\ dispatch' = {c \in queued : Signal[c] = s}
    BY <1>4 DEF Abort
  <2>2. \A c \in queued : Rejectable(c) => Rejectable(c)'
    BY <1>1, <2>1 DEF Rejectable
  <2>3. Heard'
    BY <1>2, <1>3, <2>1 DEF Heard
  <2>4. aborted' \subseteq Signals /\ dispatch' \subseteq Callers
    BY <1>2, <2>1
  <2> QED BY <1>1, <1>2, <2>2, <2>3, <2>4, QuietInv
<1>5. ASSUME Renew(s) PROVE Inv'
  <2>1. aborted' = aborted \ {s} /\ dispatch' = dispatch
    BY <1>5 DEF Renew
  <2>2. \A c \in queued : Rejectable(c) => Rejectable(c)'
    BY <1>1, <1>3 DEF Rejectable
  <2>3. Heard'
    BY <1>2, <1>3, <2>1 DEF Heard
  <2>4. aborted' \subseteq Signals /\ dispatch' \subseteq Callers
    BY <1>2, <2>1
  <2> QED BY <1>1, <1>2, <2>2, <2>3, <2>4, QuietInv
<1> QED BY <1>4, <1>5

LEMMA ClockInv ==
    ASSUME Inv, NEW c \in Callers, Expire(c)
    PROVE  Inv'
PROOF
<1>1. /\ UNCHANGED <<queues, held, active, pumpState, releasing, disposed>>
      /\ aborted' = aborted /\ dispatch' = dispatch
      /\ c \in queued /\ expired' = expired \union {c}
  BY DEF Expire
<1>2. /\ queued' = queued /\ aborted \subseteq Signals /\ dispatch \subseteq Callers
      /\ expired \subseteq queued
  BY <1>1 DEF queues, Inv, Base, TypeOK
<1>3. \A d \in queued : Rejectable(d) => Rejectable(d)'
  BY <1>1 DEF Rejectable
<1>4. Heard'
  BY <1>1, <1>2 DEF Inv, Heard
<1>5. aborted' \subseteq Signals /\ dispatch' \subseteq Callers /\ expired' \subseteq queued
  BY <1>1, <1>2
<1> QED BY <1>1, <1>3, <1>4, <1>5, QuietInv

LEMMA ListenerInv ==
    ASSUME Inv, NEW c \in Callers, OnAbort(c) \/ TimerFires(c)
    PROVE  Inv'
PROOF
<1>1. CASE c \in queued
  <2>1. RejectAndPump(c) /\ dispatch' \in {dispatch, dispatch \ {c}}
    BY <1>1 DEF OnAbort, TimerFires
  <2>2. UNCHANGED <<held, active, aborted, releasing, disposed>>
    BY DEF OnAbort, TimerFires
  <2> QED BY <1>1, <2>1, <2>2, RejectAndPumpInv
<1>2. CASE c \notin queued
  <2>1. /\ UNCHANGED <<queues, held, active, pumpState, releasing, disposed>>
        /\ aborted' = aborted /\ expired' = expired /\ dispatch' = dispatch \ {c}
    BY <1>2 DEF OnAbort, TimerFires
  <2>2. /\ queued' = queued /\ aborted \subseteq Signals /\ dispatch \subseteq Callers
        /\ expired \subseteq queued
    BY <2>1 DEF queues, Inv, Base, TypeOK
  <2>3. \A d \in queued : Rejectable(d) => Rejectable(d)'
    BY <2>1 DEF Rejectable
  <2>4. Heard'
    BY <1>2, <2>1, <2>2 DEF Inv, Heard
  <2>5. aborted' \subseteq Signals /\ dispatch' \subseteq Callers /\ expired' \subseteq queued
    BY <2>1, <2>2
  <2> QED BY <2>1, <2>3, <2>4, <2>5, QuietInv
<1> QED BY <1>1, <1>2

LEMMA DisposeInv ==
    ASSUME Inv, Dispose
    PROVE  Inv'
PROOF
<1>1. Base /\ TypeOK /\ visit = <<>> /\ ~pumping
  BY DEF Inv, Base, Settled, Dispose, Ready
<1>2. /\ TakeOut(queued, order) /\ disposed' = TRUE
      /\ held' = held /\ active' = active /\ aborted' = aborted /\ pumping' = pumping
      /\ lane' = lane /\ visit' = visit /\ progress' = progress /\ releasing' = releasing
      /\ dispatch' = dispatch
  BY DEF Dispose, pumpState
<1>3. /\ queued' \subseteq Callers /\ waiting' \in [Lanes -> SUBSET Callers]
      /\ owners' \in [Lanes -> [Owners -> Seq(Callers)]]
      /\ order' \in [Lanes -> Seq(Owners)] /\ expired' \subseteq queued'
      /\ QueuesAgree'
  <2>1. order \in [Lanes -> Seq(Owners)] /\ queued \in SUBSET queued
    BY <1>1 DEF TypeOK
  <2> QED BY <1>1, <1>2, <2>1, OrderLists, TakeOutAgrees
<1>4. queued' = {}
  BY <1>2 DEF TakeOut
<1>5. Base'
  BY <1>1, <1>2, <1>3 DEF Base, TypeOK
<1>6. NoneBoth' /\ Heard'
  BY <1>4 DEF NoneBoth, Heard
<1>7. LeasesCounted'
  BY <1>2 DEF Inv, LeasesCounted, Leases
<1>8. Settled' /\ Visited' /\ Looked'
  BY <1>1, <1>2, <1>4 DEF Settled, Visited, Looked
<1>9. InTurn'
  <2>1. Len(visit') = 0
    BY <1>1, <1>2
  <2> QED BY <2>1 DEF InTurn
<1> QED BY <1>5, <1>6, <1>7, <1>8, <1>9 DEF Inv

-----------------------------------------------------------------------------
(* Who is inspected when pump visits an owner. *)
LEMMA CandidateFacts ==
    ASSUME Base, visit # <<>>
    PROVE  /\ LaneOrder[lane] \in Lanes /\ Head(visit) \in Owners
           /\ Head(visit) \in Range(visit)
           /\ Candidates \in Seq(Callers) /\ IsInjective(Candidates)
           /\ DOMAIN Candidates = 1 .. Len(Candidates)
           /\ Range(Candidates) = {Candidates[i] : i \in 1 .. Len(Candidates)}
           /\ Range(Candidates) = {c \in queued : /\ Primary(c) = LaneOrder[lane]
                                                  /\ Owner[c] = Head(visit)}
PROOF
<1>1. LaneOrder[lane] \in Lanes /\ visit \in Seq(Owners)
  BY LaneFacts DEF Base, TypeOK
<1>2. Head(visit) \in Range(visit) /\ Range(visit) \subseteq Owners
  BY <1>1, NonEmpty, RangeFacts
<1>3. Head(visit) \in Owners
  BY <1>2
<1>4. Candidates \in Seq(Callers)
  BY <1>1, <1>3 DEF Base, TypeOK, Candidates
<1>5. IsInjective(Candidates)
      /\ Range(Candidates) = {c \in queued : /\ Primary(c) = LaneOrder[lane]
                                             /\ Owner[c] = Head(visit)}
  BY <1>1, <1>3 DEF Base, QueuesAgree, Candidates
<1> HIDE DEF Candidates
<1>6. /\ DOMAIN Candidates = 1 .. Len(Candidates)
      /\ Range(Candidates) = {Candidates[i] : i \in 1 .. Len(Candidates)}
  BY <1>4, RangeFacts
<1> QED BY <1>1, <1>2, <1>3, <1>4, <1>5, <1>6

(* Rotation only moves the served owner to the end. *)
LEMMA RotatedFacts ==
    ASSUME Base, visit # <<>>, Candidates # <<>>
    PROVE  /\ Rotated \in [Lanes -> Seq(Owners)]
           /\ \A l \in Lanes : Lists(Rotated, l)
           /\ \A l \in Lanes : l # LaneOrder[lane] => Rotated[l] = order[l]
           /\ \A a, b : b # Head(visit) /\ Precedes(a, b, Rotated[LaneOrder[lane]])
                            => Precedes(a, b, order[LaneOrder[lane]])
           /\ \A b : b # Head(visit) => ~Precedes(Head(visit), b, Rotated[LaneOrder[lane]])
PROOF
<1> DEFINE l == LaneOrder[lane]
           w == Head(visit)
           rest == Without(order[l], {w})
<1>1. l \in Lanes /\ w \in Owners
  BY CandidateFacts
<1>2. order \in [Lanes -> Seq(Owners)] /\ order[l] \in Seq(Owners)
  BY <1>1 DEF Base, TypeOK
<1>3. Lists(order, l) /\ \A m \in Lanes : Lists(order, m)
  BY <1>1, OrderLists
<1>4. /\ rest \in Seq(Owners) /\ Range(rest) = Range(order[l]) \ {w} /\ IsInjective(rest)
      /\ \A a, b : Precedes(a, b, rest) => Precedes(a, b, order[l])
  BY <1>2, <1>3, WithoutProperties DEF Lists
<1>5. Rotated = [order EXCEPT ![l] = Append(rest, w)]
  BY DEF Rotated
<1>6. owners[l][w] # <<>>
  BY DEF Candidates
<1> HIDE DEF l, w, rest
<1>7. w \notin Range(rest)
  BY <1>4
<1>8. /\ Append(rest, w) \in Seq(Owners) /\ Range(Append(rest, w)) = Range(rest) \union {w}
      /\ IsInjective(Append(rest, w))
      /\ \A a, b : Precedes(a, b, Append(rest, w)) /\ b # w => Precedes(a, b, rest)
  BY <1>1, <1>4, <1>7, AppendFacts
<1>9. Rotated[l] = Append(rest, w) /\ \A m \in Lanes : m # l => Rotated[m] = order[m]
  BY <1>1, <1>2, <1>5
<1>10. Rotated \in [Lanes -> Seq(Owners)]
  BY <1>1, <1>2, <1>5, <1>8
<1>11. Range(Rotated[l]) = Range(order[l]) /\ IsInjective(Rotated[l])
  <2>1. w \in Range(order[l])
    BY <1>1, <1>3, <1>6 DEF Lists
  <2> QED BY <1>4, <1>8, <1>9, <2>1
<1>12. \A m \in Lanes : Lists(Rotated, m)
  BY <1>1, <1>3, <1>9, <1>11 DEF Lists
<1>13. \A a, b : b # w /\ Precedes(a, b, Rotated[l]) => Precedes(a, b, order[l])
  BY <1>4, <1>8, <1>9
<1>14. ASSUME NEW b, b # w, Precedes(w, b, Rotated[l]) PROVE FALSE
  <2>1. Precedes(w, b, rest)
    BY <1>8, <1>9, <1>14
  <2> QED BY <1>4, <1>7, <2>1, PrecedesIn
<1> QED BY <1>9, <1>10, <1>12, <1>13, <1>14 DEF l, w

(* The rejected are those of the candidates up to the admitted one.        *)
Skipped(i) == {Candidates[j] : j \in {j \in 1 .. i - 1 : Rejectable(Candidates[j])}}

LEMMA AdmitFacts ==
    ASSUME Inv, AdmitOldest
    PROVE  \E i \in 1 .. Len(Candidates), c \in queued :
              /\ c = Candidates[i] /\ FirstAllowed(i) /\ Fits(c)
              /\ Skipped(i) \subseteq queued /\ c \notin Skipped(i)
              /\ Primary(c) = LaneOrder[lane] /\ Owner[c] = Head(visit)
              /\ TakeOut(Skipped(i) \union {c}, Rotated)
              /\ held[c] = {} /\ held' = [held EXCEPT ![c] = Wanted(c)]
              /\ active' = [l \in Lanes |->
                               IF l \in Wanted(c) THEN active[l] + 1 ELSE active[l]]
PROOF
<1>1. Base /\ visit # <<>>
  BY DEF Inv, AdmitOldest
<1>2. PICK i \in DOMAIN Candidates :
          /\ FirstAllowed(i)
          /\ TakeOut(Skipped(i) \union {Candidates[i]}, Rotated)
          /\ held' = [held EXCEPT ![Candidates[i]] = Wanted(Candidates[i])]
          /\ active' = [l \in Lanes |->
                           IF l \in Wanted(Candidates[i]) THEN active[l] + 1 ELSE active[l]]
  BY DEF AdmitOldest, Skipped
<1>3. /\ DOMAIN Candidates = 1 .. Len(Candidates)
      /\ Range(Candidates) = {Candidates[j] : j \in 1 .. Len(Candidates)}
      /\ Range(Candidates) = {c \in queued : /\ Primary(c) = LaneOrder[lane]
                                             /\ Owner[c] = Head(visit)}
      /\ Candidates \in Seq(Callers)
  BY <1>1, CandidateFacts
<1>4. /\ i \in 1 .. Len(Candidates) /\ Candidates[i] \in queued
      /\ Primary(Candidates[i]) = LaneOrder[lane] /\ Owner[Candidates[i]] = Head(visit)
  BY <1>2, <1>3
<1>5. Allowed(i) /\ Fits(Candidates[i]) /\ ~Rejectable(Candidates[i])
  BY <1>2 DEF FirstAllowed, Allowed
<1>6. \A j \in 1 .. i - 1 : Candidates[j] \in queued
  <2> TAKE j \in 1 .. i - 1
  <2>1. Len(Candidates) \in Nat /\ j \in 1 .. Len(Candidates)
    BY <1>3, <1>4
  <2> QED BY <1>3, <2>1
<1>7. Skipped(i) \subseteq queued /\ Candidates[i] \notin Skipped(i)
  BY <1>5, <1>6 DEF Skipped
<1>8. held[Candidates[i]] = {}
  BY <1>4 DEF Inv, NoneBoth
<1> QED BY <1>2, <1>4, <1>5, <1>7, <1>8

LEMMA AdmitInv ==
    ASSUME Inv, AdmitOldest
    PROVE  Inv'
PROOF
<1>1. Base /\ TypeOK /\ visit # <<>> /\ pumping /\ ~disposed
  BY DEF Inv, Base, Settled, AdmitOldest
<1>2. /\ visit' = <<>> /\ progress' = TRUE
      /\ aborted' = aborted /\ pumping' = pumping /\ lane' = lane /\ releasing' = releasing
      /\ dispatch' = dispatch /\ disposed' = disposed
  BY DEF AdmitOldest
<1>3. PICK i \in 1 .. Len(Candidates), c \in queued :
          /\ c = Candidates[i] /\ Fits(c) /\ Skipped(i) \subseteq queued
          /\ TakeOut(Skipped(i) \union {c}, Rotated)
          /\ held[c] = {} /\ held' = [held EXCEPT ![c] = Wanted(c)]
          /\ active' = [l \in Lanes |->
                           IF l \in Wanted(c) THEN active[l] + 1 ELSE active[l]]
  BY AdmitFacts
<1>4. c \in Callers /\ Wanted(c) \subseteq Lanes
  BY <1>1, CallerFacts DEF TypeOK
<1>5. Candidates # <<>>
  <2>1. Candidates = <<>> => Len(Candidates) = 0
    OBVIOUS
  <2> QED BY <1>3, <2>1
<1>6. /\ queued' \subseteq Callers /\ waiting' \in [Lanes -> SUBSET Callers]
      /\ owners' \in [Lanes -> [Owners -> Seq(Callers)]]
      /\ order' \in [Lanes -> Seq(Owners)] /\ expired' \subseteq queued'
      /\ QueuesAgree'
  <2>1. Skipped(i) \union {c} \in SUBSET queued
    BY <1>3
  <2>2. Rotated \in [Lanes -> Seq(Owners)] /\ \A l \in Lanes : Lists(Rotated, l)
    BY <1>1, <1>5, RotatedFacts
  <2> HIDE DEF Skipped, Rotated
  <2> QED BY <1>1, <1>3, <2>1, <2>2, TakeOutAgrees
<1>7. held \in [Callers -> SUBSET Lanes] /\ active \in [Lanes -> Nat]
  BY <1>1 DEF TypeOK
<1>8. held' \in [Callers -> SUBSET Lanes] /\ active' \in [Lanes -> Nat]
  BY <1>3, <1>4, <1>7
<1>9. Base'
  BY <1>1, <1>2, <1>6, <1>8 DEF Base, TypeOK
<1>10. ASSUME NEW l \in Lanes
       PROVE  active'[l] = Cardinality(Leases(l)') /\ active'[l] <= Limit[l]
  <2>1. active[l] = Cardinality(Leases(l)) /\ active[l] <= Limit[l]
    BY DEF Inv, LeasesCounted
  <2>2. CASE l \in Wanted(c)
    <3>1. Leases(l)' = Leases(l) \union {c} /\ c \notin Leases(l)
      BY <1>3, <1>4, <1>7, <2>2 DEF Leases
    <3>2. IsFiniteSet(Leases(l)) /\ Cardinality(Leases(l)) \in Nat
      BY LeasesFinite
    <3>3. Cardinality(Leases(l) \union {c}) = Cardinality(Leases(l)) + 1
      BY <3>1, <3>2, FS_AddElement
    <3>4. active[l] < Limit[l] /\ active'[l] = active[l] + 1
      BY <1>3, <2>2 DEF Fits
    <3> QED BY <2>1, <3>1, <3>2, <3>3, <3>4, LaneFacts
  <2>3. CASE l \notin Wanted(c)
    <3>1. Leases(l)' = Leases(l)
      BY <1>3, <1>4, <1>7, <2>3 DEF Leases
    <3>2. active'[l] = active[l]
      BY <1>3, <2>3
    <3> QED BY <2>1, <3>1, <3>2
  <2> QED BY <2>2, <2>3
<1>11. LeasesCounted'
  BY <1>10 DEF LeasesCounted
<1>12. queued' = queued \ (Skipped(i) \union {c})
  BY <1>3 DEF TakeOut
<1>13. NoneBoth'
  <2>1. \A d \in Callers : d # c => held'[d] = held[d]
    BY <1>3, <1>7
  <2> QED BY <1>6, <1>12, <2>1 DEF Inv, NoneBoth
<1>14. Heard'
  BY <1>2, <1>12 DEF Inv, Heard
<1>15. Settled' /\ Visited' /\ Looked'
  BY <1>1, <1>2 DEF Settled, Visited, Looked
<1>16. InTurn'
  <2>1. Len(visit') = 0
    BY <1>2
  <2> QED BY <2>1 DEF InTurn
<1> QED BY <1>9, <1>11, <1>13, <1>14, <1>15, <1>16 DEF Inv

LEMMA PassOverInv ==
    ASSUME Inv, PassOver
    PROVE  Inv'
PROOF
<1> DEFINE R == {c \in Range(Candidates) : Rejectable(c)}
<1>1. Base /\ TypeOK /\ visit # <<>> /\ pumping /\ ~disposed
  BY DEF Inv, Base, Settled, PassOver
<1>2. /\ TakeOut(R, order) /\ visit' = Tail(visit) /\ progress' = (progress \/ R # {})
      /\ held' = held /\ active' = active /\ aborted' = aborted /\ pumping' = pumping
      /\ lane' = lane /\ releasing' = releasing /\ dispatch' = dispatch /\ disposed' = disposed
      /\ \A i \in DOMAIN Candidates : ~Allowed(i)
  BY DEF PassOver
<1>3. /\ LaneOrder[lane] \in Lanes /\ DOMAIN Candidates = 1 .. Len(Candidates)
      /\ Range(Candidates) = {Candidates[i] : i \in 1 .. Len(Candidates)}
      /\ Range(Candidates) = {c \in queued : /\ Primary(c) = LaneOrder[lane]
                                             /\ Owner[c] = Head(visit)}
  BY <1>1, CandidateFacts
<1>4. R \in SUBSET queued
  BY <1>3
<1>5. \A c \in Range(Candidates) : c \in R \/ ~Fits(c)
  <2>1. \A i \in 1 .. Len(Candidates) : Rejectable(Candidates[i]) \/ ~Fits(Candidates[i])
    BY <1>2, <1>3 DEF Allowed
  <2> HIDE DEF Candidates
  <2> QED BY <1>3, <2>1
<1> HIDE DEF R
<1>6. /\ queued' \subseteq Callers /\ waiting' \in [Lanes -> SUBSET Callers]
      /\ owners' \in [Lanes -> [Owners -> Seq(Callers)]]
      /\ order' \in [Lanes -> Seq(Owners)] /\ expired' \subseteq queued'
      /\ QueuesAgree'
      /\ \A l \in Lanes : \A a, b : Precedes(a, b, order'[l]) => Precedes(a, b, order[l])
  <2>1. order \in [Lanes -> Seq(Owners)]
    BY <1>1 DEF TypeOK
  <2> QED BY <1>1, <1>2, <1>4, <2>1, OrderLists, TakeOutAgrees
<1>7. /\ visit \in Seq(Owners) /\ visit' \in Seq(Owners) /\ Len(visit') = Len(visit) - 1
      /\ \A i \in 1 .. Len(visit') : visit'[i] = visit[i + 1]
  BY <1>1, <1>2, HeadTailProperties DEF TypeOK
<1>8. Base'
  BY <1>1, <1>2, <1>6, <1>7 DEF Base, TypeOK
<1>9. queued' = queued \ R /\ expired' = expired \ R
  BY <1>2 DEF TakeOut
<1>10. LeasesCounted' /\ NoneBoth' /\ Heard'
  BY <1>2, <1>9 DEF Inv, LeasesCounted, Leases, NoneBoth, Heard
<1>11. Settled'
  BY <1>1, <1>2 DEF Settled
(* Who is not to be visited any more was not to be visited, or has just been. *)
<1>12. ASSUME NEW c \in queued', Primary(c) = LaneOrder[lane], Owner[c] \notin Range(visit')
       PROVE  Owner[c] \notin Range(visit) \/ ~Fits(c)
  <2>1. SUFFICES ASSUME Owner[c] \in Range(visit), Fits(c) PROVE FALSE
    OBVIOUS
  <2>2. Range(visit) = {visit[i] : i \in 1 .. Len(visit)} /\ Len(visit) \in Nat
        /\ Head(visit) = visit[1]
    BY <1>1, <1>7, RangeFacts
  <2>3. Range(visit') = {visit'[i] : i \in 1 .. Len(visit')}
    BY <1>7, RangeFacts
  <2>4. PICK i \in 1 .. Len(visit) : Owner[c] = visit[i]
    BY <2>1, <2>2
  <2>5. i = 1
    <3>1. SUFFICES ASSUME i # 1 PROVE FALSE
      OBVIOUS
    <3>2. i - 1 \in 1 .. Len(visit') /\ visit'[i - 1] = visit[(i - 1) + 1] /\ (i - 1) + 1 = i
      BY <1>7, <2>2, <2>4, <3>1
    <3>3. visit'[i - 1] = Owner[c]
      BY <2>4, <3>2
    <3> QED BY <1>12, <2>3, <3>2, <3>3
  <2>6. c \in Range(Candidates) /\ c \notin R
    BY <1>3, <1>9, <1>12, <2>2, <2>4, <2>5
  <2> QED BY <1>5, <2>1, <2>6
<1>13. \A c \in queued' : Fits(c)' = Fits(c)
  BY <1>2 DEF Fits
<1>14. Looked'
  <2> SUFFICES ASSUME NEW c \in queued', Primary(c) = LaneOrder[lane'], Owner[c] \notin Range(visit')
               PROVE  ~Fits(c)'
    BY DEF Looked
  <2> QED BY <1>1, <1>2, <1>9, <1>12, <1>13 DEF Inv, Looked
<1>15. Visited'
  <2> SUFFICES ASSUME ~progress', NEW c \in queued', Passed(c)'
               PROVE  Blocked(c)'
    BY DEF Visited
  <2>1. R = {} /\ ~progress
    BY <1>2
  <2>2. queued' = queued /\ expired' = expired
    BY <1>9, <2>1
  <2>3. Passed(c) \/ ~Fits(c)
    BY <1>2, <1>12 DEF Passed
  <2>4. Blocked(c)
    BY <1>1, <2>1, <2>2, <2>3 DEF Inv, Visited, Blocked
  <2> QED BY <1>2, <1>13, <2>2, <2>4 DEF Blocked, Rejectable
<1>16. InTurn'
  <2> SUFFICES ASSUME NEW i \in 1 .. Len(visit'), NEW j \in 1 .. Len(visit'), i < j,
                      Precedes(visit'[j], visit'[i], order'[LaneOrder[lane']])
               PROVE  FALSE
    BY DEF InTurn
  <2>1. Len(visit) \in Nat
    BY <1>7, LenProperties
  <2>2. /\ i + 1 \in 1 .. Len(visit) /\ j + 1 \in 1 .. Len(visit) /\ i + 1 < j + 1
        /\ visit'[i] = visit[i + 1] /\ visit'[j] = visit[j + 1]
    BY <1>7, <2>1
  <2>3. Precedes(visit[j + 1], visit[i + 1], order[LaneOrder[lane]])
    BY <1>2, <1>3, <1>6, <2>2
  <2> QED BY <2>2, <2>3 DEF Inv, InTurn
<1> QED BY <1>8, <1>10, <1>11, <1>14, <1>15, <1>16 DEF Inv

LEMMA SweepInv ==
    ASSUME Inv, NextLane \/ NextSweep \/ EndPump
    PROVE  Inv'
PROOF
<1>1. Base /\ TypeOK /\ visit = <<>> /\ pumping /\ ~disposed
  BY DEF Inv, Base, Settled, NextLane, NextSweep, EndPump
<1>2. /\ queued' = queued /\ waiting' = waiting /\ owners' = owners /\ order' = order
      /\ held' = held /\ active' = active /\ aborted' = aborted /\ expired' = expired
      /\ releasing' = releasing /\ dispatch' = dispatch /\ disposed' = disposed
  BY DEF NextLane, NextSweep, EndPump, queues
<1>3. lane \in 1 .. Len(LaneOrder) /\ Len(LaneOrder) \in Nat /\ order \in [Lanes -> Seq(Owners)]
      /\ \A i \in 1 .. Len(LaneOrder) : LaneOrder[i] \in Lanes
  BY <1>1, LaneFacts DEF TypeOK
<1>4. QueuesAgree' /\ LeasesCounted' /\ NoneBoth' /\ Heard'
  BY <1>1, <1>2 DEF Inv, Base, QueuesAgree, LeasesCounted, Leases, NoneBoth, Heard
<1>5. \A c \in queued : Blocked(c)' = Blocked(c)
  BY <1>2 DEF Blocked, Fits, Rejectable
(* At the end of a lane all its owners have been visited. *)
<1>6. ASSUME ~progress, NEW c \in queued, NEW i \in 1 .. lane, LaneOrder[i] = Primary(c)
      PROVE  Blocked(c)
  <2>1. Range(visit) = {}
    BY <1>1, RangeFacts DEF TypeOK
  <2>2. i \in 1 .. lane - 1 \/ i = lane
    BY <1>3
  <2>3. Passed(c)
    BY <1>6, <2>1, <2>2 DEF Passed
  <2> QED BY <1>1, <1>6, <2>3 DEF Inv, Visited
<1>7. CASE NextLane \/ NextSweep
  <2>1. /\ lane' \in 1 .. Len(LaneOrder) /\ visit' = order'[LaneOrder[lane']]
        /\ pumping' = pumping /\ progress' \in BOOLEAN
        /\ \A i \in 1 .. lane' - 1 : ~progress' => ~progress /\ i \in 1 .. lane
    <3>1. CASE NextLane
      <4>1. lane < Len(LaneOrder) /\ lane' = lane + 1 /\ visit' = order[LaneOrder[lane + 1]]
            /\ pumping' = pumping /\ progress' = progress
        BY <3>1 DEF NextLane
      <4>2. progress \in BOOLEAN
        BY <1>1 DEF TypeOK
      <4> QED BY <1>2, <1>3, <4>1, <4>2
    <3>2. CASE NextSweep
      <4>1. lane' = 1 /\ visit' = order[LaneOrder[1]] /\ pumping' = pumping /\ progress' = FALSE
        BY <3>2 DEF NextSweep
      <4>2. lane' \in 1 .. Len(LaneOrder) /\ visit' = order'[LaneOrder[lane']]
        BY <1>2, <1>3, <4>1
      <4>3. \A i \in 1 .. lane' - 1 : FALSE
        BY <4>1
      <4> QED BY <4>1, <4>2, <4>3
    <3> QED BY <1>7, <3>1, <3>2
  <2>2. visit' \in Seq(Owners)
    BY <1>2, <1>3, <2>1
  <2>3. Base'
    BY <1>1, <1>2, <1>4, <2>1, <2>2 DEF Base, TypeOK
  <2>4. \A c \in queued', i \in 1 .. lane' - 1 :
            ~progress' /\ LaneOrder[i] = Primary(c) => Blocked(c)'
    BY <1>2, <1>5, <1>6, <2>1
  <2>5. Visited' /\ InTurn' /\ Looked'
    BY <2>1, <2>3, <2>4, FreshVisitNext
  <2>6. Settled'
    BY <1>1, <1>2, <2>1 DEF Settled
  <2> QED BY <1>4, <2>3, <2>5, <2>6 DEF Inv
<1>8. CASE EndPump
  <2>1. lane = Len(LaneOrder) /\ ~progress /\ pumping' = FALSE /\ lane' = 1
        /\ visit' = visit /\ progress' = progress
    BY <1>8 DEF EndPump
  <2>2. Base'
    <3>1. lane' \in 1 .. Len(LaneOrder)
      BY <1>3, <2>1
    <3>2. pumping' \in BOOLEAN /\ progress' = progress /\ visit' = visit
      BY <2>1
    <3> QED BY <1>1, <1>2, <1>4, <3>1, <3>2 DEF Base, TypeOK
  <2>3. \A c \in queued : Blocked(c)
    <3> TAKE c \in queued
    <3>1. PICK i \in 1 .. Len(LaneOrder) : LaneOrder[i] = Primary(c)
      BY <1>1, LaneFacts, CallerFacts DEF TypeOK
    <3> QED BY <1>6, <2>1, <3>1
  <2>4. Settled'
    BY <1>1, <1>2, <1>5, <2>1, <2>3 DEF Settled
  <2>5. Len(visit') = 0
    BY <1>1, <2>1
  <2>6. Visited' /\ Looked' /\ InTurn'
    BY <1>1, <2>1, <2>5 DEF Visited, Looked, InTurn
  <2> QED BY <1>4, <2>2, <2>4, <2>6 DEF Inv
<1> QED BY <1>7, <1>8

LEMMA NextInv == Inv /\ [Next]_vars => Inv'
PROOF
<1> SUFFICES ASSUME Inv, [Next]_vars PROVE Inv'
  OBVIOUS
<1>1. CASE Pump
  BY <1>1, AdmitInv, PassOverInv, SweepInv DEF Pump
<1>2. CASE Dispose
  BY <1>2, DisposeInv
<1>3. CASE \E s \in Signals : Abort(s) \/ Renew(s)
  BY <1>3, SignalInv
<1>4. ASSUME NEW c \in Callers,
             \/ AcquireMany(c) \/ Release(c) \/ OnAbort(c) \/ Expire(c) \/ TimerFires(c)
             \/ \E l \in Lanes : ReleaseResource(c, l)
      PROVE  Inv'
  BY <1>4, AcquireInv, ReleaseInv, ListenerInv, ClockInv
<1>5. CASE UNCHANGED vars
  <2>1. /\ UNCHANGED <<queues, held, active, pumpState, releasing, disposed>>
        /\ aborted' = aborted /\ expired' = expired /\ dispatch' = dispatch /\ queued' = queued
    BY <1>5 DEF vars, queues, pumpState
  <2>2. Heard' /\ (\A c \in queued : Rejectable(c) => Rejectable(c)')
    BY <2>1 DEF Inv, Heard, Rejectable
  <2> QED BY <2>1, <2>2, QuietInv DEF Inv, Base, TypeOK
<1> QED BY <1>1, <1>2, <1>3, <1>4, <1>5 DEF Next

LEMMA InitInv == Init => Inv
PROOF
<1> SUFFICES ASSUME Init PROVE Inv
  OBVIOUS
<1>1. /\ queued = {} /\ held = [c \in Callers |-> {}] /\ active = [l \in Lanes |-> 0]
      /\ waiting = [l \in Lanes |-> {}] /\ owners = [l \in Lanes |-> [w \in Owners |-> <<>>]]
      /\ order = [l \in Lanes |-> <<>>] /\ visit = <<>> /\ pumping = FALSE
  BY DEF Init
<1>2. TypeOK
  <2>1. /\ aborted = {} /\ expired = {} /\ lane = 1 /\ progress = FALSE /\ releasing = Nobody
        /\ dispatch = {} /\ disposed = FALSE
    BY DEF Init
  <2>2. 1 \in 1 .. Len(LaneOrder)
    BY LaneFacts
  <2>3. visit \in Seq(Owners) /\ order \in [Lanes -> Seq(Owners)]
        /\ owners \in [Lanes -> [Owners -> Seq(Callers)]]
    BY <1>1
  <2>4. /\ held \in [Callers -> SUBSET Lanes] /\ active \in [Lanes -> Nat]
        /\ waiting \in [Lanes -> SUBSET Callers]
    BY <1>1
  <2>5. progress \in BOOLEAN /\ pumping \in BOOLEAN /\ disposed \in BOOLEAN
    BY <1>1, <2>1
  <2> QED BY <1>1, <2>1, <2>2, <2>3, <2>4, <2>5, Zenon DEF TypeOK
<1>3. Range(<<>>) = {} /\ IsInjective(<<>>)
  BY DEF Range, IsInjective
<1>4. QueuesAgree
  <2>1. Cardinality({}) = 0 /\ MaxQueued \in Nat /\ MaxQueuedPerOwner \in Nat
    BY FS_EmptySet, CallersAssumption DEF CallersAssumption
  <2>2. \A l \in Lanes, w \in Owners : {c \in waiting[l] : Owner[c] = w} = {}
    BY <1>1
  <2>3. ASSUME NEW l \in Lanes
        PROVE  /\ waiting[l] = {} /\ order[l] = <<>> /\ \A w \in Owners : owners[l][w] = <<>>
    BY <1>1
  <2>4. {w \in Owners : FALSE} = {} /\ {c \in queued : FALSE} = {}
    OBVIOUS
  <2>5. \A l \in Lanes : {w \in Owners : owners[l][w] # <<>>} = {}
    BY <2>3
  <2> QED
    <3> SUFFICES ASSUME NEW l \in Lanes
                 PROVE  /\ waiting[l] = {c \in queued : l \in Wanted(c)}
                        /\ \A w \in Owners :
                             /\ Range(owners[l][w]) = {c \in queued : Primary(c) = l /\ Owner[c] = w}
                             /\ IsInjective(owners[l][w])
                        /\ Range(order[l]) = {w \in Owners : owners[l][w] # <<>>}
                        /\ IsInjective(order[l])
                        /\ Cardinality(waiting[l]) <= MaxQueued
                        /\ \A w \in Owners :
                             Cardinality({c \in waiting[l] : Owner[c] = w}) <= MaxQueuedPerOwner
      BY Zenon DEF QueuesAgree
    <3>1. waiting[l] = {c \in queued : l \in Wanted(c)} /\ Cardinality(waiting[l]) <= MaxQueued
      BY <1>1, <2>1, <2>3
    <3>2. Range(order[l]) = {w \in Owners : owners[l][w] # <<>>} /\ IsInjective(order[l])
      BY <1>3, <2>3, <2>5, Zenon
    <3>3. ASSUME NEW w \in Owners
          PROVE  /\ Range(owners[l][w]) = {c \in queued : Primary(c) = l /\ Owner[c] = w}
                 /\ IsInjective(owners[l][w])
                 /\ Cardinality({c \in waiting[l] : Owner[c] = w}) <= MaxQueuedPerOwner
      <4>1. owners[l][w] = <<>> /\ Range(owners[l][w]) = {} /\ IsInjective(owners[l][w])
        BY <1>3, <2>3, Zenon
      <4>2. {c \in queued : Primary(c) = l /\ Owner[c] = w} = {}
        BY <1>1
      <4>3. Cardinality({c \in waiting[l] : Owner[c] = w}) = 0
        BY <2>1, <2>2
      <4>4. 0 <= MaxQueuedPerOwner
        BY <2>1
      <4> QED BY <4>1, <4>2, <4>3, <4>4, Zenon
    <3> QED BY <3>1, <3>2, <3>3, Zenon
<1>5. LeasesCounted
  <2>1. \A l \in Lanes : Leases(l) = {}
    BY <1>1 DEF Leases
  <2>2. \A l \in Lanes : active[l] = 0 /\ 0 <= Limit[l]
    BY <1>1, LaneFacts
  <2>3. Cardinality({}) = 0
    BY FS_EmptySet
  <2> QED BY <2>1, <2>2, <2>3, Zenon DEF LeasesCounted
<1>6. Len(visit) = 0
  BY <1>1
<1>7. NoneBoth /\ Heard /\ Settled /\ Visited /\ InTurn /\ Looked
  BY <1>1, <1>6 DEF NoneBoth, Heard, Settled, Visited, InTurn, Looked
<1> QED BY <1>2, <1>4, <1>5, <1>7 DEF Inv, Base

LEMMA AlwaysInv == Spec => []Inv
  BY InitInv, NextInv, PTL DEF Spec

(* Every variable of the scheduler keeps its type. *)
THEOREM SchedulerTypes == Spec => []TypeOK
PROOF
<1>1. Inv => TypeOK
  BY DEF Inv, Base
<1> QED BY <1>1, AlwaysInv, PTL

(* The slots in use are the leases outstanding, and a queued ticket is in  *)
(* the queues of exactly the lanes it wants, whatever is released early,   *)
(* aborted, timed out or disposed of.                                      *)
THEOREM AlwaysAccounted == Spec => []Accounted
PROOF
<1>1. Inv => Accounted
  BY DEF Inv, Base, Accounted
<1> QED BY <1>1, AlwaysInv, PTL

(* No ticket waits for lanes that are free once pump and listeners are     *)
(* done, for any number of lanes, owners and callers.                      *)
THEOREM CapacityAloneDelays == Spec => []OnlyCapacityDelays
PROOF
<1>1. ASSUME Inv PROVE OnlyCapacityDelays
  <2> SUFFICES ASSUME Ready, NEW c \in queued
               PROVE  Signal[c] \notin aborted /\ (c \in expired \/ ~Fits(c))
    BY DEF OnlyCapacityDelays
  <2>1. Signal[c] \notin aborted
    BY <1>1 DEF Inv, Heard, Ready
  <2>2. Blocked(c)
    BY <1>1 DEF Inv, Settled, Ready
  <2> QED BY <2>1, <2>2 DEF Blocked, Rejectable
<1> QED BY <1>1, AlwaysInv, PTL
-----------------------------------------------------------------------------
(* Only the admission of a ticket gives lanes to who has none. *)
LEMMA OnlyAdmitGrants ==
    ASSUME Inv, [Next]_vars, NEW d \in Callers, held[d] = {}, held'[d] # {}
    PROVE  AdmitOldest
PROOF
<1>1. held \in [Callers -> SUBSET Lanes]
  BY DEF Inv, Base, TypeOK
<1>2. ASSUME NEW c, NEW l, GiveBack(c, l) PROVE FALSE
  BY <1>1, <1>2 DEF GiveBack
<1>3. ASSUME held' = held PROVE FALSE
  BY <1>3
<1>4. CASE Pump
  BY <1>3, <1>4 DEF Pump, PassOver, NextLane, NextSweep, EndPump
<1>5. CASE Dispose \/ \E s \in Signals : Abort(s) \/ Renew(s)
  BY <1>3, <1>5 DEF Dispose, Abort, Renew
<1>6. ASSUME NEW c \in Callers, AcquireMany(c) \/ OnAbort(c) \/ Expire(c) \/ TimerFires(c)
      PROVE  FALSE
  BY <1>3, <1>6 DEF AcquireMany, OnAbort, Expire, TimerFires
<1>7. ASSUME NEW c \in Callers, Release(c) \/ \E l \in Lanes : ReleaseResource(c, l)
      PROVE  FALSE
  BY <1>2, <1>7 DEF Release, ReleaseResource
<1>8. CASE UNCHANGED vars
  BY <1>3, <1>8 DEF vars
<1> QED BY <1>4, <1>5, <1>6, <1>7, <1>8 DEF Next

(* And to that ticket alone. *)
LEMMA GrantedIsAdmitted ==
    ASSUME Inv, [Next]_vars, NEW d \in Callers, held[d] = {}, held'[d] # {}
    PROVE  \E i \in 1 .. Len(Candidates) :
              /\ d = Candidates[i] /\ d \in queued /\ FirstAllowed(i) /\ Fits(d)
              /\ Primary(d) = LaneOrder[lane] /\ Owner[d] = Head(visit)
              /\ Skipped(i) \subseteq queued
              /\ TakeOut(Skipped(i) \union {d}, Rotated)
              /\ visit # <<>> /\ visit' = <<>> /\ lane' = lane
PROOF
<1>1. AdmitOldest
  BY OnlyAdmitGrants
<1>2. PICK i \in 1 .. Len(Candidates), c \in queued :
          /\ c = Candidates[i] /\ FirstAllowed(i) /\ Fits(c) /\ Skipped(i) \subseteq queued
          /\ Primary(c) = LaneOrder[lane] /\ Owner[c] = Head(visit)
          /\ TakeOut(Skipped(i) \union {c}, Rotated)
          /\ held' = [held EXCEPT ![c] = Wanted(c)]
  BY <1>1, AdmitFacts
<1>3. c = d
  BY <1>2 DEF Inv, Base, TypeOK
<1>4. visit # <<>> /\ visit' = <<>> /\ lane' = lane
  BY <1>1 DEF AdmitOldest
<1> QED BY <1>2, <1>3, <1>4

(* Of the tickets of one owner that want the same lanes none is granted    *)
(* before an older one.                                                    *)
LEMMA OlderFirst ==
    ASSUME Inv, [Next]_vars, NEW c \in Callers, NEW d \in Callers,
           Before(c, d), Wanted(c) = Wanted(d), held[d] = {}, held'[d] # {}
    PROVE  c \notin queued'
PROOF
<1>1. PICK i \in 1 .. Len(Candidates) :
          /\ d = Candidates[i] /\ d \in queued /\ FirstAllowed(i) /\ Fits(d)
          /\ Primary(d) = LaneOrder[lane] /\ Owner[d] = Head(visit)
          /\ TakeOut(Skipped(i) \union {d}, Rotated) /\ visit # <<>>
  BY GrantedIsAdmitted
<1>2. PICK l \in Lanes, w \in Owners : \E j, k \in DOMAIN owners[l][w] :
          j < k /\ owners[l][w][j] = c /\ owners[l][w][k] = d
  BY DEF Before
<1>3. /\ owners[l][w] \in Seq(Callers)
      /\ Range(owners[l][w]) = {b \in queued : Primary(b) = l /\ Owner[b] = w}
  BY DEF Inv, Base, TypeOK, QueuesAgree
<1>4. /\ DOMAIN owners[l][w] = 1 .. Len(owners[l][w])
      /\ Range(owners[l][w]) = {owners[l][w][j] : j \in 1 .. Len(owners[l][w])}
  BY <1>3, RangeFacts
<1>5. PICK j \in 1 .. Len(owners[l][w]), k \in 1 .. Len(owners[l][w]) :
          j < k /\ owners[l][w][j] = c /\ owners[l][w][k] = d
  BY <1>2, <1>4
<1>6. Primary(d) = l /\ Owner[d] = w
  BY <1>3, <1>4, <1>5
<1>7. owners[l][w] = Candidates
  BY <1>1, <1>6 DEF Candidates
<1>8. /\ j \in 1 .. Len(Candidates) /\ k \in 1 .. Len(Candidates) /\ j < k
      /\ Candidates[j] = c /\ Candidates[k] = d
  BY <1>5, <1>7
<1>9. IsInjective(Candidates) /\ DOMAIN Candidates = 1 .. Len(Candidates)
  BY <1>1, CandidateFacts DEF Inv
<1>10. k = i
  BY <1>1, <1>8, <1>9, Zenon DEF IsInjective
<1>11. ~Allowed(j)
  BY <1>1, <1>8, <1>9, <1>10 DEF FirstAllowed
<1>12. Fits(c)
  BY <1>1 DEF Fits
<1>13. Rejectable(c)
  BY <1>8, <1>11, <1>12 DEF Allowed
<1>14. j \in 1 .. i - 1
  BY <1>8, <1>10
<1>15. c \in Skipped(i)
  BY <1>8, <1>13, <1>14 DEF Skipped
<1> QED BY <1>1, <1>15 DEF TakeOut

(* Tickets of one owner that want the same lanes are granted in the order  *)
(* in which they were queued.                                              *)
THEOREM OlderTicketsFirst == Spec => FifoAdmission
PROOF
<1>1. Inv /\ [Next]_vars =>
        [\A c, d \in Callers :
            /\ Before(c, d) /\ Wanted(c) = Wanted(d)
            /\ held[d] = {} /\ held'[d] # {}
            => c \notin queued']_vars
  BY OlderFirst
<1> QED BY <1>1, AlwaysInv, PTL DEF Spec, FifoAdmission

-----------------------------------------------------------------------------
LEMMA PoolInit == Init => Pool!Init
  BY DEF Init, Pool!Init

LEMMA UsedIsLeases == \A l : Pool!Used(l) = Cardinality(Leases(l))
  BY Zenon DEF Pool!Used, Leases, Pool!Cardinality, Cardinality

(* Admission and refusal are steps of the pool. *)
LEMMA PoolGrant ==
    ASSUME Inv, AdmitOldest
    PROVE  Pool!Next
PROOF
<1>1. PICK i \in 1 .. Len(Candidates), c \in queued :
          /\ Fits(c) /\ Skipped(i) \subseteq queued
          /\ TakeOut(Skipped(i) \union {c}, Rotated)
          /\ held' = [held EXCEPT ![c] = Wanted(c)]
  BY AdmitFacts
<1>2. c \in Callers /\ Wanted(c) \subseteq Lanes
  BY CallerFacts DEF Inv, Base, TypeOK
<1>3. ASSUME NEW l \in Wanted(c) PROVE Pool!Used(l) < Limit[l]
  <2>1. active[l] < Limit[l] /\ active[l] = Cardinality(Leases(l))
    BY <1>1, <1>2, <1>3 DEF Fits, Inv, LeasesCounted
  <2>2. Pool!Used(l) = Cardinality(Leases(l))
    BY UsedIsLeases
  <2> QED BY <2>1, <2>2
<1>4. queued' = (queued \ Skipped(i)) \ {c}
  BY <1>1 DEF TakeOut
<1>5. Pool!GrantAndRefuse(c, Skipped(i))
  BY <1>1, <1>2, <1>3, <1>4 DEF Pool!GrantAndRefuse
<1> QED BY <1>1, <1>2, <1>5 DEF Pool!Next

LEMMA PoolRefuse ==
    ASSUME NEW S \in SUBSET queued, queued' = queued \ S, held' = held
    PROVE  Pool!Next
PROOF
<1>1. Pool!Refuse(S)
  BY DEF Pool!Refuse
<1> QED BY <1>1 DEF Pool!Next

LEMMA PoolStays ==
    ASSUME queued' = queued, held' = held
    PROVE  [Pool!Next]_(Pool!vars)
  BY DEF Pool!vars

LEMMA PoolAsk ==
    ASSUME NEW c \in Callers, AcquireMany(c)
    PROVE  Pool!Next
PROOF
<1>1. Pool!Ask(c)
  BY DEF AcquireMany, Pool!Ask
<1> QED BY <1>1 DEF Pool!Next

LEMMA PoolGiveBack ==
    ASSUME Inv, NEW c \in Callers, NEW l, GiveBack(c, l), queued' = queued
    PROVE  Pool!Next
PROOF
<1>1. l \in Lanes
  BY DEF GiveBack, Inv, Base, TypeOK
<1>2. Pool!GiveBack(c, l)
  BY DEF GiveBack, Pool!GiveBack
<1> QED BY <1>1, <1>2 DEF Pool!Next

LEMMA PoolStep == Inv /\ [Next]_vars => [Pool!Next]_(Pool!vars)
PROOF
<1> SUFFICES ASSUME Inv, [Next]_vars PROVE [Pool!Next]_(Pool!vars)
  OBVIOUS
<1>1. CASE Pump
  <2>1. CASE AdmitOldest
    BY <2>1, PoolGrant
  <2>2. CASE PassOver
    <3> DEFINE R == {c \in Range(Candidates) : Rejectable(c)}
    <3>1. R \in SUBSET queued
      BY <2>2, CandidateFacts DEF Inv, PassOver
    <3>2. queued' = queued \ R /\ held' = held
      BY <2>2 DEF PassOver, TakeOut
    <3> HIDE DEF R
    <3> QED BY <3>1, <3>2, PoolRefuse
  <2>3. CASE NextLane \/ NextSweep \/ EndPump
    BY <2>3, PoolStays DEF NextLane, NextSweep, EndPump, queues
  <2> QED BY <1>1, <2>1, <2>2, <2>3 DEF Pump
<1>2. CASE Dispose
  <2>1. queued' = queued \ queued /\ held' = held
    BY <1>2 DEF Dispose, TakeOut
  <2> QED BY <2>1, PoolRefuse
<1>3. CASE \E s \in Signals : Abort(s) \/ Renew(s)
  BY <1>3, PoolStays DEF Abort, Renew, queues
<1>4. ASSUME NEW c \in Callers, AcquireMany(c)
      PROVE  [Pool!Next]_(Pool!vars)
  BY <1>4, PoolAsk
<1>5. ASSUME NEW c \in Callers, OnAbort(c) \/ TimerFires(c)
      PROVE  [Pool!Next]_(Pool!vars)
  <2>1. held' = held
    BY <1>5 DEF OnAbort, TimerFires
  <2>2. CASE c \in queued
    <3>1. queued' = queued \ {c}
      BY <1>5, <2>2 DEF OnAbort, TimerFires, RejectAndPump, TakeOut
    <3> QED BY <2>1, <2>2, <3>1, PoolRefuse
  <2>3. CASE c \notin queued
    <3>1. queued' = queued
      BY <1>5, <2>3 DEF OnAbort, TimerFires, queues
    <3> QED BY <2>1, <3>1, PoolStays
  <2> QED BY <2>2, <2>3
<1>6. ASSUME NEW c \in Callers, Expire(c)
      PROVE  [Pool!Next]_(Pool!vars)
  BY <1>6, PoolStays DEF Expire, queues
<1>7. ASSUME NEW c \in Callers, Release(c) \/ \E l \in Lanes : ReleaseResource(c, l)
      PROVE  [Pool!Next]_(Pool!vars)
  <2>1. queued' = queued
    BY <1>7 DEF Release, ReleaseResource, queues
  <2>2. \E l : GiveBack(c, l)
    BY <1>7 DEF Release, ReleaseResource
  <2> QED BY <2>1, <2>2, PoolGiveBack
<1>8. CASE UNCHANGED vars
  BY <1>8, PoolStays DEF vars
<1> QED BY <1>1, <1>2, <1>3, <1>4, <1>5, <1>6, <1>7, <1>8 DEF Next

(* The scheduler implements the pool: a ticket is granted all its lanes at *)
(* once and only while each has a free slot, and waits without holding any.*)
THEOREM SchedulerImplementsPool == Spec => ImplementsPool
  BY PoolInit, PoolStep, AlwaysInv, PTL DEF Spec, ImplementsPool, Pool!Spec
-----------------------------------------------------------------------------
(* Who was overtaken comes first in the lane's order until its turn.       *)
Behind ==
    \A c \in Callers, w \in Owners :
        passes[c][w] # 0 =>
            /\ passes[c][w] = 1 /\ c \in queued /\ w # Owner[c]
            /\ ~Precedes(w, Owner[c], order[Primary(c)])

PassesTyped == passes \in [Callers -> [Owners -> Nat]]

TInv == Inv /\ PassesTyped /\ Behind

(* A step leaves the owner of a waiting ticket where it was in its lane's  *)
(* order, or those before it have left, unless that owner has its turn.    *)
LEMMA PlaceKept ==
    ASSUME Inv, [Next]_vars, NEW c \in queued, c \in queued', ~OwnTurn(c), NEW w \in Owners,
           w # Owner[c], Precedes(w, Owner[c], order'[Primary(c)])
    PROVE  Precedes(w, Owner[c], order[Primary(c)])
PROOF
<1> DEFINE l == Primary(c)
           v == Owner[c]
<1>1. Base /\ TypeOK /\ c \in Callers /\ l \in Lanes /\ v \in Owners /\ order \in [Lanes -> Seq(Owners)]
  BY CallerFacts DEF Inv, Base, TypeOK
<1>2. v \in Range(order[l])
  BY <1>1, TicketPlace
<1> HIDE DEF l, v
<1>3. ASSUME NEW S \in SUBSET queued, TakeOut(S, order) PROVE Precedes(w, v, order[l])
  BY <1>1, <1>3, OrderLists, TakeOutAgrees DEF l, v
<1>4. CASE order' = order
  BY <1>4 DEF l, v
<1>5. CASE AdmitOldest
  <2>1. PICK i \in 1 .. Len(Candidates), d \in queued :
          /\ d = Candidates[i] /\ Skipped(i) \subseteq queued
          /\ Primary(d) = LaneOrder[lane] /\ Owner[d] = Head(visit)
          /\ TakeOut(Skipped(i) \union {d}, Rotated)
          /\ held[d] = {} /\ held' = [held EXCEPT ![d] = Wanted(d)]
    BY <1>5, AdmitFacts
  <2>2. visit # <<>> /\ Candidates # <<>>
    <3>1. Candidates = <<>> => Len(Candidates) = 0
      OBVIOUS
    <3> QED BY <1>5, <2>1, <3>1 DEF AdmitOldest
  <2>3. /\ Rotated \in [Lanes -> Seq(Owners)]
        /\ \A m \in Lanes : Lists(Rotated, m)
        /\ \A m \in Lanes : m # LaneOrder[lane] => Rotated[m] = order[m]
        /\ \A a, b : b # Head(visit) /\ Precedes(a, b, Rotated[LaneOrder[lane]])
                         => Precedes(a, b, order[LaneOrder[lane]])
    BY <1>1, <2>2, RotatedFacts
  <2>4. Precedes(w, v, Rotated[l])
    <3>1. Skipped(i) \union {d} \in SUBSET queued
      BY <2>1
    <3> HIDE DEF Skipped, Rotated
    <3> QED BY <1>1, <2>1, <2>3, <3>1, TakeOutAgrees DEF l, v
  <2>5. CASE l = LaneOrder[lane]
    <3>1. d \in Callers /\ held'[d] # {}
      BY <1>1, <2>1, CallerFacts DEF TypeOK
    <3>2. v # Head(visit)
      BY <2>1, <2>5, <3>1 DEF OwnTurn, Granted, l, v
    <3> QED BY <2>3, <2>4, <2>5, <3>2 DEF l, v
  <2>6. CASE l # LaneOrder[lane]
    BY <1>1, <2>3, <2>4, <2>6 DEF l, v
  <2> QED BY <2>5, <2>6 DEF l, v
<1>6. CASE PassOver
  <2> DEFINE R == {b \in Range(Candidates) : Rejectable(b)}
  <2>1. R \in SUBSET queued
    BY <1>1, <1>6, CandidateFacts DEF PassOver
  <2>2. TakeOut(R, order)
    BY <1>6 DEF PassOver
  <2> HIDE DEF R
  <2> QED BY <1>3, <2>1, <2>2 DEF l, v
<1>7. CASE Dispose
  BY <1>3, <1>7 DEF Dispose, l, v
<1>8. ASSUME NEW d \in Callers, OnAbort(d) \/ TimerFires(d)
      PROVE  Precedes(w, v, order[l])
  <2>1. CASE d \in queued
    BY <1>3, <1>8, <2>1 DEF OnAbort, TimerFires, RejectAndPump
  <2>2. CASE d \notin queued
    BY <1>4, <1>8, <2>2 DEF OnAbort, TimerFires, queues, l, v
  <2> QED BY <2>1, <2>2
<1>9. ASSUME NEW d \in Callers, AcquireMany(d)
      PROVE  Precedes(w, v, order[l])
  <2> DEFINE p == Primary(d)
             u == Owner[d]
  <2>1. p \in Lanes /\ u \in Owners
    BY CallerFacts
  <2>2. order' = IF owners[p][u] = <<>> THEN [order EXCEPT ![p] = Append(@, u)] ELSE order
    BY <1>9 DEF AcquireMany
  <2>3. Precedes(w, v, order'[l])
    BY DEF l, v
  <2> HIDE DEF p, u
  <2>4. CASE l = p /\ owners[p][u] = <<>>
    <3>1. order'[l] = Append(order[l], u)
      BY <1>1, <2>1, <2>2, <2>4
    <3>2. u # v
      BY <1>1, <1>2, <2>1, <2>4, OrderLists DEF Lists
    <3>3. order[l] \in Seq(Owners)
      BY <1>1
    <3> QED BY <2>1, <2>3, <3>1, <3>2, <3>3, AppendFacts
  <2>5. CASE ~(l = p /\ owners[p][u] = <<>>)
    <3>1. order'[l] = order[l]
      BY <1>1, <2>1, <2>2, <2>5
    <3> QED BY <2>3, <3>1
  <2> QED BY <2>4, <2>5
<1>10. CASE NextLane \/ NextSweep \/ EndPump
  BY <1>4, <1>10 DEF NextLane, NextSweep, EndPump, queues
<1>11. ASSUME \/ \E s \in Signals : Abort(s) \/ Renew(s)
              \/ \E d \in Callers : \/ Release(d) \/ Expire(d)
                                    \/ \E m \in Lanes : ReleaseResource(d, m)
              \/ UNCHANGED vars
       PROVE  order' = order
  BY <1>11 DEF Abort, Renew, Release, Expire, ReleaseResource, queues, vars
<1> QED
  BY <1>4, <1>5, <1>6, <1>7, <1>8, <1>9, <1>10, <1>11 DEF Next, Pump, l, v


(* An owner is not served before one that precedes it and could be.        *)
LEMMA TurnTaken ==
    ASSUME Inv, [Next]_vars, NEW c \in queued, NEW d \in Callers,
           held[d] = {}, held'[d] # {}, Primary(d) = Primary(c), Owner[d] # Owner[c],
           Wanted(c) \subseteq Wanted(d)
    PROVE  Precedes(Owner[d], Owner[c], order[Primary(c)])
PROOF
<1>1. /\ d \in queued /\ Fits(d) /\ Primary(d) = LaneOrder[lane] /\ Owner[d] = Head(visit)
      /\ visit # <<>>
  BY GrantedIsAdmitted
<1>2. Base /\ TypeOK /\ visit \in Seq(Owners) /\ c \in Callers /\ Primary(c) \in Lanes
  BY CallerFacts DEF Inv, Base, TypeOK
<1>3. Owner[c] \in Range(order[Primary(c)]) /\ Owner[d] \in Range(order[Primary(c)])
  BY <1>1, <1>2, TicketPlace
<1>4. order[Primary(c)] \in Seq(Owners)
  BY <1>2 DEF TypeOK
<1>5. Fits(c)
  BY <1>1 DEF Fits
<1>6. Owner[c] \in Range(visit)
  BY <1>1, <1>5 DEF Inv, Looked
<1>7. /\ Range(visit) = {visit[i] : i \in 1 .. Len(visit)} /\ Len(visit) \in Nat
      /\ Head(visit) = visit[1] /\ 1 \in 1 .. Len(visit)
  BY <1>1, <1>2, RangeFacts, NonEmpty
<1>8. PICK j \in 1 .. Len(visit) : Owner[c] = visit[j]
  BY <1>6, <1>7
<1>9. 1 < j
  BY <1>1, <1>7, <1>8
<1>10. ~Precedes(visit[j], visit[1], order[LaneOrder[lane]])
  BY <1>7, <1>9 DEF Inv, InTurn
<1>11. ~Precedes(Owner[c], Owner[d], order[Primary(c)])
  BY <1>1, <1>7, <1>8, <1>10
<1> QED BY <1>3, <1>4, <1>11, PrecedesTotal

LEMMA NextTInv == TInv /\ [TurnsNext]_<<vars, passes>> => TInv'
PROOF
<1> SUFFICES ASSUME TInv, [TurnsNext]_<<vars, passes>> PROVE TInv'
  OBVIOUS
<1>1. [Next]_vars /\ Inv /\ Inv'
  BY NextInv DEF TInv, TurnsNext
<1>2. passes \in [Callers -> [Owners -> Nat]]
  BY DEF TInv, PassesTyped
<1>3. CASE UNCHANGED <<vars, passes>>
  BY <1>1, <1>3 DEF TInv, PassesTyped, Behind, Precedes, vars
<1>4. CASE TurnsNext
  <2>1. passes' = [c \in Callers |-> [w \in Owners |->
                      IF c \notin queued \/ c \notin queued' \/ OwnTurn(c) THEN 0
                      ELSE IF Served(w, c) THEN passes[c][w] + 1 ELSE passes[c][w]]]
    BY <1>4 DEF TurnsNext, Counted
  <2>2. PassesTyped'
    BY <1>2, <2>1 DEF PassesTyped
  <2>3. ASSUME NEW c \in Callers, NEW w \in Owners, passes'[c][w] # 0
        PROVE  /\ passes'[c][w] = 1 /\ c \in queued' /\ w # Owner[c]
               /\ ~Precedes(w, Owner[c], order'[Primary(c)])
    <3>1. /\ c \in queued /\ c \in queued' /\ ~OwnTurn(c)
          /\ passes'[c][w] = IF Served(w, c) THEN passes[c][w] + 1 ELSE passes[c][w]
      BY <2>1, <2>3
    <3>2. CASE Served(w, c)
      <4>1. PICK d \in Callers : /\ held[d] = {} /\ held'[d] # {} /\ Owner[d] = w
                                 /\ Primary(d) = Primary(c) /\ Wanted(c) \subseteq Wanted(d)
        BY <3>2 DEF Served, Granted
      <4>2. w # Owner[c]
        BY <3>1, <4>1 DEF OwnTurn, Granted
      <4>3. Precedes(w, Owner[c], order[Primary(c)])
        BY <1>1, <3>1, <4>1, <4>2, TurnTaken
      <4>4. passes[c][w] = 0
        BY <4>3 DEF TInv, Behind
      <4>5. PICK i \in 1 .. Len(Candidates) :
              /\ d = Candidates[i] /\ d \in queued /\ Skipped(i) \subseteq queued
              /\ Primary(d) = LaneOrder[lane] /\ Owner[d] = Head(visit)
              /\ TakeOut(Skipped(i) \union {d}, Rotated) /\ visit # <<>>
        BY <1>1, <4>1, GrantedIsAdmitted
      <4>6. Candidates # <<>>
        <5>1. Candidates = <<>> => Len(Candidates) = 0
          OBVIOUS
        <5> QED BY <4>5, <5>1
      <4>7. /\ Rotated \in [Lanes -> Seq(Owners)] /\ \A l \in Lanes : Lists(Rotated, l)
            /\ \A b : b # Head(visit) => ~Precedes(Head(visit), b, Rotated[LaneOrder[lane]])
        BY <1>1, <4>5, <4>6, RotatedFacts DEF Inv
      <4>8. Primary(c) \in Lanes /\ Skipped(i) \union {d} \in SUBSET queued
        BY <4>5, CallerFacts
      <4>9. Precedes(w, Owner[c], order'[Primary(c)]) => Precedes(w, Owner[c], Rotated[Primary(c)])
        <5> HIDE DEF Skipped, Rotated
        <5> QED BY <1>1, <4>5, <4>7, <4>8, TakeOutAgrees DEF Inv
      <4>10. ~Precedes(w, Owner[c], Rotated[Primary(c)])
        BY <4>1, <4>2, <4>5, <4>7
      <4> QED BY <3>1, <3>2, <4>2, <4>4, <4>9, <4>10
    <3>3. CASE ~Served(w, c)
      <4>1. passes'[c][w] = passes[c][w]
        BY <3>1, <3>3
      <4>2. passes[c][w] = 1 /\ w # Owner[c] /\ ~Precedes(w, Owner[c], order[Primary(c)])
        BY <2>3, <4>1 DEF TInv, Behind
      <4> QED BY <1>1, <3>1, <4>1, <4>2, PlaceKept
    <3> QED BY <3>2, <3>3
  <2>4. Behind'
    BY <2>3 DEF Behind
  <2> QED BY <1>1, <2>2, <2>4 DEF TInv
<1> QED BY <1>3, <1>4

(* Owner-fair admission, for any number of owners: a ticket is overtaken   *)
(* by each other owner at most once before its own owner has its turn.     *)
THEOREM OvertakenOnce == TurnsSpec => []NoDoubleOvertake
PROOF
<1>1. TurnsInit => TInv
  <2> SUFFICES ASSUME TurnsInit PROVE TInv
    OBVIOUS
  <2>1. Inv /\ passes = [c \in Callers |-> [w \in Owners |-> 0]]
    BY InitInv DEF TurnsInit
  <2> QED BY <2>1 DEF TInv, PassesTyped, Behind
<1>2. TInv => NoDoubleOvertake
  <2> SUFFICES ASSUME TInv, NEW c \in Callers, NEW w \in Owners PROVE passes[c][w] <= 1
    BY DEF NoDoubleOvertake
  <2>1. passes[c][w] = 0 \/ passes[c][w] = 1
    BY DEF TInv, Behind
  <2> QED BY <2>1
<1> QED BY <1>1, <1>2, NextTInv, PTL DEF TurnsSpec
=============================================================================
