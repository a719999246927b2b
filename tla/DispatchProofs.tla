----------------------------- MODULE DispatchProofs ----------------------------
(***************************************************************************)
(* Proofs about Dispatch: for any subtasks, rosters, keywords, routers,    *)
(* attempts and limits, and any comings and goings of the agents.          *)
(***************************************************************************)
EXTENDS Dispatch, FiniteSetTheorems, SequenceTheorems,
        WellFoundedInduction, TLAPS

\* The places of the Soldiers that were reached, and those Soldiers, in order.
Reached(r) == {i \in DOMAIN r : r[i] # "not_running"}
ReachedOf(s, r) == LET reached == InOrder(Reached(r))
                   IN  [n \in DOMAIN reached |-> s[reached[n]]]

\* How often a Soldier is in the first n places of a choice.
Share(s, x, n) == Cardinality({i \in 1 .. n : s[i] = x})

AttemptInv(c) ==
    /\ stage[c] = "created" => attempt[c] = 0
    /\ stage[c] = "backoff" => attempt[c] < MaxAttempts
    /\ stage[c] = "asking" => attempt[c] > 0

\* The loop has a result for each place before its own and has asked the Soldiers it
\* reached there; at its end, the same of all places.
PlaceInv(c) ==
    /\ stage[c] = "asking" =>
          /\ turn[c] \in 1 .. Len(chosen[c])
          /\ Len(results[c]) = turn[c] - 1
          /\ asked[c] = Append(ReachedOf(chosen[c], results[c]), chosen[c][turn[c]])
    /\ stage[c] = "completed" =>
          /\ Len(results[c]) = Len(chosen[c])
          /\ asked[c] = ReachedOf(chosen[c], results[c])

\* Earlier attempts have taken their limits, and this one its time so far.
TimeInv(c) ==
    /\ spent[c] <= attempt[c] * Timeout
    /\ stage[c] = "asking" => spent[c] <= (attempt[c] - 1) * Timeout + elapsed[c]

\* Earlier attempts have asked all who are chosen, and this one those so far.
WorkInv(c) ==
    \A s \in Soldier :
        /\ works[c][s] <= attempt[c] * Share(chosen[c], s, Len(chosen[c]))
        /\ stage[c] = "asking" =>
              works[c][s] <= (attempt[c] - 1) * Share(chosen[c], s, Len(chosen[c]))
                                + Share(chosen[c], s, turn[c])

CallInv(c) == AttemptInv(c) /\ PlaceInv(c) /\ TimeInv(c) /\ WorkInv(c)

\* The inductive invariant.
IInv == /\ TypeOK
        /\ ReachableIffLive
        /\ \A c \in Subtask : CallInv(c)


-----------------------------------------------------------------------------
(* Numbers in increasing order.                                            *)

LEMMA Least ==
    ASSUME NEW T, T \subseteq Nat, T # {}
    PROVE  \E n \in T : \A m \in T : n <= m
  <1>1. PICK n \in T : \A m \in T : ~ (<<m, n>> \in OpToRel(<, Nat))
    BY NatLessThanWellFounded, WFMin
  <1>2. \A m \in T : ~ (m < n)
    BY <1>1 DEF OpToRel
  <1>3. \A m \in T : n <= m
    BY <1>2
  <1> QED  BY <1>3

\* How many of S are no greater than k.
UpTo(S, k) == {m \in S : m <= k}
Rank(S, k) == Cardinality(UpTo(S, k))

LEMMA RankType ==
    ASSUME NEW S, IsFiniteSet(S), NEW k
    PROVE  IsFiniteSet(UpTo(S, k)) /\ Rank(S, k) \in Nat /\ Rank(S, k) <= Cardinality(S)
  <1>1. UpTo(S, k) \subseteq S
    BY DEF UpTo
  <1> QED  BY <1>1, FS_Subset, FS_CardinalityType DEF Rank

\* The rank of a number is one more than that of the number before it if it is in S,
\* else the same.
LEMMA RankNext ==
    ASSUME NEW S, S \subseteq Nat, IsFiniteSet(S), NEW k \in Nat
    PROVE  /\ k + 1 \in S => Rank(S, k + 1) = Rank(S, k) + 1
           /\ k + 1 \notin S => Rank(S, k + 1) = Rank(S, k)
  <1>0. /\ \A m \in S : m <= k + 1 <=> (m <= k \/ m = k + 1)
        /\ k + 1 <= k + 1 /\ ~ (k + 1 <= k)
    <2> SUFFICES ASSUME NEW m \in S  PROVE  m <= k + 1 <=> (m <= k \/ m = k + 1)
      OBVIOUS
    <2>1. m \in Nat
      OBVIOUS
    <2> QED  BY <2>1
  <1>1. IsFiniteSet(UpTo(S, k))
    BY RankType
  <1>2. ASSUME k + 1 \in S  PROVE  Rank(S, k + 1) = Rank(S, k) + 1
    <2>1. UpTo(S, k + 1) = UpTo(S, k) \cup {k + 1} /\ k + 1 \notin UpTo(S, k)
      BY <1>0, <1>2 DEF UpTo
    <2> QED  BY <1>1, <2>1, FS_AddElement DEF Rank
  <1>3. ASSUME k + 1 \notin S  PROVE  Rank(S, k + 1) = Rank(S, k)
    <2>1. UpTo(S, k + 1) = UpTo(S, k)
      BY <1>0, <1>3 DEF UpTo
    <2> QED  BY <2>1 DEF Rank
  <1> QED  BY <1>2, <1>3

\* Of two members the greater has the greater rank.
LEMMA RankGrows ==
    ASSUME NEW S, S \subseteq Nat, IsFiniteSet(S), NEW j \in Nat, NEW k \in S, j < k
    PROVE  Rank(S, j) < Rank(S, k)
  <1>1. /\ UpTo(S, j) \cup {k} \subseteq UpTo(S, k)
        /\ k \notin UpTo(S, j)
    <2>1. k \in Nat /\ k <= k /\ ~ (k <= j)
      OBVIOUS
    <2>2. ASSUME NEW m \in S, m <= j  PROVE  m <= k
      <3>1. m \in Nat
        OBVIOUS
      <3> QED  BY <2>1, <2>2, <3>1
    <2> QED  BY <2>1, <2>2 DEF UpTo
  <1>2. IsFiniteSet(UpTo(S, j)) /\ IsFiniteSet(UpTo(S, k))
    BY RankType
  <1>3. Cardinality(UpTo(S, j) \cup {k}) = Cardinality(UpTo(S, j)) + 1
    BY <1>1, <1>2, FS_AddElement
  <1>4. Cardinality(UpTo(S, j) \cup {k}) <= Cardinality(UpTo(S, k))
    BY <1>1, <1>2, FS_Subset
  <1>5. Cardinality(UpTo(S, j)) \in Nat /\ Cardinality(UpTo(S, k)) \in Nat
    BY <1>2, FS_CardinalityType
  <1> QED  BY <1>3, <1>4, <1>5 DEF Rank

LEMMA PlacesFinite ==
    ASSUME NEW L \in Nat, NEW S \in SUBSET (1 .. L)
    PROVE  /\ IsFiniteSet(S) /\ S \subseteq Nat /\ Cardinality(S) \in Nat
           /\ L + 1 \notin S /\ \A k \in S : 0 < k /\ k <= L
  <1>1. IsFiniteSet(1 .. L)
    BY FS_Interval
  <1>2. IsFiniteSet(S)
    BY <1>1, FS_Subset
  <1>3. S \subseteq Nat /\ L + 1 \notin S /\ \A k \in S : 0 < k /\ k <= L
    OBVIOUS
  <1> QED  BY <1>2, <1>3, FS_CardinalityType

\* Every rank there may be is that of one member.
LEMMA RankOnto ==
    ASSUME NEW L \in Nat, NEW S \in SUBSET (1 .. L), NEW n \in 1 .. Cardinality(S)
    PROVE  \E k \in S : Rank(S, k) = n
  <1>1. IsFiniteSet(S) /\ S \subseteq Nat /\ Cardinality(S) \in Nat
    BY PlacesFinite
  <1> DEFINE T == {k \in 0 .. L : n <= Rank(S, k)}
  <1>2. Rank(S, L) = Cardinality(S) /\ Rank(S, 0) = 0
    <2>1. UpTo(S, L) = S
      BY PlacesFinite DEF UpTo
    <2>2. UpTo(S, 0) = {}
      <3> SUFFICES ASSUME NEW m \in S, m <= 0  PROVE  FALSE
        BY DEF UpTo
      <3>1. m \in Nat /\ 0 < m
        BY PlacesFinite
      <3> QED  BY <3>1
    <2> QED  BY <2>1, <2>2, FS_EmptySet DEF Rank
  <1>3. T \subseteq Nat /\ L \in T
    BY <1>1, <1>2
  <1>4. PICK k \in T : \A m \in T : k <= m
    BY <1>3, Least
  <1>5. k \in 1 .. L /\ n <= Rank(S, k)
    BY <1>2, <1>4
  <1>6. k - 1 \in Nat /\ k - 1 \notin T /\ k - 1 \in 0 .. L /\ (k - 1) + 1 = k
    BY <1>4, <1>5
  <1>7. Rank(S, k - 1) < n /\ Rank(S, k - 1) \in Nat /\ Rank(S, k) \in Nat
    BY <1>1, <1>6, RankType
  <1>8. /\ k \in S => Rank(S, k) = Rank(S, k - 1) + 1
        /\ k \notin S => Rank(S, k) = Rank(S, k - 1)
    BY <1>1, <1>6, RankNext
  <1>9. k \in S /\ Rank(S, k) = n
    BY <1>5, <1>7, <1>8
  <1> QED  BY <1>9

LEMMA InOrderFacts ==
    ASSUME NEW L \in Nat, NEW S \in SUBSET (1 .. L)
    PROVE  /\ Cardinality(S) \in Nat
           /\ InOrder(S) \in [1 .. Cardinality(S) -> S]
           /\ \A n \in 1 .. Cardinality(S) : Rank(S, InOrder(S)[n]) = n
  <1>1. IsFiniteSet(S) /\ Cardinality(S) \in Nat
    BY PlacesFinite
  <1>2. InOrder(S) = [n \in 1 .. Cardinality(S) |-> CHOOSE k \in S : Rank(S, k) = n]
    BY DEF InOrder, Rank, UpTo
  <1>3. ASSUME NEW n \in 1 .. Cardinality(S)
        PROVE  InOrder(S)[n] \in S /\ Rank(S, InOrder(S)[n]) = n
    <2>1. \E k \in S : Rank(S, k) = n
      BY RankOnto
    <2>2. InOrder(S)[n] = CHOOSE k \in S : Rank(S, k) = n
      BY <1>2
    <2> QED  BY <2>1, <2>2
  <1> QED  BY <1>1, <1>2, <1>3

\* A number greater than all of S comes last.
LEMMA InOrderAppend ==
    ASSUME NEW L \in Nat, NEW S \in SUBSET (1 .. L)
    PROVE  /\ Cardinality(S \cup {L + 1}) = Cardinality(S) + 1
           /\ \A n \in 1 .. Cardinality(S) : InOrder(S \cup {L + 1})[n] = InOrder(S)[n]
           /\ InOrder(S \cup {L + 1})[Cardinality(S) + 1] = L + 1
  <1> DEFINE R == S \cup {L + 1}
  <1>1. /\ IsFiniteSet(S) /\ S \subseteq Nat /\ L + 1 \notin S /\ Cardinality(S) \in Nat
        /\ \A k \in S : k <= L
    BY PlacesFinite
  <1>2. Cardinality(R) = Cardinality(S) + 1 /\ IsFiniteSet(R)
    BY <1>1, FS_AddElement
  <1>3. R \in SUBSET (1 .. L + 1) /\ R \subseteq Nat /\ L + 1 \in Nat /\ S \subseteq R
    OBVIOUS
  <1>4. \A k \in S : Rank(R, k) = Rank(S, k)
    <2> SUFFICES ASSUME NEW k \in S  PROVE  UpTo(R, k) = UpTo(S, k)
      BY DEF Rank
    <2>1. ~ (L + 1 <= k)
      <3>1. k \in Nat /\ k <= L
        BY <1>1
      <3> QED  BY <3>1
    <2> QED  BY <2>1 DEF UpTo
  <1>5. Rank(R, L + 1) = Cardinality(S) + 1
    <2>1. \A m \in R : m <= L + 1
      <3> SUFFICES ASSUME NEW m \in R  PROVE  m <= L + 1
        OBVIOUS
      <3>1. m = L + 1 \/ (m \in Nat /\ m <= L)
        BY <1>1
      <3> QED  BY <3>1
    <2>2. UpTo(R, L + 1) = R
      BY <2>1 DEF UpTo
    <2> QED  BY <1>2, <2>2 DEF Rank
  <1> HIDE DEF R
  <1>6. /\ InOrder(R) \in [1 .. Cardinality(R) -> R]
        /\ \A n \in 1 .. Cardinality(R) : Rank(R, InOrder(R)[n]) = n
    BY <1>3, InOrderFacts
  <1>7. ASSUME NEW k \in R, NEW j \in R, Rank(R, k) = Rank(R, j)  PROVE  k = j
    <2>1. k \in Nat /\ j \in Nat /\ Rank(R, k) \in Nat
      BY <1>2, <1>3, RankType
    <2>2. k < j => Rank(R, k) < Rank(R, j)
      BY <1>2, <1>3, <2>1, RankGrows
    <2>3. j < k => Rank(R, j) < Rank(R, k)
      BY <1>2, <1>3, <2>1, RankGrows
    <2> QED  BY <1>7, <2>1, <2>2, <2>3
  <1>8. ASSUME NEW n \in 1 .. Cardinality(S)  PROVE  InOrder(R)[n] = InOrder(S)[n]
    <2>1. InOrder(S)[n] \in S /\ Rank(S, InOrder(S)[n]) = n
      BY InOrderFacts
    <2>2. InOrder(S)[n] \in R /\ Rank(R, InOrder(S)[n]) = n
      BY <1>3, <1>4, <2>1
    <2>3. n \in 1 .. Cardinality(R)
      BY <1>1, <1>2
    <2>4. InOrder(R)[n] \in R /\ Rank(R, InOrder(R)[n]) = n
      BY <1>6, <2>3
    <2> QED  BY <1>7, <2>2, <2>4
  <1>9. InOrder(R)[Cardinality(S) + 1] = L + 1
    <2>1. Cardinality(S) + 1 \in 1 .. Cardinality(R)
      BY <1>1, <1>2
    <2>2. /\ InOrder(R)[Cardinality(S) + 1] \in R
          /\ Rank(R, InOrder(R)[Cardinality(S) + 1]) = Cardinality(S) + 1
      BY <1>6, <2>1
    <2>3. L + 1 \in R
      BY DEF R
    <2> QED  BY <1>5, <1>7, <2>2, <2>3
  <1> QED  BY <1>2, <1>8, <1>9 DEF R


-----------------------------------------------------------------------------
(* Results and the Soldiers reached.                                       *)

LEMMA ReachedPlaces ==
    ASSUME NEW r \in Seq(Result)
    PROVE  /\ Len(r) \in Nat /\ Reached(r) \in SUBSET (1 .. Len(r))
           /\ Cardinality(Reached(r)) \in Nat
  <1>1. Len(r) \in Nat /\ Reached(r) \in SUBSET (1 .. Len(r))
    BY DEF Reached
  <1> QED  BY <1>1, PlacesFinite

LEMMA ReachedOfFacts ==
    ASSUME NEW s \in Seq(Soldier), NEW r \in Seq(Result), Len(r) <= Len(s)
    PROVE  /\ ReachedOf(s, r) \in Seq(Soldier)
           /\ Len(ReachedOf(s, r)) = Cardinality(Reached(r))
           /\ \A n \in 1 .. Cardinality(Reached(r)) :
                 ReachedOf(s, r)[n] = s[InOrder(Reached(r))[n]]
  <1> DEFINE S == Reached(r)
             C == Cardinality(S)
  <1>1. /\ Len(r) \in Nat /\ Len(s) \in Nat /\ S \in SUBSET (1 .. Len(r)) /\ C \in Nat
    BY ReachedPlaces
  <1>2. InOrder(S) \in [1 .. C -> S]
    BY <1>1, InOrderFacts
  <1> HIDE DEF S, C
  <1>3. ReachedOf(s, r) = [n \in 1 .. C |-> s[InOrder(S)[n]]]
    BY <1>2 DEF ReachedOf, S
  <1>4. \A n \in 1 .. C : s[InOrder(S)[n]] \in Soldier
    <2> SUFFICES ASSUME NEW n \in 1 .. C  PROVE  s[InOrder(S)[n]] \in Soldier
      OBVIOUS
    <2>1. InOrder(S)[n] \in 1 .. Len(r)
      BY <1>1, <1>2
    <2>2. InOrder(S)[n] \in 1 .. Len(s)
      BY <1>1, <2>1
    <2> QED  BY <2>2
  <1>5. ReachedOf(s, r) \in Seq(Soldier) /\ Len(ReachedOf(s, r)) = C
    BY <1>1, <1>3, <1>4
  <1> QED  BY <1>3, <1>5 DEF S, C

LEMMA ReachedOfNone ==
    ASSUME NEW s \in Seq(Soldier)
    PROVE  ReachedOf(s, <<>>) = <<>>
  <1>1. <<>> \in Seq(Result) /\ Len(<<>>) <= Len(s) /\ Reached(<<>>) = {}
    BY DEF Reached
  <1>2. Cardinality(Reached(<<>>)) = 0
    BY <1>1, FS_EmptySet
  <1>3. ReachedOf(s, <<>>) \in Seq(Soldier) /\ Len(ReachedOf(s, <<>>)) = 0
    BY <1>1, <1>2, ReachedOfFacts
  <1> HIDE DEF ReachedOf
  <1> QED  BY <1>3, EmptySeq

\* A Soldier that answers is one more that was reached.
LEMMA ReachedOfAppend ==
    ASSUME NEW s \in Seq(Soldier), NEW r \in Seq(Result), Len(r) < Len(s),
           NEW o \in Result \ {"not_running"}
    PROVE  ReachedOf(s, Append(r, o)) = Append(ReachedOf(s, r), s[Len(r) + 1])
  <1> DEFINE S == Reached(r)
             C == Cardinality(S)
             q == Append(r, o)
             L == Len(r)
             x == s[L + 1]
  <1>1. /\ L \in Nat /\ Len(s) \in Nat /\ S \in SUBSET (1 .. L) /\ C \in Nat
        /\ L <= Len(s) /\ L + 1 <= Len(s) /\ x \in Soldier
    <2>1. L \in Nat /\ Len(s) \in Nat /\ S \in SUBSET (1 .. L) /\ C \in Nat
      BY ReachedPlaces
    <2>2. L <= Len(s) /\ L + 1 <= Len(s) /\ L + 1 \in 1 .. Len(s)
      BY <2>1
    <2> QED  BY <2>1, <2>2
  <1>2. q \in Seq(Result) /\ Len(q) = L + 1
    OBVIOUS
  <1>3. Reached(q) = S \cup {L + 1}
    <2>1. \A i \in 1 .. L : q[i] = r[i]
      OBVIOUS
    <2>2. q[L + 1] = o
      OBVIOUS
    <2>3. DOMAIN q = (1 .. L) \cup {L + 1} /\ DOMAIN r = 1 .. L
      BY <1>1, <1>2
    <2> HIDE DEF q, L
    <2> QED  BY <2>1, <2>2, <2>3 DEF Reached
  <1> HIDE DEF S, C, q, L, x
  <1>4. /\ Cardinality(Reached(q)) = C + 1
        /\ \A n \in 1 .. C : InOrder(Reached(q))[n] = InOrder(S)[n]
        /\ InOrder(Reached(q))[C + 1] = L + 1
    <2>1. /\ Cardinality(S \cup {L + 1}) = Cardinality(S) + 1
          /\ \A n \in 1 .. Cardinality(S) : InOrder(S \cup {L + 1})[n] = InOrder(S)[n]
          /\ InOrder(S \cup {L + 1})[Cardinality(S) + 1] = L + 1
      <3>1. L \in Nat /\ S \in SUBSET (1 .. L)
        BY <1>1
      <3> QED  BY <3>1, InOrderAppend
    <2> QED  BY <1>3, <2>1 DEF C
  <1>5. /\ ReachedOf(s, r) \in Seq(Soldier) /\ Len(ReachedOf(s, r)) = C
        /\ \A n \in 1 .. C : ReachedOf(s, r)[n] = s[InOrder(S)[n]]
    BY <1>1, ReachedOfFacts DEF C, S, L
  <1>6. /\ ReachedOf(s, q) \in Seq(Soldier) /\ Len(ReachedOf(s, q)) = C + 1
        /\ \A n \in 1 .. C + 1 : ReachedOf(s, q)[n] = s[InOrder(Reached(q))[n]]
    BY <1>1, <1>2, <1>4, ReachedOfFacts
  <1>7. ReachedOf(s, q)[C + 1] = x
    BY <1>1, <1>4, <1>6 DEF x
  <1>8. \A n \in 1 .. C : ReachedOf(s, q)[n] = ReachedOf(s, r)[n]
    <2> SUFFICES ASSUME NEW n \in 1 .. C
                 PROVE  ReachedOf(s, q)[n] = ReachedOf(s, r)[n]
      OBVIOUS
    <2>1. n \in 1 .. C + 1
      BY <1>1
    <2> QED  BY <1>4, <1>5, <1>6, <2>1
  <1>9. ReachedOf(s, q) = Append(ReachedOf(s, r), x)
    <2> DEFINE a == ReachedOf(s, q)
               b == ReachedOf(s, r)
    <2>1. /\ a \in Seq(Soldier) /\ b \in Seq(Soldier) /\ Len(b) = C /\ Len(a) = C + 1
          /\ a[C + 1] = x /\ \A n \in 1 .. C : a[n] = b[n]
      BY <1>5, <1>6, <1>7, <1>8
    <2> HIDE DEF a, b
    <2>2. /\ Append(b, x) \in Seq(Soldier) /\ Len(Append(b, x)) = C + 1
          /\ Append(b, x)[C + 1] = x /\ \A n \in 1 .. C : Append(b, x)[n] = b[n]
      BY <1>1, <2>1
    <2>3. \A n \in 1 .. C + 1 : a[n] = Append(b, x)[n]
      BY <1>1, <2>1, <2>2
    <2>4. a = Append(b, x)
      BY <2>1, <2>2, <2>3, SeqEqual
    <2> QED  BY <2>4 DEF a, b
  <1> QED  BY <1>9 DEF q, x, L

\* Soldiers that are not running change nothing about those that were reached.
LEMMA ReachedMore ==
    ASSUME NEW r \in Seq(Result), NEW n \in Nat
    PROVE  LET q == r \o [i \in 1 .. n |-> "not_running"]
           IN  /\ q \in Seq(Result) /\ Len(q) = Len(r) + n
               /\ Reached(q) = Reached(r)
  <1> DEFINE m == [i \in 1 .. n |-> "not_running"]
             q == r \o m
  <1>1. m \in Seq(Result) /\ Len(m) = n /\ \A i \in 1 .. n : m[i] = "not_running"
    BY DEF Result
  <1> HIDE DEF m
  <1>2. /\ q \in Seq(Result) /\ Len(q) = Len(r) + n
        /\ \A i \in 1 .. Len(r) : q[i] = r[i]
        /\ \A i \in Len(r) + 1 .. Len(r) + n : q[i] = m[i - Len(r)]
    BY <1>1
  <1> HIDE DEF q
  <1>3. \A i \in Len(r) + 1 .. Len(r) + n : q[i] = "not_running"
    <2> SUFFICES ASSUME NEW i \in Len(r) + 1 .. Len(r) + n  PROVE  q[i] = "not_running"
      OBVIOUS
    <2>1. i - Len(r) \in 1 .. n
      OBVIOUS
    <2> QED  BY <1>1, <1>2, <2>1
  <1>4. /\ DOMAIN q = (1 .. Len(r)) \cup (Len(r) + 1 .. Len(r) + n)
        /\ DOMAIN r = 1 .. Len(r)
    BY <1>2
  <1>5. Reached(q) = Reached(r)
    BY <1>2, <1>3, <1>4 DEF Reached
  <1> QED  BY <1>2, <1>5 DEF q, m


-----------------------------------------------------------------------------
(* The router.                                                             *)

LEMMA SelectType ==
    ASSUME NEW M \in SUBSET (DOMAIN Keywords)
    PROVE  Select(M) \in Seq(Soldier) /\ KnowledgeSelect(M) \in Seq(Soldier)
  <1>1. Roster \in Seq(Soldier) /\ Keywords \in Seq(Soldier)
    BY RosterAssumption, KeywordsAssumption
  <1>2. Select(M) \in Seq(Soldier)
    <2>1. CASE M = {}
      BY <1>1, <2>1 DEF Select
    <2>2. CASE M # {}
      <3> DEFINE C == Cardinality(M)
      <3>1. Len(Keywords) \in Nat /\ M \in SUBSET (1 .. Len(Keywords))
        BY <1>1
      <3>2. C \in Nat /\ InOrder(M) \in [1 .. C -> M]
        BY <3>1, InOrderFacts
      <3> HIDE DEF C
      <3>3. Select(M) = [n \in 1 .. C |-> Keywords[InOrder(M)[n]]]
        BY <2>2, <3>2 DEF Select
      <3>4. \A n \in 1 .. C : Keywords[InOrder(M)[n]] \in Soldier
        <4> SUFFICES ASSUME NEW n \in 1 .. C  PROVE  Keywords[InOrder(M)[n]] \in Soldier
          OBVIOUS
        <4>1. InOrder(M)[n] \in 1 .. Len(Keywords)
          BY <3>1, <3>2
        <4> QED  BY <1>1, <4>1
      <3> QED  BY <3>2, <3>3, <3>4
    <2> QED  BY <2>1, <2>2
  <1>3. KnowledgeSelect(M) \in {Select(M), <<Research>>}
    BY DEF KnowledgeSelect
  <1>4. ASSUME KnowledgeSelect(M) # Select(M)  PROVE  Research \in Soldier
    <2>1. Research \in {Roster[i] : i \in DOMAIN Roster}
      BY <1>4 DEF KnowledgeSelect
    <2> QED  BY <1>1, <2>1
  <1>5. Research \in Soldier => <<Research>> \in Seq(Soldier)
    OBVIOUS
  <1>6. CASE KnowledgeSelect(M) = Select(M)
    BY <1>2, <1>6
  <1>7. CASE KnowledgeSelect(M) # Select(M)
    BY <1>2, <1>3, <1>4, <1>5, <1>7
  <1> QED  BY <1>6, <1>7

-----------------------------------------------------------------------------
(* One stretch of the General's loop.                                      *)

LEMMA NextUpFacts ==
    ASSUME TypeOK, NEW c \in Subtask, NEW k \in 1 .. Len(chosen[c]) + 1
    PROVE  /\ Len(chosen[c]) \in Nat
           /\ NextUp(c, k) \in Nat /\ k <= NextUp(c, k) /\ NextUp(c, k) <= Len(chosen[c]) + 1
           /\ NextUp(c, k) <= Len(chosen[c]) =>
                 /\ NextUp(c, k) \in 1 .. Len(chosen[c])
                 /\ chosen[c][NextUp(c, k)] \in Soldier \cap handlers
  <1> DEFINE L == Len(chosen[c])
             Here(j) == j <= L => chosen[c][j] \in handlers
             T == {j \in k .. L + 1 : Here(j)}
  <1>1. L \in Nat /\ \A j \in 1 .. L : chosen[c][j] \in Soldier
    BY DEF TypeOK
  <1>2. T \subseteq Nat /\ L + 1 \in T
    BY <1>1
  <1>3. PICK j \in T : \A m \in T : j <= m
    BY <1>2, Least
  <1>4. j \in k .. L + 1 /\ Here(j) /\ \A i \in k .. j - 1 : chosen[c][i] \notin handlers
    <2>1. j \in k .. L + 1 /\ Here(j)
      BY <1>3
    <2>2. ASSUME NEW i \in k .. j - 1, chosen[c][i] \in handlers  PROVE  FALSE
      <3>1. i \in T
        BY <1>1, <2>1, <2>2
      <3>2. j <= i
        BY <1>3, <3>1
      <3> QED  BY <1>1, <2>1, <3>2
    <2> QED  BY <2>1, <2>2
  <1>5. /\ NextUp(c, k) \in k .. L + 1
        /\ NextUp(c, k) <= L => chosen[c][NextUp(c, k)] \in handlers
    BY <1>4 DEF NextUp
  <1> HIDE DEF L
  <1>6. NextUp(c, k) \in Nat /\ k <= NextUp(c, k) /\ NextUp(c, k) <= L + 1
    BY <1>1, <1>5
  <1>7. NextUp(c, k) <= L => NextUp(c, k) \in 1 .. L
    BY <1>1, <1>6 DEF L
  <1> QED  BY <1>1, <1>5, <1>6, <1>7 DEF L


\* The loop enters place k with results r, one for each place before, and sofar the
\* Soldiers it has reached.
Enters(c, k, r, sofar) ==
    /\ k \in 1 .. Len(chosen[c]) + 1
    /\ r \in Seq(Result) /\ Len(r) = k - 1
    /\ sofar = ReachedOf(chosen[c], r)
    /\ Ask(c, k, r, sofar)

\* It leaves off at place j.
Lands(c, j, sofar) ==
    /\ turn'[c] = j /\ Len(results'[c]) = j - 1
    /\ ReachedOf(chosen[c], results'[c]) = sofar
    /\ \/ /\ j <= Len(chosen[c]) /\ stage'[c] = "asking"
          /\ asked'[c] = Append(sofar, chosen[c][j])
          /\ works'[c] = [works[c] EXCEPT ![chosen[c][j]] = works[c][chosen[c][j]] + 1]
       \/ /\ j = Len(chosen[c]) + 1 /\ stage'[c] = "completed"
          /\ asked'[c] = sofar /\ works' = works

LoopTypes == /\ turn' \in [Subtask -> Nat] /\ results' \in [Subtask -> Seq(Result)]
             /\ stage' \in [Subtask -> Stage] /\ asked' \in [Subtask -> Seq(Soldier)]
             /\ works' \in [Subtask -> [Soldier -> Nat]]

OthersAlone(c) ==
    \A d \in Subtask \ {c} :
       /\ turn'[d] = turn[d] /\ results'[d] = results[d] /\ stage'[d] = stage[d]
       /\ asked'[d] = asked[d] /\ works'[d] = works[d]

LEMMA AskFacts ==
    ASSUME TypeOK, NEW c \in Subtask, NEW k, NEW r, NEW sofar, Enters(c, k, r, sofar)
    PROVE  LoopTypes /\ OthersAlone(c) /\ Lands(c, NextUp(c, k), sofar)
  <1> USE DEF Enters
  <1> DEFINE j == NextUp(c, k)
             L == Len(chosen[c])
             m == [i \in 1 .. j - k |-> "not_running"]
             x == chosen[c][j]
  <1>1. /\ L \in Nat /\ j \in Nat /\ k \in Nat /\ k <= j /\ j <= L + 1
        /\ j <= L => x \in Soldier
    BY NextUpFacts
  <1>2. /\ turn \in [Subtask -> Nat] /\ results \in [Subtask -> Seq(Result)]
        /\ stage \in [Subtask -> Stage] /\ asked \in [Subtask -> Seq(Soldier)]
        /\ works \in [Subtask -> [Soldier -> Nat]] /\ chosen[c] \in Seq(Soldier)
    BY DEF TypeOK
  <1>3. /\ turn' = [turn EXCEPT ![c] = j]
        /\ results' = [results EXCEPT ![c] = r \o m]
        /\ j <= L => /\ stage' = [stage EXCEPT ![c] = "asking"]
                     /\ asked' = [asked EXCEPT ![c] = Append(sofar, x)]
                     /\ works' = [works EXCEPT ![c][x] = works[c][x] + 1]
        /\ ~ (j <= L) => /\ stage' = [stage EXCEPT ![c] = "completed"]
                         /\ asked' = [asked EXCEPT ![c] = sofar]
                         /\ works' = works
    BY DEF Ask
  <1>4. sofar \in Seq(Soldier)
    <2>1. Len(r) <= L
      BY <1>1
    <2> QED  BY <1>2, <2>1, ReachedOfFacts
  <1>5. /\ r \o m \in Seq(Result) /\ Len(r \o m) = Len(r) + (j - k)
        /\ Reached(r \o m) = Reached(r)
    <2>1. j - k \in Nat
      BY <1>1
    <2> QED  BY <2>1, ReachedMore
  <1>6. ReachedOf(chosen[c], r \o m) = sofar
    BY <1>5 DEF ReachedOf
  <1> DEFINE more == r \o m
             one == Append(sofar, x)
  <1>7. more \in Seq(Result) /\ Len(more) = j - 1
    BY <1>1, <1>5
  <1>8. j <= L => one \in Seq(Soldier)
    BY <1>1, <1>4
  <1>9. /\ results' = [results EXCEPT ![c] = more]
        /\ ReachedOf(chosen[c], more) = sofar
        /\ j <= L => asked' = [asked EXCEPT ![c] = one]
    BY <1>3, <1>6
  <1>10. "asking" \in Stage /\ "completed" \in Stage
    BY DEF Stage
  <1> HIDE DEF j, L, x, more, one
  <1>11. /\ turn' \in [Subtask -> Nat] /\ turn'[c] = j
         /\ \A d \in Subtask \ {c} : turn'[d] = turn[d]
    BY <1>1, <1>2, <1>3
  <1>12. /\ results' \in [Subtask -> Seq(Result)] /\ results'[c] = more
         /\ \A d \in Subtask \ {c} : results'[d] = results[d]
    BY <1>2, <1>7, <1>9
  <1>13. CASE j <= L
    <2>1. /\ stage' \in [Subtask -> Stage] /\ stage'[c] = "asking"
          /\ \A d \in Subtask \ {c} : stage'[d] = stage[d]
      BY <1>2, <1>3, <1>10, <1>13
    <2>2. /\ asked' \in [Subtask -> Seq(Soldier)] /\ asked'[c] = one
          /\ \A d \in Subtask \ {c} : asked'[d] = asked[d]
      BY <1>2, <1>8, <1>9, <1>13
    <2>3. /\ works' \in [Subtask -> [Soldier -> Nat]]
          /\ works'[c] = [works[c] EXCEPT ![x] = works[c][x] + 1]
          /\ \A d \in Subtask \ {c} : works'[d] = works[d]
      <3>1. works' = [works EXCEPT ![c] = [works[c] EXCEPT ![x] = works[c][x] + 1]]
        BY <1>2, <1>3, <1>13
      <3>2. [works[c] EXCEPT ![x] = works[c][x] + 1] \in [Soldier -> Nat]
        BY <1>1, <1>2, <1>13
      <3> QED  BY <1>2, <3>1, <3>2
    <2> QED  BY <1>1, <1>7, <1>9, <1>11, <1>12, <1>13, <2>1, <2>2, <2>3
             DEF j, L, x, more, one, LoopTypes, OthersAlone, Lands
  <1>14. CASE ~ (j <= L)
    <2>1. /\ stage' \in [Subtask -> Stage] /\ stage'[c] = "completed"
          /\ \A d \in Subtask \ {c} : stage'[d] = stage[d]
      BY <1>2, <1>3, <1>10, <1>14
    <2>2. /\ asked' \in [Subtask -> Seq(Soldier)] /\ asked'[c] = sofar
          /\ \A d \in Subtask \ {c} : asked'[d] = asked[d]
      BY <1>2, <1>3, <1>4, <1>14
    <2>3. works' \in [Subtask -> [Soldier -> Nat]] /\ works' = works
      BY <1>2, <1>3, <1>14
    <2>4. j = L + 1
      BY <1>1, <1>14
    <2> QED  BY <1>1, <1>7, <1>9, <1>11, <1>12, <1>14, <2>1, <2>2, <2>3, <2>4
             DEF j, L, x, more, LoopTypes, OthersAlone, Lands
  <1> QED  BY <1>13, <1>14

\* After a stretch of the loop the results and the Soldiers asked agree again.
LEMMA AskPlace ==
    ASSUME TypeOK, NEW c \in Subtask, NEW k, NEW r, NEW sofar, Enters(c, k, r, sofar),
           chosen' = chosen
    PROVE  PlaceInv(c)'
  <1> DEFINE j == NextUp(c, k)
             L == Len(chosen[c])
  <1>1. L \in Nat /\ j \in Nat /\ j <= L + 1 /\ (j <= L => j \in 1 .. L)
    BY NextUpFacts DEF Enters
  <1>2. Lands(c, j, sofar)
    BY AskFacts
  <1> HIDE DEF j
  <1>3. CASE stage'[c] = "asking"
    <2>1. /\ turn'[c] \in 1 .. L /\ Len(results'[c]) = turn'[c] - 1
          /\ asked'[c] = Append(ReachedOf(chosen[c], results'[c]), chosen[c][turn'[c]])
      BY <1>1, <1>2, <1>3 DEF Lands
    <2> QED  BY <1>3, <2>1 DEF PlaceInv
  <1>4. CASE stage'[c] = "completed"
    <2>1. /\ Len(results'[c]) = L
          /\ asked'[c] = ReachedOf(chosen[c], results'[c])
      BY <1>1, <1>2, <1>4 DEF Lands
    <2> QED  BY <1>4, <2>1 DEF PlaceInv
  <1> QED  BY <1>2, <1>3, <1>4 DEF Lands


-----------------------------------------------------------------------------
(* How often a Soldier is chosen.                                          *)

LEMMA ShareFacts ==
    ASSUME NEW s, NEW x, NEW n \in Nat
    PROVE  /\ Share(s, x, n) \in Nat
           /\ \A m \in 0 .. n : Share(s, x, m) <= Share(s, x, n)
           /\ s[n + 1] = x => Share(s, x, n + 1) = Share(s, x, n) + 1
  <1> DEFINE P(m) == {i \in 1 .. m : s[i] = x}
  <1>1. ASSUME NEW m \in Nat  PROVE  IsFiniteSet(P(m))
    <2>1. IsFiniteSet(1 .. m) /\ P(m) \subseteq 1 .. m
      BY FS_Interval
    <2> QED  BY <2>1, FS_Subset
  <1>2. Share(s, x, n) \in Nat
    BY <1>1, FS_CardinalityType DEF Share
  <1>3. ASSUME NEW m \in 0 .. n  PROVE  Share(s, x, m) <= Share(s, x, n)
    <2>1. P(m) \subseteq P(n)
      OBVIOUS
    <2>2. IsFiniteSet(P(n))
      BY <1>1
    <2> QED  BY <2>1, <2>2, FS_Subset DEF Share
  <1>4. ASSUME s[n + 1] = x  PROVE  Share(s, x, n + 1) = Share(s, x, n) + 1
    <2>1. P(n + 1) = P(n) \cup {n + 1} /\ n + 1 \notin P(n)
      <3>1. 1 .. n + 1 = (1 .. n) \cup {n + 1} /\ n + 1 \notin 1 .. n
        OBVIOUS
      <3> QED  BY <1>4, <3>1
    <2>2. IsFiniteSet(P(n))
      BY <1>1
    <2>3. Cardinality(P(n) \cup {n + 1}) = Cardinality(P(n)) + 1
      BY <2>1, <2>2, FS_AddElement
    <2> QED  BY <2>1, <2>3 DEF Share
  <1> QED  BY <1>2, <1>3, <1>4

\* After a stretch of the loop in attempt B + 1, a Soldier has worked no more often than
\* it was chosen so far.
LEMMA AskWork ==
    ASSUME TypeOK, NEW c \in Subtask, NEW k, NEW r, NEW sofar, Enters(c, k, r, sofar),
           chosen' = chosen, NEW B \in Nat, attempt'[c] = B + 1,
           \A x \in Soldier :
              works[c][x] <= B * Share(chosen[c], x, Len(chosen[c])) + Share(chosen[c], x, k - 1)
    PROVE  WorkInv(c)'
  <1> DEFINE j == NextUp(c, k)
             s == chosen[c]
             L == Len(s)
  <1>1. /\ L \in Nat /\ j \in Nat /\ k \in Nat /\ k <= j /\ j <= L + 1 /\ k > 0
        /\ j <= L => s[j] \in Soldier
    BY NextUpFacts DEF Enters
  <1>2. Lands(c, j, sofar)
    BY AskFacts
  <1> HIDE DEF j
  <1> SUFFICES ASSUME NEW x \in Soldier
               PROVE  /\ works'[c][x] <= attempt'[c] * Share(s, x, L)
                      /\ stage'[c] = "asking" =>
                            works'[c][x] <= (attempt'[c] - 1) * Share(s, x, L)
                                                + Share(s, x, turn'[c])
    BY DEF WorkInv
  <1> DEFINE total == Share(s, x, L)
             before == Share(s, x, k - 1)
             old == works[c][x]
             new == works'[c][x]
  <1>3. total \in Nat /\ before \in Nat /\ before <= total
    <2>1. k - 1 \in 0 .. L /\ k - 1 \in Nat
      BY <1>1 DEF Enters
    <2> QED  BY <1>1, <2>1, ShareFacts
  <1>4. old \in Nat /\ works[c] \in [Soldier -> Nat] /\ turn'[c] = j
    BY <1>2 DEF TypeOK, Lands
  <1>5. B * total \in Nat /\ (B + 1) * total = B * total + total
    BY <1>3
  <1>6. old <= B * total + before
    OBVIOUS
  <1>7. attempt'[c] * total = B * total + total /\ (attempt'[c] - 1) * total = B * total
    <2> HIDE DEF total
    <2>1. attempt'[c] - 1 = B
      OBVIOUS
    <2> QED  BY <1>5, <2>1
  <1>8. CASE j = L + 1 /\ works' = works /\ stage'[c] = "completed"
    <2> HIDE DEF total, before, old
    <2>1. new = old
      BY <1>8 DEF old
    <2>2. old <= B * total + total
      BY <1>3, <1>4, <1>5, <1>6
    <2> QED  BY <1>7, <1>8, <2>1, <2>2 DEF total
  <1>9. CASE /\ j <= L /\ stage'[c] = "asking"
             /\ works'[c] = [works[c] EXCEPT ![s[j]] = works[c][s[j]] + 1]
    <2> DEFINE here == Share(s, x, j)
               prior == Share(s, x, j - 1)
    <2>1. /\ here \in Nat /\ prior \in Nat /\ before <= prior /\ prior <= here /\ here <= total
          /\ s[j] = x => here = prior + 1
      <3>1. j - 1 \in Nat /\ (j - 1) + 1 = j /\ k - 1 \in 0 .. j - 1 /\ j - 1 \in 0 .. j
            /\ j \in 0 .. L
        BY <1>1, <1>9
      <3>2. here \in Nat /\ prior \in Nat
        BY <1>1, <3>1, ShareFacts
      <3>3. before <= prior
        BY <3>1, ShareFacts
      <3>4. prior <= here
        BY <1>1, <3>1, ShareFacts
      <3>5. here <= total
        BY <1>1, <3>1, ShareFacts
      <3>6. s[(j - 1) + 1] = x => Share(s, x, (j - 1) + 1) = prior + 1
        BY <3>1, ShareFacts
      <3>7. s[j] = x => here = prior + 1
        BY <3>1, <3>6
      <3> QED  BY <3>2, <3>3, <3>4, <3>5, <3>7
    <2>2. \/ s[j] = x /\ new = old + 1
          \/ s[j] # x /\ new = old
      BY <1>4, <1>9
    <2> DEFINE past == B * total
    <2>0. past \in Nat /\ old <= past + before
      BY <1>5, <1>6
    <2> HIDE DEF total, before, old, new, here, prior, past
    <2>3. new <= past + here
      <3>1. CASE s[j] = x /\ new = old + 1
        BY <1>3, <1>4, <2>0, <2>1, <3>1
      <3>2. CASE s[j] # x /\ new = old
        BY <1>3, <1>4, <2>0, <2>1, <3>2
      <3> QED  BY <2>2, <3>1, <3>2
    <2>4. new <= past + total
      <3>1. new \in Nat
        BY <1>4, <2>2
      <3> QED  BY <1>3, <2>0, <2>1, <2>3, <3>1
    <2> QED  BY <1>4, <1>7, <2>3, <2>4 DEF total, new, here, past
  <1> QED  BY <1>2, <1>8, <1>9 DEF Lands


-----------------------------------------------------------------------------
(* What leaves a subtask alone.                                            *)

SameCall(d) ==
    /\ chosen' = chosen
    /\ stage'[d] = stage[d] /\ attempt'[d] = attempt[d] /\ turn'[d] = turn[d]
    /\ results'[d] = results[d] /\ elapsed'[d] = elapsed[d] /\ spent'[d] = spent[d]
    /\ asked'[d] = asked[d] /\ works'[d] = works[d]

LEMMA CallFrame ==
    ASSUME NEW d \in Subtask, CallInv(d), SameCall(d)
    PROVE  CallInv(d)'
  <1>1. AttemptInv(d)'
    BY DEF CallInv, SameCall, AttemptInv
  <1>2. PlaceInv(d)'
    BY DEF CallInv, SameCall, PlaceInv
  <1>3. TimeInv(d)'
    BY DEF CallInv, SameCall, TimeInv
  <1>4. WorkInv(d)'
    BY DEF CallInv, SameCall, WorkInv
  <1> QED  BY <1>1, <1>2, <1>3, <1>4 DEF CallInv

\* A step of subtask c leaves the agents and the others alone.
LEMMA OneCall ==
    ASSUME IInv, NEW c \in Subtask, TypeOK', UNCHANGED registry, CallInv(c)',
           \A d \in Subtask \ {c} : SameCall(d)
    PROVE  IInv'
  <1>1. ReachableIffLive'
    BY DEF IInv, ReachableIffLive, registry
  <1>2. \A d \in Subtask \ {c} : CallInv(d)'
    BY CallFrame DEF IInv
  <1> QED  BY <1>1, <1>2 DEF IInv

LEMMA InitInv == Init => IInv
  <1> SUFFICES ASSUME Init  PROVE  IInv
    OBVIOUS
  <1>1. chosen \in [Subtask -> Seq(Soldier)]
    <2> DEFINE Choices == {Select(M) : M \in SUBSET (DOMAIN Keywords)}
                             \cup {KnowledgeSelect(M) : M \in SUBSET (DOMAIN Keywords)}
    <2>1. Choices \subseteq Seq(Soldier)
      BY SelectType
    <2>2. chosen \in [Subtask -> Choices]
      BY DEF Init
    <2> HIDE DEF Choices
    <2> QED  BY <2>1, <2>2
  <1>2. <<>> \in Seq(Result) /\ <<>> \in Seq(Soldier) /\ "created" \in Stage
    BY DEF Stage
  <1>3. TypeOK
    BY <1>1, <1>2, LimitsAssumption DEF Init, TypeOK, Agent
  <1>4. ASSUME NEW c \in Subtask  PROVE  CallInv(c)
    <2>1. /\ stage[c] = "created" /\ attempt[c] = 0 /\ spent[c] = 0
          /\ \A x \in Soldier : works[c][x] = 0
      BY DEF Init
    <2>2. AttemptInv(c) /\ PlaceInv(c)
      BY <2>1 DEF AttemptInv, PlaceInv
    <2>3. TimeInv(c)
      BY <2>1, LimitsAssumption DEF TimeInv
    <2>4. \A x \in Soldier : Share(chosen[c], x, Len(chosen[c])) \in Nat
      BY <1>1, ShareFacts
    <2>5. WorkInv(c)
      BY <2>1, <2>4 DEF WorkInv
    <2> QED  BY <2>2, <2>3, <2>5 DEF CallInv
  <1>5. ReachableIffLive
    BY DEF Init, ReachableIffLive
  <1> QED  BY <1>3, <1>4, <1>5 DEF IInv

\* The types of one subtask's state.
LEMMA CallTypes ==
    ASSUME TypeOK, NEW c \in Subtask
    PROVE  /\ attempt[c] \in 0 .. MaxAttempts /\ attempt[c] \in Nat
           /\ elapsed[c] \in Nat /\ elapsed[c] <= Timeout /\ spent[c] \in Nat
           /\ turn[c] \in Nat /\ stage[c] \in Stage
           /\ Timeout \in Nat /\ MaxAttempts \in Nat
           /\ Len(chosen[c]) \in Nat /\ chosen[c] \in Seq(Soldier)
           /\ results[c] \in Seq(Result) /\ works[c] \in [Soldier -> Nat]
  BY LimitsAssumption DEF TypeOK

-----------------------------------------------------------------------------
(* The Agent Manager, cancellation and the clock.                          *)

LEMMA ManageInv ==
    ASSUME IInv, Manage
    PROVE  IInv'
  <1>1. TypeOK /\ handlers = live
    BY DEF IInv, ReachableIffLive
  <1>2. UNCHANGED call
    BY DEF Manage, Ensure, Retire, FallSick, SuperviseFails, Supervise
  <1>3. handlers' = live' /\ live' \subseteq Agent /\ sick' \subseteq live'
    BY <1>1 DEF Manage, Ensure, Retire, FallSick, SuperviseFails, Supervise, Initialize,
                ShutDown, TypeOK
  <1>4. TypeOK'
    BY <1>1, <1>2, <1>3 DEF TypeOK, call
  <1>5. \A d \in Subtask : SameCall(d)
    BY <1>2 DEF call, SameCall
  <1>6. \A d \in Subtask : CallInv(d)'
    BY <1>5, CallFrame DEF IInv
  <1> QED  BY <1>3, <1>4, <1>6 DEF IInv, ReachableIffLive

\* A subtask that only changes its stage, not to one of the loop's.
LEMMA StageStep ==
    ASSUME IInv, NEW c \in Subtask, NEW to \in {"backoff", "failed", "cancelled"},
           stage' = [stage EXCEPT ![c] = to],
           to = "backoff" => attempt[c] < MaxAttempts,
           UNCHANGED <<registry, chosen, attempt, turn, results, elapsed, spent, asked, works>>
    PROVE  IInv'
  <1>1. TypeOK /\ stage \in [Subtask -> Stage] /\ to \in Stage
    BY DEF IInv, TypeOK, Stage
  <1>2. /\ stage' \in [Subtask -> Stage] /\ stage'[c] = to
        /\ \A d \in Subtask \ {c} : stage'[d] = stage[d]
    BY <1>1
  <1>3. TypeOK'
    BY <1>1, <1>2 DEF TypeOK, registry
  <1>4. AttemptInv(c) /\ PlaceInv(c) /\ TimeInv(c) /\ WorkInv(c)
    BY DEF IInv, CallInv
  <1>5. AttemptInv(c)' /\ PlaceInv(c)'
    BY <1>2, <1>4 DEF AttemptInv, PlaceInv
  <1>6. TimeInv(c)' /\ WorkInv(c)'
    BY <1>2, <1>4 DEF TimeInv, WorkInv
  <1>7. \A d \in Subtask \ {c} : SameCall(d)
    BY <1>2 DEF SameCall
  <1> QED  BY <1>3, <1>5, <1>6, <1>7, OneCall DEF CallInv

LEMMA CancelInv ==
    ASSUME IInv, NEW c \in Subtask, Cancel(c)  PROVE  IInv'
  BY StageStep DEF Cancel

LEMMA GiveUpFacts ==
    ASSUME NEW c \in Subtask, NEW n \in Nat, GiveUp(c, n)
    PROVE  \/ stage' = [stage EXCEPT ![c] = "failed"]
           \/ stage' = [stage EXCEPT ![c] = "backoff"] /\ n < MaxAttempts
  <1>1. CASE n >= MaxAttempts
    BY <1>1 DEF GiveUp
  <1>2. CASE ~ (n >= MaxAttempts)
    BY <1>2, LimitsAssumption DEF GiveUp
  <1> QED  BY <1>1, <1>2

LEMMA RequestTimesOutInv ==
    ASSUME IInv, NEW c \in Subtask, RequestTimesOut(c)  PROVE  IInv'
  <1>1. attempt[c] \in Nat
    BY CallTypes DEF IInv
  <1>2. \/ stage' = [stage EXCEPT ![c] = "failed"]
        \/ stage' = [stage EXCEPT ![c] = "backoff"] /\ attempt[c] < MaxAttempts
    BY <1>1, GiveUpFacts DEF RequestTimesOut
  <1>3. UNCHANGED <<registry, chosen, attempt, turn, results, elapsed, spent, asked, works>>
    BY DEF RequestTimesOut
  <1> QED  BY <1>2, <1>3, StageStep


LEMMA GeneralMissingInv ==
    ASSUME IInv, NEW c \in Subtask, GeneralMissing(c)  PROVE  IInv'
  <1> DEFINE a == attempt[c]
  <1>1. /\ TypeOK /\ a \in Nat /\ a \in 0 .. MaxAttempts /\ MaxAttempts \in Nat \ {0}
        /\ Timeout \in Nat /\ spent[c] \in Nat /\ Len(chosen[c]) \in Nat
    BY CallTypes, LimitsAssumption DEF IInv
  <1>2. AttemptInv(c) /\ PlaceInv(c) /\ TimeInv(c) /\ WorkInv(c)
    BY DEF IInv, CallInv
  <1>3. /\ Resuming(c) /\ GiveUp(c, a + 1)
        /\ attempt' = [attempt EXCEPT ![c] = a + 1]
        /\ UNCHANGED <<registry, chosen, turn, results, elapsed, spent, asked, works>>
    BY DEF GeneralMissing
  <1>4. a < MaxAttempts
    BY <1>1, <1>2, <1>3 DEF Resuming, AttemptInv
  <1>5. /\ attempt' \in [Subtask -> 0 .. MaxAttempts] /\ attempt'[c] = a + 1
        /\ \A d \in Subtask \ {c} : attempt'[d] = attempt[d]
    <2>1. a + 1 \in 0 .. MaxAttempts
      BY <1>1, <1>4
    <2>2. attempt \in [Subtask -> 0 .. MaxAttempts]
      BY <1>1 DEF TypeOK
    <2> QED  BY <1>3, <2>1, <2>2
  <1>6. \/ stage' = [stage EXCEPT ![c] = "failed"]
        \/ stage' = [stage EXCEPT ![c] = "backoff"] /\ a + 1 < MaxAttempts
    BY <1>1, <1>3, GiveUpFacts
  <1>7. /\ stage' \in [Subtask -> Stage]
        /\ \/ stage'[c] = "failed"
           \/ stage'[c] = "backoff" /\ a + 1 < MaxAttempts
        /\ \A d \in Subtask \ {c} : stage'[d] = stage[d]
    BY <1>1, <1>6 DEF TypeOK, Stage
  <1>8. TypeOK'
    BY <1>1, <1>3, <1>5, <1>7 DEF TypeOK, registry
  <1>9. AttemptInv(c)' /\ PlaceInv(c)'
    BY <1>5, <1>7 DEF AttemptInv, PlaceInv
  <1>10. TimeInv(c)'
    <2>1. spent[c] <= a * Timeout
      BY <1>2 DEF TimeInv
    <2>2. a * Timeout \in Nat /\ (a + 1) * Timeout = a * Timeout + Timeout
      BY <1>1
    <2>3. spent[c] <= (a + 1) * Timeout
      BY <1>1, <2>1, <2>2
    <2> QED  BY <1>3, <1>5, <1>7, <2>3 DEF TimeInv
  <1>11. WorkInv(c)'
    <2> SUFFICES ASSUME NEW x \in Soldier
                 PROVE  works[c][x] <= (a + 1) * Share(chosen[c], x, Len(chosen[c]))
      BY <1>3, <1>5, <1>7 DEF WorkInv
    <2> DEFINE total == Share(chosen[c], x, Len(chosen[c]))
    <2>1. total \in Nat
      BY <1>1, ShareFacts
    <2>2. works[c][x] <= a * total /\ works[c][x] \in Nat
      BY <1>1, <1>2 DEF WorkInv, TypeOK
    <2> HIDE DEF total
    <2>3. a * total \in Nat /\ (a + 1) * total = a * total + total
      BY <1>1, <2>1
    <2>4. works[c][x] <= (a + 1) * total
      BY <2>1, <2>2, <2>3
    <2> QED  BY <2>4 DEF total
  <1>12. \A d \in Subtask \ {c} : SameCall(d)
    BY <1>3, <1>5, <1>7 DEF SameCall
  <1>13. UNCHANGED registry
    BY <1>3
  <1> QED  BY <1>8, <1>9, <1>10, <1>11, <1>12, <1>13, OneCall DEF CallInv

LEMMA OneMoreTime ==
    ASSUME NEW n \in Nat, NEW t \in Nat
    PROVE  n * t \in Nat /\ (n + 1) * t = n * t + t
  OBVIOUS

LEMMA AdvanceInv ==
    ASSUME IInv, Advance  PROVE  IInv'
  <1>1. TypeOK /\ Timeout \in Nat
    BY LimitsAssumption DEF IInv
  <1>2. /\ UNCHANGED <<registry, chosen, stage, attempt, turn, results, asked, works>>
        /\ \A c \in Subtask : stage[c] = "asking" => elapsed[c] < Timeout
    BY DEF Advance, Asking
  <1>3. ASSUME NEW c \in Subtask
        PROVE  /\ stage[c] = "asking" => elapsed'[c] = elapsed[c] + 1 /\ spent'[c] = spent[c] + 1
               /\ stage[c] # "asking" => elapsed'[c] = elapsed[c] /\ spent'[c] = spent[c]
               /\ elapsed'[c] \in 0 .. Timeout /\ spent'[c] \in Nat
    <2>1. elapsed[c] \in 0 .. Timeout /\ spent[c] \in Nat
      BY <1>1 DEF TypeOK
    <2>2. /\ stage[c] = "asking" => elapsed'[c] = elapsed[c] + 1 /\ spent'[c] = spent[c] + 1
          /\ stage[c] # "asking" => elapsed'[c] = elapsed[c] /\ spent'[c] = spent[c]
      BY DEF Advance, Asking
    <2> QED  BY <1>1, <1>2, <2>1, <2>2
  <1>4. elapsed' \in [Subtask -> 0 .. Timeout] /\ spent' \in [Subtask -> Nat]
    <2>1. /\ elapsed' = [c \in Subtask |-> elapsed'[c]]
          /\ spent' = [c \in Subtask |-> spent'[c]]
      BY DEF Advance
    <2> QED  BY <1>3, <2>1
  <1>5. TypeOK'
    BY <1>1, <1>2, <1>4 DEF TypeOK, registry
  <1>6. ASSUME NEW c \in Subtask  PROVE  CallInv(c)'
    <2>1. AttemptInv(c) /\ PlaceInv(c) /\ TimeInv(c) /\ WorkInv(c)
      BY DEF IInv, CallInv
    <2>2. AttemptInv(c)' /\ PlaceInv(c)' /\ WorkInv(c)'
      BY <1>2, <2>1 DEF AttemptInv, PlaceInv, WorkInv
    <2>3. CASE stage[c] # "asking"
      <3>1. TimeInv(c)'
        BY <1>2, <1>3, <2>1, <2>3 DEF TimeInv
      <3> QED  BY <2>2, <3>1 DEF CallInv
    <2>4. CASE stage[c] = "asking"
      <3> DEFINE a == attempt[c]
                 past == (a - 1) * Timeout
      <3>1. /\ a \in Nat /\ a > 0 /\ elapsed[c] \in Nat /\ spent[c] \in Nat
            /\ elapsed[c] < Timeout
        BY <1>1, <1>2, <2>1, <2>4, CallTypes DEF AttemptInv
      <3>2. a - 1 \in Nat /\ past \in Nat /\ a * Timeout = past + Timeout
        <4>1. a - 1 \in Nat /\ a = (a - 1) + 1
          BY <3>1
        <4>2. past \in Nat /\ ((a - 1) + 1) * Timeout = past + Timeout
          BY <1>1, <4>1, OneMoreTime
        <4> QED  BY <4>1, <4>2
      <3>3. spent[c] <= past + elapsed[c]
        BY <2>1, <2>4 DEF TimeInv
      <3> HIDE DEF past
      <3>4. spent[c] + 1 <= past + (elapsed[c] + 1) /\ spent[c] + 1 <= a * Timeout
        BY <1>1, <3>1, <3>2, <3>3
      <3>5. TimeInv(c)'
        BY <1>2, <1>3, <2>4, <3>4 DEF TimeInv, past
      <3> QED  BY <2>2, <3>5 DEF CallInv
    <2> QED  BY <2>3, <2>4
  <1>7. ReachableIffLive'
    BY <1>2 DEF IInv, ReachableIffLive, registry
  <1> QED  BY <1>5, <1>6, <1>7 DEF IInv


-----------------------------------------------------------------------------
(* Attempts and replies.                                                   *)

\* The type of the state after a stretch of the loop.
LEMMA LoopTypeOK ==
    ASSUME TypeOK, LoopTypes, UNCHANGED <<registry, chosen>>,
           attempt' \in [Subtask -> 0 .. MaxAttempts],
           elapsed' \in [Subtask -> 0 .. Timeout], spent' \in [Subtask -> Nat]
    PROVE  TypeOK'
  BY DEF TypeOK, LoopTypes, registry

LEMMA StartAttemptInv ==
    ASSUME IInv, NEW c \in Subtask, StartAttempt(c)  PROVE  IInv'
  <1> DEFINE a == attempt[c]
             L == Len(chosen[c])
  <1>1. /\ TypeOK /\ a \in Nat /\ a \in 0 .. MaxAttempts /\ MaxAttempts \in Nat \ {0}
        /\ Timeout \in Nat /\ spent[c] \in Nat /\ L \in Nat /\ chosen[c] \in Seq(Soldier)
        /\ works[c] \in [Soldier -> Nat]
    BY CallTypes, LimitsAssumption DEF IInv
  <1>2. AttemptInv(c) /\ TimeInv(c) /\ WorkInv(c)
    BY DEF IInv, CallInv
  <1>3. /\ Resuming(c) /\ Ask(c, 1, <<>>, <<>>)
        /\ attempt' = [attempt EXCEPT ![c] = a + 1]
        /\ elapsed' = [elapsed EXCEPT ![c] = 0]
        /\ UNCHANGED <<registry, chosen, spent>>
    BY DEF StartAttempt
  <1>4. a < MaxAttempts
    BY <1>1, <1>2, <1>3 DEF Resuming, AttemptInv
  <1>5. /\ attempt' \in [Subtask -> 0 .. MaxAttempts] /\ attempt'[c] = a + 1
        /\ \A d \in Subtask \ {c} : attempt'[d] = attempt[d]
    <2>1. a + 1 \in 0 .. MaxAttempts
      BY <1>1, <1>4
    <2>2. attempt \in [Subtask -> 0 .. MaxAttempts]
      BY <1>1 DEF TypeOK
    <2> QED  BY <1>3, <2>1, <2>2
  <1>6. /\ elapsed' \in [Subtask -> 0 .. Timeout] /\ elapsed'[c] = 0
        /\ \A d \in Subtask \ {c} : elapsed'[d] = elapsed[d]
        /\ spent' = spent /\ spent' \in [Subtask -> Nat]
    <2>1. elapsed \in [Subtask -> 0 .. Timeout] /\ spent \in [Subtask -> Nat]
          /\ 0 \in 0 .. Timeout
      BY <1>1 DEF TypeOK
    <2> QED  BY <1>3, <2>1
  <1>7. Enters(c, 1, <<>>, <<>>)
    <2>1. 1 \in 1 .. L + 1 /\ <<>> \in Seq(Result) /\ Len(<<>>) = 1 - 1
      BY <1>1
    <2>2. ReachedOf(chosen[c], <<>>) = <<>>
      BY <1>1, ReachedOfNone
    <2> QED  BY <1>3, <2>1, <2>2 DEF Enters
  <1>8. /\ LoopTypes /\ OthersAlone(c) /\ Lands(c, NextUp(c, 1), <<>>)
    BY <1>1, <1>7, AskFacts
  <1>9. TypeOK'
    BY <1>1, <1>3, <1>5, <1>6, <1>8, LoopTypeOK
  <1>10. stage'[c] \in {"asking", "completed"}
    BY <1>8 DEF Lands
  <1>11. AttemptInv(c)'
    BY <1>1, <1>5, <1>10 DEF AttemptInv
  <1>12. PlaceInv(c)'
    BY <1>1, <1>3, <1>7, AskPlace
  <1>13. TimeInv(c)'
    <2>1. spent[c] <= a * Timeout
      BY <1>2 DEF TimeInv
    <2>2. a * Timeout \in Nat /\ (a + 1) * Timeout = a * Timeout + Timeout
      BY <1>1, OneMoreTime
    <2>3. spent[c] <= (a + 1) * Timeout /\ (a + 1) - 1 = a
      BY <1>1, <2>1, <2>2
    <2>4. spent[c] <= a * Timeout + 0
      BY <2>1, <2>2
    <2>5. /\ spent'[c] = spent[c] /\ elapsed'[c] = 0 /\ attempt'[c] = a + 1
          /\ attempt'[c] - 1 = a
      BY <1>1, <1>5, <1>6
    <2> QED  BY <2>3, <2>4, <2>5 DEF TimeInv
  <1>14. WorkInv(c)'
    <2>1. ASSUME NEW x \in Soldier
          PROVE  works[c][x] <= a * Share(chosen[c], x, L) + Share(chosen[c], x, 1 - 1)
      <3> DEFINE total == Share(chosen[c], x, L)
                 none == Share(chosen[c], x, 1 - 1)
      <3>1. total \in Nat /\ none \in Nat
        BY <1>1, ShareFacts
      <3>2. works[c][x] \in Nat /\ works[c][x] <= a * total
        BY <1>1, <1>2 DEF WorkInv
      <3> HIDE DEF total, none
      <3>3. a * total \in Nat
        BY <1>1, <3>1, OneMoreTime
      <3>4. works[c][x] <= a * total + none
        BY <3>1, <3>2, <3>3
      <3> QED  BY <3>4 DEF total, none
    <2> QED  BY <1>1, <1>3, <1>5, <1>7, <2>1, AskWork
  <1>15. \A d \in Subtask \ {c} : SameCall(d)
    BY <1>3, <1>5, <1>6, <1>8 DEF SameCall, OthersAlone
  <1>16. UNCHANGED registry
    BY <1>3
  <1> QED  BY <1>9, <1>11, <1>12, <1>13, <1>14, <1>15, <1>16, OneCall DEF CallInv

LEMMA SoldierRepliesInv ==
    ASSUME IInv, NEW c \in Subtask, NEW outcome \in {"completed", "failed"},
           SoldierReplies(c, outcome)
    PROVE  IInv'
  <1> DEFINE a == attempt[c]
             L == Len(chosen[c])
             n == turn[c]
             r == Append(results[c], outcome)
  <1>1. /\ TypeOK /\ a \in Nat /\ Timeout \in Nat /\ spent[c] \in Nat /\ L \in Nat
        /\ chosen[c] \in Seq(Soldier) /\ results[c] \in Seq(Result)
    BY CallTypes DEF IInv
  <1>2. AttemptInv(c) /\ PlaceInv(c) /\ TimeInv(c) /\ WorkInv(c)
    BY DEF IInv, CallInv
  <1>3. /\ stage[c] = "asking" /\ Ask(c, n + 1, r, asked[c])
        /\ UNCHANGED <<registry, chosen, attempt, elapsed, spent>>
    BY DEF SoldierReplies
  <1>4. /\ n \in 1 .. L /\ Len(results[c]) = n - 1 /\ a > 0
        /\ asked[c] = Append(ReachedOf(chosen[c], results[c]), chosen[c][n])
    BY <1>2, <1>3 DEF PlaceInv, AttemptInv
  <1>5. Enters(c, n + 1, r, asked[c])
    <2>1. outcome \in Result \ {"not_running"}
      BY DEF Result
    <2>2. /\ n + 1 \in 1 .. L + 1 /\ r \in Seq(Result) /\ Len(r) = (n + 1) - 1
          /\ Len(results[c]) < L /\ Len(results[c]) + 1 = n
      <3>1. r \in Seq(Result) /\ Len(r) = Len(results[c]) + 1
        BY <1>1, <2>1
      <3>2. n + 1 \in 1 .. L + 1 /\ Len(results[c]) < L /\ Len(results[c]) + 1 = n
            /\ (n + 1) - 1 = n
        BY <1>1, <1>4
      <3> QED  BY <3>1, <3>2
    <2>3. ReachedOf(chosen[c], r) = Append(ReachedOf(chosen[c], results[c]),
                                           chosen[c][Len(results[c]) + 1])
      BY <1>1, <2>1, <2>2, ReachedOfAppend
    <2> QED  BY <1>3, <1>4, <2>2, <2>3 DEF Enters
  <1> HIDE DEF r
  <1>6. LoopTypes /\ OthersAlone(c) /\ Lands(c, NextUp(c, n + 1), asked[c])
    BY <1>1, <1>5, AskFacts
  <1>7. TypeOK'
    <2>1. /\ attempt' \in [Subtask -> 0 .. MaxAttempts]
          /\ elapsed' \in [Subtask -> 0 .. Timeout] /\ spent' \in [Subtask -> Nat]
      BY <1>1, <1>3 DEF TypeOK
    <2> QED  BY <1>1, <1>3, <1>6, <2>1, LoopTypeOK
  <1>8. stage'[c] \in {"asking", "completed"}
    BY <1>6 DEF Lands
  <1>9. AttemptInv(c)'
    BY <1>3, <1>4, <1>8 DEF AttemptInv
  <1>10. PlaceInv(c)'
    BY <1>1, <1>3, <1>5, AskPlace
  <1>11. TimeInv(c)'
    BY <1>2, <1>3 DEF TimeInv
  <1>12. WorkInv(c)'
    <2> DEFINE B == a - 1
    <2>1. B \in Nat /\ attempt'[c] = B + 1 /\ n = (n + 1) - 1
      <3>1. attempt'[c] = a /\ n \in Nat
        BY <1>1, <1>3, <1>4
      <3>2. a - 1 \in Nat /\ a = (a - 1) + 1
        BY <1>1, <1>4
      <3> QED  BY <3>1, <3>2
    <2>2. \A x \in Soldier : works[c][x] <= B * Share(chosen[c], x, L)
                                               + Share(chosen[c], x, n)
      BY <1>2, <1>3 DEF WorkInv
    <2> HIDE DEF B
    <2>3. \A x \in Soldier : works[c][x] <= B * Share(chosen[c], x, L)
                                               + Share(chosen[c], x, (n + 1) - 1)
      BY <2>1, <2>2
    <2> QED  BY <1>1, <1>3, <1>5, <2>1, <2>3, AskWork
  <1>13. \A d \in Subtask \ {c} : SameCall(d)
    BY <1>3, <1>6 DEF SameCall, OthersAlone
  <1>14. UNCHANGED registry
    BY <1>3
  <1> QED  BY <1>7, <1>9, <1>10, <1>11, <1>12, <1>13, <1>14, OneCall DEF CallInv


-----------------------------------------------------------------------------
(* The theorems.                                                           *)

LEMMA StutterInv ==
    ASSUME IInv, UNCHANGED vars  PROVE  IInv'
  <1>1. UNCHANGED <<registry, call>>
    BY DEF vars, registry, call
  <1>2. TypeOK' /\ ReachableIffLive'
    BY <1>1 DEF IInv, TypeOK, ReachableIffLive, registry, call
  <1>3. \A d \in Subtask : SameCall(d)
    BY <1>1 DEF SameCall, call
  <1>4. \A d \in Subtask : CallInv(d)'
    BY <1>3, CallFrame DEF IInv
  <1> QED  BY <1>2, <1>4 DEF IInv

LEMMA StepInv == IInv /\ [Next]_vars => IInv'
  <1> SUFFICES ASSUME IInv, [Next]_vars  PROVE  IInv'
    OBVIOUS
  <1>1. CASE UNCHANGED vars
    BY <1>1, StutterInv
  <1>2. ASSUME NEW c \in Subtask, Work(c)  PROVE  IInv'
    <2>1. CASE StartAttempt(c)
      BY <2>1, StartAttemptInv
    <2>2. CASE GeneralMissing(c)
      BY <2>2, GeneralMissingInv
    <2>3. CASE \E outcome \in {"completed", "failed"} : SoldierReplies(c, outcome)
      BY <2>3, SoldierRepliesInv
    <2>4. CASE RequestTimesOut(c)
      BY <2>4, RequestTimesOutInv
    <2> QED  BY <1>2, <2>1, <2>2, <2>3, <2>4 DEF Work, Resume
  <1>3. ASSUME NEW c \in Subtask, Cancel(c)  PROVE  IInv'
    BY <1>3, CancelInv
  <1>4. CASE Manage
    BY <1>4, ManageInv
  <1>5. CASE Advance
    BY <1>5, AdvanceInv
  <1> QED  BY <1>1, <1>2, <1>3, <1>4, <1>5 DEF Next

LEMMA Invariance == Spec => []IInv
  BY InitInv, StepInv, PTL DEF Spec

\* The type of the state, for any roster, keywords, attempts and limits.
THEOREM TypeCorrect == Spec => []TypeOK
  <1>1. IInv => TypeOK
    BY DEF IInv
  <1> QED  BY <1>1, Invariance, PTL

\* AgentManager.ensure, retire and supervise with the agents' hooks: whatever is started,
\* retired, restarted or lost in a restart, exactly the live agents are on the bus.
THEOREM ReachableIffLiveHolds == Spec => []ReachableIffLive
  <1>1. IInv => ReachableIffLive
    BY DEF IInv
  <1> QED  BY <1>1, Invariance, PTL

\* BaseGeneral's loop: a completed answer has a result for each chosen Soldier in order,
\* all of the last attempt, and those reached are the Soldiers this attempt asked, though
\* Soldiers come and go between two turns.
THEOREM AnswerCoversChosenHolds == Spec => []AnswerCoversChosen
  <1>1. IInv => AnswerCoversChosen
    BY DEF IInv, CallInv, PlaceInv, AnswerCoversChosen, ReachedOf, Reached
  <1> QED  BY <1>1, Invariance, PTL

\* The nested deadlines of the requests under the Task Manager's retries: a subtask takes
\* at most one limit for each attempt, and a Soldier works for it at most as often as it
\* is chosen, for each attempt.
THEOREM RetryBudgetHolds == Spec => []RetryBudget
  <1>1. IInv => RetryBudget
    <2> SUFFICES ASSUME IInv, NEW c \in Subtask
                 PROVE  /\ spent[c] <= attempt[c] * Timeout
                        /\ \A s \in Soldier :
                              works[c][s] <= attempt[c] * Cardinality(
                                 {i \in DOMAIN chosen[c] : chosen[c][i] = s})
      BY DEF RetryBudget
    <2>1. TimeInv(c) /\ WorkInv(c)
      BY DEF IInv, CallInv
    <2>2. DOMAIN chosen[c] = 1 .. Len(chosen[c])
      BY CallTypes DEF IInv
    <2> QED  BY <2>1, <2>2 DEF TimeInv, WorkInv, Share
  <1> QED  BY <1>1, Invariance, PTL

\* BaseAgent.run and the KeyError of a missing Soldier: an attempt fails only by the lack
\* of the General or by its time limit, never by what a Soldier does.
THEOREM FailureIsContainedHolds == Spec => FailureIsContained
  <1> DEFINE A(c) == (stage'[c] \in {"backoff", "failed"} /\ stage'[c] # stage[c])
                        => General \notin handlers \/ elapsed[c] = Timeout
  <1>1. ASSUME IInv, Next, NEW c \in Subtask  PROVE  A(c)
    <2>1. TypeOK /\ stage \in [Subtask -> Stage]
      BY <1>1 DEF IInv, TypeOK
    <2>2. ASSUME NEW d \in Subtask, StartAttempt(d)  PROVE  A(c)
      <3>1. Ask(d, 1, <<>>, <<>>)
        BY <2>2 DEF StartAttempt
      <3>2. \/ stage' = [stage EXCEPT ![d] = "asking"]
            \/ stage' = [stage EXCEPT ![d] = "completed"]
        BY <3>1 DEF Ask
      <3> QED  BY <2>1, <3>2
    <2>3. ASSUME NEW d \in Subtask, NEW o, SoldierReplies(d, o)  PROVE  A(c)
      <3>1. Ask(d, turn[d] + 1, Append(results[d], o), asked[d])
        BY <2>3 DEF SoldierReplies
      <3>2. \/ stage' = [stage EXCEPT ![d] = "asking"]
            \/ stage' = [stage EXCEPT ![d] = "completed"]
        BY <3>1 DEF Ask
      <3> QED  BY <2>1, <3>2
    <2>4. ASSUME NEW d \in Subtask, GeneralMissing(d)  PROVE  A(c)
      BY <2>4 DEF GeneralMissing
    <2>5. ASSUME NEW d \in Subtask, RequestTimesOut(d)  PROVE  A(c)
      <3>1. elapsed[d] = Timeout /\ \A b \in Subtask \ {d} : stage'[b] = stage[b]
        BY <2>1, <2>5 DEF RequestTimesOut, GiveUp
      <3> QED  BY <3>1
    <2>6. ASSUME NEW d \in Subtask, Cancel(d)  PROVE  A(c)
      BY <2>1, <2>6 DEF Cancel
    <2>7. ASSUME Manage \/ Advance  PROVE  A(c)
      <3>1. stage' = stage
        BY <2>7 DEF Manage, Ensure, Retire, FallSick, SuperviseFails, Supervise, Advance, call
      <3> QED  BY <3>1
    <2> QED  BY <1>1, <2>2, <2>3, <2>4, <2>5, <2>6, <2>7 DEF Next, Work, Resume
  <1>2. IInv /\ [Next]_vars => [\A c \in Subtask : A(c)]_vars
    BY <1>1
  <1> HIDE DEF A
  <1>3. Spec => [][\A c \in Subtask : A(c)]_vars
    BY <1>2, Invariance, PTL DEF Spec
  <1> QED  BY <1>3 DEF FailureIsContained, A
=============================================================================
