------------------------ MODULE SubsetSelectionProofs -----------------------
(***************************************************************************)
(* Proofs about the operators of SubsetSelection: what sorting, filtering  *)
(* and rotating give, how many names an order adds to a selection and      *)
(* which ones, and that every strategy fills its budget.                   *)
(***************************************************************************)
EXTENDS SubsetSelection, FiniteSetTheorems, SequenceTheorems, WellFoundedInduction,
        TLAPS

-----------------------------------------------------------------------------
(* Ranks in a finite strict total order. *)

\* below[x] are the elements of S before x, in a strict total order.
Orders(below, S) ==
  /\ below \in [S -> SUBSET S]
  /\ \A x \in S : x \notin below[x]
  /\ \A x, y \in S : y \in below[x] => below[y] \subseteq below[x]
  /\ \A x, y \in S : x # y => x \in below[y] \/ y \in below[x]

\* The ranks of the elements of a finite set are 0, 1, 2, ... up to its size.
LEMMA RankFacts ==
  ASSUME NEW S, IsFiniteSet(S), NEW below, Orders(below, S)
  PROVE  /\ Cardinality(S) \in Nat
         /\ \A x \in S : Cardinality(below[x]) \in 0 .. Cardinality(S) - 1
         /\ \A x, y \in S : x \in below[y] <=> Cardinality(below[x]) < Cardinality(below[y])
         /\ \A x, y \in S : Cardinality(below[x]) = Cardinality(below[y]) => x = y
         /\ \A i \in 0 .. Cardinality(S) - 1 : \E x \in S : Cardinality(below[x]) = i
<1> DEFINE f == [x \in S |-> Cardinality(below[x])]
           N == Cardinality(S)
<1>1. N \in Nat
  BY FS_CardinalityType
<1>2. \A x \in S : /\ IsFiniteSet(below[x])
                   /\ Cardinality(below[x]) \in Nat
                   /\ Cardinality(below[x]) < N
  <2> SUFFICES ASSUME NEW x \in S
               PROVE  /\ IsFiniteSet(below[x])
                      /\ Cardinality(below[x]) \in Nat
                      /\ Cardinality(below[x]) < N
    OBVIOUS
  <2>1. below[x] \in SUBSET S /\ below[x] # S
    BY DEF Orders
  <2>2. IsFiniteSet(below[x]) /\ Cardinality(below[x]) \in Nat
    BY <2>1, FS_Subset, FS_CardinalityType
  <2>3. Cardinality(below[x]) <= N /\ Cardinality(below[x]) # N
    BY <2>1, FS_Subset
  <2> QED
    BY <1>1, <2>2, <2>3
<1>3. \A x, y \in S : x \in below[y] => Cardinality(below[x]) < Cardinality(below[y])
  <2> SUFFICES ASSUME NEW x \in S, NEW y \in S, x \in below[y]
               PROVE  Cardinality(below[x]) < Cardinality(below[y])
    OBVIOUS
  <2>1. below[x] \in SUBSET below[y] /\ below[x] # below[y]
    BY DEF Orders
  <2>2. Cardinality(below[x]) <= Cardinality(below[y])
        /\ Cardinality(below[x]) # Cardinality(below[y])
    BY <1>2, <2>1, FS_Subset
  <2> QED
    BY <1>2, <2>2
<1>4. \A x, y \in S : Cardinality(below[x]) = Cardinality(below[y]) => x = y
  BY <1>2, <1>3 DEF Orders
<1>5. \A x, y \in S : Cardinality(below[x]) < Cardinality(below[y]) => x \in below[y]
  BY <1>2, <1>3 DEF Orders
<1>6. f \in Injection(S, 0 .. N - 1)
  BY <1>1, <1>2, <1>4 DEF Injection, IsInjective
<1>7. IsFiniteSet(0 .. N - 1) /\ Cardinality(0 .. N - 1) = N
  BY <1>1, FS_Interval
<1>8. f \in Surjection(S, 0 .. N - 1)
  BY <1>6, <1>7, FS_Injection
<1> QED
  BY <1>1, <1>2, <1>3, <1>4, <1>5, <1>8 DEF Surjection

\* Sorting lists every element once, each at its rank.
LEMMA SortedFacts ==
  ASSUME NEW S, IsFiniteSet(S), NEW below, Orders(below, S)
  PROVE  /\ Sorted(S, below) \in Seq(S)
         /\ Len(Sorted(S, below)) = Cardinality(S)
         /\ ToSet(Sorted(S, below)) = S
         /\ IsInjective(Sorted(S, below))
         /\ \A i \in 1 .. Cardinality(S) : Cardinality(below[Sorted(S, below)[i]]) = i - 1
<1> DEFINE s == Sorted(S, below)
           N == Cardinality(S)
<1>1. N \in Nat
  BY RankFacts
<1>2. \A i \in 1 .. N : s[i] \in S /\ Cardinality(below[s[i]]) = i - 1
  <2> SUFFICES ASSUME NEW i \in 1 .. N
               PROVE  s[i] \in S /\ Cardinality(below[s[i]]) = i - 1
    OBVIOUS
  <2>1. i - 1 \in 0 .. N - 1
    BY <1>1
  <2>2. \E x \in S : Cardinality(below[x]) = i - 1
    BY <2>1, RankFacts
  <2>3. s[i] = CHOOSE x \in S : Cardinality(below[x]) = i - 1
    BY DEF Sorted
  <2> QED
    BY <2>2, <2>3
<1>3. DOMAIN s = 1 .. N /\ s \in [1 .. N -> S]
  BY <1>2 DEF Sorted
<1>4. s \in Seq(S) /\ Len(s) = N
  BY <1>1, <1>3, IsASeq
<1>5. \A x \in S : s[Cardinality(below[x]) + 1] = x /\ Cardinality(below[x]) + 1 \in 1 .. N
  <2> SUFFICES ASSUME NEW x \in S
               PROVE  /\ s[Cardinality(below[x]) + 1] = x
                      /\ Cardinality(below[x]) + 1 \in 1 .. N
    OBVIOUS
  <2>1. Cardinality(below[x]) \in 0 .. N - 1
    BY RankFacts
  <2>2. Cardinality(below[x]) + 1 \in 1 .. N
    BY <1>1, <2>1
  <2>3. /\ s[Cardinality(below[x]) + 1] \in S
        /\ Cardinality(below[s[Cardinality(below[x]) + 1]]) = Cardinality(below[x])
    BY <1>2, <2>1, <2>2
  <2> QED
    BY <2>2, <2>3, RankFacts
<1>6. ToSet(s) = S
  BY <1>2, <1>3, <1>5 DEF ToSet
<1>7. IsInjective(s)
  BY <1>1, <1>2, <1>3 DEF IsInjective
<1> QED
  BY <1>2, <1>4, <1>6, <1>7

\* Numbers are ordered by the set of smaller ones.
LEMMA NumbersOrdered ==
  ASSUME NEW S \in SUBSET Int
  PROVE  Orders([x \in S |-> {y \in S : y < x}], S)
<1> DEFINE below == [x \in S |-> {y \in S : y < x}]
<1>1. \A x, y \in S : y \in below[x] <=> y < x
  OBVIOUS
<1>2. below \in [S -> SUBSET S]
  OBVIOUS
<1> HIDE DEF below
<1>3. \A x \in S : below[x] \subseteq S /\ x \notin below[x]
  BY <1>1, <1>2
<1>4. ASSUME NEW x \in S, NEW y \in S, y \in below[x]
      PROVE  below[y] \subseteq below[x]
  <2> SUFFICES ASSUME NEW z \in S, z \in below[y]
               PROVE  z \in below[x]
    BY <1>3
  <2>1. z < y /\ y < x /\ x \in Int /\ y \in Int /\ z \in Int
    BY <1>1, <1>4
  <2> QED
    BY <1>1, <2>1
<1>5. \A x, y \in S : x # y => x < y \/ y < x
  OBVIOUS
<1>6. \A x, y \in S : x # y => x \in below[y] \/ y \in below[x]
  BY <1>1, <1>5
<1>7. Orders(below, S)
  BY <1>2, <1>3, <1>4, <1>6 DEF Orders
<1> QED
  BY <1>7 DEF below

LEMMA AscendingFacts ==
  ASSUME NEW S \in SUBSET Int, IsFiniteSet(S)
  PROVE  /\ Ascending(S) \in Seq(S)
         /\ Len(Ascending(S)) = Cardinality(S)
         /\ ToSet(Ascending(S)) = S
         /\ IsInjective(Ascending(S))
         /\ \A i \in 1 .. Cardinality(S) :
              Cardinality({y \in S : y < Ascending(S)[i]}) = i - 1
<1> DEFINE below == [x \in S |-> {y \in S : y < x}]
<1>1. Orders(below, S)
  BY NumbersOrdered
<1>2. Ascending(S) = Sorted(S, below)
  BY DEF Ascending
<1> HIDE DEF below
<1>3. /\ Ascending(S) \in Seq(S)
      /\ Len(Ascending(S)) = Cardinality(S)
      /\ ToSet(Ascending(S)) = S
      /\ IsInjective(Ascending(S))
      /\ \A i \in 1 .. Cardinality(S) : Cardinality(below[Ascending(S)[i]]) = i - 1
  BY <1>1, <1>2, SortedFacts
<1>4. \A i \in 1 .. Cardinality(S) : Ascending(S)[i] \in S
  BY <1>3, ElementOfSeq, FS_CardinalityType
<1> USE DEF below
<1> QED
  BY <1>3, <1>4

\* The numbers below one of a set of numbers are fewer than for a larger one.
LEMMA PlacesBelow ==
  ASSUME NEW S \in SUBSET Int, IsFiniteSet(S), NEW x \in S
  PROVE  Cardinality({y \in S : y < x}) \in 0 .. Cardinality(S) - 1
<1> DEFINE below == [z \in S |-> {y \in S : y < z}]
<1>1. Orders(below, S)
  BY NumbersOrdered
<1>2. below[x] = {y \in S : y < x}
  OBVIOUS
<1> HIDE DEF below
<1> QED
  BY <1>1, <1>2, RankFacts

-----------------------------------------------------------------------------
(* Sequences without repetitions. *)

\* A sequence, its positions and the set of its elements.
LEMMA SeqFacts ==
  ASSUME NEW s, NEW T, s \in Seq(T)
  PROVE  /\ Len(s) \in Nat
         /\ DOMAIN s = 1 .. Len(s)
         /\ \A i \in DOMAIN s : s[i] \in T
         /\ ToSet(s) \subseteq T
         /\ IsFiniteSet(DOMAIN s)
         /\ Cardinality(DOMAIN s) = Len(s)
         /\ IsFiniteSet(ToSet(s))
         /\ s \in Surjection(DOMAIN s, ToSet(s))
<1>1. Len(s) \in Nat /\ DOMAIN s = 1 .. Len(s) /\ s \in [1 .. Len(s) -> T]
  BY LenProperties
<1>2. \A i \in DOMAIN s : s[i] \in T
  BY <1>1
<1>3. IsFiniteSet(DOMAIN s) /\ Cardinality(DOMAIN s) = Len(s)
  BY <1>1, FS_Interval
<1>4. s \in Surjection(DOMAIN s, ToSet(s))
  BY <1>1 DEF Surjection, ToSet
<1>5. IsFiniteSet(ToSet(s))
  BY <1>3, <1>4, FS_Surjection
<1> QED
  BY <1>1, <1>2, <1>3, <1>4, <1>5 DEF ToSet

\* A sequence has as many entries as elements exactly when it repeats none.
LEMMA DistinctFacts ==
  ASSUME NEW s, NEW T, s \in Seq(T)
  PROVE  Len(s) = Cardinality(ToSet(s)) <=> IsInjective(s)
<1>1. /\ IsFiniteSet(DOMAIN s)
      /\ Cardinality(DOMAIN s) = Len(s)
      /\ s \in Surjection(DOMAIN s, ToSet(s))
  BY SeqFacts
<1>2. Cardinality(ToSet(s)) = Cardinality(DOMAIN s) <=> s \in Injection(DOMAIN s, ToSet(s))
  BY <1>1, FS_Surjection
<1>3. s \in Injection(DOMAIN s, ToSet(s)) <=> IsInjective(s)
  BY <1>1 DEF Injection, Surjection
<1> QED
  BY <1>1, <1>2, <1>3

\* Positions of a sequence without repetitions are as many as their entries.
LEMMA CountingPlaces ==
  ASSUME NEW s, NEW T, s \in Seq(T), NEW P \in SUBSET DOMAIN s
  PROVE  /\ IsFiniteSet(P) /\ Cardinality(P) \in Nat
         /\ IsFiniteSet({s[i] : i \in P}) /\ Cardinality({s[i] : i \in P}) \in Nat
         /\ Cardinality({s[i] : i \in P}) <= Cardinality(P)
         /\ IsInjective(s) => Cardinality({s[i] : i \in P}) = Cardinality(P)
<1> DEFINE f == [i \in P |-> s[i]]
           R == {s[i] : i \in P}
<1>1. IsFiniteSet(P) /\ Cardinality(P) \in Nat
  BY SeqFacts, FS_Subset, FS_CardinalityType
<1>2. f \in Surjection(P, R)
  BY DEF Surjection
<1>3. IsFiniteSet(R) /\ Cardinality(R) <= Cardinality(P)
  BY <1>1, <1>2, FS_Surjection
<1>4. ASSUME IsInjective(s)
      PROVE  Cardinality(R) = Cardinality(P)
  <2>1. f \in Injection(P, R)
    BY <1>4 DEF Injection, IsInjective
  <2> QED
    BY <1>1, <1>2, <2>1, FS_Surjection
<1> QED
  BY <1>1, <1>3, <1>4, FS_CardinalityType

\* Filtering keeps the entries of s that are in U, and repeats none that s does not.
LEMMA OnlyFacts ==
  ASSUME NEW s, NEW T, s \in Seq(T), NEW U
  PROVE  /\ Only(s, U) \in Seq(T \intersect U)
         /\ ToSet(Only(s, U)) = ToSet(s) \intersect U
         /\ IsInjective(s) => IsInjective(Only(s, U))
<1> DEFINE P == {i \in DOMAIN s : s[i] \in U}
           place == Ascending(P)
           N == Cardinality(P)
           r == Only(s, U)
<1>1. P \in SUBSET Int /\ IsFiniteSet(P) /\ N \in Nat
  <2>1. P \in SUBSET DOMAIN s /\ DOMAIN s = 1 .. Len(s) /\ Len(s) \in Nat
    BY SeqFacts
  <2>2. P \in SUBSET Int
    BY <2>1
  <2> HIDE DEF P
  <2> QED
    BY <2>1, <2>2, CountingPlaces
<1>2. place \in Seq(P) /\ Len(place) = N /\ ToSet(place) = P /\ IsInjective(place)
  BY <1>1, AscendingFacts
<1>3. DOMAIN place = 1 .. N /\ \A k \in 1 .. N : place[k] \in P
  BY <1>2, SeqFacts
<1>4. r = [k \in 1 .. N |-> s[place[k]]]
  BY DEF Only
<1>5. \A i \in P : i \in DOMAIN s /\ s[i] \in T \intersect U
  BY SeqFacts
<1>6. \A i \in P : \E k \in 1 .. N : place[k] = i
  BY <1>2, <1>3 DEF ToSet
<1>7. ToSet(r) = {s[i] : i \in P}
  <2> HIDE DEF P, place, N, r
  <2> QED
    BY <1>3, <1>4, <1>6 DEF ToSet
<1>8. ToSet(r) = ToSet(s) \intersect U
  BY <1>7 DEF ToSet
<1>9. r \in Seq(T \intersect U)
  <2> HIDE DEF P, place, N, r
  <2>1. r \in [1 .. N -> T \intersect U]
    BY <1>3, <1>4, <1>5
  <2> QED
    BY <1>1, <2>1, IsASeq
<1>10. IsInjective(s) => IsInjective(r)
  <2> HIDE DEF P, place, N, r
  <2> QED
    BY <1>2, <1>3, <1>4, <1>5 DEF IsInjective
<1> QED
  BY <1>8, <1>9, <1>10

\* How far ahead of a cursor the element of rank k is, in a rotation of size N.
Ahead(k, cursor, N) == IF k >= cursor THEN k - cursor ELSE k - cursor + N

\* A rotation lists every element once, each as far from its start as its rank
\* is ahead of the cursor.
LEMMA RotationFacts ==
  ASSUME NEW S \in SUBSET Int, IsFiniteSet(S), S # {}, NEW start \in Nat
  PROVE  /\ Rotation(S, start) \in Seq(S)
         /\ Len(Rotation(S, start)) = Cardinality(S)
         /\ ToSet(Rotation(S, start)) = S
         /\ IsInjective(Rotation(S, start))
         /\ \A x \in S :
              LET d == Ahead(Cardinality({y \in S : y < x}), start % Cardinality(S),
                             Cardinality(S))
              IN  d \in 0 .. Cardinality(S) - 1 /\ Rotation(S, start)[d + 1] = x
<1> DEFINE N == Cardinality(S)
           ordered == Ascending(S)
           offset == start % N
           r == Rotation(S, start)
           rank(x) == Cardinality({y \in S : y < x})
<1>1. N \in Nat /\ N > 0
  BY FS_CardinalityType, FS_EmptySet
<1>2. offset \in 0 .. N - 1
  BY <1>1
<1>3. /\ ordered \in Seq(S) /\ Len(ordered) = N
      /\ \A i \in 1 .. N : ordered[i] \in S /\ rank(ordered[i]) = i - 1
      /\ IsInjective(ordered) /\ ToSet(ordered) = S
  BY <1>1, AscendingFacts, ElementOfSeq
<1>4. \A x \in S : rank(x) \in 0 .. N - 1
  BY PlacesBelow
<1>5. \A x \in S : ordered[rank(x) + 1] = x
  <2> SUFFICES ASSUME NEW x \in S
               PROVE  ordered[rank(x) + 1] = x
    OBVIOUS
  <2>1. PICK i \in 1 .. N : ordered[i] = x
    BY <1>3, SeqFacts DEF ToSet
  <2>2. rank(x) = i - 1
    BY <1>3, <2>1
  <2> QED
    BY <1>1, <2>1, <2>2
<1>6. r = [i \in 1 .. N |-> ordered[((offset + i - 1) % N) + 1]]
  BY DEF Rotation
<1>7. \A i \in 1 .. N : ((offset + i - 1) % N) + 1 \in 1 .. N
  <2> HIDE DEF N, offset
  <2> QED
    BY <1>1, <1>2
<1>8. r \in [1 .. N -> S]
  <2> HIDE DEF N, offset, ordered, r
  <2> QED
    BY <1>3, <1>6, <1>7
<1>9. r \in Seq(S) /\ Len(r) = N /\ DOMAIN r = 1 .. N
  BY <1>1, <1>8, IsASeq
<1>10. ASSUME NEW x \in S
       PROVE  /\ Ahead(rank(x), offset, N) \in 0 .. N - 1
              /\ r[Ahead(rank(x), offset, N) + 1] = x
  <2> DEFINE k == rank(x)
             d == Ahead(k, offset, N)
  <2>1. k \in 0 .. N - 1
    BY <1>4
  <2>2. d \in 0 .. N - 1 /\ (offset + d) % N = k
    <3> HIDE DEF k, N, offset
    <3>1. CASE k >= offset
      BY <1>1, <1>2, <2>1, <3>1 DEF Ahead
    <3>2. CASE k < offset
      <4>1. d = k - offset + N /\ d \in 0 .. N - 1 /\ offset + d = k + N
        BY <1>1, <1>2, <2>1, <3>2 DEF Ahead
      <4>2. (k + N) % N = k
        BY <1>1, <2>1
      <4> QED
        BY <4>1, <4>2
    <3> QED
      BY <1>2, <2>1, <3>1, <3>2
  <2>3. d + 1 \in 1 .. N /\ offset + (d + 1) - 1 = offset + d
    <3> HIDE DEF d, N, offset
    <3> QED
      BY <1>1, <1>2, <2>2
  <2>4. r[d + 1] = ordered[k + 1]
    <3> HIDE DEF d, k, N, offset, ordered, r
    <3> QED
      BY <1>6, <2>2, <2>3
  <2> QED
    BY <1>5, <2>2, <2>4
<1>11. ToSet(r) = S
  <2>1. S \subseteq ToSet(r)
    <3> SUFFICES ASSUME NEW x \in S
                 PROVE  x \in ToSet(r)
      OBVIOUS
    <3>1. Ahead(rank(x), offset, N) + 1 \in DOMAIN r
      BY <1>1, <1>9, <1>10
    <3> QED
      BY <1>10, <3>1 DEF ToSet
  <2> QED
    BY <1>9, <2>1, SeqFacts
<1>12. IsInjective(r)
  BY <1>9, <1>11, DistinctFacts
<1> QED
  BY <1>9, <1>10, <1>11, <1>12

-----------------------------------------------------------------------------
(* What an order adds to a selection. *)

\* The first entries of an order that are in S: how many there are, and that an
\* entry at one of the first `count' positions is among them.
LEMMA FirstOfFacts ==
  ASSUME NEW order, NEW T, order \in Seq(T), NEW S, NEW count \in Int
  PROVE  LET r == FirstOf(order, S, count)
             offered == ToSet(order) \intersect S
         IN  /\ r \subseteq offered /\ IsFiniteSet(r)
             /\ Cardinality(r) <= Larger(0, count)
             /\ \A i \in DOMAIN order : order[i] \in S /\ i <= count => order[i] \in r
             /\ IsInjective(order) =>
                  Cardinality(r) = Smaller(Larger(0, count), Cardinality(offered))
<1> DEFINE L == {i \in DOMAIN order : order[i] \in S}
           below == [i \in L |-> {k \in L : k < i}]
           P == {i \in L : Cardinality({k \in L : k < i}) < count}
           r == FirstOf(order, S, count)
           N == Cardinality(L)
           bound == Smaller(Larger(0, count), N)
<1>1. L \in SUBSET DOMAIN order /\ DOMAIN order = 1 .. Len(order) /\ Len(order) \in Nat
  BY SeqFacts
<1>2. L \in SUBSET Int /\ IsFiniteSet(L) /\ N \in Nat
  <2>1. L \in SUBSET Int
    BY <1>1
  <2> HIDE DEF L
  <2> QED
    BY <1>1, <2>1, CountingPlaces
<1>3. Orders(below, L) /\ \A i \in L : below[i] = {k \in L : k < i}
  BY <1>2, NumbersOrdered
<1>4. P = {i \in L : Cardinality(below[i]) < count}
  BY <1>3
<1>5. r = {order[i] : i \in P}
  BY DEF FirstOf
<1>6. bound \in Nat
  BY <1>2 DEF Smaller, Larger
<1>7. /\ \A i \in L : Cardinality(below[i]) \in 0 .. N - 1
      /\ \A i, j \in L : Cardinality(below[i]) = Cardinality(below[j]) => i = j
      /\ \A k \in 0 .. N - 1 : \E i \in L : Cardinality(below[i]) = k
  <2> HIDE DEF L, below
  <2> QED
    BY <1>2, <1>3, RankFacts
<1>8. Cardinality(P) = bound
  <2> HIDE DEF L, below, P, N
  <2> DEFINE f == [i \in P |-> Cardinality(below[i])]
  <2>1. \A i \in P : f[i] \in 0 .. bound - 1
    BY <1>2, <1>4, <1>7 DEF Smaller, Larger
  <2>2. f \in Injection(P, 0 .. bound - 1)
    BY <1>4, <1>7, <2>1 DEF Injection, IsInjective
  <2>3. \A k \in 0 .. bound - 1 : \E i \in P : f[i] = k
    <3> SUFFICES ASSUME NEW k \in 0 .. bound - 1
                 PROVE  \E i \in P : f[i] = k
      OBVIOUS
    <3>1. k \in 0 .. N - 1 /\ k < count
      BY <1>2 DEF Smaller, Larger
    <3>2. PICK i \in L : Cardinality(below[i]) = k
      BY <1>7, <3>1
    <3> QED
      BY <1>4, <3>1, <3>2
  <2>4. f \in Surjection(P, 0 .. bound - 1)
    BY <2>1, <2>3 DEF Surjection
  <2> HIDE DEF f, bound
  <2>5. IsFiniteSet(0 .. bound - 1) /\ Cardinality(0 .. bound - 1) = bound
    BY <1>6, FS_Interval
  <2> QED
    BY <2>2, <2>4, <2>5, FS_Injection
<1>9. P \in SUBSET DOMAIN order
  BY <1>1
<1>10. /\ IsFiniteSet(r) /\ Cardinality(r) \in Nat
       /\ Cardinality(r) <= bound
       /\ IsInjective(order) => Cardinality(r) = bound
  <2> HIDE DEF P, r, bound
  <2> QED
    BY <1>5, <1>8, <1>9, CountingPlaces
<1>11. bound <= Larger(0, count)
  BY <1>2 DEF Smaller, Larger
<1>12. r \subseteq ToSet(order) \intersect S
  BY <1>5 DEF ToSet
<1>13. IsInjective(order) => N = Cardinality(ToSet(order) \intersect S)
  <2>1. {order[i] : i \in L} = ToSet(order) \intersect S
    BY DEF ToSet
  <2> HIDE DEF L
  <2> QED
    BY <1>1, <2>1, CountingPlaces
<1>14. ASSUME NEW i \in DOMAIN order, order[i] \in S, i <= count
       PROVE  order[i] \in r
  <2>1. i \in L /\ i \in Nat /\ i - 1 \in Int
    BY <1>1, <1>14
  <2>2. below[i] \in SUBSET (1 .. i - 1)
    BY <1>1, <2>1
  <2>3. IsFiniteSet(1 .. i - 1) /\ Cardinality(1 .. i - 1) = i - 1
    BY <1>1, <2>1, FS_Interval
  <2>4. Cardinality(below[i]) <= i - 1
    <3> HIDE DEF below
    <3> QED
      BY <2>2, <2>3, FS_Subset
  <2>5. i \in P
    <3> HIDE DEF L, below, P, N
    <3> QED
      BY <1>2, <1>4, <1>7, <1>14, <2>1, <2>4
  <2> QED
    BY <1>5, <2>5
<1>15. Cardinality(r) <= Larger(0, count)
  <2>1. Larger(0, count) \in Int
    BY DEF Larger
  <2> HIDE DEF L, P, r, N, bound
  <2> QED
    BY <1>6, <1>10, <1>11, <2>1
<1>16. IsInjective(order)
         => Cardinality(r) = Smaller(Larger(0, count), Cardinality(ToSet(order) \intersect S))
  BY <1>10, <1>13
<1> HIDE DEF L, below, P, N
<1> QED
  BY <1>10, <1>12, <1>14, <1>15, <1>16

\* r is sel grown by entries of order that are in S: what budget and size allow.
Grown(a, sel, order, S, budget, r) ==
  LET count   == Smaller(budget, Room(a, sel))
      offered == (ToSet(order) \intersect S) \ sel
  IN  /\ sel \subseteq r /\ r \subseteq sel \union offered
      /\ IsFiniteSet(r) /\ Cardinality(r) \in Nat /\ Cardinality(sel) \in Nat
      /\ Cardinality(r) >= Cardinality(sel)
      /\ Cardinality(r) <= a.max
      /\ Cardinality(r) <= Cardinality(sel) + Larger(0, budget)
      /\ \A i \in DOMAIN order : order[i] \in S /\ i <= count => order[i] \in r
      /\ IsInjective(order) =>
           Cardinality(r) = Cardinality(sel) + Smaller(Larger(0, count),
                                                       Cardinality(offered))

\* Adding names keeps the ones that are selected, respects the budget and the size
\* of the subset, and takes as many of the names on offer as these allow.
LEMMA AddFromFacts ==
  ASSUME NEW a, a.max \in Nat,
         NEW sel, IsFiniteSet(sel), Cardinality(sel) <= a.max,
         NEW order, NEW T, order \in Seq(T), NEW S, NEW budget \in Int
  PROVE  Grown(a, sel, order, S, budget, AddFrom(a, sel, order, S, budget))
<1> DEFINE count == Smaller(budget, Room(a, sel))
           more == FirstOf(order, S \ sel, count)
           r == AddFrom(a, sel, order, S, budget)
           offered == (ToSet(order) \intersect S) \ sel
<1>1. r = sel \union more
  BY DEF AddFrom
<1>2. Cardinality(sel) \in Nat /\ count \in Int /\ count <= budget
      /\ count + Cardinality(sel) <= a.max
  BY FS_CardinalityType DEF Smaller, Room
<1>3. offered = ToSet(order) \intersect (S \ sel)
  OBVIOUS
<1>4. /\ more \subseteq offered /\ IsFiniteSet(more)
      /\ Cardinality(more) <= Larger(0, count)
      /\ \A i \in DOMAIN order : order[i] \in S \ sel /\ i <= count => order[i] \in more
      /\ IsInjective(order) =>
           Cardinality(more) = Smaller(Larger(0, count), Cardinality(offered))
  <2> HIDE DEF count, offered
  <2> QED
    BY <1>2, <1>3, FirstOfFacts
<1>5. /\ IsFiniteSet(r) /\ Cardinality(r) = Cardinality(sel) + Cardinality(more)
      /\ Cardinality(more) \in Nat
  <2>1. sel \intersect more = {}
    BY <1>4
  <2> HIDE DEF more, r
  <2>2. Cardinality(sel \intersect more) = 0
    BY <2>1, FS_EmptySet
  <2>3. Cardinality(more) \in Nat
    BY <1>4, FS_CardinalityType
  <2>4. /\ IsFiniteSet(sel \union more)
        /\ Cardinality(sel \union more)
             = Cardinality(sel) + Cardinality(more) - Cardinality(sel \intersect more)
    BY <1>4, FS_Union
  <2> QED
    BY <1>1, <1>2, <2>2, <2>3, <2>4
<1>6. Larger(0, count) <= Larger(0, budget) /\ Larger(0, count) \in Nat
      /\ Larger(0, budget) \in Nat /\ Cardinality(sel) + Larger(0, count) <= a.max
  <2> HIDE DEF count
  <2> QED
    BY <1>2 DEF Larger
<1> HIDE DEF more
<1>7. /\ sel \subseteq r /\ r \subseteq sel \union offered
      /\ \A i \in DOMAIN order : order[i] \in S /\ i <= count => order[i] \in r
  BY <1>1, <1>4
<1>8. /\ Cardinality(r) \in Nat /\ Cardinality(r) >= Cardinality(sel)
      /\ Cardinality(r) <= a.max
      /\ Cardinality(r) <= Cardinality(sel) + Larger(0, budget)
  <2> HIDE DEF r, count
  <2> QED
    BY <1>2, <1>4, <1>5, <1>6
<1> QED
  BY <1>2, <1>4, <1>5, <1>7, <1>8 DEF Grown

-----------------------------------------------------------------------------
(* The calls of selectSubset for a vector that does not fit, and the            *)
(* selections a strategy goes through.                                          *)

ReserveStrategies == {"AgeScore", "DeficitScore", "ClusterScore", "Hybrid", "ClusterHybrid"}

QuotaStrategies == {"RecentNoveltyQuota", "RecentRandomQuota"}

PartialCall(a) ==
  /\ a.recency \in Seq(Nat) /\ IsInjective(a.recency)
  /\ a.max \in Nat \ {0} /\ a.max < Total(a)
  /\ a.strategy \in ReserveStrategies \union QuotaStrategies
                      \union {"Recent", "StickyRecent", "Random", "RoundRobin", "Score"}
  /\ a.rotation \in Seq(Names(a)) /\ IsInjective(a.rotation)
  /\ ToSet(a.rotation) = Names(a)
  /\ a.sticky \in Seq(Names(a)) /\ IsInjective(a.sticky)
  /\ a.seqNo \in [Names(a) -> Nat] /\ a.missed \in [Names(a) -> Nat]
  /\ a.weights \in [1 .. 3 -> Nat]
  /\ a.recentEntries \in Nat /\ a.hotPercent \in Nat /\ a.minFair \in Nat
  /\ a.stickyBudget \in Nat /\ a.noveltyBudget \in Nat

Selection(a, sel) == sel \subseteq Names(a) /\ Cardinality(sel) <= a.max

\* The names of a vector that does not fit.
LEMMA NamesFacts ==
  ASSUME NEW a, PartialCall(a)
  PROVE  /\ IsFiniteSet(Names(a)) /\ Cardinality(Names(a)) = Total(a)
         /\ Total(a) \in Nat /\ a.max \in Nat
         /\ DOMAIN a.recency = 1 .. Total(a)
         /\ a.recency \in Seq(Names(a)) /\ Names(a) \subseteq Nat
         /\ ToSet(a.recency) = Names(a)
<1>1. a.recency \in Seq(Nat) /\ IsInjective(a.recency) /\ a.max \in Nat
  BY DEF PartialCall
<1>2. /\ IsFiniteSet(Names(a)) /\ Cardinality(Names(a)) = Total(a)
      /\ Total(a) \in Nat /\ DOMAIN a.recency = 1 .. Total(a) /\ Names(a) \subseteq Nat
  BY <1>1, SeqFacts, DistinctFacts DEF Names, Total
<1>3. a.recency \in [1 .. Total(a) -> Names(a)]
  <2>1. \A i \in 1 .. Total(a) : a.recency[i] \in Names(a)
    BY <1>2 DEF Names, ToSet
  <2> QED
    BY <1>1, <1>2, <2>1, LenProperties DEF Total
<1>4. a.recency \in Seq(Names(a))
  BY <1>2, <1>3, IsASeq
<1> QED
  BY <1>1, <1>2, <1>4 DEF Names

\* A selection within the budget leaves room that is not negative.
LEMMA SelectionFinite ==
  ASSUME NEW a, PartialCall(a), NEW sel, Selection(a, sel)
  PROVE  /\ IsFiniteSet(sel) /\ Cardinality(sel) \in Nat /\ a.max \in Nat
         /\ Cardinality(sel) <= a.max /\ Room(a, sel) \in Nat
<1>1. IsFiniteSet(sel)
  BY NamesFacts, FS_Subset DEF Selection
<1> QED
  BY <1>1, NamesFacts, FS_CardinalityType DEF Selection, Room

\* What the shared loop returns is a selection again.
LEMMA AddFromSelects ==
  ASSUME NEW a, PartialCall(a), NEW sel, Selection(a, sel),
         NEW order, NEW T, order \in Seq(T), NEW S \in SUBSET Names(a), NEW budget \in Int
  PROVE  /\ sel \subseteq AddFrom(a, sel, order, S, budget)
         /\ Selection(a, AddFrom(a, sel, order, S, budget))
<1>1. /\ IsFiniteSet(sel) /\ a.max \in Nat /\ Cardinality(sel) <= a.max
      /\ sel \subseteq Names(a)
  BY SelectionFinite DEF Selection
<1>2. Grown(a, sel, order, S, budget, AddFrom(a, sel, order, S, budget))
  BY <1>1, AddFromFacts
<1> QED
  BY <1>1, <1>2 DEF Selection, Grown

LEMMA AddSelects ==
  ASSUME NEW a, PartialCall(a), NEW sel, Selection(a, sel),
         NEW order, NEW T, order \in Seq(T), NEW budget \in Int
  PROVE  /\ sel \subseteq Add(a, sel, order, budget)
         /\ Selection(a, Add(a, sel, order, budget))
BY AddFromSelects DEF Add

\* An order of all the names, with a budget for all the room there is, fills the subset.
LEMMA AddFills ==
  ASSUME NEW a, PartialCall(a), NEW sel, Selection(a, sel),
         NEW order, order \in Seq(Names(a)), IsInjective(order), ToSet(order) = Names(a),
         NEW budget \in Int, budget >= Room(a, sel)
  PROVE  Cardinality(Add(a, sel, order, budget)) = a.max
<1>1. /\ IsFiniteSet(sel) /\ Cardinality(sel) \in Nat /\ a.max \in Nat
      /\ Cardinality(sel) <= a.max /\ sel \subseteq Names(a)
  BY SelectionFinite DEF Selection
<1>2. a.max < Total(a) /\ Total(a) \in Nat
      /\ IsFiniteSet(Names(a)) /\ Cardinality(Names(a)) = Total(a)
  BY NamesFacts DEF PartialCall
<1> DEFINE r == AddFrom(a, sel, order, Names(a), budget)
           count == Smaller(budget, Room(a, sel))
           offered == (ToSet(order) \intersect Names(a)) \ sel
<1>3. Cardinality(r) = Cardinality(sel) + Smaller(Larger(0, count), Cardinality(offered))
  <2>1. Grown(a, sel, order, Names(a), budget, r)
    BY <1>1, AddFromFacts
  <2> HIDE DEF r
  <2> QED
    BY <2>1 DEF Grown
<1>4. count = a.max - Cardinality(sel)
  BY <1>1 DEF Smaller, Room
<1>5. offered = Names(a) \ sel /\ Names(a) \intersect sel = sel
  BY <1>1
<1>6. Cardinality(offered) = Total(a) - Cardinality(sel)
  <2>1. Cardinality(Names(a) \ sel) = Cardinality(Names(a)) - Cardinality(Names(a) \intersect sel)
    BY <1>2, FS_Difference
  <2> HIDE DEF offered
  <2> QED
    BY <1>2, <1>5, <2>1
<1>7. Cardinality(r) = a.max
  <2> HIDE DEF r, count, offered
  <2> QED
    BY <1>1, <1>2, <1>3, <1>4, <1>6 DEF Smaller, Larger
<1> QED
  BY <1>7 DEF Add

LEMMA RecencyOrder ==
  ASSUME NEW a, PartialCall(a)
  PROVE  /\ a.recency \in Seq(Names(a)) /\ IsInjective(a.recency)
         /\ ToSet(a.recency) = Names(a)
BY NamesFacts DEF PartialCall

\* Recent entries fill the room there is.
LEMMA RecentFills ==
  ASSUME NEW a, PartialCall(a), NEW sel, Selection(a, sel),
         NEW budget \in Int, budget >= Room(a, sel)
  PROVE  Cardinality(AddRecent(a, sel, budget)) = a.max
BY RecencyOrder, AddFills DEF AddRecent

\* So do entries of the rotation.
LEMMA RoundRobinFills ==
  ASSUME NEW a, PartialCall(a), NEW sel, Selection(a, sel),
         NEW budget \in Int, budget >= Room(a, sel)
  PROVE  Cardinality(AddRoundRobin(a, sel, budget)) = a.max
BY AddFills DEF AddRoundRobin, PartialCall

\* Some names first, then the others: a selection, and a full one with the budget for it.
LEMMA PreferringSelects ==
  ASSUME NEW a, PartialCall(a), NEW sel, Selection(a, sel),
         NEW S \in SUBSET Names(a), NEW budget \in Int
  PROVE  /\ sel \subseteq AddPreferring(a, sel, S, budget)
         /\ Selection(a, AddPreferring(a, sel, S, budget))
         /\ budget >= Room(a, sel) => Cardinality(AddPreferring(a, sel, S, budget)) = a.max
<1> DEFINE first == AddFrom(a, sel, a.recency, S, budget)
           spent == Cardinality(first) - Cardinality(sel)
<1>1. /\ a.recency \in Seq(Names(a)) /\ IsInjective(a.recency)
      /\ ToSet(a.recency) = Names(a)
  BY RecencyOrder
<1>2. sel \subseteq first /\ Selection(a, first)
  BY <1>1, AddFromSelects
<1>3. Cardinality(sel) \in Nat /\ Cardinality(first) \in Nat /\ a.max \in Nat
  BY <1>2, SelectionFinite
<1>4. AddPreferring(a, sel, S, budget) = Add(a, first, a.recency, budget - spent)
  BY DEF AddPreferring
<1> HIDE DEF first
<1>5. budget - spent \in Int
  BY <1>3
<1>6. budget >= Room(a, sel) => budget - spent >= Room(a, first)
  BY <1>3 DEF Room
<1> QED
  BY <1>1, <1>2, <1>4, <1>5, <1>6, AddSelects, AddFills

-----------------------------------------------------------------------------
(* Scores and clusters. *)

LEMMA SortedIsSeq ==
  ASSUME NEW S, IsFiniteSet(S), NEW below
  PROVE  Sorted(S, below) \in Seq(ToSet(Sorted(S, below)))
<1> DEFINE s == Sorted(S, below)
<1>1. Cardinality(S) \in Nat /\ DOMAIN s = 1 .. Cardinality(S)
  BY FS_CardinalityType DEF Sorted
<1>2. s = [i \in 1 .. Cardinality(S) |-> s[i]]
  BY DEF Sorted
<1>3. s \in [1 .. Cardinality(S) -> ToSet(s)]
  <2> HIDE DEF s
  <2> QED
    BY <1>1, <1>2 DEF ToSet
<1> HIDE DEF s
<1>4. s \in Seq(ToSet(s))
  BY <1>1, <1>3, IsASeq
<1> QED
  BY <1>4 DEF s

\* Whatever the scores are, an order by them yields a selection.
LEMMA ByScoreSelects ==
  ASSUME NEW a, PartialCall(a), NEW sel, Selection(a, sel),
         NEW score, NEW tie, NEW budget \in Int
  PROVE  /\ sel \subseteq Add(a, sel, ByScore(a, score, tie), budget)
         /\ Selection(a, Add(a, sel, ByScore(a, score, tie), budget))
<1>1. IsFiniteSet(Names(a))
  BY NamesFacts
<1>2. ByScore(a, score, tie) \in Seq(ToSet(ByScore(a, score, tie)))
  BY <1>1, SortedIsSeq DEF ByScore
<1> QED
  BY <1>2, AddSelects

LEMMA AgeScoreSelects ==
  ASSUME NEW a, PartialCall(a), NEW sel, Selection(a, sel), NEW budget \in Int
  PROVE  sel \subseteq AddAgeScore(a, sel, budget) /\ Selection(a, AddAgeScore(a, sel, budget))
BY ByScoreSelects DEF AddAgeScore

LEMMA DeficitScoreSelects ==
  ASSUME NEW a, PartialCall(a), NEW sel, Selection(a, sel), NEW budget \in Int
  PROVE  /\ sel \subseteq AddDeficitScore(a, sel, budget)
         /\ Selection(a, AddDeficitScore(a, sel, budget))
BY ByScoreSelects DEF AddDeficitScore

LEMMA BestOfClustersSelects ==
  ASSUME NEW a, PartialCall(a), NEW sel, Selection(a, sel)
  PROVE  sel \subseteq AddBestOfClusters(a, sel) /\ Selection(a, AddBestOfClusters(a, sel))
BY ByScoreSelects DEF AddBestOfClusters

LEMMA MaxFacts ==
  ASSUME NEW S \in SUBSET Nat, IsFiniteSet(S), S # {}
  PROVE  Max(S) \in Nat
<1> DEFINE below == [x \in S |-> {y \in S : y < x}]
           N == Cardinality(S)
<1>1. Orders(below, S) /\ \A x, y \in S : x \in below[y] <=> x < y
  BY NumbersOrdered
<1>2. N \in Nat /\ N > 0
  BY FS_CardinalityType, FS_EmptySet
<1> HIDE DEF below, N
<1>3. PICK x \in S : Cardinality(below[x]) = N - 1
  <2>1. N - 1 \in 0 .. N - 1 /\ N = Cardinality(S)
    BY <1>2 DEF N
  <2>2. \A i \in 0 .. Cardinality(S) - 1 : \E x \in S : Cardinality(below[x]) = i
    BY <1>1, RankFacts
  <2> QED
    BY <2>1, <2>2
<1>4. \A y \in S : ~ (x < y)
  <2> SUFFICES ASSUME NEW y \in S, x < y
               PROVE  FALSE
    OBVIOUS
  <2>1. Cardinality(below[x]) < Cardinality(below[y])
    BY <1>1, RankFacts
  <2>2. Cardinality(below[y]) \in 0 .. N - 1
    BY <1>1, RankFacts DEF N
  <2> QED
    BY <1>2, <1>3, <2>1, <2>2
<1>5. \A y \in S : x >= y
  BY <1>4
<1> QED
  BY <1>3, <1>5 DEF Max

\* The maximum over the names of something counted per name.
LEMMA MaxOverNames ==
  ASSUME NEW a, PartialCall(a), NEW f \in [Names(a) -> Nat]
  PROVE  Max({f[n] : n \in Names(a)}) \in Nat
<1> DEFINE R == {f[n] : n \in Names(a)}
<1>1. R \in SUBSET Nat
  OBVIOUS
<1>2. f \in Surjection(Names(a), R)
  BY DEF Surjection
<1>3. IsFiniteSet(R)
  <2>1. IsFiniteSet(Names(a))
    BY NamesFacts
  <2> HIDE DEF R
  <2> QED
    BY <1>2, <2>1, FS_Surjection
<1>4. Names(a) # {}
  <2>1. /\ a.max \in Nat /\ a.max < Total(a)
        /\ Total(a) \in Nat /\ Cardinality(Names(a)) = Total(a)
    BY NamesFacts DEF PartialCall
  <2> QED
    BY <2>1, FS_EmptySet
<1>5. R # {}
  BY <1>4
<1> HIDE DEF R
<1>6. Max(R) \in Nat
  BY <1>1, <1>3, <1>5, MaxFacts
<1> QED
  BY <1>6 DEF R

LEMMA RankInFacts ==
  ASSUME NEW s, NEW T, s \in Seq(T), NEW x \in ToSet(s)
  PROVE  RankIn(s, x) \in 0 .. Len(s) - 1 /\ s[RankIn(s, x) + 1] = x
<1>1. PICK i \in 1 .. Len(s) : s[i] = x
  BY SeqFacts DEF ToSet
<1>2. Len(s) \in Nat
  BY SeqFacts
<1>3. i - 1 \in 0 .. Len(s) - 1 /\ s[(i - 1) + 1] = x
  BY <1>1, <1>2
<1> QED
  BY <1>3 DEF RankIn

\* Sorting by a score, and by recency where scores are equal, gives an order of all
\* the names.
LEMMA ByScoreFacts ==
  ASSUME NEW a, PartialCall(a), NEW score \in [Names(a) -> Int]
  PROVE  LET order == ByScore(a, score, a.recency)
         IN  /\ order \in Seq(Names(a)) /\ IsInjective(order)
             /\ ToSet(order) = Names(a)
<1> DEFINE rank(x) == RankIn(a.recency, x)
           below == [x \in Names(a) |->
                      {y \in Names(a) : \/ score[y] > score[x]
                                        \/ score[y] = score[x] /\ rank(y) < rank(x)}]
<1>1. \A x \in Names(a) : rank(x) \in Int /\ a.recency[rank(x) + 1] = x
  <2> SUFFICES ASSUME NEW x \in Names(a)
               PROVE  rank(x) \in Int /\ a.recency[rank(x) + 1] = x
    OBVIOUS
  <2>1. a.recency \in Seq(Names(a)) /\ x \in ToSet(a.recency)
    BY NamesFacts
  <2>2. /\ rank(x) \in 0 .. Len(a.recency) - 1
        /\ a.recency[rank(x) + 1] = x
    BY <2>1, RankInFacts
  <2> QED
    BY <2>2, NamesFacts DEF Total
<1>2. \A x, y \in Names(a) : rank(x) = rank(y) => x = y
  BY <1>1
<1>3. \A x, y \in Names(a) : y \in below[x] <=>
        (score[y] > score[x] \/ (score[y] = score[x] /\ rank(y) < rank(x)))
  OBVIOUS
<1>4. below \in [Names(a) -> SUBSET Names(a)]
  OBVIOUS
<1>5. \A x \in Names(a) : score[x] \in Int
  OBVIOUS
<1>6. ByScore(a, score, a.recency) = Sorted(Names(a), below)
  BY DEF ByScore
<1> HIDE DEF rank, below
<1>7. \A x \in Names(a) : x \notin below[x]
  BY <1>1, <1>3, <1>5
<1>8. ASSUME NEW x \in Names(a), NEW y \in Names(a), y \in below[x]
      PROVE  below[y] \subseteq below[x]
  <2> SUFFICES ASSUME NEW z \in Names(a), z \in below[y]
               PROVE  z \in below[x]
    BY <1>4
  <2>1. score[y] > score[x] \/ (score[y] = score[x] /\ rank(y) < rank(x))
    BY <1>3, <1>8
  <2>2. score[z] > score[y] \/ (score[z] = score[y] /\ rank(z) < rank(y))
    BY <1>3
  <2>3. score[z] > score[x] \/ (score[z] = score[x] /\ rank(z) < rank(x))
    BY <1>1, <1>5, <2>1, <2>2
  <2> QED
    BY <1>3, <2>3
<1>9. \A x, y \in Names(a) : x # y => x \in below[y] \/ y \in below[x]
  <2> SUFFICES ASSUME NEW x \in Names(a), NEW y \in Names(a), x # y
               PROVE  x \in below[y] \/ y \in below[x]
    OBVIOUS
  <2>1. rank(x) # rank(y) /\ rank(x) \in Int /\ rank(y) \in Int
        /\ score[x] \in Int /\ score[y] \in Int
    BY <1>1, <1>2, <1>5
  <2>2. \/ score[x] > score[y] \/ (score[x] = score[y] /\ rank(x) < rank(y))
        \/ score[y] > score[x] \/ (score[y] = score[x] /\ rank(y) < rank(x))
    BY <2>1
  <2> QED
    BY <1>3, <2>2
<1>10. Orders(below, Names(a))
  BY <1>4, <1>7, <1>8, <1>9 DEF Orders
<1> QED
  BY <1>6, <1>10, NamesFacts, SortedFacts

\* Score selection uses all of a budget that covers the room.
LEMMA ScoreSelects ==
  ASSUME NEW a, PartialCall(a), NEW sel, Selection(a, sel), NEW budget \in Int
  PROVE  /\ sel \subseteq AddScore(a, sel, budget) /\ Selection(a, AddScore(a, sel, budget))
         /\ budget >= Room(a, sel) => Cardinality(AddScore(a, sel, budget)) = a.max
<1> DEFINE s == MaxSeqNo(a)
           t == Total(a) - 1
           c == Larger(1, Max({a.missed[n] : n \in Names(a)}))
           recent(n) == RecentScore(a, n)
           score == [n \in Names(a) |-> a.weights[1] * a.seqNo[n] * t * c
                                        + a.weights[2] * recent(n) * s * c
                                        + a.weights[3] * a.missed[n] * s * t]
<1>1. s \in Int /\ t \in Int /\ c \in Int
  <2>1. s \in Nat
    BY MaxOverNames DEF MaxSeqNo, PartialCall
  <2>2. Max({a.missed[n] : n \in Names(a)}) \in Nat
    BY MaxOverNames DEF PartialCall
  <2> QED
    BY <2>1, <2>2, NamesFacts DEF Larger
<1>2. \A n \in Names(a) : recent(n) \in Int
  <2> SUFFICES ASSUME NEW n \in Names(a)
               PROVE  recent(n) \in Int
    OBVIOUS
  <2>1. RankIn(a.recency, n) \in 0 .. Len(a.recency) - 1
    <3>1. a.recency \in Seq(Names(a)) /\ n \in ToSet(a.recency)
      BY NamesFacts
    <3> QED
      BY <3>1, RankInFacts
  <2>2. Len(a.recency) \in Nat
    BY NamesFacts DEF Total
  <2> QED
    BY <2>1, <2>2 DEF RecentScore, Total
<1>3. AddScore(a, sel, budget) = Add(a, sel, ByScore(a, score, a.recency), budget)
  BY DEF AddScore
<1>4. score \in [Names(a) -> Int]
  <2>1. /\ \A i \in 1 .. 3 : a.weights[i] \in Int
        /\ \A n \in Names(a) : a.seqNo[n] \in Int /\ a.missed[n] \in Int
    <3>1. /\ a.weights \in [1 .. 3 -> Nat]
          /\ a.seqNo \in [Names(a) -> Nat] /\ a.missed \in [Names(a) -> Nat]
      BY DEF PartialCall
    <3> QED
      BY <3>1
  <2> HIDE DEF s, t, c, recent
  <2>2. \A n \in Names(a) : a.weights[1] * a.seqNo[n] * t * c
                              + a.weights[2] * recent(n) * s * c
                              + a.weights[3] * a.missed[n] * s * t \in Int
    BY <1>1, <1>2, <2>1
  <2> QED
    BY <2>2
<1> HIDE DEF score
<1>5. LET order == ByScore(a, score, a.recency)
      IN  /\ order \in Seq(Names(a)) /\ IsInjective(order)
          /\ ToSet(order) = Names(a)
  BY <1>4, ByScoreFacts
<1> QED
  BY <1>3, <1>5, AddSelects, AddFills

\* A set of natural numbers has a smallest element: what stands in for induction.
LEMMA Smallest ==
  ASSUME NEW S \in SUBSET Nat, S # {}
  PROVE  \E n \in S : \A k \in S : n <= k
<1>1. PICK n \in S : \A k \in S : ~ (<<k, n>> \in OpToRel(<, Nat))
  BY WFMin, NatLessThanWellFounded, Zenon
<1>2. \A k \in S : ~ (k < n)
  BY <1>1, Zenon DEF OpToRel
<1> QED
  BY <1>2

\* The recursion over the budget is well defined.
LEMMA ClusterRounds ==
  ASSUME NEW a, NEW sel, NEW budget \in Nat
  PROVE  \E chosen : chosen = [i \in 0 .. budget |->
           IF i = 0 THEN sel ELSE AddBestOfClusters(a, chosen[i - 1])]
<1> DEFINE Rounds(f, n) == f = [i \in 0 .. n |->
             IF i = 0 THEN sel ELSE AddBestOfClusters(a, f[i - 1])]
           Undefined == {n \in Nat : ~ \E f : Rounds(f, n)}
<1> SUFFICES ASSUME Undefined # {}
             PROVE  FALSE
  OBVIOUS
<1>1. PICK n \in Undefined : \A k \in Undefined : n <= k
  BY Smallest
<1>2. CASE n = 0
  <2>1. Rounds([i \in 0 .. 0 |-> sel], 0)
    OBVIOUS
  <2> QED
    BY <1>2, <2>1
<1>3. CASE n > 0
  <2>1. n - 1 \in Nat /\ n - 1 \notin Undefined
    BY <1>1, <1>3
  <2>2. PICK f : Rounds(f, n - 1)
    BY <2>1
  <2> DEFINE g == [i \in 0 .. n |-> IF i < n THEN f[i] ELSE AddBestOfClusters(a, f[n - 1])]
  <2>3. \A i \in 0 .. n : g[i] = IF i = 0 THEN sel ELSE AddBestOfClusters(a, g[i - 1])
    <3> SUFFICES ASSUME NEW i \in 0 .. n
                 PROVE  g[i] = IF i = 0 THEN sel ELSE AddBestOfClusters(a, g[i - 1])
      OBVIOUS
    <3>1. CASE i = 0
      <4>1. g[0] = f[0] /\ f[0] = sel
        BY <1>3, <2>1, <2>2
      <4> QED
        BY <3>1, <4>1
    <3>2. CASE i # 0
      <4>1. i - 1 \in 0 .. n /\ i - 1 < n
        BY <3>2
      <4>2. g[i - 1] = f[i - 1]
        BY <4>1
      <4>3. CASE i < n
        <5>1. i \in 0 .. n - 1
          BY <4>3
        <5>2. f[i] = AddBestOfClusters(a, f[i - 1])
          BY <2>2, <3>2, <5>1
        <5> QED
          BY <3>2, <4>2, <4>3, <5>2
      <4>4. CASE i = n
        BY <3>2, <4>2, <4>4
      <4> QED
        BY <4>3, <4>4
    <3> QED
      BY <3>1, <3>2
  <2>4. Rounds(g, n)
    <3>1. g = [i \in 0 .. n |-> g[i]]
      OBVIOUS
    <3> HIDE DEF g
    <3> QED
      BY <2>3, <3>1
  <2> HIDE DEF Rounds
  <2> QED
    BY <2>4
<1> QED
  BY <1>1, <1>2, <1>3

\* No round of cluster score selection drops what the earlier ones chose.
LEMMA ClusterScoreSelects ==
  ASSUME NEW a, PartialCall(a), NEW sel, Selection(a, sel), NEW budget \in Nat
  PROVE  /\ sel \subseteq AddClusterScore(a, sel, budget)
         /\ Selection(a, AddClusterScore(a, sel, budget))
<1> DEFINE chosen == CHOOSE chosen : chosen = [i \in 0 .. budget |->
             IF i = 0 THEN sel ELSE AddBestOfClusters(a, chosen[i - 1])]
           Broken == {i \in 0 .. budget : ~ (sel \subseteq chosen[i] /\ Selection(a, chosen[i]))}
<1>1. AddClusterScore(a, sel, budget) = chosen[budget]
  BY DEF AddClusterScore
<1>2. chosen = [i \in 0 .. budget |->
        IF i = 0 THEN sel ELSE AddBestOfClusters(a, chosen[i - 1])]
  BY ClusterRounds
<1> HIDE DEF chosen
<1>3. ASSUME Broken # {}
      PROVE  FALSE
  <2>1. PICK i \in Broken : \A k \in Broken : i <= k
    <3>1. Broken \in SUBSET Nat
      OBVIOUS
    <3> HIDE DEF Broken
    <3> QED
      BY <1>3, <3>1, Smallest
  <2>2. CASE i = 0
    <3>1. chosen[0] = sel
      BY <1>2
    <3> QED
      BY <2>1, <2>2, <3>1
  <2>3. CASE i # 0
    <3>1. i - 1 \in 0 .. budget /\ i - 1 \notin Broken
      BY <2>1, <2>3
    <3>2. sel \subseteq chosen[i - 1] /\ Selection(a, chosen[i - 1])
      BY <3>1
    <3>3. chosen[i] = AddBestOfClusters(a, chosen[i - 1])
      BY <1>2, <2>1, <2>3
    <3>4. sel \subseteq chosen[i] /\ Selection(a, chosen[i])
      BY <3>2, <3>3, BestOfClustersSelects
    <3> QED
      BY <2>1, <3>4
  <2> QED
    BY <2>2, <2>3
<1>4. budget \in 0 .. budget
  OBVIOUS
<1> QED
  BY <1>1, <1>3, <1>4

-----------------------------------------------------------------------------
(* The budgets, and the strategies that keep a reserve for the rotation. *)

\* The entries kept for fairness are fewer than the limit.
LEMMA ReserveFacts ==
  ASSUME NEW a, PartialCall(a)
  PROVE  FairnessReserve(a) \in Nat /\ FairnessReserve(a) <= a.max - 1
<1>1. a.max \in Nat /\ a.max # 0 /\ a.minFair \in Nat
  BY DEF PartialCall
<1> QED
  BY <1>1 DEF FairnessReserve, Smaller, Larger

LEMMA MainBudgetFacts ==
  ASSUME NEW a, PartialCall(a), NEW sel, Selection(a, sel)
  PROVE  MainBudget(a, sel) \in Nat
BY ReserveFacts, SelectionFinite DEF MainBudget

\* Hybrid selection always has room for the guaranteed recent entries.
LEMMA HotTargetFacts ==
  ASSUME NEW a, PartialCall(a), NEW sel, Selection(a, sel)
  PROVE  /\ HotTarget(a, sel) \in Int /\ HotTarget(a, sel) - Cardinality(sel) \in Nat
         /\ HotTarget(a, sel) >= Smaller(a.max, Cardinality(sel) + Larger(1, a.recentEntries))
<1> DEFINE ratio == Smaller(95, Larger(50, a.hotPercent))
           target == Smaller((a.max * ratio + 99) \div 100, a.max - FairnessReserve(a))
           recent == Smaller(a.max, Cardinality(sel) + Larger(1, a.recentEntries))
<1>1. /\ a.max \in Nat /\ Cardinality(sel) \in Nat /\ Cardinality(sel) <= a.max
      /\ a.recentEntries \in Nat /\ a.hotPercent \in Nat /\ FairnessReserve(a) \in Nat
  BY ReserveFacts, SelectionFinite DEF PartialCall
<1>2. ratio \in Nat
  BY <1>1 DEF Smaller, Larger
<1>3. a.max * ratio + 99 \in Nat
  BY <1>1, <1>2
<1>4. (a.max * ratio + 99) \div 100 \in Int
  <2> DEFINE k == a.max * ratio + 99
  <2> HIDE DEF k
  <2>1. k \in Nat => k \div 100 \in Int
    OBVIOUS
  <2> USE DEF k
  <2> QED
    BY <1>3, <2>1
<1>5. target \in Int
  <2> DEFINE k == (a.max * ratio + 99) \div 100
  <2>1. k \in Int
    BY <1>4
  <2> HIDE DEF k
  <2>2. Smaller(k, a.max - FairnessReserve(a)) \in Int
    BY <1>1, <2>1 DEF Smaller
  <2> QED
    BY <2>2 DEF k
<1>6. recent \in Int
  BY <1>1 DEF Smaller, Larger
<1>7. HotTarget(a, sel) = Larger(recent, Larger(target, Cardinality(sel)))
  BY DEF HotTarget
<1> HIDE DEF target, recent
<1>8. /\ Larger(recent, Larger(target, Cardinality(sel))) \in Int
      /\ Larger(recent, Larger(target, Cardinality(sel))) >= Cardinality(sel)
      /\ Larger(recent, Larger(target, Cardinality(sel))) >= recent
  BY <1>1, <1>5, <1>6 DEF Larger
<1> QED
  BY <1>1, <1>7, <1>8 DEF recent

\* No strategy with a reserve asks for less than nothing.
LEMMA MainTargetFacts ==
  ASSUME NEW a, PartialCall(a), NEW sel, Selection(a, sel),
         a.strategy \in ReserveStrategies
  PROVE  MainTarget(a, sel) \in Nat
<1>1. MainBudget(a, sel) \in Nat
  BY MainBudgetFacts
<1>2. CASE a.strategy = "Hybrid"
  BY <1>2, HotTargetFacts DEF MainTarget
<1>3. CASE a.strategy = "ClusterHybrid"
  <2>1. a.max \in Nat /\ a.recentEntries \in Nat
    BY SelectionFinite DEF PartialCall
  <2>2. ClusterBudget(a, sel) \in Nat
    BY <1>1, <2>1 DEF ClusterBudget, Smaller, Larger
  <2> QED
    BY <1>3, <2>2 DEF MainTarget
<1>4. CASE a.strategy \in {"AgeScore", "DeficitScore", "ClusterScore"}
  BY <1>1, <1>4 DEF MainTarget
<1> QED
  BY <1>2, <1>3, <1>4 DEF ReserveStrategies

LEMMA RecentSelects ==
  ASSUME NEW a, PartialCall(a), NEW sel, Selection(a, sel), NEW budget \in Int
  PROVE  sel \subseteq AddRecent(a, sel, budget) /\ Selection(a, AddRecent(a, sel, budget))
BY RecencyOrder, AddSelects DEF AddRecent

LEMMA RoundRobinSelects ==
  ASSUME NEW a, PartialCall(a), NEW sel, Selection(a, sel), NEW budget \in Int
  PROVE  /\ sel \subseteq AddRoundRobin(a, sel, budget)
         /\ Selection(a, AddRoundRobin(a, sel, budget))
BY AddSelects DEF AddRoundRobin, PartialCall

LEMMA StickySelects ==
  ASSUME NEW a, PartialCall(a), NEW sel, Selection(a, sel), NEW budget \in Int
  PROVE  sel \subseteq AddSticky(a, sel, budget) /\ Selection(a, AddSticky(a, sel, budget))
BY AddSelects DEF AddSticky, PartialCall

LEMMA NoveltySelects ==
  ASSUME NEW a, PartialCall(a), NEW sel, Selection(a, sel), NEW budget \in Int
  PROVE  sel \subseteq AddNovelty(a, sel, budget) /\ Selection(a, AddNovelty(a, sel, budget))
BY RecencyOrder, AddFromSelects DEF AddNovelty

LEMMA MainSelects ==
  ASSUME NEW a, PartialCall(a), NEW sel, Selection(a, sel),
         a.strategy \in ReserveStrategies, NEW budget \in Nat
  PROVE  sel \subseteq AddMain(a, sel, budget) /\ Selection(a, AddMain(a, sel, budget))
<1>1. CASE a.strategy = "AgeScore"
  BY <1>1, AgeScoreSelects DEF AddMain
<1>2. CASE a.strategy = "DeficitScore"
  BY <1>2, DeficitScoreSelects DEF AddMain
<1>3. CASE a.strategy = "ClusterScore"
  BY <1>3, ClusterScoreSelects DEF AddMain
<1>4. CASE a.strategy = "Hybrid"
  BY <1>4, RecentSelects DEF AddMain
<1>5. CASE a.strategy = "ClusterHybrid"
  <2>1. AddMain(a, sel, budget) = AddClusterRecent(a, sel, budget)
    BY <1>5 DEF AddMain
  <2> QED
    BY <2>1, PreferringSelects DEF AddClusterRecent
<1> QED
  BY <1>1, <1>2, <1>3, <1>4, <1>5 DEF ReserveStrategies

\* A strategy with a reserve fills the subset, and keeps its first part.
LEMMA WithReserveFills ==
  ASSUME NEW a, PartialCall(a), NEW sel, Selection(a, sel),
         a.strategy \in ReserveStrategies
  PROVE  LET r == WithReserve(a, sel)
         IN  /\ sel \subseteq r /\ Selection(a, r) /\ Cardinality(r) = a.max
             /\ AddMain(a, sel, MainTarget(a, sel)) \subseteq r
<1> DEFINE main == AddMain(a, sel, MainTarget(a, sel))
           fair == AddRoundRobin(a, main, FairnessReserve(a))
           rest == AddMain(a, fair, a.max)
<1>1. WithReserve(a, sel) = AddRoundRobin(a, rest, a.max)
  BY DEF WithReserve
<1>2. a.max \in Nat /\ FairnessReserve(a) \in Nat /\ MainTarget(a, sel) \in Nat
  BY ReserveFacts, NamesFacts, MainTargetFacts
<1>3. sel \subseteq main /\ Selection(a, main)
  BY <1>2, MainSelects
<1> HIDE DEF main
<1>4. main \subseteq fair /\ Selection(a, fair)
  BY <1>2, <1>3, RoundRobinSelects
<1> HIDE DEF fair
<1>5. fair \subseteq rest /\ Selection(a, rest)
  BY <1>2, <1>4, MainSelects
<1> HIDE DEF rest
<1>6. rest \subseteq AddRoundRobin(a, rest, a.max) /\ Selection(a, AddRoundRobin(a, rest, a.max))
  BY <1>2, <1>5, RoundRobinSelects
<1>7. a.max >= Room(a, rest)
  BY <1>5, SelectionFinite DEF Room
<1>8. Cardinality(AddRoundRobin(a, rest, a.max)) = a.max
  BY <1>2, <1>5, <1>7, RoundRobinFills
<1> QED
  BY <1>1, <1>3, <1>4, <1>5, <1>6, <1>8 DEF main

-----------------------------------------------------------------------------
(* The other strategies. *)

LEMMA RandomSelects ==
  ASSUME NEW a, PartialCall(a), NEW sel, Selection(a, sel),
         a.lucky \in SUBSET Names(a), NEW budget \in Int
  PROVE  /\ sel \subseteq AddRandom(a, sel, budget) /\ Selection(a, AddRandom(a, sel, budget))
         /\ budget >= Room(a, sel) => Cardinality(AddRandom(a, sel, budget)) = a.max
BY PreferringSelects DEF AddRandom

\* So does a strategy with a quota, with what it brings in.
LEMMA WithQuotaFills ==
  ASSUME NEW a, PartialCall(a), NEW sel, Selection(a, sel), a.lucky \in SUBSET Names(a)
  PROVE  LET r      == WithQuota(a, sel)
             quota  == Smaller(a.noveltyBudget, Room(a, sel))
             recent == AddRecent(a, sel, Room(a, sel) - quota)
         IN  /\ sel \subseteq r /\ Selection(a, r) /\ Cardinality(r) = a.max
             /\ quota \in Nat /\ quota <= Room(a, sel) /\ Selection(a, recent)
             /\ a.strategy = "RecentNoveltyQuota" => AddNovelty(a, recent, quota) \subseteq r
<1> DEFINE quota  == Smaller(a.noveltyBudget, Room(a, sel))
           recent == AddRecent(a, sel, Room(a, sel) - quota)
           other  == IF a.strategy = "RecentNoveltyQuota" THEN AddNovelty(a, recent, quota)
                                                          ELSE AddRandom(a, recent, quota)
           rest   == AddRecent(a, other, a.max)
<1>1. WithQuota(a, sel) = AddRoundRobin(a, rest, a.max)
  BY DEF WithQuota
<1>2. a.max \in Nat /\ Room(a, sel) \in Nat /\ quota \in Nat /\ quota <= Room(a, sel)
  <2>1. a.max \in Nat /\ Room(a, sel) \in Nat
    BY SelectionFinite
  <2>2. a.noveltyBudget \in Nat
    BY DEF PartialCall
  <2> QED
    BY <2>1, <2>2 DEF Smaller
<1> HIDE DEF quota
<1>3. sel \subseteq recent /\ Selection(a, recent)
  BY <1>2, RecentSelects
<1> HIDE DEF recent
<1>4. recent \subseteq other /\ Selection(a, other)
  BY <1>2, <1>3, NoveltySelects, RandomSelects
<1>5. a.strategy = "RecentNoveltyQuota" => other = AddNovelty(a, recent, quota)
  OBVIOUS
<1> HIDE DEF other
<1>6. other \subseteq rest /\ Selection(a, rest)
  BY <1>2, <1>4, RecentSelects
<1> HIDE DEF rest
<1>7. rest \subseteq AddRoundRobin(a, rest, a.max) /\ Selection(a, AddRoundRobin(a, rest, a.max))
  BY <1>2, <1>6, RoundRobinSelects
<1>8. a.max >= Room(a, rest)
  BY <1>6, SelectionFinite DEF Room
<1>9. Cardinality(AddRoundRobin(a, rest, a.max)) = a.max
  BY <1>2, <1>6, <1>8, RoundRobinFills
<1>10. /\ sel \subseteq WithQuota(a, sel) /\ Selection(a, WithQuota(a, sel))
       /\ Cardinality(WithQuota(a, sel)) = a.max
       /\ a.strategy = "RecentNoveltyQuota"
            => AddNovelty(a, recent, quota) \subseteq WithQuota(a, sel)
  BY <1>1, <1>3, <1>4, <1>5, <1>6, <1>7, <1>9
<1> QED
  BY <1>2, <1>3, <1>10 DEF recent, quota

\* And sticky selection, with what it holds.
LEMMA StickyRecentFills ==
  ASSUME NEW a, PartialCall(a), NEW sel, Selection(a, sel)
  PROVE  LET r == StickyRecent(a, sel)
         IN  /\ sel \subseteq r /\ Selection(a, r) /\ Cardinality(r) = a.max
             /\ AddSticky(a, sel, a.stickyBudget) \subseteq r
<1> DEFINE held == AddSticky(a, sel, a.stickyBudget)
           rest == AddRecent(a, held, a.max)
<1>1. StickyRecent(a, sel) = AddRoundRobin(a, rest, a.max)
  BY DEF StickyRecent
<1>2. a.max \in Nat /\ a.stickyBudget \in Nat
  BY NamesFacts DEF PartialCall
<1>3. sel \subseteq held /\ Selection(a, held)
  BY <1>2, StickySelects
<1> HIDE DEF held
<1>4. held \subseteq rest /\ Selection(a, rest)
  BY <1>2, <1>3, RecentSelects
<1> HIDE DEF rest
<1>5. rest \subseteq AddRoundRobin(a, rest, a.max) /\ Selection(a, AddRoundRobin(a, rest, a.max))
  BY <1>2, <1>4, RoundRobinSelects
<1>6. a.max >= Room(a, rest)
  BY <1>4, SelectionFinite DEF Room
<1>7. Cardinality(AddRoundRobin(a, rest, a.max)) = a.max
  BY <1>2, <1>4, <1>6, RoundRobinFills
<1> QED
  BY <1>1, <1>3, <1>4, <1>5, <1>7 DEF held

LEMMA PreferredFacts ==
  ASSUME NEW a, PartialCall(a)
  PROVE  /\ Selection(a, Preferred(a))
         /\ Cardinality(Preferred(a)) \in {0, 1}
<1>1. Preferred(a) = {} \/ Preferred(a) = {a.preferred}
  BY DEF Preferred
<1>2. Cardinality(Preferred(a)) \in {0, 1}
  BY <1>1, FS_EmptySet, FS_Singleton
<1>3. a.max \in Nat \ {0}
  BY DEF PartialCall
<1> QED
  BY <1>2, <1>3 DEF Selection, Preferred

\* Whatever the strategy, the budgets, the scores and the order of std::shuffle,
\* selectSubset returns known names only, exactly as many as it may, and the preferred
\* name among them: no difference of sizes in it goes below zero.
THEOREM PartialSubsetFills ==
  ASSUME NEW a, PartialCall(a), a.lucky \in SUBSET Names(a)
  PROVE  LET r == PartialSubset(a)
         IN  Preferred(a) \subseteq r /\ Selection(a, r) /\ Cardinality(r) = a.max
<1> DEFINE sel == Preferred(a)
           r == PartialSubset(a)
<1>1. Selection(a, sel)
  BY PreferredFacts
<1>2. a.max \in Nat /\ a.max >= Room(a, sel) /\ a.stickyBudget \in Nat
  <2>1. Cardinality(sel) \in Nat /\ a.max \in Nat
    BY <1>1, SelectionFinite
  <2>2. a.stickyBudget \in Nat
    BY DEF PartialCall
  <2> QED
    BY <2>1, <2>2 DEF Room
<1> HIDE DEF sel
<1>3. CASE a.strategy = "Recent"
  <2> DEFINE held == AddSticky(a, sel, a.stickyBudget)
  <2>1. r = AddRecent(a, held, a.max)
    BY <1>3 DEF PartialSubset, sel
  <2>2. sel \subseteq held /\ Selection(a, held)
    BY <1>1, <1>2, StickySelects
  <2>3. a.max >= Room(a, held)
    BY <2>2, SelectionFinite DEF Room
  <2> HIDE DEF held
  <2>4. sel \subseteq r /\ Selection(a, r)
    BY <1>2, <2>1, <2>2, RecentSelects
  <2>5. Cardinality(r) = a.max
    BY <1>2, <2>1, <2>2, <2>3, RecentFills
  <2> QED
    BY <2>4, <2>5 DEF sel
<1>4. CASE a.strategy = "StickyRecent"
  <2>1. r = StickyRecent(a, sel)
    BY <1>4 DEF PartialSubset, sel
  <2> QED
    BY <1>1, <2>1, StickyRecentFills DEF sel
<1>5. CASE a.strategy = "Random"
  <2>1. r = AddRandom(a, sel, a.max)
    BY <1>5 DEF PartialSubset, sel
  <2> QED
    BY <1>1, <1>2, <2>1, RandomSelects DEF sel
<1>6. CASE a.strategy = "RoundRobin"
  <2>1. r = AddRoundRobin(a, sel, a.max)
    BY <1>6 DEF PartialSubset, sel
  <2> QED
    BY <1>1, <1>2, <2>1, RoundRobinSelects, RoundRobinFills DEF sel
<1>7. CASE a.strategy = "Score"
  <2>1. r = AddScore(a, sel, a.max)
    BY <1>7 DEF PartialSubset, sel
  <2> QED
    BY <1>1, <1>2, <2>1, ScoreSelects DEF sel
<1>8. CASE a.strategy \in QuotaStrategies
  <2>1. r = WithQuota(a, sel)
    BY <1>8 DEF PartialSubset, QuotaStrategies, sel
  <2> QED
    BY <1>1, <2>1, WithQuotaFills DEF sel
<1>9. CASE a.strategy \in ReserveStrategies
  <2>1. r = WithReserve(a, sel)
    BY <1>9 DEF PartialSubset, ReserveStrategies, sel
  <2> QED
    BY <1>1, <1>9, <2>1, WithReserveFills DEF sel
<1>10. \/ a.strategy \in ReserveStrategies \/ a.strategy \in QuotaStrategies
       \/ a.strategy \in {"Recent", "StickyRecent", "Random", "RoundRobin", "Score"}
  BY DEF PartialCall
<1> QED
  BY <1>3, <1>4, <1>5, <1>6, <1>7, <1>8, <1>9, <1>10

-----------------------------------------------------------------------------
(* What the strategies promise beyond the size. *)

\* The entries at the first positions of an order get in.
LEMMA FirstPositions ==
  ASSUME NEW a, PartialCall(a), NEW sel, Selection(a, sel),
         NEW order, order \in Seq(Names(a)), NEW budget \in Int,
         NEW i \in DOMAIN order, i <= budget, i <= Room(a, sel)
  PROVE  order[i] \in Add(a, sel, order, budget)
<1>1. /\ IsFiniteSet(sel) /\ a.max \in Nat /\ Cardinality(sel) <= a.max
  BY SelectionFinite
<1>2. Grown(a, sel, order, Names(a), budget, AddFrom(a, sel, order, Names(a), budget))
  BY <1>1, AddFromFacts
<1>3. order[i] \in Names(a)
  BY SeqFacts
<1>4. i <= Smaller(budget, Room(a, sel))
  BY DEF Smaller
<1> QED
  BY <1>2, <1>3, <1>4 DEF Grown, Add

\* r has all of S that order offers, or as much of it as the budget and the room allow.
TookOrCovered(a, sel, order, S, budget, r) ==
  /\ IsFiniteSet(r \ sel) /\ Cardinality(r \ sel) \in Nat
  /\ r \ sel \subseteq ToSet(order) \intersect S
  /\ \/ ToSet(order) \intersect S \subseteq r
     \/ Cardinality(r \ sel) >= Smaller(budget, Room(a, sel))

\* Either everything on offer gets in, or as much as the budget and the room allow.
LEMMA TakesOrCovers ==
  ASSUME NEW a, PartialCall(a), NEW sel, Selection(a, sel),
         NEW order, order \in Seq(Names(a)), IsInjective(order),
         NEW S, NEW budget \in Int
  PROVE  TookOrCovered(a, sel, order, S, budget, AddFrom(a, sel, order, S, budget))
<1> DEFINE r == AddFrom(a, sel, order, S, budget)
           added == r \ sel
           offered == (ToSet(order) \intersect S) \ sel
           count == Smaller(budget, Room(a, sel))
<1>1. /\ IsFiniteSet(sel) /\ Cardinality(sel) \in Nat /\ a.max \in Nat
      /\ Cardinality(sel) <= a.max /\ Room(a, sel) \in Nat
  BY SelectionFinite
<1>2. Grown(a, sel, order, S, budget, r)
  BY <1>1, AddFromFacts
<1> HIDE DEF r
<1>3. /\ sel \subseteq r /\ r \subseteq sel \union offered
      /\ IsFiniteSet(r) /\ Cardinality(r) \in Nat
      /\ Cardinality(r) = Cardinality(sel) + Smaller(Larger(0, count), Cardinality(offered))
  BY <1>2 DEF Grown
<1>4. IsFiniteSet(added) /\ Cardinality(added) = Cardinality(r) - Cardinality(sel)
  <2>1. r \intersect sel = sel
    BY <1>3
  <2>2. IsFiniteSet(added) /\ Cardinality(added) = Cardinality(r) - Cardinality(r \intersect sel)
    BY <1>3, FS_Difference
  <2> QED
    BY <2>1, <2>2
<1>5. added \subseteq offered
  BY <1>3
<1>6. IsFiniteSet(offered) /\ Cardinality(offered) \in Nat
  <2>1. IsFiniteSet(ToSet(order)) /\ offered \in SUBSET ToSet(order)
    BY SeqFacts
  <2> HIDE DEF offered
  <2> QED
    BY <2>1, FS_Subset, FS_CardinalityType
<1>7. Cardinality(added) = Smaller(Larger(0, count), Cardinality(offered))
      /\ Cardinality(added) \in Nat
  <2>1. count \in Int
    BY <1>1 DEF Smaller
  <2> HIDE DEF added, count, offered
  <2> QED
    BY <1>1, <1>3, <1>4, <1>6, <2>1 DEF Smaller, Larger
<1>8. Cardinality(added) >= count \/ Cardinality(added) = Cardinality(offered)
  <2>1. count \in Int
    BY <1>1 DEF Smaller
  <2> HIDE DEF added, count, offered
  <2> QED
    BY <1>6, <1>7, <2>1 DEF Smaller, Larger
<1>9. ASSUME Cardinality(added) = Cardinality(offered)
      PROVE  ToSet(order) \intersect S \subseteq r
  <2>1. added = offered
    <3> HIDE DEF added, offered
    <3> QED
      BY <1>5, <1>6, <1>9, FS_Subset
  <2> QED
    BY <1>3, <2>1
<1> QED
  BY <1>4, <1>5, <1>7, <1>8, <1>9 DEF r, TookOrCovered

\* The preferred entry takes one place at most.
LEMMA PreferredRoom ==
  ASSUME NEW a, PartialCall(a)
  PROVE  /\ Room(a, Preferred(a)) \in Nat /\ Room(a, Preferred(a)) >= a.max - 1
         /\ a.max \in Nat /\ a.max < Total(a) /\ Total(a) \in Nat
<1>1. Selection(a, Preferred(a)) /\ Cardinality(Preferred(a)) \in {0, 1}
  BY PreferredFacts
<1>2. Room(a, Preferred(a)) \in Nat /\ a.max \in Nat
  BY <1>1, SelectionFinite
<1>3. a.max < Total(a) /\ Total(a) \in Nat
  BY NamesFacts DEF PartialCall
<1> QED
  BY <1>1, <1>2, <1>3 DEF Room

\* Recent and hybrid selection carry the latest entries.
LEMMA RecentCarried ==
  ASSUME NEW a, PartialCall(a),
         (a.strategy = "Recent" /\ a.stickyBudget = 0) \/ a.strategy = "Hybrid",
         NEW i \in 1 .. Smaller(a.recentEntries, a.max - 1)
  PROVE  a.recency[i] \in PartialSubset(a)
<1> DEFINE sel == Preferred(a)
           r == PartialSubset(a)
<1>1. /\ Selection(a, sel) /\ Room(a, sel) \in Nat /\ Room(a, sel) >= a.max - 1
      /\ a.max \in Nat /\ a.max < Total(a) /\ Total(a) \in Nat /\ Cardinality(sel) \in Nat
      /\ a.recentEntries \in Nat
  BY PreferredRoom, PreferredFacts, SelectionFinite DEF PartialCall
<1>2. i \in 1 .. Total(a) /\ i <= a.recentEntries /\ i <= Room(a, sel) /\ i <= a.max
  BY <1>1 DEF Smaller
<1>3. i \in DOMAIN a.recency /\ a.recency \in Seq(Names(a))
  BY <1>2, NamesFacts
<1> HIDE DEF sel
<1>4. CASE a.strategy = "Recent" /\ a.stickyBudget = 0
  <2> DEFINE held == AddSticky(a, sel, a.stickyBudget)
  <2>1. r = AddRecent(a, held, a.max)
    BY <1>4 DEF PartialSubset, sel
  <2>2. Selection(a, held) /\ Cardinality(held) = Cardinality(sel)
    <3>1. sel \subseteq held /\ Selection(a, held)
      BY <1>1, <1>4, StickySelects
    <3>2. /\ IsFiniteSet(sel) /\ a.max \in Nat /\ Cardinality(sel) <= a.max
          /\ a.sticky \in Seq(Names(a))
      BY <1>1, SelectionFinite DEF PartialCall
    <3>3. Grown(a, sel, a.sticky, Names(a), 0, AddFrom(a, sel, a.sticky, Names(a), 0))
      BY <3>2, AddFromFacts
    <3>4. Grown(a, sel, a.sticky, Names(a), 0, held)
      BY <1>4, <3>3 DEF AddSticky, Add
    <3> HIDE DEF held
    <3>5. /\ Cardinality(held) \in Nat /\ Cardinality(held) >= Cardinality(sel)
          /\ Cardinality(held) <= Cardinality(sel) + Larger(0, 0)
      BY <3>4 DEF Grown
    <3>6. Cardinality(held) = Cardinality(sel)
      BY <1>1, <3>5 DEF Larger
    <3> QED
      BY <3>1, <3>6
  <2>3. Room(a, held) = Room(a, sel)
    BY <2>2 DEF Room
  <2> HIDE DEF held
  <2>4. a.recency[i] \in Add(a, held, a.recency, a.max)
    BY <1>1, <1>2, <1>3, <2>2, <2>3, FirstPositions
  <2> QED
    BY <2>1, <2>4 DEF AddRecent
<1>5. CASE a.strategy = "Hybrid"
  <2> DEFINE target == MainTarget(a, sel)
  <2>1. r = WithReserve(a, sel)
    BY <1>5 DEF PartialSubset, sel
  <2>2. a.strategy \in ReserveStrategies
    BY <1>5 DEF ReserveStrategies
  <2>3. AddMain(a, sel, target) \subseteq r
    BY <1>1, <2>1, <2>2, WithReserveFills
  <2>4. AddMain(a, sel, target) = Add(a, sel, a.recency, target)
    BY <1>5 DEF AddMain, AddRecent
  <2>5. target \in Nat /\ i <= target
    <3>1. target = HotTarget(a, sel) - Cardinality(sel)
      BY <1>5 DEF MainTarget
    <3>2. /\ target \in Nat
          /\ HotTarget(a, sel) >= Smaller(a.max, Cardinality(sel) + Larger(1, a.recentEntries))
      BY <1>1, <3>1, HotTargetFacts
    <3> DEFINE goal == Smaller(a.max, Cardinality(sel) + Larger(1, a.recentEntries))
    <3>3. goal \in Int /\ goal - Cardinality(sel) >= i
      BY <1>1, <1>2 DEF Smaller, Larger, Room
    <3>4. HotTarget(a, sel) = target + Cardinality(sel)
      <4>1. HotTarget(a, sel) \in Int
        BY <1>1, HotTargetFacts
      <4> QED
        BY <1>1, <3>1, <4>1
    <3> HIDE DEF goal, target
    <3> QED
      BY <1>1, <1>2, <3>2, <3>3, <3>4 DEF goal
  <2> HIDE DEF target
  <2>6. a.recency[i] \in Add(a, sel, a.recency, target)
    BY <1>1, <1>2, <1>3, <2>5, FirstPositions
  <2> QED
    BY <2>3, <2>4, <2>6
<1> QED
  BY <1>4, <1>5

\* Sticky selection holds on to its share of the last selection.
LEMMA StickyHeld ==
  ASSUME NEW a, PartialCall(a), a.strategy = "StickyRecent"
  PROVE  Cardinality(PartialSubset(a) \intersect ToSet(a.sticky))
           >= Smaller(Smaller(a.stickyBudget, a.max - 1), Len(a.sticky))
<1> DEFINE sel == Preferred(a)
           r == PartialSubset(a)
           held == AddFrom(a, sel, a.sticky, Names(a), a.stickyBudget)
           last == ToSet(a.sticky)
           kept == r \intersect last
           added == held \ sel
<1>1. /\ Selection(a, sel) /\ Room(a, sel) \in Nat /\ Room(a, sel) >= a.max - 1
      /\ a.max \in Nat /\ a.stickyBudget \in Nat
      /\ a.sticky \in Seq(Names(a)) /\ IsInjective(a.sticky)
  BY PreferredRoom, PreferredFacts DEF PartialCall
<1>2. /\ last \subseteq Names(a) /\ IsFiniteSet(last)
      /\ Cardinality(last) = Len(a.sticky) /\ Len(a.sticky) \in Nat
  BY <1>1, SeqFacts, DistinctFacts
<1>3. held \subseteq r
  <2>1. r = StickyRecent(a, sel)
    BY DEF PartialSubset
  <2>2. AddSticky(a, sel, a.stickyBudget) \subseteq r
    BY <1>1, <2>1, StickyRecentFills
  <2> QED
    BY <2>2 DEF AddSticky, Add
<1>4. /\ IsFiniteSet(added) /\ Cardinality(added) \in Nat
      /\ added \subseteq last \intersect Names(a)
      /\ \/ last \intersect Names(a) \subseteq held
         \/ Cardinality(added) >= Smaller(a.stickyBudget, Room(a, sel))
  <2>1. TookOrCovered(a, sel, a.sticky, Names(a), a.stickyBudget, held)
    BY <1>1, TakesOrCovers
  <2> HIDE DEF held, sel
  <2> QED
    BY <2>1 DEF TookOrCovered
<1>5. IsFiniteSet(kept) /\ Cardinality(kept) \in Nat
  BY <1>2, FS_Intersection, FS_CardinalityType
<1> HIDE DEF r, held, sel, last
<1>6. CASE last \intersect Names(a) \subseteq held
  <2>1. kept = last
    BY <1>2, <1>3, <1>6
  <2> HIDE DEF kept
  <2>2. Cardinality(kept) >= Smaller(Smaller(a.stickyBudget, a.max - 1), Len(a.sticky))
    BY <1>1, <1>2, <2>1 DEF Smaller
  <2> QED
    BY <2>2 DEF kept, r, last
<1>7. CASE Cardinality(added) >= Smaller(a.stickyBudget, Room(a, sel))
  <2>1. added \in SUBSET kept
    BY <1>3, <1>4
  <2> HIDE DEF added, kept
  <2>2. Cardinality(added) <= Cardinality(kept)
    BY <1>5, <2>1, FS_Subset
  <2>3. Cardinality(kept) >= Smaller(Smaller(a.stickyBudget, a.max - 1), Len(a.sticky))
    BY <1>1, <1>2, <1>4, <1>5, <1>7, <2>2 DEF Smaller
  <2> QED
    BY <2>3 DEF kept, r, last
<1> QED
  BY <1>4, <1>6, <1>7

\* The novelty quota brings in its share of the names that are not in the base.
LEMMA NoveltyBrought ==
  ASSUME NEW a, PartialCall(a), a.strategy = "RecentNoveltyQuota",
         a.lucky \in SUBSET Names(a)
  PROVE  Cardinality(PartialSubset(a) \ a.base)
           >= Smaller(Smaller(a.noveltyBudget, a.max - 1), Cardinality(Names(a) \ a.base))
<1> DEFINE sel == Preferred(a)
           r == PartialSubset(a)
           quota == Smaller(a.noveltyBudget, Room(a, sel))
           recent == AddRecent(a, sel, Room(a, sel) - quota)
           novel == Names(a) \ a.base
           other == AddFrom(a, recent, a.recency, novel, quota)
           brought == r \ a.base
           added == other \ recent
<1>1. /\ Selection(a, sel) /\ Room(a, sel) \in Nat /\ Room(a, sel) >= a.max - 1
      /\ a.max \in Nat /\ a.noveltyBudget \in Nat
  BY PreferredRoom, PreferredFacts DEF PartialCall
<1>2. r = WithQuota(a, sel)
  BY DEF PartialSubset
<1>3. /\ quota \in Nat /\ quota <= Room(a, sel) /\ Selection(a, recent)
      /\ other \subseteq r /\ Selection(a, r)
  <2>1. /\ quota \in Nat /\ quota <= Room(a, sel) /\ Selection(a, recent)
        /\ AddNovelty(a, recent, quota) \subseteq r /\ Selection(a, r)
    BY <1>1, <1>2, WithQuotaFills
  <2> QED
    BY <2>1 DEF AddNovelty
<1>4. Room(a, recent) >= quota
  <2>1. /\ IsFiniteSet(sel) /\ Cardinality(sel) \in Nat /\ Cardinality(sel) <= a.max
        /\ a.recency \in Seq(Names(a))
    BY <1>1, SelectionFinite, NamesFacts
  <2>2. Room(a, sel) - quota \in Int
    BY <1>1, <1>3
  <2> HIDE DEF quota, sel
  <2>3. Grown(a, sel, a.recency, Names(a), Room(a, sel) - quota, recent)
    BY <1>1, <2>1, <2>2, AddFromFacts DEF AddRecent, Add
  <2> HIDE DEF recent
  <2>4. /\ Cardinality(recent) \in Nat
        /\ Cardinality(recent) <= Cardinality(sel) + Larger(0, Room(a, sel) - quota)
    BY <2>3 DEF Grown
  <2> QED
    BY <1>1, <1>3, <2>1, <2>4 DEF Larger, Room
<1>5. /\ IsFiniteSet(added) /\ Cardinality(added) \in Nat
      /\ added \subseteq Names(a) \intersect novel
      /\ \/ Names(a) \intersect novel \subseteq other
         \/ Cardinality(added) >= Smaller(quota, Room(a, recent))
  <2> HIDE DEF quota, recent
  <2>1. TookOrCovered(a, recent, a.recency, novel, quota, other)
    BY <1>3, RecencyOrder, TakesOrCovers
  <2>2. ToSet(a.recency) = Names(a)
    BY RecencyOrder
  <2> HIDE DEF other, novel
  <2> QED
    BY <2>1, <2>2 DEF TookOrCovered
<1>6. /\ IsFiniteSet(brought) /\ Cardinality(brought) \in Nat
      /\ IsFiniteSet(novel) /\ Cardinality(novel) \in Nat
  <2>1. IsFiniteSet(r) /\ IsFiniteSet(Names(a))
    BY <1>3, SelectionFinite, NamesFacts
  <2> HIDE DEF r
  <2> QED
    BY <2>1, FS_Difference, FS_CardinalityType
<1>7. Smaller(quota, Room(a, recent)) >= Smaller(a.noveltyBudget, a.max - 1)
  <2>1. Room(a, recent) \in Nat
    BY <1>3, SelectionFinite
  <2> HIDE DEF recent, sel
  <2> QED
    BY <1>1, <1>3, <1>4, <2>1 DEF Smaller
<1> HIDE DEF recent, sel, r, other, quota
<1>8. CASE Names(a) \intersect novel \subseteq other
  <2>1. novel \in SUBSET brought
    BY <1>3, <1>8
  <2> HIDE DEF novel, brought
  <2>2. Cardinality(novel) <= Cardinality(brought)
    BY <1>6, <2>1, FS_Subset
  <2>3. Cardinality(brought) >= Smaller(Smaller(a.noveltyBudget, a.max - 1), Cardinality(novel))
    BY <1>1, <1>6, <2>2 DEF Smaller
  <2> QED
    BY <2>3 DEF novel, brought, r
<1>9. CASE Cardinality(added) >= Smaller(quota, Room(a, recent))
  <2>1. added \in SUBSET brought
    BY <1>3, <1>5
  <2> HIDE DEF added, novel, brought
  <2>2. Cardinality(added) <= Cardinality(brought)
    BY <1>6, <2>1, FS_Subset
  <2>3. Smaller(a.noveltyBudget, a.max - 1) \in Int
    BY <1>1 DEF Smaller
  <2>4. Smaller(quota, Room(a, recent)) \in Int
    BY <1>3, SelectionFinite DEF Smaller
  <2>5. Cardinality(brought) >= Smaller(Smaller(a.noveltyBudget, a.max - 1), Cardinality(novel))
    <3> DEFINE least == Smaller(a.noveltyBudget, a.max - 1)
               most == Smaller(quota, Room(a, recent))
    <3>1. /\ least \in Int /\ most \in Int /\ most >= least
          /\ Cardinality(added) >= most
      BY <1>7, <1>9, <2>3, <2>4
    <3> HIDE DEF least, most
    <3>2. Cardinality(brought) >= Smaller(least, Cardinality(novel))
      BY <1>5, <1>6, <2>2, <3>1 DEF Smaller
    <3> QED
      BY <3>2 DEF least
  <2> QED
    BY <2>5 DEF novel, brought, r
<1> QED
  BY <1>5, <1>8, <1>9

\* A rotation with the subset for itself takes the names right after its cursor.
LEMMA RotationTaken ==
  ASSUME NEW a, PartialCall(a), a.strategy = "RoundRobin", Preferred(a) = {},
         NEW i \in 1 .. a.max
  PROVE  a.rotation[i] \in PartialSubset(a)
<1>1. PartialSubset(a) = Add(a, Preferred(a), a.rotation, a.max)
  BY DEF PartialSubset, AddRoundRobin
<1>2. /\ Selection(a, Preferred(a)) /\ a.max \in Nat /\ a.max < Total(a) /\ Total(a) \in Nat
  BY PreferredFacts, PreferredRoom
<1>3. Room(a, Preferred(a)) = a.max
  BY <1>2, FS_EmptySet DEF Room
<1>4. /\ a.rotation \in Seq(Names(a)) /\ IsInjective(a.rotation)
      /\ ToSet(a.rotation) = Names(a)
  BY DEF PartialCall
<1>5. Len(a.rotation) = Total(a)
  BY <1>4, DistinctFacts, NamesFacts
<1>6. i \in DOMAIN a.rotation
  BY <1>2, <1>4, <1>5, SeqFacts
<1> QED
  BY <1>1, <1>2, <1>3, <1>4, <1>6, FirstPositions
=============================================================================
