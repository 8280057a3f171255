----------------------------- MODULE MetricsProofs -----------------------------
(***************************************************************************)
(* What the metrics, the perturbations and the scores return, for every    *)
(* column: lemmas about the operators of Metrics and Scoring, which the    *)
(* proofs about Scan cite.                                                 *)
(***************************************************************************)
EXTENDS Scoring, OrderLemmas

-----------------------------------------------------------------------------
\* The k-th member of an order.

LEMMA KthMember ==
  ASSUME NEW S, IsFiniteSet(S), NEW order, IsStrictOrder(S, order), NEW k \in 1..Cardinality(S)
  PROVE  /\ KthIn(S, order, k) \in S
         /\ Cardinality(Below(S, order, KthIn(S, order, k))) < k
         /\ Cardinality(NotAfter(S, order, KthIn(S, order, k))) >= k
  <1>1. \E x \in S : /\ Cardinality({y \in S : <<y, x>> \in order}) < k
                     /\ Cardinality({y \in S : <<x, y>> \notin order}) >= k
    BY KthExists DEF Below, NotAfter
  <1> QED
    BY <1>1 DEF KthIn, Below, NotAfter

IsTotal(S, order) == \A x, y \in S : x = y \/ <<x, y>> \in order \/ <<y, x>> \in order

\* In a total order k - 1 members come before the k-th.
LEMMA KthRank ==
  ASSUME NEW S, IsFiniteSet(S), NEW order, IsStrictOrder(S, order), IsTotal(S, order),
         NEW k \in 1..Cardinality(S)
  PROVE  /\ KthIn(S, order, k) \in S
         /\ Cardinality(Below(S, order, KthIn(S, order, k))) = k - 1
  <1> DEFINE x == KthIn(S, order, k)
  <1>1. /\ x \in S
        /\ Cardinality(Below(S, order, x)) < k /\ Cardinality(NotAfter(S, order, x)) >= k
    BY KthMember
  <1> HIDE DEF x
  <1>2. NotAfter(S, order, x) = Below(S, order, x) \cup {x} /\ x \notin Below(S, order, x)
    BY <1>1 DEF NotAfter, Below, IsStrictOrder, IsTotal
  <1>3. IsFiniteSet(Below(S, order, x)) /\ Cardinality(Below(S, order, x)) \in Nat
    BY RankType
  <1>4. Cardinality(NotAfter(S, order, x)) = Cardinality(Below(S, order, x)) + 1
    BY <1>2, <1>3, FS_AddElement
  <1>5. k \in Int
    BY FS_CardinalityType
  <1> QED
    BY <1>1, <1>3, <1>4, <1>5 DEF x

\* The first, the second, ... member of a total order are its members in that order.
LEMMA KthOrdered ==
  ASSUME NEW S, IsFiniteSet(S), NEW order, IsStrictOrder(S, order), IsTotal(S, order)
  PROVE  /\ \A j, k \in 1..Cardinality(S) :
              j < k => <<KthIn(S, order, j), KthIn(S, order, k)>> \in order
         /\ \A x \in S : \E k \in 1..Cardinality(S) : KthIn(S, order, k) = x
  <1> DEFINE n == Cardinality(S)
             kth == [k \in 1..n |-> KthIn(S, order, k)]
  <1>1. n \in Nat
    BY FS_CardinalityType
  <1>2. \A k \in 1..n : kth[k] \in S /\ Cardinality(Below(S, order, kth[k])) = k - 1
    BY KthRank
  <1> HIDE DEF n, kth
  <1>3. ASSUME NEW j \in 1..n, NEW k \in 1..n, j < k PROVE <<kth[j], kth[k]>> \in order
    <2>1. kth[j] # kth[k]
      BY <1>1, <1>2, <1>3
    <2>2. CASE <<kth[k], kth[j]>> \in order
      <3>1. Cardinality(Below(S, order, kth[k])) < Cardinality(Below(S, order, kth[j]))
        BY <1>2, <2>2, FewerBelow
      <3> QED
        BY <1>1, <1>2, <1>3, <3>1
    <2> QED
      BY <1>2, <2>1, <2>2 DEF IsTotal
  <1>4. ASSUME NEW x \in S PROVE \E k \in 1..n : kth[k] = x
    <2>1. \A y \in S : <<y, y>> \notin order
      BY DEF IsStrictOrder
    <2>2. kth \in [1..n -> S] /\ \A j, k \in 1..n : kth[j] = kth[k] => j = k
      <3>1. \A j, k \in 1..n : kth[j] = kth[k] => j = k
        BY <1>1, <1>2, <1>3, <2>1
      <3>2. kth = [k \in 1..n |-> kth[k]]
        BY DEF kth
      <3> QED
        BY <1>2, <3>1, <3>2
    <2>3. kth \in Injection(1..n, S)
      BY <2>2 DEF Injection, IsInjective
    <2>4. Cardinality(1..n) = n
      BY <1>1, FS_Interval
    <2>5. kth \in Surjection(1..n, S)
      BY <2>3, <2>4, FS_Injection DEF n
    <2> QED
      BY <2>5 DEF Surjection
  <1> QED
    BY <1>3, <1>4 DEF n, kth

\* Integers in ascending order.
LEMMA AscendingIsTotal ==
  ASSUME NEW S \in SUBSET Int
  PROVE  IsStrictOrder(S, Ascending(S)) /\ IsTotal(S, Ascending(S))
  BY DEF IsStrictOrder, IsTotal, Ascending

-----------------------------------------------------------------------------
\* Sequences.

LEMMA SequenceDomain ==
  ASSUME NEW T, NEW s \in Seq(T)
  PROVE  /\ Len(s) \in Nat /\ DOMAIN s = 1..Len(s)
         /\ IsFiniteSet(DOMAIN s) /\ Cardinality(DOMAIN s) = Len(s)
         /\ IsFiniteSet(ToSet(s)) /\ Cardinality(ToSet(s)) <= Len(s) /\ Cardinality(ToSet(s)) \in Nat
         /\ ToSet(s) \subseteq T
  <1>1. Len(s) \in Nat /\ DOMAIN s = 1..Len(s)
    OBVIOUS
  <1>2. IsFiniteSet(DOMAIN s) /\ Cardinality(DOMAIN s) = Len(s)
    BY <1>1, FS_Interval
  <1>3. IsFiniteSet(ToSet(s)) /\ Cardinality(ToSet(s)) <= Cardinality(DOMAIN s)
    BY <1>2, ImageFinite DEF ToSet
  <1>4. ToSet(s) \subseteq T
    BY DEF ToSet
  <1> QED
    BY <1>1, <1>2, <1>3, <1>4, FS_CardinalityType

\* Where in s the n elements come from that are left.
AreKept(s, kept, n, left, at) ==
  /\ at \in [1..n -> kept]
  /\ left = [k \in 1..n |-> s[at[k]]]
  /\ \A j, k \in 1..n : j < k => at[j] < at[k]
  /\ \A i \in kept : \E k \in 1..n : at[k] = i

\* What is left when positions are dropped: the other elements, in their order.
LEMMA WithoutKeeps ==
  ASSUME NEW T, NEW s \in Seq(T), NEW positions, NEW kept, kept = DOMAIN s \ positions
  PROVE  /\ IsFiniteSet(kept) /\ Cardinality(kept) \in Nat /\ Cardinality(kept) <= Len(s)
         /\ \E at : AreKept(s, kept, Cardinality(kept), Without(s, positions), at)
  <1> DEFINE n == Cardinality(kept)
             order == Ascending(kept)
             at == [k \in 1..n |-> KthIn(kept, order, k)]
  <1>1. IsFiniteSet(kept) /\ n \in Nat /\ n <= Len(s)
    BY SequenceDomain, FS_Subset, FS_CardinalityType
  <1>2. kept \in SUBSET Int
    BY SequenceDomain
  <1>3. Without(s, positions) = [k \in 1..n |-> s[at[k]]]
    BY DEF Without
  <1>4. IsStrictOrder(kept, order) /\ IsTotal(kept, order)
    BY <1>2, AscendingIsTotal
  <1> HIDE DEF order
  <1>5. at \in [1..n -> kept]
    BY <1>1, <1>4, KthRank
  <1>6. /\ \A j, k \in 1..n : j < k => <<KthIn(kept, order, j), KthIn(kept, order, k)>> \in order
        /\ \A i \in kept : \E k \in 1..n : KthIn(kept, order, k) = i
    <2>1. IsFiniteSet(kept)
      BY <1>1
    <2>2. (\A j, k \in 1..Cardinality(kept) : j < k => <<KthIn(kept, order, j), KthIn(kept, order, k)>> \in order)
      BY <2>1, <1>4, KthOrdered
    <2>3. \A i \in kept : \E k \in 1..Cardinality(kept) : KthIn(kept, order, k) = i
      BY <2>1, <1>4, KthOrdered
    <2> QED
      BY <2>2, <2>3
  <1>7. \A k \in 1..n : at[k] = KthIn(kept, order, k)
    OBVIOUS
  <1> HIDE DEF at, n
  <1>8. \A j, k \in 1..n : j < k => at[j] < at[k]
    BY <1>6, <1>7 DEF Ascending, order
  <1>9. \A i \in kept : \E k \in 1..n : at[k] = i
    BY <1>6, <1>7
  <1> QED
    BY <1>1, <1>3, <1>5, <1>8, <1>9 DEF n, AreKept

LEMMA WithoutType ==
  ASSUME NEW T, NEW s \in Seq(T), NEW positions
  PROVE  /\ Without(s, positions) \in Seq(T)
         /\ Len(Without(s, positions)) = Cardinality(DOMAIN s \ positions)
         /\ ToSet(Without(s, positions)) = {s[i] : i \in DOMAIN s \ positions}
  <1> DEFINE kept == DOMAIN s \ positions
             n == Cardinality(kept)
  <1> HIDE DEF kept, n
  <1>1. n \in Nat /\ \E at : AreKept(s, kept, n, Without(s, positions), at)
    BY WithoutKeeps DEF kept, n
  <1>2. PICK at : AreKept(s, kept, n, Without(s, positions), at)
    BY <1>1
  <1>3. kept \subseteq DOMAIN s
    BY DEF kept
  <1>4. Without(s, positions) \in Seq(T) /\ Len(Without(s, positions)) = n /\ DOMAIN Without(s, positions) = 1..n
    BY <1>1, <1>2, <1>3 DEF AreKept
  <1>5. ToSet(Without(s, positions)) = {s[i] : i \in kept}
    BY <1>2, <1>4 DEF ToSet, AreKept
  <1> QED
    BY <1>4, <1>5 DEF kept, n

LEMMA DropOne ==
  ASSUME NEW T, NEW s \in Seq(T), NEW p
  PROVE  Len(Without(s, {p})) >= Len(s) - 1
  <1>1. IsFiniteSet(DOMAIN s) /\ Cardinality(DOMAIN s) = Len(s) /\ Len(s) \in Nat
    BY SequenceDomain
  <1>2. Cardinality(DOMAIN s \ {p}) = IF p \in DOMAIN s THEN Len(s) - 1 ELSE Len(s)
    BY <1>1, FS_RemoveElement
  <1> QED
    BY <1>1, <1>2, WithoutType

\* The least and the greatest of two numbers.
LEMMA MinMaxOfTwo ==
  ASSUME NEW m \in Int, NEW n \in Int
  PROVE  /\ Min({m, n}) \in {m, n} /\ Min({m, n}) <= m /\ Min({m, n}) <= n
         /\ Max({m, n}) \in {m, n} /\ Max({m, n}) >= m /\ Max({m, n}) >= n
  <1>1. /\ \E x \in {m, n} : \A y \in {m, n} : x <= y
        /\ \E x \in {m, n} : \A y \in {m, n} : x >= y
    OBVIOUS
  <1> QED
    BY <1>1 DEF Min, Max

LEMMA MinOfNaturals ==
  ASSUME NEW m \in Nat, NEW n \in Nat
  PROVE  Min({m, n}) \in Nat /\ Min({m, n}) <= m /\ Min({m, n}) <= n
  <1>1. Min({m, n}) \in {m, n} /\ Min({m, n}) <= m /\ Min({m, n}) <= n
    BY MinMaxOfTwo
  <1> QED
    BY <1>1

-----------------------------------------------------------------------------
\* Metrics are integers.

LEMMA QuotientType ==
  ASSUME NEW m \in Int, NEW n \in Nat, n # 0
  PROVE  m \div n \in Int
  OBVIOUS

LEMMA UniquenessRatioType ==
  ASSUME NEW T, NEW values \in Seq(T), Len(values) # 0
  PROVE  UniquenessRatio(values) \in Int
  BY SequenceDomain, ScaleAssumption, QuotientType DEF UniquenessRatio

LEMMA ComplianceRatioType ==
  ASSUME NEW T, NEW rows \in Seq(T), Len(rows) # 0
  PROVE  ComplianceRatio(rows) \in Int
  <1> DEFINE conforming == {i \in DOMAIN rows : GroupOf(rows, i) = Occurrences(rows, rows[i])}
  <1>1. conforming \in SUBSET DOMAIN rows
    OBVIOUS
  <1>2. Cardinality(conforming) \in Nat
    BY <1>1, SequenceDomain, FS_Subset, FS_CardinalityType
  <1> HIDE DEF conforming
  <1> QED
    BY <1>2, SequenceDomain, ScaleAssumption, QuotientType DEF ComplianceRatio, conforming

LEMMA KthSmallestMember ==
  ASSUME NEW T \in SUBSET Int, NEW s \in Seq(T), NEW k \in 1..Len(s)
  PROVE  KthSmallest(s, k) \in T
  <1> DEFINE S == DOMAIN s
             order == {p \in S \X S : s[p[1]] < s[p[2]]}
  <1>1. IsFiniteSet(S) /\ Cardinality(S) = Len(s) /\ \A i \in S : s[i] \in T
    BY SequenceDomain
  <1>2. IsStrictOrder(S, order)
    <2>1. \A x, y \in S : <<x, y>> \in order <=> s[x] < s[y]
      OBVIOUS
    <2>2. \A x \in S : s[x] \in Int
      BY <1>1
    <2> HIDE DEF S, order
    <2> QED
      BY <2>1, <2>2 DEF IsStrictOrder
  <1>3. KthSmallest(s, k) = s[KthIn(S, order, k)]
    BY DEF KthSmallest
  <1> HIDE DEF S, order
  <1>4. KthIn(S, order, k) \in S
    BY <1>1, <1>2, KthMember
  <1> QED
    BY <1>1, <1>3, <1>4

LEMMA Median2Type ==
  ASSUME NEW T \in SUBSET Int, NEW s \in Seq(T), Len(s) # 0
  PROVE  \E x, y \in T : Median2(s) = x + y
  <1>1. Len(s) \in Nat
    OBVIOUS
  <1>2. (Len(s) + 1) \div 2 \in 1..Len(s) /\ Len(s) \div 2 + 1 \in 1..Len(s)
    BY <1>1
  <1> QED
    BY <1>2, KthSmallestMember DEF Median2

LEMMA Deviations2Type ==
  ASSUME NEW s \in Seq(Int), Len(s) # 0
  PROVE  /\ Median2(s) \in Int
         /\ Deviations2(s) \in Seq(Nat) /\ Len(Deviations2(s)) = Len(s)
         /\ \A i \in DOMAIN s :
              Deviations2(s)[i] = IF 2 * s[i] < Median2(s) THEN Median2(s) - 2 * s[i] ELSE 2 * s[i] - Median2(s)
  <1>1. \E x, y \in Int : Median2(s) = x + y
    BY Median2Type
  <1>2. Median2(s) \in Int
    BY <1>1
  <1>3. Len(s) \in Nat /\ DOMAIN s = 1..Len(s) /\ \A i \in DOMAIN s : s[i] \in Int
    OBVIOUS
  <1>4. /\ DOMAIN Deviations2(s) = 1..Len(s)
        /\ \A i \in DOMAIN s :
             Deviations2(s)[i] = IF 2 * s[i] < Median2(s) THEN Median2(s) - 2 * s[i] ELSE 2 * s[i] - Median2(s)
    BY <1>3 DEF Deviations2
  <1>5. \A i \in DOMAIN s : Deviations2(s)[i] \in Nat
    BY <1>2, <1>3, <1>4
  <1>6. Deviations2(s) = [i \in 1..Len(s) |-> Deviations2(s)[i]]
    BY <1>3 DEF Deviations2
  <1>7. Deviations2(s) \in Seq(Nat) /\ Len(Deviations2(s)) = Len(s)
    BY <1>3, <1>5, <1>6
  <1> QED
    BY <1>2, <1>4, <1>7

\* The most outlying number is one that no number is farther from the median than.
LEMMA MaxMadMember ==
  ASSUME NEW s \in Seq(Int), Len(s) # 0
  PROVE  /\ MaxMad(s).index \in DOMAIN s
         /\ \A j \in DOMAIN s : Deviations2(s)[j] <= Deviations2(s)[MaxMad(s).index]
         /\ MaxMad(s).score \in Int
  <1> DEFINE dev == Deviations2(s)
             IsTop(i) == \A j \in DOMAIN s : dev[j] < dev[i] \/ (dev[j] = dev[i] /\ i <= j)
             top == CHOOSE i \in DOMAIN s : IsTop(i)
             mad4 == Median2(dev)
  <1>1. dev \in Seq(Nat) /\ Len(dev) = Len(s) /\ Len(s) \in Nat /\ DOMAIN s = 1..Len(s)
    BY Deviations2Type
  <1>2. MaxMad(s).index = top /\ MaxMad(s).score = IF mad4 = 0 THEN (Scale * dev[top] * InverseFloor) \div 2
                                                           ELSE (2 * Scale * dev[top]) \div mad4
    BY DEF MaxMad
  <1> HIDE DEF dev
  <1>3. \A i \in DOMAIN s : dev[i] \in Nat
    BY <1>1
  <1>4. \E i \in DOMAIN s : IsTop(i)
    <2>1. IsFiniteSet(DOMAIN s) /\ DOMAIN s # {}
      BY <1>1, SequenceDomain
    <2>2. \A i \in DOMAIN s : dev[i] \in Int
      BY <1>3
    <2>3. PICK a \in DOMAIN s : \A j \in DOMAIN s : dev[j] <= dev[a]
      BY <2>1, <2>2, GreatestMember
    <2> DEFINE A == {i \in DOMAIN s : dev[i] = dev[a]}
    <2>4. A \in SUBSET Nat /\ A # {}
      BY <1>1
    <2>5. PICK b \in A : \A j \in A : b <= j
      <3> HIDE DEF A
      <3> QED
        BY <2>4, LeastNatural
    <2>6. IsTop(b)
      <3> SUFFICES ASSUME NEW j \in DOMAIN s, ~ dev[j] < dev[b] PROVE dev[j] = dev[b] /\ b <= j
        OBVIOUS
      <3>1. dev[b] = dev[a] /\ dev[j] <= dev[a]
        BY <2>3, <2>5
      <3>2. dev[j] = dev[a]
        BY <1>3, <3>1
      <3> QED
        BY <2>5, <3>1, <3>2
    <2> QED
      BY <2>5, <2>6
  <1> HIDE DEF IsTop
  <1>5. top \in DOMAIN s /\ IsTop(top)
    BY <1>4
  <1> HIDE DEF top
  <1>6. \E x, y \in Nat : mad4 = x + y
    <2>1. Nat \in SUBSET Int
      OBVIOUS
    <2> QED
      BY <1>1, <2>1, Median2Type
  <1>7. mad4 \in Nat
    BY <1>6
  <1> HIDE DEF mad4
  <1>8. Scale * dev[top] * InverseFloor \in Int /\ 2 * Scale * dev[top] \in Int
    <2>1. Scale \in Nat /\ InverseFloor \in Nat /\ dev[top] \in Nat
      BY <1>3, <1>5, ScaleAssumption
    <2> QED
      BY <2>1, SMT
  <1>9. MaxMad(s).score \in Int
    BY <1>2, <1>7, <1>8, QuotientType
  <1>10. \A j \in DOMAIN s : dev[j] <= dev[top]
    BY <1>3, <1>5 DEF IsTop
  <1> QED
    BY <1>2, <1>5, <1>9, <1>10 DEF dev

-----------------------------------------------------------------------------
\* The closest pair of texts.

\* The lexicographic order of pairs.
LEMMA BeforePairs ==
  ASSUME NEW p \in Int \X Int, NEW q \in Int \X Int
  PROVE  Before(p, q) <=> p[1] < q[1] \/ (p[1] = q[1] /\ p[2] < q[2])
  <1>1. DOMAIN p = {1, 2} /\ DOMAIN q = {1, 2}
    OBVIOUS
  <1>2. 1..(1 - 1) = {} /\ 1..(2 - 1) = {1}
    OBVIOUS
  <1>3. Before(p, q) <=> \E k \in {1, 2} : p[k] < q[k] /\ \A l \in 1..(k - 1) : l \in {1, 2} /\ p[l] = q[l]
    BY <1>1 DEF Before
  <1> QED
    BY <1>2, <1>3

\* U is a set of texts between which distances are naturals.
Distances(U) == \A u, w \in U : Levenshtein(u, w) \in Nat

\* What is found in a block: two of its positions, no two of which are closer.
IsClosest(distinct, block, p) ==
  /\ p \in Ascending(block)
  /\ \A q \in Ascending(block) :
       Levenshtein(distinct[p[1]], distinct[p[2]]) <= Levenshtein(distinct[q[1]], distinct[q[2]])

Found(distinct, p) ==
  [pair |-> <<distinct[p[1]], distinct[p[2]]>>, mpd |-> Levenshtein(distinct[p[1]], distinct[p[2]])]

LEMMA ClosestPairFound ==
  ASSUME NEW U, Distances(U), NEW distinct \in Seq(U),
         NEW block \in SUBSET DOMAIN distinct, Ascending(block) # {}
  PROVE  \E p : IsClosest(distinct, block, p) /\ ClosestPair(distinct, block) = Found(distinct, p)
  <1> DEFINE D == [p \in Ascending(block) |-> Levenshtein(distinct[p[1]], distinct[p[2]])]
             A == Ascending(block)
             Wins(p) == \A q \in A \ {p} : D[p] < D[q] \/ (D[p] = D[q] /\ Before(p, q))
             closest == CHOOSE p \in A : Wins(p)
  <1>1. A \subseteq Nat \X Nat /\ block \subseteq Nat
    BY SequenceDomain DEF Ascending
  <1>2. \A p \in A : D[p] \in Nat
    <2>1. \A p \in A : distinct[p[1]] \in U /\ distinct[p[2]] \in U
      BY SequenceDomain DEF Ascending
    <2> QED
      BY <2>1 DEF Distances
  <1>3. ClosestPair(distinct, block) = Found(distinct, closest)
    <2>1. closest = CHOOSE p \in Ascending(block) : \A q \in Ascending(block) \ {p} :
            \/ Levenshtein(distinct[p[1]], distinct[p[2]]) < Levenshtein(distinct[q[1]], distinct[q[2]])
            \/ /\ Levenshtein(distinct[p[1]], distinct[p[2]]) = Levenshtein(distinct[q[1]], distinct[q[2]])
               /\ Before(p, q)
      OBVIOUS
    <2> HIDE DEF closest
    <2> QED
      BY <2>1 DEF ClosestPair, Found
  <1> HIDE DEF A
  <1>4. \E p \in A : Wins(p)
    <2>1. PICK d \in {D[p] : p \in A} : \A e \in {D[p] : p \in A} : d <= e
      <3>1. {D[p] : p \in A} \in SUBSET Nat /\ {D[p] : p \in A} # {}
        BY <1>2 DEF A
      <3> HIDE DEF D
      <3> QED
        BY <3>1, LeastNatural
    <2> HIDE DEF D
    <2> DEFINE B == {p \in A : D[p] = d}
    <2>2. PICK x \in {p[1] : p \in B} : \A y \in {p[1] : p \in B} : x <= y
      <3>1. {p[1] : p \in B} \in SUBSET Nat /\ {p[1] : p \in B} # {}
        BY <1>1, <2>1
      <3> QED
        BY <3>1, LeastNatural
    <2> DEFINE C == {p \in B : p[1] = x}
    <2>3. PICK z \in {p[2] : p \in C} : \A y \in {p[2] : p \in C} : z <= y
      <3>1. {p[2] : p \in C} \in SUBSET Nat /\ {p[2] : p \in C} # {}
        BY <1>1, <2>2
      <3> QED
        BY <3>1, LeastNatural
    <2>4. PICK p \in A : D[p] = d /\ p[1] = x /\ p[2] = z
      BY <2>3
    <2>5. ASSUME NEW q \in A \ {p} PROVE D[p] < D[q] \/ (D[p] = D[q] /\ Before(p, q))
      <3>1. d <= D[q] /\ d \in Nat /\ D[q] \in Nat
        BY <1>2, <2>1
      <3>2. CASE d < D[q]
        BY <2>4, <3>2
      <3>3. CASE d = D[q]
        <4>1. p \in Int \X Int /\ q \in Int \X Int
          BY <1>1
        <4>2. x <= q[1] /\ (q[1] = x => z <= q[2])
          BY <2>2, <2>3, <3>3
        <4>3. p[1] < q[1] \/ (p[1] = q[1] /\ p[2] < q[2])
          BY <2>4, <2>5, <4>1, <4>2
        <4> QED
          BY <2>4, <3>3, <4>1, <4>3, BeforePairs
      <3> QED
        BY <3>1, <3>2, <3>3
    <2> QED
      BY <2>5
  <1>5. closest \in A /\ Wins(closest)
    BY <1>4
  <1> HIDE DEF closest
  <1>6. \A q \in A : D[closest] <= D[q]
    <2> HIDE DEF D
    <2> QED
      BY <1>2, <1>5
  <1>7. \A q \in A : D[q] = Levenshtein(distinct[q[1]], distinct[q[2]])
    BY DEF A
  <1>8. IsClosest(distinct, block, closest)
    BY <1>5, <1>6, <1>7 DEF IsClosest, A
  <1> QED
    BY <1>3, <1>8

\* Blocks are sets of positions.
LEMMA BlocksType ==
  ASSUME NEW distinct, NEW maxSize, NEW block \in Blocks(distinct, maxSize)
  PROVE  block \in SUBSET DOMAIN distinct
  BY DEF Blocks, Thinned

\* What min_pairwise_edit_distance returns is a closest pair of all that are compared; it
\* returns nothing only if none are.
LEMMA MinPairwiseFound ==
  ASSUME NEW U, Distances(U), NEW texts \in Seq(U), NEW maxSize, NEW distinct, distinct = Distinct(texts)
  PROVE  /\ MinPairwise(texts, maxSize) = {} => \A b \in Blocks(distinct, maxSize) : Ascending(b) = {}
         /\ \A r \in MinPairwise(texts, maxSize) :
              /\ \E b \in Blocks(distinct, maxSize) : \E p \in Ascending(b) : r = Found(distinct, p)
              /\ \A b \in Blocks(distinct, maxSize) : \A q \in Ascending(b) :
                   r.mpd <= Levenshtein(distinct[q[1]], distinct[q[2]])
              /\ r.mpd \in Nat
         /\ \A r, s \in MinPairwise(texts, maxSize) : r = s
  <1> DEFINE BB == {b \in Blocks(distinct, maxSize) : Ascending(b) # {}}
             found == {ClosestPair(distinct, b) : b \in BB}
             IsLeast(q) == \A other \in found : q.mpd <= other.mpd
             least == CHOOSE q \in found : IsLeast(q)
  <1>1. MinPairwise(texts, maxSize) = {r \in found : r = least}
    BY DEF MinPairwise
  <1>2. distinct \in Seq(U)
    BY WithoutType DEF Distinct
  <1>3. \A b \in BB : \E p : IsClosest(distinct, b, p) /\ ClosestPair(distinct, b) = Found(distinct, p)
    <2> SUFFICES ASSUME NEW b \in BB
                 PROVE  \E p : IsClosest(distinct, b, p) /\ ClosestPair(distinct, b) = Found(distinct, p)
      OBVIOUS
    <2>1. b \in SUBSET DOMAIN distinct
      BY BlocksType
    <2> QED
      BY <1>2, <2>1, ClosestPairFound
  <1> HIDE DEF BB
  <1>4. \A r \in found : \E b \in BB : \E p : IsClosest(distinct, b, p) /\ r = Found(distinct, p)
    BY <1>3
  <1>5. \A r \in found : r.mpd \in Nat
    <2> SUFFICES ASSUME NEW r \in found PROVE r.mpd \in Nat
      OBVIOUS
    <2>0. PICK b \in BB : \E p : IsClosest(distinct, b, p) /\ r = Found(distinct, p)
      BY <1>4
    <2>1. PICK p : IsClosest(distinct, b, p) /\ r = Found(distinct, p)
      BY <2>0
    <2>2. p[1] \in DOMAIN distinct /\ p[2] \in DOMAIN distinct
      <3>1. b \in SUBSET DOMAIN distinct
        BY BlocksType DEF BB
      <3> QED
        BY <2>1, <3>1 DEF IsClosest, Ascending
    <2>3. distinct[p[1]] \in U /\ distinct[p[2]] \in U
      BY <1>2, <2>2
    <2> QED
      BY <2>1, <2>3 DEF Found, Distances
  <1>6. found # {} => least \in found /\ IsLeast(least)
    <2> SUFFICES ASSUME found # {} PROVE \E q \in found : IsLeast(q)
      OBVIOUS
    <2> HIDE DEF found
    <2> DEFINE M == {q.mpd : q \in found}
    <2>1. PICK m \in M : \A n \in M : m <= n
      <3>1. M \in SUBSET Nat /\ M # {}
        BY <1>5
      <3> HIDE DEF M
      <3> QED
        BY <3>1, LeastNatural
    <2> QED
      BY <2>1
  <1> HIDE DEF least
  <1>7. ASSUME MinPairwise(texts, maxSize) = {} PROVE \A b \in Blocks(distinct, maxSize) : Ascending(b) = {}
    <2>1. found = {}
      BY <1>1, <1>6, <1>7
    <2> QED
      BY <2>1 DEF BB
  <1>8. ASSUME NEW r \in MinPairwise(texts, maxSize)
        PROVE  /\ \E b \in Blocks(distinct, maxSize) : \E p \in Ascending(b) : r = Found(distinct, p)
               /\ \A b \in Blocks(distinct, maxSize) : \A q \in Ascending(b) :
                    r.mpd <= Levenshtein(distinct[q[1]], distinct[q[2]])
               /\ r.mpd \in Nat
    <2>1. r \in found /\ IsLeast(r)
      BY <1>1, <1>6, <1>8
    <2>2. \E b \in Blocks(distinct, maxSize) : \E p \in Ascending(b) : r = Found(distinct, p)
      BY <1>4, <2>1 DEF BB, IsClosest
    <2>3. ASSUME NEW b \in Blocks(distinct, maxSize), NEW q \in Ascending(b)
          PROVE  r.mpd <= Levenshtein(distinct[q[1]], distinct[q[2]])
      <3>1. b \in BB /\ b \in SUBSET DOMAIN distinct
        BY BlocksType DEF BB
      <3>2. PICK p : IsClosest(distinct, b, p) /\ ClosestPair(distinct, b) = Found(distinct, p)
        BY <1>3, <3>1
      <3>3. Found(distinct, p) \in found
        BY <3>1, <3>2
      <3>4. r.mpd <= Found(distinct, p).mpd /\ r.mpd \in Nat /\ Found(distinct, p).mpd \in Nat
        BY <1>5, <2>1, <3>3
      <3>5. Found(distinct, p).mpd <= Levenshtein(distinct[q[1]], distinct[q[2]])
        BY <3>2 DEF IsClosest, Found
      <3>6. Levenshtein(distinct[q[1]], distinct[q[2]]) \in Nat
        <4>1. distinct[q[1]] \in U /\ distinct[q[2]] \in U
          BY <1>2, <3>1 DEF Ascending
        <4> QED
          BY <4>1 DEF Distances
      <3> QED
        BY <3>4, <3>5, <3>6
    <2>4. r.mpd \in Nat
      BY <1>5, <2>1
    <2> QED
      BY <2>2, <2>3, <2>4
  <1>9. \A r, s \in MinPairwise(texts, maxSize) : r = s
    BY <1>1
  <1> QED
    BY <1>7, <1>8, <1>9

-----------------------------------------------------------------------------
\* What is scored is integers.

\* V is a set of values.
Values(V) ==
  /\ \A v \in V : v.number # NoNumber => v.number \in Int
  /\ \A v, w \in V : Levenshtein(v.text, w.text) \in Nat

IsObservation(o) == o.before \in Int /\ o.after \in Int

LEMMA UniquenessObservation ==
  ASSUME NEW V, NEW values \in Seq(V), Len(values) >= 5, NEW epsilon
  PROVE  IsObservation(PerturbUniqueness(values, epsilon))
  <1> DEFINE dropped == DuplicatesToDrop(values, Budget(Len(values), epsilon))
             rest == Without(values, dropped)
  <1>1. Len(values) \in Nat
    OBVIOUS
  <1>2. UniquenessRatio(values) \in Int
    BY <1>1, UniquenessRatioType
  <1>3. rest \in Seq(V)
    BY WithoutType
  <1>4. Len(rest) >= 2 => UniquenessRatio(rest) \in Int
    <2>1. Len(rest) \in Nat
      BY <1>3
    <2> QED
      BY <1>3, <2>1, UniquenessRatioType
  <1> QED
    BY <1>2, <1>4, HighAssumption DEF PerturbUniqueness, IsObservation

LEMMA DependencyObservation ==
  ASSUME NEW V, NEW rows \in Seq(V), Len(rows) >= 5, NEW epsilon
  PROVE  IsObservation(PerturbFunctionalDependency(rows, epsilon))
  <1> DEFINE dropped == MinorityRows(rows, Budget(Len(rows), epsilon))
             rest == Without(rows, dropped)
  <1>1. Len(rows) \in Nat
    OBVIOUS
  <1>2. ComplianceRatio(rows) \in Int
    BY <1>1, ComplianceRatioType
  <1>3. rest \in Seq(V)
    BY WithoutType
  <1>4. Len(rest) >= 2 => ComplianceRatio(rest) \in Int
    <2>1. Len(rest) \in Nat
      BY <1>3
    <2> QED
      BY <1>3, <2>1, ComplianceRatioType
  <1> QED
    BY <1>2, <1>4, HighAssumption DEF PerturbFunctionalDependency, IsObservation

\* The finite numbers of a column and where they are.
LEMMA NumbersType ==
  ASSUME NEW V, Values(V), NEW values \in Seq(V)
  PROVE  LET finite == {i \in DOMAIN values : values[i].number # NoNumber}
         IN /\ Finite(values) \in Seq(finite) /\ ToSet(Finite(values)) = finite
            /\ NumbersOf(values) \in Seq(Int) /\ Len(NumbersOf(values)) = Len(Finite(values))
            /\ \A k \in DOMAIN NumbersOf(values) : NumbersOf(values)[k] = values[Finite(values)[k]].number
  <1> DEFINE s == [i \in DOMAIN values |-> i]
             P == {i \in DOMAIN values : values[i].number = NoNumber}
             finite == {i \in DOMAIN values : values[i].number # NoNumber}
             F == Finite(values)
  <1>1. s \in Seq(DOMAIN values) /\ F = Without(s, P)
    BY SequenceDomain DEF Finite
  <1>2. F \in Seq(DOMAIN values) /\ ToSet(F) = {s[i] : i \in DOMAIN s \ P}
    <2> HIDE DEF F, s, P
    <2> QED
      BY <1>1, WithoutType
  <1>3. {s[i] : i \in DOMAIN s \ P} = finite
    OBVIOUS
  <1> HIDE DEF F, s, P
  <1>4. F \in Seq(finite)
    <2>1. \A k \in DOMAIN F : F[k] \in finite
      BY <1>2, <1>3 DEF ToSet
    <2> HIDE DEF finite
    <2> QED
      BY <1>2, <2>1
  <1>5. NumbersOf(values) = [k \in DOMAIN F |-> values[F[k]].number]
    BY DEF NumbersOf, F
  <1>6. \A k \in DOMAIN F : values[F[k]].number \in Int
    <2>1. \A i \in finite : values[i] \in V
      BY SequenceDomain
    <2> QED
      BY <1>4, <2>1 DEF Values
  <1>7. DOMAIN F = 1..Len(F) /\ Len(F) \in Nat
    BY <1>4
  <1> QED
    BY <1>2, <1>3, <1>4, <1>5, <1>6, <1>7 DEF F

LEMMA OutlierObservation ==
  ASSUME NEW V, Values(V), NEW values \in Seq(V), Len(Finite(values)) >= 5
  PROVE  IsObservation(PerturbNumericOutlier(values))
  <1> DEFINE numbers == NumbersOf(values)
             rest == Without(numbers, {MaxMad(numbers).index})
  <1>1. numbers \in Seq(Int) /\ Len(numbers) >= 5 /\ Len(numbers) \in Nat
    <2>1. NumbersOf(values) \in Seq(Int) /\ Len(NumbersOf(values)) = Len(Finite(values))
      BY NumbersType
    <2> QED
      BY <2>1
  <1> HIDE DEF numbers
  <1>2. MaxMad(numbers).score \in Int
    BY <1>1, MaxMadMember
  <1>3. rest \in Seq(Int) /\ Len(rest) >= Len(numbers) - 1
    BY <1>1, WithoutType, DropOne
  <1>4. Len(rest) # 0
    BY <1>1, <1>3
  <1>5. MaxMad(rest).score \in Int
    <2> HIDE DEF rest
    <2> QED
      BY <1>3, <1>4, MaxMadMember
  <1> QED
    BY <1>2, <1>5 DEF PerturbNumericOutlier, IsObservation, numbers

LEMMA SpellingObservation ==
  ASSUME NEW V, Values(V), NEW values \in Seq(V), NEW blockSize
  PROVE  \A o \in PerturbSpelling(values, blockSize) : IsObservation(o)
  <1> DEFINE U == {v.text : v \in V}
             texts == TextsOf(values)
  <1>1. Distances(U)
    BY DEF Distances, Values
  <1>2. texts \in Seq(U)
    BY SequenceDomain DEF TextsOf
  <1> HIDE DEF U, texts
  <1> SUFFICES ASSUME NEW mpd \in MinPairwise(texts, blockSize)
               PROVE  IsObservation(Misspelled(values, mpd, blockSize))
    BY DEF PerturbSpelling, texts
  <1>3. mpd.mpd \in Nat
    BY <1>1, <1>2, MinPairwiseFound
  <1> DEFINE left == Without(texts, Occurrences(texts, mpd.pair[1]))
             rest == MinPairwise(left, blockSize)
  <1>4. left \in Seq(U)
    BY <1>2, WithoutType
  <1>5. \A r \in rest : r.mpd \in Nat
    <2> HIDE DEF left
    <2> QED
      BY <1>1, <1>4, MinPairwiseFound
  <1>6. Misspelled(values, mpd, blockSize) =
          [pair |-> mpd.pair, dropped |-> Occurrences(texts, mpd.pair[1]), before |-> mpd.mpd,
           after |-> IF rest = {} THEN High ELSE (CHOOSE r \in rest : TRUE).mpd]
    BY DEF Misspelled, texts
  <1> HIDE DEF rest
  <1> QED
    BY <1>3, <1>5, <1>6, HighAssumption DEF IsObservation

\* A scored item has two integers, whatever its type.
LEMMA AttemptObservation ==
  ASSUME NEW V, Values(V), NEW type \in ErrorTypes, NEW item,
         type # "functional_dependency" => item.values \in Seq(V),
         type = "functional_dependency" => item.values \in Seq(V \X V),
         NEW side, NEW map, NEW config, Attempt(side, type, item, map, config).result = "scored"
  PROVE  IsObservation(Attempt(side, type, item, map, config))
  <1>1. CASE type = "uniqueness"
    <2>1. Len(item.values) \in Nat
      BY <1>1
    <2>2. Attempt(side, type, item, map, config) = ScoreUniqueness(side, item, map, config)
      BY <1>1 DEF Attempt
    <2>3. Len(item.values) >= 5
      BY <2>1, <2>2 DEF ScoreUniqueness, TooFew, Unscored, MinRows, ErrorTypes
    <2>4. IsObservation(PerturbUniqueness(item.values, config.epsilon))
      BY <1>1, <2>3, UniquenessObservation
    <2> QED
      BY <2>1, <2>2, <2>3, <2>4 DEF ScoreUniqueness, TooFew, Unscored, IfFlagged, Scored, IsObservation
  <1>2. CASE type = "functional_dependency"
    <2>1. Len(item.values) \in Nat
      BY <1>2
    <2>2. Attempt(side, type, item, map, config) = ScoreFunctionalDependency(side, item, map, config)
      BY <1>2 DEF Attempt
    <2>3. Len(item.values) >= 5
      BY <2>1, <2>2 DEF ScoreFunctionalDependency, TooFew, Unscored, MinRows, ErrorTypes
    <2>4. IsObservation(PerturbFunctionalDependency(item.values, config.epsilon))
      BY <1>2, <2>3, DependencyObservation
    <2> QED
      BY <2>1, <2>2, <2>3, <2>4 DEF ScoreFunctionalDependency, TooFew, Unscored, IfFlagged, Scored, IsObservation
  <1>3. CASE type = "numeric_outlier"
    <2>1. Len(Finite(item.values)) \in Nat
      BY <1>3, NumbersType
    <2>2. Attempt(side, type, item, map, config) = ScoreNumericOutlier(side, item, config)
      BY <1>3 DEF Attempt
    <2>3. /\ Len(Finite(item.values)) >= 5
          /\ Attempt(side, type, item, map, config) =
               Scored(OutlierBucket(item, config), PerturbNumericOutlier(item.values))
      BY <2>1, <2>2 DEF ScoreNumericOutlier, TooFew, Unscored, MinRows, ErrorTypes
    <2>4. IsObservation(PerturbNumericOutlier(item.values))
      BY <1>3, <2>3, OutlierObservation
    <2> QED
      BY <2>3, <2>4 DEF Scored, IsObservation
  <1>4. CASE type = "spelling"
    <2> DEFINE scores == {Scored(SpellingBucket(item, o.pair, config), o) : o \in PerturbSpelling(item.values, config.blockSize)}
    <2>1. Attempt(side, type, item, map, config) =
            IF Len(item.values) < MinRows["spelling"] THEN TooFew(side)
            ELSE IF Cardinality(ToSet(TextsOf(item.values))) < 2 THEN Unscored("notApplicable")
            ELSE IF scores = {} THEN Unscored("failed")
            ELSE CHOOSE score \in scores : TRUE
      BY <1>4 DEF Attempt, ScoreSpelling
    <2>2. scores # {} /\ Attempt(side, type, item, map, config) = CHOOSE score \in scores : TRUE
      <3> HIDE DEF scores
      <3> QED
        BY <2>1 DEF TooFew, Unscored
    <2>3. \A score \in scores : IsObservation(score)
      BY <1>4, SpellingObservation DEF Scored, IsObservation
    <2> HIDE DEF scores
    <2> QED
      BY <2>2, <2>3
  <1> QED
    BY <1>1, <1>2, <1>3, <1>4 DEF ErrorTypes

-----------------------------------------------------------------------------
\* The order of keys.

\* The order of texts is strict.
LEMMA BeforeStrict ==
  /\ \A a \in Seq(Int) : ~ Before(a, a)
  /\ \A a, b, c \in Seq(Int) : Before(a, b) /\ Before(b, c) => Before(a, c)
  <1>1. ASSUME NEW a \in Seq(Int) PROVE ~ Before(a, a)
    <2>1. \A k \in DOMAIN a : a[k] \in Int
      OBVIOUS
    <2> QED
      BY <2>1 DEF Before
  <1>2. ASSUME NEW a \in Seq(Int), NEW b \in Seq(Int), NEW c \in Seq(Int), Before(a, b), Before(b, c)
        PROVE  Before(a, c)
    <2>1. /\ DOMAIN a = 1..Len(a) /\ DOMAIN b = 1..Len(b) /\ DOMAIN c = 1..Len(c)
          /\ Len(a) \in Nat /\ Len(b) \in Nat /\ Len(c) \in Nat
          /\ \A k \in DOMAIN a : a[k] \in Int
          /\ \A k \in DOMAIN b : b[k] \in Int
          /\ \A k \in DOMAIN c : c[k] \in Int
      OBVIOUS
    <2>2. PICK k \in DOMAIN b : /\ k \in DOMAIN a => a[k] < b[k]
                                /\ \A l \in 1..(k - 1) : l \in DOMAIN a /\ a[l] = b[l]
      BY <1>2 DEF Before
    <2>3. PICK m \in DOMAIN c : /\ m \in DOMAIN b => b[m] < c[m]
                                /\ \A l \in 1..(m - 1) : l \in DOMAIN b /\ b[l] = c[l]
      BY <1>2 DEF Before
    <2>4. k \in Int /\ m \in Int /\ 1 <= k /\ 1 <= m
      BY <2>1
    <2>5. CASE k <= m
      <3>1. k \in DOMAIN c
        BY <2>1, <2>4, <2>5
      <3>2. k \in DOMAIN a => a[k] < c[k]
        <4>1. CASE k = m
          <5>1. k \in DOMAIN a => a[k] < b[k] /\ b[k] < c[k]
            BY <2>2, <2>3, <4>1
          <5> QED
            BY <2>1, <3>1, <5>1
        <4>2. CASE k < m
          <5>1. k \in 1..(m - 1)
            BY <2>4, <4>2
          <5>2. b[k] = c[k]
            BY <2>3, <5>1
          <5> QED
            BY <2>2, <5>2
        <4> QED
          BY <2>4, <2>5, <4>1, <4>2
      <3>3. \A l \in 1..(k - 1) : l \in DOMAIN a /\ a[l] = c[l]
        BY <2>1, <2>2, <2>3, <2>4, <2>5
      <3> QED
        BY <3>1, <3>2, <3>3 DEF Before
    <2>6. CASE m < k
      <3>1. m \in DOMAIN b /\ m \in DOMAIN a /\ a[m] = b[m]
        BY <2>1, <2>2, <2>4, <2>6
      <3>2. a[m] < c[m]
        BY <2>3, <3>1
      <3>3. \A l \in 1..(m - 1) : l \in DOMAIN a /\ a[l] = c[l]
        BY <2>1, <2>2, <2>3, <2>4, <2>6
      <3> QED
        BY <3>2, <3>3 DEF Before
    <2> QED
      BY <2>4, <2>5, <2>6
  <1> QED
    BY <1>1, <1>2


\* And total.
LEMMA BeforeTotal ==
  ASSUME NEW a \in Seq(Int), NEW b \in Seq(Int), a # b
  PROVE  Before(a, b) \/ Before(b, a)
  <1> DEFINE T == {k \in Nat : k \in (DOMAIN a \cup DOMAIN b)
                               /\ ~ (k \in DOMAIN a /\ k \in DOMAIN b /\ a[k] = b[k])}
  <1>1. /\ DOMAIN a = 1..Len(a) /\ DOMAIN b = 1..Len(b)
        /\ Len(a) \in Nat /\ Len(b) \in Nat
        /\ \A k \in DOMAIN a : a[k] \in Int
        /\ \A k \in DOMAIN b : b[k] \in Int
    OBVIOUS
  <1>2. T # {}
    <2> SUFFICES ASSUME T = {} PROVE FALSE
      OBVIOUS
    <2>1. \A k \in Nat : k \in (DOMAIN a \cup DOMAIN b) => k \in DOMAIN a /\ k \in DOMAIN b /\ a[k] = b[k]
      OBVIOUS
    <2>2. \A k \in 1..Len(a) : k \in 1..Len(b)
      BY <1>1, <2>1
    <2>a. \A k \in 1..Len(b) : k \in 1..Len(a)
      BY <1>1, <2>1
    <2>3. Len(a) = Len(b)
      <3> HIDE DEF T
      <3>0. Len(a) \in Nat /\ Len(b) \in Nat
        BY <1>1
      <3>1. Len(a) <= Len(b)
        BY <2>2, <3>0
      <3>2. Len(b) <= Len(a)
        BY <2>a, <3>0
      <3> QED
        BY <3>0, <3>1, <3>2
    <2>4. \A k \in 1..Len(a) : a[k] = b[k]
      BY <1>1, <2>1
    <2> QED
      BY <2>3, <2>4
  <1>3. PICK k \in T : \A l \in T : k <= l
    BY <1>2, LeastNatural
  <1>4. \A l \in 1..(k - 1) : l \in DOMAIN a /\ l \in DOMAIN b /\ a[l] = b[l]
    <2> SUFFICES ASSUME NEW l \in 1..(k - 1) PROVE l \in DOMAIN a /\ l \in DOMAIN b /\ a[l] = b[l]
      OBVIOUS
    <2>1. l \in Nat /\ l < k /\ l \in (DOMAIN a \cup DOMAIN b)
      BY <1>1
    <2> QED
      BY <1>3, <2>1
  <1>5. CASE k \in DOMAIN a /\ k \in DOMAIN b
    <2>1. a[k] < b[k] \/ b[k] < a[k]
      BY <1>1, <1>5
    <2> QED
      BY <1>4, <1>5, <2>1 DEF Before
  <1>6. CASE k \notin DOMAIN a
    BY <1>4, <1>6 DEF Before
  <1>7. CASE k \notin DOMAIN b
    BY <1>4, <1>7 DEF Before
  <1> QED
    BY <1>5, <1>6, <1>7

\* The order that keys give the members of a set.
ByKey(S, key) == {p \in S \X S : Before(key[p[1]], key[p[2]])}

AreKeys(S, key) == \A x \in S : key[x] \in Seq(Int)

AreUnique(S, key) == \A x, y \in S : key[x] = key[y] => x = y

LEMMA ByKeyStrict ==
  ASSUME NEW S, NEW key, AreKeys(S, key)
  PROVE  /\ IsStrictOrder(S, ByKey(S, key))
         /\ \A x, y \in S : <<x, y>> \in ByKey(S, key) <=> Before(key[x], key[y])
  <1> DEFINE order == ByKey(S, key)
  <1>1. \A x, y \in S : <<x, y>> \in order <=> Before(key[x], key[y])
    BY DEF ByKey
  <1>2. \A x \in S : key[x] \in Seq(Int)
    BY DEF AreKeys
  <1> HIDE DEF order
  <1>3. \A x \in S : <<x, x>> \notin order
    BY <1>1, <1>2, BeforeStrict
  <1>4. ASSUME NEW x \in S, NEW y \in S, NEW z \in S, <<x, y>> \in order, <<y, z>> \in order
        PROVE  <<x, z>> \in order
    BY <1>1, <1>2, <1>4, BeforeStrict
  <1>5. IsStrictOrder(S, order)
    BY <1>3, <1>4 DEF IsStrictOrder
  <1> QED
    BY <1>1, <1>5 DEF order

\* The first n members are all of them, or n.
LEMMA FirstFewSize ==
  ASSUME NEW S, IsFiniteSet(S), NEW n \in Nat, NEW key, AreKeys(S, key), AreUnique(S, key)
  PROVE  /\ FirstFew(S, n, key) \in SUBSET S
         /\ FirstFew(S, n, key) = S \/ Cardinality(FirstFew(S, n, key)) = n
  <1> DEFINE order == ByKey(S, key)
             few == FirstFew(S, n, key)
             size == Cardinality(S)
  <1>1. /\ IsStrictOrder(S, order)
        /\ \A x, y \in S : <<x, y>> \in order <=> Before(key[x], key[y])
    BY ByKeyStrict
  <1>2. IsTotal(S, order)
    BY <1>1, BeforeTotal DEF IsTotal, AreKeys, AreUnique
  <1> HIDE DEF order
  <1>3. few = {x \in S : Cardinality(Below(S, order, x)) < n}
    <2>1. \A x \in S : Below(S, order, x) = {y \in S : Before(key[y], key[x])}
      BY <1>1 DEF Below
    <2> QED
      BY <2>1 DEF FirstFew
  <1> HIDE DEF few, size
  <1>4. size \in Nat
    BY FS_CardinalityType DEF size
  <1>5. /\ \A j, k \in 1..size : j < k => <<KthIn(S, order, j), KthIn(S, order, k)>> \in order
        /\ \A x \in S : \E k \in 1..size : KthIn(S, order, k) = x
    BY <1>1, <1>2, KthOrdered DEF size
  <1>6. \A k \in 1..size : /\ KthIn(S, order, k) \in S
                           /\ Cardinality(Below(S, order, KthIn(S, order, k))) = k - 1
    BY <1>1, <1>2, KthRank DEF size
  <1>7. CASE size <= n
    <2>1. ASSUME NEW x \in S PROVE x \in few
      <3>1. PICK k \in 1..size : KthIn(S, order, k) = x
        BY <1>5
      <3> QED
        BY <1>3, <1>4, <1>6, <1>7, <3>1
    <2> QED
      BY <1>3, <2>1 DEF few
  <1>8. CASE n < size
    <2> DEFINE kth == [k \in 1..n |-> KthIn(S, order, k)]
    <2>0. \A k \in 1..n : k \in 1..size
      BY <1>4, <1>8
    <2>1. \A k \in 1..n : kth[k] \in few
      BY <1>3, <1>6, <2>0
    <2>2. \A x \in few : \E k \in 1..n : kth[k] = x
      <3> SUFFICES ASSUME NEW x \in few PROVE \E k \in 1..n : kth[k] = x
        OBVIOUS
      <3>1. x \in S /\ Cardinality(Below(S, order, x)) < n
        BY <1>3
      <3>2. PICK k \in 1..size : KthIn(S, order, k) = x
        BY <1>5, <3>1
      <3>3. k \in 1..n
        BY <1>4, <1>6, <3>1, <3>2
      <3> QED
        BY <3>2, <3>3
    <2>3. \A j, k \in 1..n : kth[j] = kth[k] => j = k
      <3> SUFFICES ASSUME NEW j \in 1..n, NEW k \in 1..n, kth[j] = kth[k] PROVE j = k
        OBVIOUS
      <3>1. Cardinality(Below(S, order, kth[j])) = j - 1 /\ Cardinality(Below(S, order, kth[k])) = k - 1
        BY <1>6, <2>0
      <3> QED
        BY <3>1
    <2> HIDE DEF kth
    <2>4. kth \in Bijection(1..n, few)
      <3>1. kth \in [1..n -> few]
        BY <2>1 DEF kth
      <3> QED
        BY <2>2, <2>3, <3>1 DEF Bijection, Injection, Surjection, IsInjective
    <2>5. IsFiniteSet(1..n) /\ Cardinality(1..n) = n
      BY FS_Interval
    <2>6. Cardinality(few) = n
      BY <2>4, <2>5, FS_Bijection DEF ExistsBijection
    <2> QED
      BY <1>3, <2>6 DEF few
  <1> QED
    BY <1>4, <1>7, <1>8

\* Products are monotone in both factors.
LEMMA Products ==
  ASSUME NEW a \in Nat, NEW b \in Nat, NEW c \in Nat, NEW d \in Nat, a <= b, c <= d
  PROVE  a * c <= b * d
  <1>1. a * c <= b * c
    BY SMT
  <1>2. c * b <= d * b
    BY SMT
  <1>3. b * c = c * b /\ b * d = d * b /\ a * c \in Int /\ b * c \in Int /\ b * d \in Int
    BY SMT
  <1> QED
    BY <1>1, <1>2, <1>3


\* Quotients are monotone.
LEMMA QuotientMonotone ==
  ASSUME NEW a \in Nat, NEW b \in Nat, a <= b, NEW c \in Nat, NEW d \in Nat, d # 0, d <= c
  PROVE  a \div c <= b \div d
  <1> DEFINE q == a \div c
             p == b \div d
  <1>1. q \in Nat /\ q * c <= a /\ p \in Nat /\ b < (p + 1) * d
    BY SMT
  <1> HIDE DEF q, p
  <1>2. q * d <= q * c
    BY <1>1, Products
  <1>3. q * d \in Nat /\ q * c \in Nat /\ (p + 1) * d \in Nat
    BY <1>1, SMT
  <1>4. q * d < (p + 1) * d
    BY <1>1, <1>2, <1>3
  <1>5. ~ (p + 1 <= q)
    <2> SUFFICES ASSUME p + 1 <= q PROVE FALSE
      OBVIOUS
    <2>1. (p + 1) * d <= q * d
      BY <1>1, Products
    <2> QED
      BY <1>3, <1>4, <2>1
  <1> QED
    BY <1>1, <1>5 DEF q, p

\* A ratio of a part is at most one.
LEMMA RatioBelowHigh ==
  ASSUME NEW part \in Nat, NEW n \in Nat, n # 0, part <= n
  PROVE  (Scale * part) \div n <= High
  <1>1. Scale \in Nat /\ High \in Int /\ Scale < High
    BY ScaleAssumption, HighAssumption
  <1>2. Scale * part <= Scale * n /\ Scale * part \in Nat /\ Scale * n \in Nat
    BY <1>1, Products
  <1>3. (Scale * part) \div n <= (Scale * n) \div n
    BY <1>2, QuotientMonotone
  <1>4. (Scale * n) \div n = Scale
    BY <1>1, SMT
  <1>5. (Scale * part) \div n \in Int
    BY <1>2, SMT
  <1> QED
    BY <1>1, <1>3, <1>4, <1>5

-----------------------------------------------------------------------------
\* What the perturbations drop.

LEMMA MinMember ==
  ASSUME NEW T \in SUBSET Nat, T # {}
  PROVE  Min(T) \in T /\ \A x \in T : Min(T) <= x
  <1>1. \E x \in T : \A y \in T : x <= y
    BY LeastNatural
  <1> QED
    BY <1>1 DEF Min

\* The positions of a value.
LEMMA OccurrencesType ==
  ASSUME NEW T, NEW s \in Seq(T), NEW i \in DOMAIN s
  PROVE  /\ Occurrences(s, s[i]) \in SUBSET DOMAIN s /\ i \in Occurrences(s, s[i])
         /\ \A j \in DOMAIN s : j \in Occurrences(s, s[i]) <=> s[j] = s[i]
         /\ IsFiniteSet(Occurrences(s, s[i])) /\ Cardinality(Occurrences(s, s[i])) \in Nat
         /\ Min(Occurrences(s, s[i])) \in Occurrences(s, s[i]) /\ Min(Occurrences(s, s[i])) \in Nat
  <1> DEFINE O == Occurrences(s, s[i])
  <1>1. O \in SUBSET DOMAIN s /\ i \in O /\ \A j \in DOMAIN s : j \in O <=> s[j] = s[i]
    BY DEF Occurrences
  <1> HIDE DEF O
  <1>2. O \in SUBSET Nat /\ O # {}
    BY <1>1, SequenceDomain
  <1>3. IsFiniteSet(O) /\ Cardinality(O) \in Nat
    BY <1>1, SequenceDomain, FS_Subset, FS_CardinalityType
  <1>4. Min(O) \in O
    BY <1>2, MinMember
  <1> QED
    BY <1>1, <1>2, <1>3, <1>4 DEF O

\* epsilon is a positive fraction of at most one.
IsEpsilon(epsilon) == epsilon \in (Nat \ {0}) \X Nat /\ epsilon[1] <= epsilon[2]

LEMMA BudgetType ==
  ASSUME NEW n \in Nat, NEW epsilon, IsEpsilon(epsilon)
  PROVE  Budget(n, epsilon) \in Nat \ {0}
  <1> DEFINE e1 == epsilon[1]
             e2 == epsilon[2]
             q == (e1 * n + e2 - 1) \div e2
  <1>1. e1 \in Nat /\ e2 \in Nat /\ e2 # 0
    BY DEF IsEpsilon
  <1> HIDE DEF e1, e2
  <1>2. e1 * n + e2 - 1 \in Int
    BY <1>1, SMT
  <1>3. q \in Int
    BY <1>1, <1>2, QuotientType
  <1> HIDE DEF q
  <1>4. Max({1, q}) \in {1, q} /\ Max({1, q}) >= 1
    BY <1>3, MinMaxOfTwo
  <1>5. Max({1, q}) \in Nat \ {0}
    BY <1>3, <1>4
  <1> QED
    BY <1>5 DEF Budget, q, e1, e2

\* All but the first of equal values are candidates for dropping.
LEMMA DuplicatesDropped ==
  ASSUME NEW V, NEW values \in Seq(V), NEW budget \in Nat, NEW dropped, dropped = DuplicatesToDrop(values, budget)
  PROVE  /\ dropped \in SUBSET DOMAIN values
         /\ \A i \in DOMAIN values : Min(Occurrences(values, values[i])) \notin dropped
         /\ \/ dropped = {i \in DOMAIN values : i # Min(Occurrences(values, values[i]))}
            \/ Cardinality(dropped) = budget
  <1> DEFINE group == [i \in DOMAIN values |-> Occurrences(values, values[i])]
             later == {i \in DOMAIN values : i # Min(Occurrences(values, values[i]))}
             key == [i \in later |-> <<Cardinality(group[i]), Min(group[i]), i>>]
  <1>1. dropped = FirstFew(later, budget, key)
    <2>1. later = {i \in DOMAIN values : i # Min(group[i])}
      OBVIOUS
    <2> QED
      BY <2>1 DEF DuplicatesToDrop
  <1>2. DOMAIN values \subseteq Nat /\ IsFiniteSet(DOMAIN values)
    BY SequenceDomain
  <1>3. IsFiniteSet(later)
    BY <1>2, FS_Subset
  <1>4. \A i \in later : Cardinality(group[i]) \in Int /\ Min(group[i]) \in Int /\ i \in Int
    BY <1>2, OccurrencesType
  <1> HIDE DEF group
  <1>5. AreKeys(later, key)
    BY <1>4 DEF AreKeys
  <1>6. AreUnique(later, key)
    BY DEF AreUnique
  <1> HIDE DEF key
  <1>7. dropped \in SUBSET later /\ (dropped = later \/ Cardinality(dropped) = budget)
    <2> HIDE DEF later
    <2> QED
      BY <1>1, <1>3, <1>5, <1>6, FirstFewSize
  <1>8. ASSUME NEW i \in DOMAIN values PROVE Min(Occurrences(values, values[i])) \notin later
    <2> DEFINE first == Min(Occurrences(values, values[i]))
    <2>1. first \in DOMAIN values /\ values[first] = values[i]
      BY OccurrencesType
    <2> QED
      BY <2>1
  <1> QED
    BY <1>7, <1>8

\* What is left after dropping positions, in numbers.
LEMMA LeftLength ==
  ASSUME NEW V, NEW s \in Seq(V), NEW dropped \in SUBSET DOMAIN s
  PROVE  /\ Cardinality(dropped) \in Nat /\ IsFiniteSet(dropped)
         /\ Len(Without(s, dropped)) \in Nat
         /\ Len(Without(s, dropped)) = Len(s) - Cardinality(dropped)
         /\ Len(Without(s, dropped)) <= Len(s)
  <1> DEFINE kept == DOMAIN s \ dropped
  <1>1. IsFiniteSet(DOMAIN s) /\ Cardinality(DOMAIN s) = Len(s)
    BY SequenceDomain
  <1>2. IsFiniteSet(kept) /\ IsFiniteSet(dropped)
    BY <1>1, FS_Subset
  <1>3. kept \cap dropped = {} /\ kept \cup dropped = DOMAIN s
    OBVIOUS
  <1>4. Len(Without(s, dropped)) = Cardinality(kept)
    BY WithoutType
  <1> HIDE DEF kept
  <1>5. Cardinality(kept) \in Nat /\ Cardinality(dropped) \in Nat
    BY <1>2, FS_CardinalityType
  <1>6. Cardinality(DOMAIN s) = Cardinality(kept) + Cardinality(dropped)
    <2>1. Cardinality(kept \cup dropped) = Cardinality(kept) + Cardinality(dropped) - Cardinality(kept \cap dropped)
      BY <1>2, FS_Union
    <2>2. Cardinality(kept \cap dropped) = 0
      BY <1>3, FS_EmptySet
    <2>3. Cardinality(kept \cup dropped) = Cardinality(DOMAIN s)
      BY <1>3
    <2> QED
      BY <1>5, <2>1, <2>2, <2>3
  <1> QED
    BY <1>1, <1>2, <1>4, <1>5, <1>6

\* Dropping duplicates keeps every value, leaves each once unless the budget is spent, and
\* makes a column no less unique.
LEMMA UniquenessRepaired ==
  ASSUME NEW V, NEW values \in Seq(V), Len(values) >= 5, NEW epsilon, IsEpsilon(epsilon),
         NEW o, o = PerturbUniqueness(values, epsilon), NEW rest, rest = Without(values, o.dropped)
  PROVE  /\ ToSet(rest) = ToSet(values)
         /\ \/ Len(rest) = Cardinality(ToSet(values))
            \/ Cardinality(o.dropped) = Budget(Len(values), epsilon)
         /\ o.before <= o.after
  <1> DEFINE dropped == DuplicatesToDrop(values, Budget(Len(values), epsilon))
             First(i) == Min(Occurrences(values, values[i]))
  <1>1. /\ o.dropped = dropped /\ o.before = UniquenessRatio(values)
        /\ o.after = IF Len(rest) >= 2 THEN UniquenessRatio(rest) ELSE High
    BY DEF PerturbUniqueness
  <1>2. Len(values) \in Nat /\ DOMAIN values = 1..Len(values)
    OBVIOUS
  <1>3. Budget(Len(values), epsilon) \in Nat
    BY <1>2, BudgetType
  <1>4. /\ dropped \in SUBSET DOMAIN values
        /\ \A i \in DOMAIN values : First(i) \notin dropped
        /\ \/ dropped = {i \in DOMAIN values : i # First(i)}
           \/ Cardinality(dropped) = Budget(Len(values), epsilon)
    BY <1>3, DuplicatesDropped
  <1>5. \A i \in DOMAIN values : First(i) \in DOMAIN values /\ values[First(i)] = values[i]
    BY OccurrencesType
  <1>6. \A i, j \in DOMAIN values : values[i] = values[j] => First(i) = First(j)
    OBVIOUS
  <1> HIDE DEF dropped, First
  <1>r. rest = Without(values, dropped)
    BY <1>1
  <1>7. /\ rest \in Seq(V) /\ Len(rest) = Cardinality(DOMAIN values \ dropped)
        /\ ToSet(rest) = {values[i] : i \in DOMAIN values \ dropped}
    <2>1. /\ Without(values, dropped) \in Seq(V)
          /\ Len(Without(values, dropped)) = Cardinality(DOMAIN values \ dropped)
      BY WithoutType
    <2>2. ToSet(Without(values, dropped)) = {values[i] : i \in DOMAIN values \ dropped}
      BY WithoutType
    <2> QED
      BY <1>r, <2>1, <2>2
  <1>8. ToSet(rest) = ToSet(values)
    <2>1. ToSet(values) = {values[i] : i \in DOMAIN values}
      BY DEF ToSet
    <2>2. \A i \in DOMAIN values : First(i) \in DOMAIN values \ dropped
      BY <1>4, <1>5
    <2> QED
      BY <1>5, <1>7, <2>1, <2>2
  <1>9. dropped = {i \in DOMAIN values : i # First(i)} => Len(rest) = Cardinality(ToSet(values))
    <2> SUFFICES ASSUME dropped = {i \in DOMAIN values : i # First(i)} PROVE Len(rest) = Cardinality(ToSet(values))
      OBVIOUS
    <2> DEFINE kept == DOMAIN values \ dropped
               f == [i \in kept |-> values[i]]
    <2>1. kept = {i \in DOMAIN values : i = First(i)}
      OBVIOUS
    <2>2. f \in Bijection(kept, ToSet(values))
      <3>1. \A i, j \in kept : f[i] = f[j] => i = j
        BY <1>6, <2>1
      <3>2. ToSet(values) = {f[i] : i \in kept}
        BY <1>7, <1>8
      <3> HIDE DEF kept
      <3>3. f \in [kept -> ToSet(values)]
        BY <3>2
      <3> HIDE DEF f
      <3> QED
        BY <3>1, <3>2, <3>3 DEF Bijection, Injection, Surjection, IsInjective
    <2>3. IsFiniteSet(kept)
      BY SequenceDomain, FS_Subset
    <2>4. Cardinality(ToSet(values)) = Cardinality(kept)
      <3> HIDE DEF kept, f
      <3> QED
        BY <2>2, <2>3, FS_Bijection DEF ExistsBijection
    <2> QED
      BY <1>7, <2>4
  <1>10. o.before <= o.after
    <2> DEFINE c == Cardinality(ToSet(values))
    <2>1. c \in Nat /\ c <= Len(values)
      BY SequenceDomain
    <2>2. UniquenessRatio(values) = (Scale * c) \div Len(values) /\ UniquenessRatio(rest) = (Scale * c) \div Len(rest)
      BY <1>8 DEF UniquenessRatio
    <2>3. Len(rest) \in Nat /\ Len(rest) <= Len(values)
      BY <1>4, <1>r, LeftLength
    <2> HIDE DEF c
    <2>4. Scale * c \in Nat
      BY <2>1, ScaleAssumption, SMT
    <2>5. Len(rest) >= 2 => UniquenessRatio(values) <= UniquenessRatio(rest)
      BY <1>2, <2>2, <2>3, <2>4, QuotientMonotone
    <2>6. UniquenessRatio(values) <= High
      BY <1>2, <2>1, <2>2, RatioBelowHigh
    <2> QED
      BY <1>1, <2>5, <2>6
  <1> QED
    BY <1>1, <1>4, <1>8, <1>9, <1>10

\* The number farthest from the median is the greatest or the least.
LEMMA OutlierExtreme ==
  ASSUME NEW s \in Seq(Int), Len(s) # 0
  PROVE  \/ \A j \in DOMAIN s : s[j] <= s[MaxMad(s).index]
         \/ \A j \in DOMAIN s : s[MaxMad(s).index] <= s[j]
  <1> DEFINE top == MaxMad(s).index
             d == Deviations2(s)
             m == Median2(s)
  <1>1. /\ top \in DOMAIN s /\ \A j \in DOMAIN s : d[j] <= d[top]
    BY MaxMadMember
  <1>2. /\ m \in Int
        /\ \A i \in DOMAIN s : d[i] = IF 2 * s[i] < m THEN m - 2 * s[i] ELSE 2 * s[i] - m
    BY Deviations2Type
  <1>3. \A i \in DOMAIN s : s[i] \in Int
    OBVIOUS
  <1> HIDE DEF top, d, m
  <1>4. CASE 2 * s[top] < m
    <2>1. \A j \in DOMAIN s : s[top] <= s[j]
      BY <1>1, <1>2, <1>3, <1>4
    <2> QED
      BY <2>1 DEF top
  <1>5. CASE ~ (2 * s[top] < m)
    <2>1. \A j \in DOMAIN s : s[j] <= s[top]
      BY <1>1, <1>2, <1>3, <1>5
    <2> QED
      BY <2>1 DEF top
  <1> QED
    BY <1>4, <1>5

\* What is dropped as an outlier is an extreme number, at its own position in the column.
LEMMA OutlierDropped ==
  ASSUME NEW V, Values(V), NEW values \in Seq(V), Len(Finite(values)) >= 5,
         NEW o, o = PerturbNumericOutlier(values)
  PROVE  \E p \in DOMAIN values :
           /\ o.dropped = {p} /\ values[p].number # NoNumber
           /\ \/ \A i \in DOMAIN values : values[i].number # NoNumber => values[i].number <= values[p].number
              \/ \A i \in DOMAIN values : values[i].number # NoNumber => values[p].number <= values[i].number
  <1> DEFINE numbers == NumbersOf(values)
             finite == {i \in DOMAIN values : values[i].number # NoNumber}
             top == MaxMad(numbers).index
             p == Finite(values)[top]
  <1>1. /\ Finite(values) \in Seq(finite) /\ ToSet(Finite(values)) = finite
        /\ numbers \in Seq(Int) /\ Len(numbers) = Len(Finite(values))
        /\ \A k \in DOMAIN numbers : numbers[k] = values[Finite(values)[k]].number
    BY NumbersType
  <1>2. o.dropped = {p}
    BY DEF PerturbNumericOutlier
  <1> HIDE DEF numbers, finite, top
  <1>3. DOMAIN numbers = DOMAIN Finite(values) /\ Len(numbers) # 0
    BY <1>1
  <1>4. /\ top \in DOMAIN numbers
        /\ \/ \A j \in DOMAIN numbers : numbers[j] <= numbers[top]
           \/ \A j \in DOMAIN numbers : numbers[top] <= numbers[j]
    BY <1>1, <1>3, MaxMadMember, OutlierExtreme DEF top
  <1>5. p \in finite /\ values[p].number = numbers[top]
    BY <1>1, <1>3, <1>4
  <1>6. \A i \in finite : \E k \in DOMAIN numbers : values[i].number = numbers[k]
    BY <1>1, <1>3 DEF ToSet
  <1> HIDE DEF p
  <1>7. \/ \A i \in finite : values[i].number <= values[p].number
        \/ \A i \in finite : values[p].number <= values[i].number
    BY <1>4, <1>5, <1>6
  <1> QED
    BY <1>2, <1>5, <1>7 DEF finite

-----------------------------------------------------------------------------
\* Which rows are dropped to establish a functional dependency.

Class(rows, i) == Occurrences(rows, rows[i])

Rank(rows, i) == <<0 - Cardinality(Class(rows, i)), Min(Class(rows, i))>>

Minority(rows) == {i \in DOMAIN rows : \E j \in GroupOf(rows, i) : Before(Rank(rows, j), Rank(rows, i))}

LEMMA RankIsKey ==
  ASSUME NEW V, NEW rows \in Seq(V), NEW i \in DOMAIN rows
  PROVE  /\ Rank(rows, i) \in Seq(Int)
         /\ Rank(rows, i)[1] = 0 - Cardinality(Class(rows, i)) /\ Rank(rows, i)[2] = Min(Class(rows, i))
         /\ Cardinality(Class(rows, i)) \in Nat /\ Min(Class(rows, i)) \in Class(rows, i)
         /\ Rank(rows, i) \in Int \X Int
         /\ \A j \in DOMAIN rows : j \in Class(rows, i) <=> rows[j] = rows[i]
  <1>1. /\ Cardinality(Class(rows, i)) \in Nat /\ Min(Class(rows, i)) \in Nat
        /\ Min(Class(rows, i)) \in Class(rows, i)
    BY OccurrencesType DEF Class
  <1>2. \A j \in DOMAIN rows : j \in Class(rows, i) <=> rows[j] = rows[i]
    BY DEF Class, Occurrences
  <1> QED
    BY <1>1, <1>2 DEF Rank

\* Every group has a majority, at least as many rows as any other value of the group.
LEMMA GroupMajority ==
  ASSUME NEW V, NEW rows \in Seq(V), NEW i \in DOMAIN rows
  PROVE  \E m \in DOMAIN rows :
           /\ rows[m][1] = rows[i][1]
           /\ Cardinality(Class(rows, i)) <= Cardinality(Class(rows, m))
           /\ \A l \in Class(rows, m) : l \in DOMAIN rows \ Minority(rows)
  <1> DEFINE G == GroupOf(rows, i)
             key == [j \in G |-> Rank(rows, j)]
  <1>1. G \in SUBSET DOMAIN rows /\ i \in G /\ \A j \in G : rows[j][1] = rows[i][1] /\ GroupOf(rows, j) = G
    BY DEF GroupOf
  <1>2. IsFiniteSet(G)
    BY <1>1, SequenceDomain, FS_Subset
  <1> HIDE DEF G
  <1>3. AreKeys(G, key)
    BY <1>1, RankIsKey DEF AreKeys
  <1>4. \A j \in G : key[j] = Rank(rows, j)
    OBVIOUS
  <1> HIDE DEF key
  <1>5. /\ IsStrictOrder(G, ByKey(G, key))
        /\ \A j, l \in G : <<j, l>> \in ByKey(G, key) <=> Before(key[j], key[l])
    BY <1>3, ByKeyStrict
  <1>6. PICK m \in G : \A j \in G : <<j, m>> \notin ByKey(G, key)
    BY <1>1, <1>2, <1>5, MinimalMember
  <1>7. \A j \in G : ~ Before(Rank(rows, j), Rank(rows, m))
    BY <1>4, <1>5, <1>6
  <1>8. Cardinality(Class(rows, i)) <= Cardinality(Class(rows, m))
    <2>1. /\ Rank(rows, i) \in Int \X Int /\ Rank(rows, m) \in Int \X Int
          /\ Rank(rows, i)[1] = 0 - Cardinality(Class(rows, i)) /\ Rank(rows, m)[1] = 0 - Cardinality(Class(rows, m))
          /\ Cardinality(Class(rows, i)) \in Nat /\ Cardinality(Class(rows, m)) \in Nat
      BY <1>1, RankIsKey
    <2>2. ~ (Rank(rows, i)[1] < Rank(rows, m)[1])
      BY <1>1, <1>7, <2>1, BeforePairs
    <2> QED
      BY <2>1, <2>2
  <1>9. ASSUME NEW l \in Class(rows, m) PROVE l \in DOMAIN rows \ Minority(rows)
    <2>1. l \in DOMAIN rows /\ rows[l] = rows[m]
      BY DEF Class, Occurrences
    <2>2. Rank(rows, l) = Rank(rows, m)
      BY <2>1 DEF Rank, Class
    <2>3. GroupOf(rows, l) = GroupOf(rows, m)
      BY <2>1 DEF GroupOf
    <2>4. GroupOf(rows, l) = G
      BY <1>1, <2>3
    <2> QED
      BY <1>7, <2>1, <2>2, <2>4 DEF Minority
  <1> QED
    BY <1>1, <1>8, <1>9

\* The rows outside the minority obey the dependency.
LEMMA MajorityHolds ==
  ASSUME NEW V, NEW rows \in Seq(V), NEW i \in DOMAIN rows \ Minority(rows),
         NEW j \in DOMAIN rows \ Minority(rows), rows[i][1] = rows[j][1]
  PROVE  rows[i] = rows[j]
  <1>1. i \in GroupOf(rows, j) /\ j \in GroupOf(rows, i)
    BY DEF GroupOf
  <1>2. ~ Before(Rank(rows, i), Rank(rows, j)) /\ ~ Before(Rank(rows, j), Rank(rows, i))
    BY <1>1 DEF Minority
  <1>3. Rank(rows, i) \in Seq(Int) /\ Rank(rows, j) \in Seq(Int)
    BY RankIsKey
  <1>4. Rank(rows, i) = Rank(rows, j)
    BY <1>2, <1>3, BeforeTotal
  <1>5. Rank(rows, i)[2] = Min(Class(rows, i)) /\ Rank(rows, j)[2] = Min(Class(rows, j))
    BY RankIsKey
  <1>6. Min(Class(rows, i)) \in Class(rows, i) /\ Min(Class(rows, j)) \in Class(rows, j)
    BY RankIsKey
  <1> QED
    BY <1>4, <1>5, <1>6 DEF Class, Occurrences

\* Concatenated, the parts of a key are a sequence of numbers that ends with the row.
LEMMA KeyOfFive ==
  ASSUME NEW a \in Int, NEW b \in Int, NEW c \in Int, NEW d \in Int, NEW e \in Int
  PROVE  /\ <<a, b>> \o <<c, d>> \o <<e>> \in Seq(Int)
         /\ (<<a, b>> \o <<c, d>> \o <<e>>)[5] = e
  OBVIOUS

LEMMA MinorityDropped ==
  ASSUME NEW V, NEW rows \in Seq(V), NEW budget \in Nat, NEW dropped, dropped = MinorityRows(rows, budget)
  PROVE  /\ dropped \in SUBSET Minority(rows)
         /\ dropped = Minority(rows) \/ Cardinality(dropped) = budget
  <1> DEFINE group == [i \in DOMAIN rows |-> GroupOf(rows, i)]
             class == [i \in DOMAIN rows |-> Occurrences(rows, rows[i])]
             rank == [i \in DOMAIN rows |-> <<0 - Cardinality(class[i]), Min(class[i])>>]
             M == {i \in DOMAIN rows : \E j \in group[i] : Before(rank[j], rank[i])}
             key == [i \in M |-> <<Cardinality(group[i]), Min(group[i])>> \o rank[i] \o <<i>>]
  <1>1. dropped = FirstFew(M, budget, key)
    BY DEF MinorityRows
  <1>2. \A i \in DOMAIN rows : group[i] = GroupOf(rows, i) /\ rank[i] = Rank(rows, i)
    BY DEF Rank, Class
  <1>3. \A i \in DOMAIN rows : GroupOf(rows, i) \in SUBSET DOMAIN rows /\ i \in GroupOf(rows, i)
    BY DEF GroupOf
  <1>4. DOMAIN rows \subseteq Nat /\ IsFiniteSet(DOMAIN rows)
    BY SequenceDomain
  <1>5. ASSUME NEW i \in DOMAIN rows
        PROVE  /\ Cardinality(group[i]) \in Int /\ Min(group[i]) \in Int
               /\ 0 - Cardinality(class[i]) \in Int /\ Min(class[i]) \in Int /\ i \in Int
               /\ rank[i] = <<0 - Cardinality(class[i]), Min(class[i])>>
    <2> DEFINE g == GroupOf(rows, i)
    <2>1. g \in SUBSET Nat /\ g # {} /\ IsFiniteSet(g)
      BY <1>3, <1>4, FS_Subset
    <2> HIDE DEF g, group, class, rank, M, key
    <2>a. Cardinality(g) \in Nat
      BY <2>1, FS_CardinalityType
    <2>b. Min(g) \in g
      BY <2>1, MinMember
    <2>c. Min(g) \in Nat
      BY <2>1, <2>b
    <2>2. group[i] = g /\ class[i] = Occurrences(rows, rows[i])
      BY DEF g, group, class
    <2>3. Cardinality(class[i]) \in Nat /\ Min(class[i]) \in Nat
      BY <2>2, OccurrencesType
    <2>4. rank[i] = <<0 - Cardinality(class[i]), Min(class[i])>>
      BY DEF rank
    <2> QED
      BY <1>4, <2>a, <2>c, <2>2, <2>3, <2>4
  <1>6. M = Minority(rows)
    <2>1. \A i \in DOMAIN rows : (\E j \in group[i] : Before(rank[j], rank[i]))
                                 <=> \E j \in GroupOf(rows, i) : Before(Rank(rows, j), Rank(rows, i))
      BY <1>2, <1>3
    <2> HIDE DEF group, rank
    <2> QED
      BY <2>1 DEF Minority
  <1>7. M \in SUBSET DOMAIN rows /\ IsFiniteSet(M)
    BY <1>4, FS_Subset
  <1>8. \A i \in M : key[i] = <<Cardinality(group[i]), Min(group[i])>> \o <<0 - Cardinality(class[i]), Min(class[i])>> \o <<i>>
    OBVIOUS
  <1> HIDE DEF key, M, group, class, rank
  <1>9. ASSUME NEW i \in M PROVE key[i] \in Seq(Int) /\ key[i][5] = i
    <2>1. /\ Cardinality(group[i]) \in Int /\ Min(group[i]) \in Int
          /\ 0 - Cardinality(class[i]) \in Int /\ Min(class[i]) \in Int /\ i \in Int
      BY <1>5, <1>7
    <2> DEFINE k == <<Cardinality(group[i]), Min(group[i])>> \o <<0 - Cardinality(class[i]), Min(class[i])>> \o <<i>>
    <2>2. k \in Seq(Int) /\ k[5] = i
      BY <2>1, KeyOfFive
    <2>3. key[i] = k
      BY <1>8
    <2> QED
      BY <2>2, <2>3
  <1>10. AreKeys(M, key) /\ AreUnique(M, key)
    BY <1>9 DEF AreKeys, AreUnique
  <1> QED
    BY <1>1, <1>6, <1>7, <1>10, FirstFewSize

\* No fewer rows than the minority can be dropped to establish the dependency.
LEMMA MinoritySmallest ==
  ASSUME NEW V, NEW rows \in Seq(V), NEW other \in SUBSET DOMAIN rows,
         \A i, j \in DOMAIN rows \ other : rows[i][1] = rows[j][1] => rows[i] = rows[j]
  PROVE  Cardinality(Minority(rows)) <= Cardinality(other)
  <1> DEFINE kept == DOMAIN rows \ other
             major == DOMAIN rows \ Minority(rows)
             IsBest(v, m) == /\ m \in DOMAIN rows /\ rows[m][1] = v[1]
                             /\ Cardinality(Occurrences(rows, v)) <= Cardinality(Class(rows, m))
                             /\ \A l \in Class(rows, m) : l \in major
             best == [v \in ToSet(rows) |-> CHOOSE m : IsBest(v, m)]
             IsInto(v, g) == /\ g \in [Occurrences(rows, v) -> Class(rows, best[v])]
                             /\ \A x, y \in Occurrences(rows, v) : g[x] = g[y] => x = y
             into == [v \in ToSet(rows) |-> CHOOSE g : IsInto(v, g)]
             f == [i \in kept |-> into[rows[i]][i]]
  <1>1. IsFiniteSet(DOMAIN rows)
    BY SequenceDomain
  <1>2. IsFiniteSet(kept) /\ IsFiniteSet(major) /\ IsFiniteSet(other) /\ IsFiniteSet(Minority(rows))
    BY <1>1, FS_Subset DEF Minority
  <1>3. ASSUME NEW v \in ToSet(rows) PROVE IsBest(v, best[v])
    <2>1. PICK i \in DOMAIN rows : rows[i] = v
      BY DEF ToSet
    <2>2. \E m : IsBest(v, m)
      BY <2>1, GroupMajority DEF Class
    <2> HIDE DEF IsBest
    <2> QED
      BY <2>2
  <1> HIDE DEF best
  <1>4. ASSUME NEW v \in ToSet(rows) PROVE IsInto(v, into[v])
    <2>1. IsFiniteSet(Occurrences(rows, v)) /\ IsFiniteSet(Class(rows, best[v]))
      BY <1>1, FS_Subset DEF Occurrences, Class
    <2>2. Cardinality(Occurrences(rows, v)) <= Cardinality(Class(rows, best[v]))
      BY <1>3
    <2>3. \E g : IsInto(v, g)
      BY <2>1, <2>2, InjectionExists
    <2> HIDE DEF IsInto
    <2> QED
      BY <2>3
  <1> HIDE DEF into
  <1>5. ASSUME NEW i \in kept
        PROVE  /\ rows[i] \in ToSet(rows) /\ i \in Occurrences(rows, rows[i])
               /\ f[i] = into[rows[i]][i] /\ f[i] \in major /\ rows[f[i]][1] = rows[i][1]
    <2>1. rows[i] \in ToSet(rows) /\ i \in Occurrences(rows, rows[i])
      BY DEF ToSet, Occurrences
    <2>2. into[rows[i]][i] \in Class(rows, best[rows[i]])
      BY <1>4, <2>1
    <2>3. f[i] = into[rows[i]][i]
      OBVIOUS
    <2> HIDE DEF f
    <2>4. f[i] \in major
      BY <1>3, <2>1, <2>2, <2>3
    <2>5. rows[f[i]] = rows[best[rows[i]]]
      BY <2>2, <2>3 DEF Class, Occurrences
    <2>6. rows[best[rows[i]]][1] = rows[i][1]
      BY <1>3, <2>1
    <2> QED
      BY <2>1, <2>3, <2>4, <2>5, <2>6
  <1>6. DOMAIN f = kept
    OBVIOUS
  <1>7. f \in [kept -> major]
    BY <1>5
  <1> HIDE DEF f
  <1>8. ASSUME NEW i \in kept, NEW j \in kept, f[i] = f[j] PROVE i = j
    <2>1. rows[i][1] = rows[j][1]
      BY <1>5, <1>8
    <2>2. rows[i] = rows[j]
      BY <2>1
    <2>3. into[rows[i]][i] = into[rows[i]][j] /\ j \in Occurrences(rows, rows[i]) /\ i \in Occurrences(rows, rows[i])
      BY <1>5, <1>8, <2>2
    <2>4. IsInto(rows[i], into[rows[i]])
      BY <1>4, <1>5
    <2> QED
      BY <2>3, <2>4
  <1> HIDE DEF kept, major
  <1>9. Cardinality(kept) <= Cardinality(major)
    BY <1>2, <1>7, <1>8, InjectionBounds
  <1>10. Cardinality(kept) = Len(rows) - Cardinality(other)
    BY LeftLength, WithoutType DEF kept
  <1>11. Cardinality(major) = Len(rows) - Cardinality(Minority(rows))
    <2>1. Minority(rows) \in SUBSET DOMAIN rows
      BY DEF Minority
    <2> QED
      BY <2>1, LeftLength, WithoutType DEF major
  <1>12. Cardinality(other) \in Nat /\ Cardinality(Minority(rows)) \in Nat /\ Len(rows) \in Nat
    BY <1>2, FS_CardinalityType, SequenceDomain
  <1> QED
    BY <1>9, <1>10, <1>11, <1>12

Obeys(s, positions) == \A i, j \in positions : s[i][1] = s[j][1] => s[i] = s[j]

LEMMA ObeysWithout ==
  ASSUME NEW V, NEW rows \in Seq(V), NEW other, NEW rest, rest = Without(rows, other)
  PROVE  Obeys(rest, DOMAIN rest) <=> Obeys(rows, DOMAIN rows \ other)
  <1> DEFINE kept == DOMAIN rows \ other
             n == Cardinality(kept)
  <1>1. \E at : AreKept(rows, kept, n, Without(rows, other), at)
    BY WithoutKeeps
  <1> HIDE DEF kept, n
  <1>2. PICK at : AreKept(rows, kept, n, rest, at)
    BY <1>1
  <1>3. /\ DOMAIN rest = 1..n /\ \A k \in 1..n : rest[k] = rows[at[k]] /\ at[k] \in kept
        /\ \A i \in kept : \E k \in 1..n : at[k] = i
    BY <1>2 DEF AreKept
  <1>4. ASSUME Obeys(rest, DOMAIN rest), NEW i \in kept, NEW j \in kept, rows[i][1] = rows[j][1]
        PROVE  rows[i] = rows[j]
    <2>1. PICK k \in 1..n : at[k] = i
      BY <1>3
    <2>2. PICK l \in 1..n : at[l] = j
      BY <1>3
    <2>3. rest[k] = rows[i] /\ rest[l] = rows[j]
      BY <1>3, <2>1, <2>2
    <2> QED
      BY <1>3, <1>4, <2>3 DEF Obeys
  <1>5. ASSUME Obeys(rows, kept), NEW k \in 1..n, NEW l \in 1..n, rest[k][1] = rest[l][1]
        PROVE  rest[k] = rest[l]
    BY <1>3, <1>5 DEF Obeys
  <1> QED
    BY <1>3, <1>4, <1>5 DEF Obeys, kept

\* The rows whose group has one right-hand side.
Conforming(rows) == {i \in DOMAIN rows : GroupOf(rows, i) = Occurrences(rows, rows[i])}

\* They are kept, and still conform.
LEMMA ConformingKept ==
  ASSUME NEW V, NEW rows \in Seq(V), NEW dropped \in SUBSET Minority(rows),
         NEW rest, rest = Without(rows, dropped)
  PROVE  /\ Cardinality(Conforming(rows)) \in Nat /\ Cardinality(Conforming(rows)) <= Len(rows)
         /\ Cardinality(Conforming(rest)) \in Nat
         /\ Cardinality(Conforming(rows)) <= Cardinality(Conforming(rest))
  <1> DEFINE kept == DOMAIN rows \ dropped
             n == Cardinality(kept)
  <1>1. \E at : AreKept(rows, kept, n, Without(rows, dropped), at)
    BY WithoutKeeps
  <1>2. kept \subseteq DOMAIN rows
    OBVIOUS
  <1>3. \A i \in Conforming(rows) : i \in kept
    <2> SUFFICES ASSUME NEW i \in Conforming(rows), i \in Minority(rows) PROVE FALSE
      BY DEF Conforming
    <2>1. PICK j \in GroupOf(rows, i) : Before(Rank(rows, j), Rank(rows, i))
      BY DEF Minority
    <2>2. rows[j] = rows[i] /\ i \in DOMAIN rows
      BY DEF Conforming, Occurrences
    <2>3. Rank(rows, j) = Rank(rows, i)
      BY <2>2 DEF Rank, Class
    <2> QED
      BY <2>1, <2>2, <2>3, RankIsKey, BeforeStrict
  <1> HIDE DEF kept, n
  <1>4. PICK at : AreKept(rows, kept, n, rest, at)
    BY <1>1
  <1>5. /\ DOMAIN rest = 1..n /\ \A k \in 1..n : rest[k] = rows[at[k]] /\ at[k] \in kept
        /\ \A i \in kept : \E k \in 1..n : at[k] = i
    BY <1>4 DEF AreKept
  <1>6. IsFiniteSet(Conforming(rest)) /\ Cardinality(Conforming(rest)) \in Nat
    <2>1. rest \in Seq(V)
      BY WithoutType
    <2> QED
      BY <2>1, SequenceDomain, FS_Subset, FS_CardinalityType DEF Conforming
  <1>7. Cardinality(Conforming(rows)) \in Nat /\ Cardinality(Conforming(rows)) <= Len(rows)
    BY SequenceDomain, FS_Subset, FS_CardinalityType DEF Conforming
  <1> DEFINE f == [i \in Conforming(rows) |-> CHOOSE k \in 1..n : at[k] = i]
  <1>8. ASSUME NEW i \in Conforming(rows) PROVE f[i] \in 1..n /\ at[f[i]] = i
    BY <1>3, <1>5
  <1>9. ASSUME NEW i \in Conforming(rows) PROVE f[i] \in Conforming(rest)
    <2> DEFINE k == f[i]
    <2>1. k \in 1..n /\ rest[k] = rows[i] /\ i \in DOMAIN rows
      BY <1>5, <1>8 DEF Conforming
    <2> HIDE DEF f, k
    <2>2. ASSUME NEW l \in 1..n, rest[l][1] = rest[k][1] PROVE rest[l] = rest[k]
      <3>1. rest[l] = rows[at[l]] /\ at[l] \in DOMAIN rows
        BY <1>2, <1>5
      <3>2. at[l] \in GroupOf(rows, i)
        BY <2>1, <2>2, <3>1 DEF GroupOf
      <3>3. at[l] \in Occurrences(rows, rows[i])
        BY <3>2 DEF Conforming
      <3> QED
        BY <2>1, <3>1, <3>3 DEF Occurrences
    <2>3. GroupOf(rest, k) = Occurrences(rest, rest[k])
      BY <1>5, <2>1, <2>2 DEF GroupOf, Occurrences
    <2>4. k \in Conforming(rest)
      BY <1>5, <2>1, <2>3 DEF Conforming
    <2> QED
      BY <2>4 DEF k
  <1>10. f \in [Conforming(rows) -> Conforming(rest)]
    BY <1>9
  <1>11. \A i, j \in Conforming(rows) : f[i] = f[j] => i = j
    <2> HIDE DEF f
    <2> QED
      BY <1>8
  <1> HIDE DEF f
  <1>12. Cardinality(Conforming(rows)) <= Cardinality(Conforming(rest))
    BY <1>6, <1>10, <1>11, InjectionBounds
  <1> QED
    BY <1>6, <1>7, <1>12

\* Dropping minority rows keeps every left-hand side, establishes the dependency unless the
\* budget is spent, takes no more rows than any other way to establish it, and makes the pair
\* no less compliant.
LEMMA DependencyRepaired ==
  ASSUME NEW V, NEW rows \in Seq(V), Len(rows) >= 5, NEW epsilon, IsEpsilon(epsilon),
         NEW o, o = PerturbFunctionalDependency(rows, epsilon),
         NEW rest, rest = Without(rows, o.dropped)
  PROVE  /\ {r[1] : r \in ToSet(rest)} = {r[1] : r \in ToSet(rows)}
         /\ Obeys(rest, DOMAIN rest) \/ Cardinality(o.dropped) = Budget(Len(rows), epsilon)
         /\ \A other \in SUBSET DOMAIN rows :
              Obeys(rows, DOMAIN rows \ other) => Cardinality(o.dropped) <= Cardinality(other)
         /\ o.before <= o.after
  <1> DEFINE dropped == MinorityRows(rows, Budget(Len(rows), epsilon))
  <1>1. /\ o.dropped = dropped /\ o.before = ComplianceRatio(rows)
        /\ o.after = IF Len(rest) >= 2 THEN ComplianceRatio(rest) ELSE High
    BY DEF PerturbFunctionalDependency
  <1>2. Len(rows) \in Nat /\ DOMAIN rows = 1..Len(rows)
    OBVIOUS
  <1>3. Budget(Len(rows), epsilon) \in Nat
    BY <1>2, BudgetType
  <1>4. /\ dropped \in SUBSET Minority(rows)
        /\ dropped = Minority(rows) \/ Cardinality(dropped) = Budget(Len(rows), epsilon)
    BY <1>3, MinorityDropped
  <1> HIDE DEF dropped
  <1>5. Minority(rows) \in SUBSET DOMAIN rows
    BY DEF Minority
  <1>6. rest = Without(rows, dropped)
    BY <1>1
  <1>7. ToSet(rest) = {rows[i] : i \in DOMAIN rows \ dropped}
    BY <1>6, WithoutType
  <1>8. {r[1] : r \in ToSet(rest)} = {r[1] : r \in ToSet(rows)}
    <2>1. \A i \in DOMAIN rows : \E m \in DOMAIN rows \ dropped : rows[m][1] = rows[i][1]
      <3> SUFFICES ASSUME NEW i \in DOMAIN rows PROVE \E m \in DOMAIN rows \ dropped : rows[m][1] = rows[i][1]
        OBVIOUS
      <3>1. PICK m \in DOMAIN rows : /\ rows[m][1] = rows[i][1]
                                     /\ \A l \in Class(rows, m) : l \in DOMAIN rows \ Minority(rows)
        BY GroupMajority
      <3>2. m \in Class(rows, m)
        BY DEF Class, Occurrences
      <3> QED
        BY <1>4, <3>1, <3>2
    <2>2. ToSet(rows) = {rows[i] : i \in DOMAIN rows}
      BY DEF ToSet
    <2> QED
      BY <1>7, <2>1, <2>2
  <1>9. dropped = Minority(rows) => Obeys(rest, DOMAIN rest)
    <2> SUFFICES ASSUME dropped = Minority(rows) PROVE Obeys(rest, DOMAIN rest)
      OBVIOUS
    <2>1. Obeys(rows, DOMAIN rows \ dropped)
      BY MajorityHolds DEF Obeys
    <2> QED
      BY <1>6, <2>1, ObeysWithout
  <1>10. ASSUME NEW other \in SUBSET DOMAIN rows, Obeys(rows, DOMAIN rows \ other)
         PROVE  Cardinality(dropped) <= Cardinality(other)
    <2>1. Cardinality(Minority(rows)) <= Cardinality(other)
      BY <1>10, MinoritySmallest DEF Obeys
    <2>2. IsFiniteSet(DOMAIN rows)
      BY SequenceDomain
    <2>3. IsFiniteSet(Minority(rows)) /\ IsFiniteSet(other)
      BY <1>5, <2>2, FS_Subset
    <2>4. Cardinality(dropped) <= Cardinality(Minority(rows)) /\ IsFiniteSet(dropped)
      BY <1>4, <2>3, FS_Subset
    <2>5. Cardinality(dropped) \in Nat /\ Cardinality(Minority(rows)) \in Nat /\ Cardinality(other) \in Nat
      BY <2>3, <2>4, FS_CardinalityType
    <2> QED
      BY <2>1, <2>4, <2>5
  <1>11. o.before <= o.after
    <2> DEFINE c == Cardinality(Conforming(rows))
               d == Cardinality(Conforming(rest))
    <2>1. c \in Nat /\ c <= Len(rows) /\ d \in Nat /\ c <= d
      BY <1>4, <1>6, ConformingKept
    <2>2. ComplianceRatio(rows) = (Scale * c) \div Len(rows) /\ ComplianceRatio(rest) = (Scale * d) \div Len(rest)
      BY DEF ComplianceRatio, Conforming
    <2>3. Len(rest) \in Nat /\ Len(rest) <= Len(rows)
      BY <1>4, <1>5, <1>6, LeftLength
    <2> HIDE DEF c, d
    <2>4. Scale * c \in Nat /\ Scale * d \in Nat /\ Scale * c <= Scale * d
      <3>1. Scale \in Nat
        BY ScaleAssumption
      <3>2. Scale * c \in Nat /\ Scale * d \in Nat
        BY <2>1, <3>1, SMT
      <3> QED
        BY <2>1, <3>1, <3>2, Products
    <2>5. Len(rest) >= 2 => ComplianceRatio(rows) <= ComplianceRatio(rest)
      BY <1>2, <2>2, <2>3, <2>4, QuotientMonotone
    <2>6. ComplianceRatio(rows) <= High
      BY <1>2, <2>1, <2>2, RatioBelowHigh
    <2> QED
      BY <1>1, <2>5, <2>6
  <1> QED
    BY <1>1, <1>4, <1>8, <1>9, <1>10, <1>11

-----------------------------------------------------------------------------
\* Which words are compared.

\* Every text once.
LEMMA DistinctTexts ==
  ASSUME NEW U, NEW texts \in Seq(U), NEW distinct, distinct = Distinct(texts)
  PROVE  /\ distinct \in Seq(U) /\ ToSet(distinct) = ToSet(texts)
         /\ \A i, j \in DOMAIN distinct : distinct[i] = distinct[j] => i = j
         /\ Len(distinct) = Cardinality(ToSet(texts))
  <1> DEFINE repeats == {i \in DOMAIN texts : \E j \in 1..(i - 1) : texts[j] = texts[i]}
             kept == DOMAIN texts \ repeats
             n == Cardinality(kept)
  <1>1. distinct = Without(texts, repeats)
    BY DEF Distinct
  <1>2. DOMAIN texts = 1..Len(texts) /\ Len(texts) \in Nat
    BY SequenceDomain
  <1>3. \A i, j \in kept : texts[i] = texts[j] => i = j
    <2> SUFFICES ASSUME NEW i \in kept, NEW j \in kept, texts[i] = texts[j], i # j PROVE FALSE
      OBVIOUS
    <2>1. i \in Int /\ j \in Int /\ 1 <= i /\ 1 <= j
      BY <1>2
    <2>2. i \notin 1..(j - 1) /\ j \notin 1..(i - 1)
      OBVIOUS
    <2> QED
      BY <2>1, <2>2
  <1>4. ASSUME NEW i \in DOMAIN texts PROVE \E j \in kept : texts[j] = texts[i]
    <2> DEFINE first == Min(Occurrences(texts, texts[i]))
    <2>1. first \in Occurrences(texts, texts[i])
      BY OccurrencesType
    <2>2. \A j \in Occurrences(texts, texts[i]) : first <= j
      <3>1. Occurrences(texts, texts[i]) \in SUBSET Nat /\ Occurrences(texts, texts[i]) # {}
        BY <1>2, OccurrencesType
      <3> QED
        BY <3>1, MinMember
    <2> HIDE DEF first
    <2>3. first \in DOMAIN texts /\ texts[first] = texts[i]
      BY <2>1 DEF Occurrences
    <2>4. ~ \E j \in 1..(first - 1) : texts[j] = texts[first]
      <3> SUFFICES ASSUME NEW j \in 1..(first - 1), texts[j] = texts[first] PROVE FALSE
        OBVIOUS
      <3>1. j \in DOMAIN texts /\ j < first
        BY <1>2, <2>3
      <3>2. first <= j
        BY <2>2, <2>3, <3>1 DEF Occurrences
      <3> QED
        BY <1>2, <2>3, <3>1, <3>2
    <2> QED
      BY <2>3, <2>4
  <1> HIDE DEF repeats
  <1>5. distinct \in Seq(U) /\ Len(distinct) = n
    BY <1>1, WithoutType
  <1>6. ToSet(distinct) = {texts[i] : i \in kept}
    BY <1>1, WithoutType
  <1>7. ToSet(distinct) = ToSet(texts)
    <2>1. ToSet(texts) = {texts[i] : i \in DOMAIN texts}
      BY DEF ToSet
    <2> QED
      BY <1>4, <1>6, <2>1
  <1>8. \A i, j \in DOMAIN distinct : distinct[i] = distinct[j] => i = j
    <2>1. n \in Nat /\ \E at : AreKept(texts, kept, n, Without(texts, repeats), at)
      BY WithoutKeeps
    <2> HIDE DEF kept, n
    <2>2. PICK at : AreKept(texts, kept, n, distinct, at)
      BY <1>1, <2>1
    <2>3. /\ DOMAIN distinct = 1..n /\ \A k \in 1..n : distinct[k] = texts[at[k]] /\ at[k] \in kept
          /\ \A j, k \in 1..n : j < k => at[j] < at[k]
      BY <2>2 DEF AreKept
    <2>4. \A k \in kept : k \in Int
      BY <1>2 DEF kept
    <2> SUFFICES ASSUME NEW i \in 1..n, NEW j \in 1..n, distinct[i] = distinct[j] PROVE i = j
      BY <2>3
    <2>5. at[i] = at[j] /\ at[i] \in Int
      BY <1>3, <2>3, <2>4
    <2>6. ~ (i < j) /\ ~ (j < i)
      BY <2>3, <2>5
    <2> QED
      BY <2>1, <2>6
  <1>9. Len(distinct) = Cardinality(ToSet(texts))
    <2> DEFINE f == [i \in kept |-> texts[i]]
    <2>1. f \in [kept -> ToSet(distinct)] /\ \A x \in ToSet(distinct) : \E i \in kept : f[i] = x
      BY <1>6
    <2>2. \A i, j \in kept : f[i] = f[j] => i = j
      BY <1>3
    <2>3. IsFiniteSet(kept)
      BY SequenceDomain, FS_Subset
    <2> HIDE DEF f, kept
    <2>4. f \in Bijection(kept, ToSet(distinct))
      BY <2>1, <2>2 DEF Bijection, Injection, Surjection, IsInjective
    <2> QED
      BY <1>5, <1>7, <2>3, <2>4, FS_Bijection DEF ExistsBijection, n
  <1> QED
    BY <1>5, <1>7, <1>8, <1>9

\* The two ends of a text of n characters, in lower case.
LowerCase(text) == [k \in 1..Len(text) |-> Lower(text[k])]
Prefix(text) == <<"p", <<Lower(text[1]), Lower(text[2])>>>>
Suffix(text, n) == <<"s", <<Lower(text[n - 1]), Lower(text[n])>>>>

\* The smaller and the larger of two numbers.
LEMMA TwoNumbers ==
  ASSUME NEW m \in Int, NEW n \in Int, m <= n
  PROVE  Min({m, n}) = m /\ Max({m, n}) = n
  <1>1. Min({m, n}) \in {m, n} /\ Min({m, n}) <= m
    BY MinMaxOfTwo
  <1>2. Max({m, n}) \in {m, n} /\ Max({m, n}) >= n
    BY MinMaxOfTwo
  <1> QED
    BY <1>1, <1>2

\* A sequence of two numbers, and the piece of a sequence that has two.
LEMMA PairOfLength2 ==
  ASSUME NEW s \in Seq(Int), Len(s) = 2
  PROVE  s = <<s[1], s[2]>>
  OBVIOUS

LEMMA TwoOfText ==
  ASSUME NEW s \in Seq(Int), NEW m \in Int, 1 <= m, m + 1 <= Len(s)
  PROVE  SubSeq(s, m, m + 1) = <<s[m], s[m + 1]>>
  <1> DEFINE t == SubSeq(s, m, m + 1)
  <1>1. t \in Seq(Int) /\ Len(t) = 2
    OBVIOUS
  <1>2. t[1] = s[m] /\ t[2] = s[m + 1]
    OBVIOUS
  <1> HIDE DEF t
  <1>3. t = <<t[1], t[2]>>
    BY <1>1, PairOfLength2
  <1> QED
    BY <1>2, <1>3 DEF t

\* The ends of a text are the first and the last two of its characters.
LEMMA EndsOfText ==
  ASSUME NEW text \in Seq(Int), NEW n \in Nat, n = Len(text), n >= 2
  PROVE  /\ <<"p", SubSeq(LowerCase(text), 1, Min({2, n}))>> = Prefix(text)
         /\ <<"s", SubSeq(LowerCase(text), Max({1, n - 1}), n)>> = Suffix(text, n)
  <1> DEFINE lowered == LowerCase(text)
  <1>1. Min({2, n}) = 2
    <2>1. 2 \in Int /\ n \in Int /\ 2 <= n
      OBVIOUS
    <2> QED
      BY <2>1, TwoNumbers
  <1>2. Max({1, n - 1}) = n - 1
    <2>1. 1 \in Int /\ n - 1 \in Int /\ 1 <= n - 1
      OBVIOUS
    <2> QED
      BY <2>1, TwoNumbers
  <1>3. \A k \in 1..n : lowered[k] = Lower(text[k]) /\ Lower(text[k]) \in Int
    BY DEF Lower, LowerCase
  <1>4. lowered \in Seq(Int) /\ Len(lowered) = n
    BY <1>3 DEF LowerCase
  <1> HIDE DEF lowered
  <1>5. 1 \in 1..n /\ 2 \in 1..n /\ n - 1 \in 1..n /\ n \in 1..n
    OBVIOUS
  <1>6. SubSeq(lowered, 1, 2) = <<Lower(text[1]), Lower(text[2])>>
    <2>1. 1 \in Int /\ 1 <= 1 /\ 1 + 1 <= Len(lowered) /\ 1 + 1 = 2
      BY <1>4
    <2>2. SubSeq(lowered, 1, 2) = <<lowered[1], lowered[2]>>
      BY <1>4, <2>1, TwoOfText
    <2> QED
      BY <1>3, <1>5, <2>2
  <1>7. SubSeq(lowered, n - 1, n) = <<Lower(text[n - 1]), Lower(text[n])>>
    <2>1. n - 1 \in Int /\ 1 <= n - 1 /\ n - 1 + 1 <= Len(lowered) /\ n - 1 + 1 = n
      BY <1>4
    <2>2. SubSeq(lowered, n - 1, n) = <<lowered[n - 1], lowered[n]>>
      BY <1>4, <2>1, TwoOfText
    <2> QED
      BY <1>3, <1>5, <2>2
  <1> QED
    BY <1>1, <1>2, <1>6, <1>7 DEF lowered, Prefix, Suffix

\* The blocking keys of a text.
LEMMA KeysOfText ==
  ASSUME NEW text \in Seq(Int), NEW n \in Nat, n = Len(text)
  PROVE  /\ n <= 3 => <<<<"short", << >>>>, 0>> \in BlockingKeys(text)
         /\ n >= 2 => \A m \in {n \div 3, (n + 1) \div 3} :
                        <<Prefix(text), m>> \in BlockingKeys(text) /\ <<Suffix(text, n), m>> \in BlockingKeys(text)
  <1> DEFINE p == <<"p", SubSeq(LowerCase(text), 1, Min({2, n}))>>
             s == <<"s", SubSeq(LowerCase(text), Max({1, n - 1}), n)>>
             short == <<<<"short", << >>>>, 0>>
             both == {n \div 3, (n + 1) \div 3}
  <1>1. BlockingKeys(text) = ({p, s} \X both) \cup {short : k \in {n} \cap 0..3}
    BY DEF BlockingKeys, LowerCase
  <1>3. n >= 2 => p = Prefix(text) /\ s = Suffix(text, n)
    BY EndsOfText
  <1> HIDE DEF p, s, short, both
  <1>2. n <= 3 => n \in {n} \cap 0..3
    <2>1. n <= 3 => n \in 0..3
      OBVIOUS
    <2> QED
      BY <2>1
  <1>4. n <= 3 => short \in BlockingKeys(text)
    BY <1>1, <1>2
  <1>5. n >= 2 => \A m \in both : <<Prefix(text), m>> \in BlockingKeys(text) /\ <<Suffix(text, n), m>> \in BlockingKeys(text)
    BY <1>1, <1>3
  <1> QED
    BY <1>4, <1>5 DEF short, both

\* A text shares a key with the same text with one more character.
LEMMA InsertionSharesKey ==
  ASSUME NEW x \in Seq(Int), NEW y \in Seq(Int), OneLonger(x, y)
  PROVE  \E key : key \in BlockingKeys(x) /\ key \in BlockingKeys(y)
  <1> DEFINE n == Len(x)
             m == (n + 1) \div 3
  <1>1. n \in Nat /\ n + 1 \in Nat /\ n + 1 = Len(y) /\ DOMAIN y = 1..(n + 1)
    BY DEF OneLonger
  <1>2. PICK p \in 1..(n + 1) : /\ \A k \in 1..(p - 1) : x[k] = y[k]
                                /\ \A k \in p..n : x[k] = y[k + 1]
    BY <1>1 DEF OneLonger
  <1> HIDE DEF n
  <1>3. CASE n <= 2
    <2>1. n <= 3 /\ n + 1 <= 3
      BY <1>1, <1>3
    <2> QED
      BY <1>1, <2>1, KeysOfText DEF n
  <1>4. CASE n >= 3
    <2>1. <<Prefix(x), m>> \in BlockingKeys(x) /\ <<Suffix(x, n), m>> \in BlockingKeys(x)
      <3>1. n >= 2 /\ m \in {n \div 3, (n + 1) \div 3}
        BY <1>1, <1>4
      <3> HIDE DEF m
      <3> QED
        BY <1>1, <3>1, KeysOfText DEF n
    <2>2. <<Prefix(y), m>> \in BlockingKeys(y) /\ <<Suffix(y, n + 1), m>> \in BlockingKeys(y)
      <3>1. n + 1 >= 2 /\ m \in {(n + 1) \div 3, (n + 1 + 1) \div 3}
        BY <1>1, <1>4
      <3> HIDE DEF m
      <3> QED
        BY <1>1, <3>1, KeysOfText
    <2> HIDE DEF m
    <2>3. CASE p >= 3
      <3>1. 1 \in 1..(p - 1) /\ 2 \in 1..(p - 1)
        BY <2>3
      <3>2. Prefix(x) = Prefix(y)
        BY <1>2, <3>1 DEF Prefix
      <3> QED
        BY <2>1, <2>2, <3>2
    <2>4. CASE p <= 2
      <3>1. n - 1 \in p..n /\ n \in p..n /\ (n - 1) + 1 = n /\ (n + 1) - 1 = n
        BY <1>1, <1>4, <2>4
      <3>2. x[n - 1] = y[n] /\ x[n] = y[n + 1]
        BY <1>2, <3>1
      <3>3. Suffix(x, n) = Suffix(y, n + 1)
        BY <3>1, <3>2 DEF Suffix
      <3> QED
        BY <2>1, <2>2, <3>3
    <2> QED
      BY <1>1, <2>3, <2>4
  <1> QED
    BY <1>1, <1>3, <1>4

\* And with a text of the same length that differs in one place.
LEMMA SubstitutionSharesKey ==
  ASSUME NEW x \in Seq(Int), NEW y \in Seq(Int), Len(x) = Len(y), NEW p \in DOMAIN x,
         \A k \in DOMAIN x : k # p => x[k] = y[k]
  PROVE  \E key : key \in BlockingKeys(x) /\ key \in BlockingKeys(y)
  <1> DEFINE n == Len(x)
             m == n \div 3
  <1>1. n \in Nat /\ n = Len(y) /\ DOMAIN x = 1..n
    OBVIOUS
  <1> HIDE DEF n
  <1>2. CASE n <= 3
    BY <1>1, <1>2, KeysOfText DEF n
  <1>3. CASE n >= 4
    <2>0. n >= 2 /\ m \in {n \div 3, (n + 1) \div 3}
      BY <1>1, <1>3
    <2> HIDE DEF m
    <2>1. <<Prefix(x), m>> \in BlockingKeys(x) /\ <<Suffix(x, n), m>> \in BlockingKeys(x)
      BY <1>1, <2>0, KeysOfText DEF n
    <2>2. <<Prefix(y), m>> \in BlockingKeys(y) /\ <<Suffix(y, n), m>> \in BlockingKeys(y)
      BY <1>1, <2>0, KeysOfText
    <2>3. CASE p >= 3
      <3>1. 1 \in DOMAIN x /\ 2 \in DOMAIN x /\ 1 # p /\ 2 # p
        BY <1>1, <1>3, <2>3
      <3>2. Prefix(x) = Prefix(y)
        BY <3>1 DEF Prefix
      <3> QED
        BY <2>1, <2>2, <3>2
    <2>4. CASE p <= 2
      <3>1. n - 1 \in DOMAIN x /\ n \in DOMAIN x /\ n - 1 # p /\ n # p
        BY <1>1, <1>3, <2>4
      <3>2. Suffix(x, n) = Suffix(y, n)
        BY <3>1 DEF Suffix
      <3> QED
        BY <2>1, <2>2, <3>2
    <2> QED
      BY <1>1, <2>3, <2>4
  <1> QED
    BY <1>1, <1>2, <1>3

\* Two texts one edit apart have a blocking key in common.
THEOREM EditSharesKey ==
  ASSUME NEW u \in Seq(Int), NEW w \in Seq(Int), OneEdit(u, w)
  PROVE  \E key : key \in BlockingKeys(u) /\ key \in BlockingKeys(w)
  <1>1. CASE OneLonger(u, w)
    BY <1>1, InsertionSharesKey
  <1>2. CASE OneLonger(w, u)
    BY <1>2, InsertionSharesKey
  <1>3. CASE Len(u) = Len(w) /\ \E p \in DOMAIN u : \A k \in DOMAIN u : k # p => u[k] = w[k]
    BY <1>3, SubstitutionSharesKey
  <1> QED
    BY <1>1, <1>2, <1>3 DEF OneEdit

\* A block of two or more keeps two of them, and a block that is not too large all of them.
LEMMA ThinnedBlock ==
  ASSUME NEW block \in SUBSET Int, IsFiniteSet(block), NEW maxSize \in Nat, maxSize >= 2
  PROVE  /\ Cardinality(block) <= maxSize => Thinned(block, maxSize) = block
         /\ Cardinality(block) >= 2 => Ascending(Thinned(block, maxSize)) # {}
  <1> DEFINE n == Cardinality(block)
             order == Ascending(block)
             rank == [i \in block |-> Cardinality(Below(block, order, i))]
  <1>1. n \in Nat
    BY FS_CardinalityType
  <1>2. IsStrictOrder(block, order) /\ IsTotal(block, order)
    BY AscendingIsTotal
  <1>3. \A i \in block : rank[i] = Cardinality({j \in block : j < i})
    <2> SUFFICES ASSUME NEW i \in block PROVE Below(block, order, i) = {j \in block : j < i}
      OBVIOUS
    <2> QED
      BY DEF Below, Ascending
  <1>4. \A i \in block : rank[i] \in Nat
    BY RankType
  <1> HIDE DEF rank, order
  <1>5. PICK stride \in Nat : /\ stride = IF n > maxSize THEN n \div maxSize + 1 ELSE 1
                              /\ stride >= 1 /\ (n >= 2 => stride <= n - 1)
    <2>1. CASE n <= maxSize
      BY <1>1, <2>1
    <2>2. CASE n > maxSize
      <3> DEFINE q == n \div maxSize
      <3>1. q \in Nat /\ q * maxSize <= n
        BY <1>1
      <3> HIDE DEF q
      <3>2. q * 2 <= q * maxSize
        BY <3>1, SMT
      <3>3. q * maxSize \in Int
        BY <3>1, SMT
      <3>4. q + 1 \in Nat /\ q + 1 >= 1 /\ q + 1 <= n - 1
        BY <1>1, <2>2, <3>1, <3>2, <3>3
      <3> QED
        BY <2>2, <3>4 DEF q
    <2> QED
      BY <1>1, <2>1, <2>2
  <1>6. Thinned(block, maxSize) = {i \in block : rank[i] % stride = 0}
    BY <1>3, <1>5 DEF Thinned
  <1>7. ASSUME n <= maxSize PROVE Thinned(block, maxSize) = block
    <2>1. stride = 1
      BY <1>1, <1>5, <1>7
    <2>2. \A i \in block : rank[i] % 1 = 0
      BY <1>4
    <2> QED
      BY <1>6, <2>1, <2>2
  <1>8. ASSUME n >= 2 PROVE Ascending(Thinned(block, maxSize)) # {}
    <2> DEFINE x == KthIn(block, order, 1)
               y == KthIn(block, order, stride + 1)
    <2>1. 1 \in 1..n /\ stride + 1 \in 1..n /\ 1 < stride + 1
      BY <1>1, <1>5, <1>8
    <2>2. x \in block /\ rank[x] = 1 - 1
      BY <1>2, <2>1, KthRank DEF rank
    <2>3. y \in block /\ rank[y] = (stride + 1) - 1
      BY <1>2, <2>1, KthRank DEF rank
    <2>4. <<x, y>> \in order
      BY <1>2, <2>1, KthOrdered
    <2> HIDE DEF x, y
    <2>5. 0 % stride = 0 /\ stride % stride = 0
      BY <1>5
    <2>6. rank[x] = 0 /\ rank[y] = stride
      BY <2>2, <2>3
    <2>7. x \in Thinned(block, maxSize) /\ y \in Thinned(block, maxSize)
      BY <1>6, <2>2, <2>3, <2>5, <2>6
    <2>8. x < y
      BY <2>4 DEF order, Ascending
    <2>9. <<x, y>> \in Ascending(Thinned(block, maxSize))
      BY <2>7, <2>8 DEF Ascending
    <2> QED
      BY <2>9
  <1> QED
    BY <1>7, <1>8

\* How many words share a key, and whether that is too many to compare them all.
Sharing(words, key) == {w \in words : key \in BlockingKeys(w)}

IsThinned(words, maxSize) ==
  \E key \in UNION {BlockingKeys(w) : w \in words} : Cardinality(Sharing(words, key)) > maxSize

\* As many positions as words share a key.
LEMMA SharedPositions ==
  ASSUME NEW U, NEW distinct \in Seq(U), \A i, j \in DOMAIN distinct : distinct[i] = distinct[j] => i = j,
         NEW key, NEW block, block = {i \in DOMAIN distinct : key \in BlockingKeys(distinct[i])}
  PROVE  /\ IsFiniteSet(block) /\ block \in SUBSET Int
         /\ Cardinality(block) <= Cardinality(Sharing(ToSet(distinct), key))
         /\ Cardinality(block) \in Nat /\ Cardinality(Sharing(ToSet(distinct), key)) \in Nat
  <1> DEFINE words == Sharing(ToSet(distinct), key)
             f == [i \in block |-> distinct[i]]
  <1>1. IsFiniteSet(words)
    BY SequenceDomain, FS_Subset DEF Sharing
  <1>2. f \in [block -> words] /\ \A i, j \in block : f[i] = f[j] => i = j
    BY DEF Sharing, ToSet
  <1> HIDE DEF f, words
  <1>3. IsFiniteSet(block) /\ Cardinality(block) <= Cardinality(words)
    BY <1>1, <1>2, InjectionBounds
  <1>4. block \in SUBSET Int
    BY SequenceDomain
  <1> QED
    BY <1>1, <1>3, <1>4, FS_CardinalityType DEF words

\* Two words one edit apart put two words into some block, and are in one together unless a
\* block was thinned.
LEMMA OneEditCompared ==
  ASSUME NEW U \in SUBSET Seq(Int), NEW distinct \in Seq(U),
         \A i, j \in DOMAIN distinct : distinct[i] = distinct[j] => i = j,
         NEW maxSize \in Nat, maxSize >= 2,
         NEW i \in DOMAIN distinct, NEW j \in DOMAIN distinct, i < j,
         OneEdit(distinct[i], distinct[j]) \/ Len(distinct) <= maxSize
  PROVE  /\ \E b \in Blocks(distinct, maxSize) : Ascending(b) # {}
         /\ Len(distinct) <= maxSize \/ ~IsThinned(ToSet(distinct), maxSize) =>
              \E b \in Blocks(distinct, maxSize) : <<i, j>> \in Ascending(b)
  <1>1. CASE Len(distinct) <= maxSize
    <2>1. Blocks(distinct, maxSize) = {DOMAIN distinct}
      BY <1>1 DEF Blocks
    <2>2. <<i, j>> \in Ascending(DOMAIN distinct)
      BY DEF Ascending
    <2> QED
      BY <2>1, <2>2
  <1>2. CASE ~(Len(distinct) <= maxSize)
    <2>1. distinct[i] \in Seq(Int) /\ distinct[j] \in Seq(Int)
      BY SequenceDomain
    <2>2. PICK key : key \in BlockingKeys(distinct[i]) /\ key \in BlockingKeys(distinct[j])
      BY <1>2, <2>1, EditSharesKey
    <2> DEFINE block == {k \in DOMAIN distinct : key \in BlockingKeys(distinct[k])}
               keys == [k \in DOMAIN distinct |-> BlockingKeys(distinct[k])]
    <2>3. Blocks(distinct, maxSize) =
            {Thinned({k \in DOMAIN distinct : h \in keys[k]}, maxSize) : h \in UNION Range(keys)}
      BY <1>2 DEF Blocks
    <2>4. Thinned(block, maxSize) \in Blocks(distinct, maxSize)
      <3>1. key \in UNION Range(keys)
        <4>1. keys[i] \in Range(keys) /\ key \in keys[i]
          BY <2>2 DEF Range
        <4> QED
          BY <4>1
      <3>2. {k \in DOMAIN distinct : key \in keys[k]} = block
        OBVIOUS
      <3> HIDE DEF keys, block
      <3> QED
        BY <2>3, <3>1, <3>2
    <2>5. i \in block /\ j \in block
      BY <2>2
    <2>6. /\ IsFiniteSet(block) /\ block \in SUBSET Int
          /\ Cardinality(block) <= Cardinality(Sharing(ToSet(distinct), key))
          /\ Cardinality(block) \in Nat /\ Cardinality(Sharing(ToSet(distinct), key)) \in Nat
      BY SharedPositions
    <2> HIDE DEF block, keys
    <2>7. Cardinality(block) >= 2
      <3>1. i # j /\ Cardinality({i, j}) = 2
        <4>1. i \in Int /\ j \in Int /\ i # j
          BY SequenceDomain
        <4>2. IsFiniteSet({i}) /\ Cardinality({i}) = 1
          BY FS_Singleton
        <4>3. {i, j} = {i} \cup {j} /\ j \notin {i}
          BY <4>1
        <4>4. Cardinality({i} \cup {j}) = Cardinality({i}) + 1
          BY <4>2, <4>3, FS_AddElement
        <4> QED
          BY <4>1, <4>2, <4>3, <4>4
      <3>2. Cardinality({i, j}) <= Cardinality(block)
        <4>1. {i, j} \in SUBSET block
          BY <2>5
        <4> QED
          BY <2>6, <4>1, FS_Subset
      <3> QED
        BY <2>6, <3>1, <3>2
    <2>8. Ascending(Thinned(block, maxSize)) # {}
      BY <2>6, <2>7, ThinnedBlock
    <2>9. ASSUME ~IsThinned(ToSet(distinct), maxSize) PROVE <<i, j>> \in Ascending(Thinned(block, maxSize))
      <3>1. key \in UNION {BlockingKeys(w) : w \in ToSet(distinct)}
        <4>1. distinct[i] \in ToSet(distinct)
          BY DEF ToSet
        <4> QED
          BY <2>2, <4>1
      <3>2. ~(Cardinality(Sharing(ToSet(distinct), key)) > maxSize)
        BY <2>9, <3>1 DEF IsThinned
      <3>3. Cardinality(block) <= maxSize
        BY <2>6, <3>2
      <3>4. Thinned(block, maxSize) = block
        BY <2>6, <3>3, ThinnedBlock
      <3> QED
        BY <2>5, <3>4 DEF Ascending
    <2> QED
      BY <1>2, <2>4, <2>8, <2>9
  <1> QED
    BY <1>1, <1>2

\* U is a set of texts between which edits are counted.
Words(U) ==
  /\ U \in SUBSET Seq(Int)
  /\ \A u, w \in U : /\ IsDistance(u, w, Levenshtein(u, w))
                     /\ Levenshtein(u, w) = Levenshtein(w, u)

LEMMA WordsType ==
  ASSUME NEW U, Words(U)
  PROVE  /\ Distances(U)
         /\ \A u, w \in U : /\ Levenshtein(u, w) \in Nat /\ Levenshtein(u, w) <= High
                            /\ Levenshtein(u, w) = 0 <=> u = w
                            /\ Levenshtein(u, w) = 1 => OneEdit(u, w)
                            /\ Levenshtein(u, w) = Levenshtein(w, u)
  BY DEF Words, Distances, IsDistance

\* The distances between different words.
Gaps(words) == {Levenshtein(u, w) : u, w \in words} \ {0}

LEMMA GapsType ==
  ASSUME NEW U, Distances(U), NEW words \in SUBSET U, NEW fewer \in SUBSET words
  PROVE  Gaps(words) \in SUBSET Nat /\ Gaps(fewer) \in SUBSET Gaps(words)
  <1>1. \A u, w \in words : Levenshtein(u, w) \in Nat
    BY DEF Distances
  <1> QED
    BY <1>1 DEF Gaps

\* Two different words at two positions, in their order.
LEMMA TwoPositions ==
  ASSUME NEW U, Words(U), NEW distinct \in Seq(U), NEW u \in ToSet(distinct), NEW w \in ToSet(distinct), u # w
  PROVE  \E i, j \in DOMAIN distinct :
           /\ i < j
           /\ \/ distinct[i] = u /\ distinct[j] = w
              \/ distinct[i] = w /\ distinct[j] = u
           /\ Levenshtein(distinct[i], distinct[j]) = Levenshtein(u, w)
  <1>1. PICK i \in DOMAIN distinct : distinct[i] = u
    BY DEF ToSet
  <1>2. PICK j \in DOMAIN distinct : distinct[j] = w
    BY DEF ToSet
  <1>3. i \in Int /\ j \in Int /\ i # j /\ u \in U /\ w \in U
    BY <1>1, <1>2, SequenceDomain
  <1>4. Levenshtein(u, w) = Levenshtein(w, u)
    BY <1>3, WordsType
  <1>5. CASE i < j
    BY <1>1, <1>2, <1>5
  <1>6. CASE j < i
    BY <1>1, <1>2, <1>4, <1>6
  <1> QED
    BY <1>3, <1>5, <1>6

\* Two words at their distance; the closest two, if all were compared or there are two one
\* edit apart and no block was thinned.
IsClosestOf(words, maxSize, r) ==
  /\ r.pair[1] \in words /\ r.pair[2] \in words /\ r.pair[1] # r.pair[2]
  /\ r.mpd = Levenshtein(r.pair[1], r.pair[2])
  /\ r.mpd \in Gaps(words) /\ r.mpd <= High
  /\ Cardinality(words) <= maxSize \/ (1 \in Gaps(words) /\ ~IsThinned(words, maxSize)) =>
       r.mpd = Min(Gaps(words))

\* The pair returned is two words of the column at their distance.  None is returned only if
\* no two words are one edit apart; and no two words are closer than the pair, if all were
\* compared or there are two one edit apart and no block was thinned.
LEMMA ClosestWords ==
  ASSUME NEW U, Words(U), NEW texts \in Seq(U), NEW words, words = ToSet(texts),
         NEW maxSize \in Nat, maxSize >= 2
  PROVE  /\ MinPairwise(texts, maxSize) = {} => 1 \notin Gaps(words)
         /\ \A r \in MinPairwise(texts, maxSize) : IsClosestOf(words, maxSize, r)
  <1> DEFINE distinct == Distinct(texts)
             Apart(p) == Levenshtein(distinct[p[1]], distinct[p[2]])
  <1>1. /\ distinct \in Seq(U) /\ ToSet(distinct) = words
        /\ \A i, j \in DOMAIN distinct : distinct[i] = distinct[j] => i = j
        /\ Len(distinct) = Cardinality(words)
    BY DistinctTexts
  <1>2. U \in SUBSET Seq(Int) /\ Distances(U) /\ words \in SUBSET U
    BY WordsType, SequenceDomain DEF Words
  <1>3. /\ MinPairwise(texts, maxSize) = {} => \A b \in Blocks(distinct, maxSize) : Ascending(b) = {}
        /\ \A r \in MinPairwise(texts, maxSize) :
             /\ \E b \in Blocks(distinct, maxSize) : \E p \in Ascending(b) : r = Found(distinct, p)
             /\ \A b \in Blocks(distinct, maxSize) : \A q \in Ascending(b) : r.mpd <= Apart(q)
             /\ r.mpd \in Nat
    BY <1>2, MinPairwiseFound
  <1> HIDE DEF distinct
  <1>4. Gaps(words) \in SUBSET Nat /\ 0 \notin Gaps(words)
    BY <1>2 DEF Gaps, Distances
  <1>5. ASSUME 1 \in Gaps(words)
        PROVE  /\ \E b \in Blocks(distinct, maxSize) : Ascending(b) # {}
               /\ ~IsThinned(words, maxSize) =>
                    \E b \in Blocks(distinct, maxSize) : \E p \in Ascending(b) : Apart(p) = 1
    <2>1. PICK u \in words, w \in words : Levenshtein(u, w) = 1
      BY <1>5 DEF Gaps
    <2>2. u # w
      BY <1>2, <2>1, WordsType
    <2>3. PICK i \in DOMAIN distinct, j \in DOMAIN distinct :
            i < j /\ Levenshtein(distinct[i], distinct[j]) = 1
      BY <1>1, <2>1, <2>2, TwoPositions
    <2>4. distinct[i] \in U /\ distinct[j] \in U
      BY <1>1
    <2>5. OneEdit(distinct[i], distinct[j])
      BY <2>3, <2>4, WordsType
    <2>6. /\ \E b \in Blocks(distinct, maxSize) : Ascending(b) # {}
          /\ ~IsThinned(words, maxSize) => \E b \in Blocks(distinct, maxSize) : <<i, j>> \in Ascending(b)
      <3>1. OneEdit(distinct[i], distinct[j]) \/ Len(distinct) <= maxSize
        BY <2>5
      <3>2. distinct \in Seq(U) /\ \A k, l \in DOMAIN distinct : distinct[k] = distinct[l] => k = l
        BY <1>1
      <3>3. U \in SUBSET Seq(Int) /\ i < j
        BY <1>2, <2>3
      <3>4. ToSet(distinct) = words
        BY <1>1
      <3>5. \E b \in Blocks(distinct, maxSize) : Ascending(b) # {}
        BY <3>1, <3>2, <3>3, OneEditCompared
      <3>6. ~IsThinned(ToSet(distinct), maxSize) => \E b \in Blocks(distinct, maxSize) : <<i, j>> \in Ascending(b)
        BY <3>1, <3>2, <3>3, OneEditCompared
      <3> QED
        BY <3>4, <3>5, <3>6
    <2>7. Apart(<<i, j>>) = 1
      BY <2>3
    <2> QED
      BY <2>6, <2>7
  <1>6. ASSUME Cardinality(words) <= maxSize, NEW g \in Gaps(words)
        PROVE  \E b \in Blocks(distinct, maxSize) : \E p \in Ascending(b) : Apart(p) = g
    <2>1. PICK u \in words, w \in words : Levenshtein(u, w) = g /\ g # 0
      BY <1>6 DEF Gaps
    <2>2. u # w
      BY <1>2, <2>1, WordsType
    <2>3. PICK i \in DOMAIN distinct, j \in DOMAIN distinct :
            i < j /\ Levenshtein(distinct[i], distinct[j]) = g
      BY <1>1, <2>1, <2>2, TwoPositions
    <2>4. \E b \in Blocks(distinct, maxSize) : <<i, j>> \in Ascending(b)
      <3>1. Len(distinct) <= maxSize
        BY <1>1, <1>6
      <3>2. distinct \in Seq(U) /\ \A k, l \in DOMAIN distinct : distinct[k] = distinct[l] => k = l
        BY <1>1
      <3>3. U \in SUBSET Seq(Int) /\ i < j
        BY <1>2, <2>3
      <3> QED
        BY <3>1, <3>2, <3>3, OneEditCompared
    <2>5. Apart(<<i, j>>) = g
      BY <2>3
    <2> QED
      BY <2>4, <2>5
  <1>7. MinPairwise(texts, maxSize) = {} => 1 \notin Gaps(words)
    BY <1>3, <1>5
  <1>8. ASSUME NEW r \in MinPairwise(texts, maxSize)
        PROVE  IsClosestOf(words, maxSize, r)
    <2>0. PICK b \in Blocks(distinct, maxSize) : \E p \in Ascending(b) : r = Found(distinct, p)
      BY <1>3
    <2>1. PICK p \in Ascending(b) : r = Found(distinct, p)
      BY <2>0
    <2>2. p[1] \in DOMAIN distinct /\ p[2] \in DOMAIN distinct /\ p[1] < p[2]
      <3>1. b \in SUBSET DOMAIN distinct
        BY BlocksType
      <3> QED
        BY <2>1, <3>1 DEF Ascending
    <2>3. r.pair[1] = distinct[p[1]] /\ r.pair[2] = distinct[p[2]] /\ r.mpd = Apart(p)
      BY <2>1 DEF Found
    <2>4. r.pair[1] \in words /\ r.pair[2] \in words /\ r.mpd = Levenshtein(r.pair[1], r.pair[2])
      BY <1>1, <2>2, <2>3 DEF ToSet
    <2>5. r.pair[1] # r.pair[2]
      <3>1. p[1] # p[2]
        <4>1. p[1] \in Int /\ p[2] \in Int
          BY <1>1, <2>2, SequenceDomain
        <4> QED
          BY <2>2, <4>1
      <3> QED
        BY <1>1, <2>2, <2>3, <3>1
    <2>6. r.mpd \in Gaps(words) /\ r.mpd <= High
      <3>1. r.mpd # 0 /\ r.mpd <= High
        BY <1>2, <2>4, <2>5, WordsType
      <3> QED
        BY <2>4, <3>1 DEF Gaps
    <2>7. Min(Gaps(words)) \in Gaps(words) /\ \A g \in Gaps(words) : Min(Gaps(words)) <= g
      BY <1>4, <2>6, MinMember
    <2>8. \A c \in Blocks(distinct, maxSize) : \A q \in Ascending(c) : r.mpd <= Apart(q)
      BY <1>3
    <2>9. CASE Cardinality(words) <= maxSize
      <3>1. r.mpd <= Min(Gaps(words))
        BY <1>6, <2>7, <2>8, <2>9
      <3>2. Min(Gaps(words)) <= r.mpd
        BY <2>6, <2>7
      <3>3. r.mpd \in Nat /\ Min(Gaps(words)) \in Nat
        BY <1>4, <2>6, <2>7
      <3>4. r.mpd = Min(Gaps(words))
        BY <3>1, <3>2, <3>3
      <3> QED
        BY <2>4, <2>5, <2>6, <3>4 DEF IsClosestOf
    <2>10. CASE 1 \in Gaps(words) /\ ~IsThinned(words, maxSize)
      <3>1. r.mpd <= 1
        BY <1>5, <2>8, <2>10
      <3>2. Min(Gaps(words)) <= 1 /\ Min(Gaps(words)) \in Nat /\ Min(Gaps(words)) # 0
        BY <1>4, <2>7, <2>10
      <3>3. r.mpd \in Nat /\ r.mpd # 0
        BY <1>4, <2>6
      <3>4. r.mpd = Min(Gaps(words))
        BY <3>1, <3>2, <3>3
      <3> QED
        BY <2>4, <2>5, <2>6, <3>4 DEF IsClosestOf
    <2> QED
      BY <2>4, <2>5, <2>6, <2>9, <2>10 DEF IsClosestOf
  <1> QED
    BY <1>7, <1>8

\* What dropping a word makes of the words of a column.
IsMended(words, left, maxSize, o) ==
  /\ \E w \in left : \E u \in words \ left : words = left \cup {u} /\ Levenshtein(u, w) = o.before
  /\ Cardinality(words) <= maxSize \/ (1 \in Gaps(words) /\ ~IsThinned(words, maxSize)) =>
       o.before = Min(Gaps(words))
  /\ Cardinality(words) <= maxSize => o.before <= o.after

\* Dropping the first word of the closest pair removes it and nothing else; the other word,
\* at the distance reported, stays.
LEMMA SpellingRepaired ==
  ASSUME NEW V, Words({v.text : v \in V}), NEW values \in Seq(V), NEW maxSize \in Nat, maxSize >= 2,
         NEW o, o \in PerturbSpelling(values, maxSize),
         NEW words, words = {v.text : v \in ToSet(values)},
         NEW left, left = {v.text : v \in ToSet(Without(values, o.dropped))}
  PROVE  IsMended(words, left, maxSize, o)
  <1> DEFINE U == {v.text : v \in V}
             texts == TextsOf(values)
  <1>r. \A positions : ToSet(Without(values, positions)) = {values[i] : i \in DOMAIN values \ positions}
    <2> SUFFICES ASSUME NEW positions
                 PROVE  ToSet(Without(values, positions)) = {values[i] : i \in DOMAIN values \ positions}
      OBVIOUS
    <2>1. values \in Seq(V)
      OBVIOUS
    <2> QED
      BY <2>1, WithoutType
  <1>1. PICK r \in MinPairwise(texts, maxSize) : o = Misspelled(values, r, maxSize)
    BY DEF PerturbSpelling
  <1> DEFINE dropped == Occurrences(texts, r.pair[1])
             others == Without(texts, dropped)
             again == MinPairwise(others, maxSize)
  <1>2. o.dropped = dropped /\ o.before = r.mpd
    BY <1>1 DEF Misspelled
  <1>3. o.after = IF again = {} THEN High ELSE (CHOOSE q \in again : TRUE).mpd
    BY <1>1 DEF Misspelled
  <1>4. texts \in Seq(U) /\ DOMAIN texts = DOMAIN values /\ \A i \in DOMAIN values : texts[i] = values[i].text
    <2>1. Len(values) \in Nat /\ DOMAIN values = 1..Len(values) /\ \A i \in DOMAIN values : values[i] \in V
      BY SequenceDomain
    <2> QED
      BY <2>1 DEF TextsOf
  <1>5. words = ToSet(texts)
    BY <1>4 DEF ToSet
  <1>6. left = {texts[i] : i \in DOMAIN texts \ dropped}
    <2>1. ToSet(Without(values, dropped)) = {values[i] : i \in DOMAIN values \ dropped}
      BY <1>r
    <2> QED
      BY <1>2, <1>4, <2>1
  <1>0. Words(U) /\ Distances(U)
    BY WordsType
  <1> HIDE DEF texts, U
  <1>7. others \in Seq(U) /\ ToSet(others) = left
    BY <1>4, <1>6, WithoutType
  <1>8. IsClosestOf(words, maxSize, r)
    BY <1>0, <1>4, <1>5, ClosestWords
  <1>9. left = words \ {r.pair[1]}
    BY <1>5, <1>6 DEF ToSet, Occurrences
  <1>10. \E w \in left : \E u \in words \ left : words = left \cup {u} /\ Levenshtein(u, w) = o.before
    <2>1. r.pair[2] \in left /\ r.pair[1] \in words \ left /\ words = left \cup {r.pair[1]}
      BY <1>8, <1>9 DEF IsClosestOf
    <2> QED
      BY <1>2, <1>8, <2>1 DEF IsClosestOf
  <1>11. ASSUME Cardinality(words) <= maxSize PROVE o.before <= o.after
    <2>1. CASE again = {}
      BY <1>2, <1>3, <1>8, <2>1 DEF IsClosestOf
    <2>2. CASE again # {}
      <3> DEFINE q == CHOOSE q \in again : TRUE
      <3>1. q \in MinPairwise(others, maxSize) /\ o.after = q.mpd
        BY <1>3, <2>2
      <3> HIDE DEF q, again, others
      <3>2. IsClosestOf(left, maxSize, q)
        BY <1>0, <1>7, <3>1, ClosestWords
      <3>3. words \in SUBSET U /\ left \in SUBSET words
        BY <1>4, <1>5, <1>9, SequenceDomain
      <3>4. Gaps(words) \in SUBSET Nat /\ q.mpd \in Gaps(words)
        <4>1. Gaps(words) \in SUBSET Nat /\ Gaps(left) \in SUBSET Gaps(words)
          BY <1>0, <3>3, GapsType
        <4> QED
          BY <3>2, <4>1 DEF IsClosestOf
      <3>5. Min(Gaps(words)) <= q.mpd
        BY <3>4, MinMember
      <3>6. o.before = Min(Gaps(words))
        BY <1>2, <1>8, <1>11 DEF IsClosestOf
      <3> QED
        BY <3>1, <3>5, <3>6
    <2> QED
      BY <2>1, <2>2
  <1> QED
    BY <1>2, <1>8, <1>10, <1>11 DEF IsClosestOf, IsMended

-----------------------------------------------------------------------------
\* What scoring an item comes to.

Carries(a, o) == a.before = o.before /\ a.after = o.after /\ a.dropped = o.dropped

\* A scored item has enough values and carries the outcome of its perturbation; only a column
\* of words none of which were compared fails.
LEMMA AttemptOutcome ==
  ASSUME NEW V, Values(V), NEW type \in ErrorTypes, NEW item,
         type # "functional_dependency" => item.values \in Seq(V),
         type = "functional_dependency" => item.values \in Seq(V \X V),
         NEW side, NEW map, NEW config, NEW a, a = Attempt(side, type, item, map, config)
  PROVE  /\ a.result = "failed" =>
              type = "spelling" /\ MinPairwise(TextsOf(item.values), config.blockSize) = {}
         /\ a.result = "scored" =>
              /\ type = "uniqueness" =>
                   Len(item.values) >= 5 /\ Carries(a, PerturbUniqueness(item.values, config.epsilon))
              /\ type = "functional_dependency" =>
                   Len(item.values) >= 5 /\ Carries(a, PerturbFunctionalDependency(item.values, config.epsilon))
              /\ type = "numeric_outlier" =>
                   Len(Finite(item.values)) >= 5 /\ Carries(a, PerturbNumericOutlier(item.values))
              /\ type = "spelling" => \E o \in PerturbSpelling(item.values, config.blockSize) : Carries(a, o)
  <1>1. CASE type = "uniqueness"
    <2>1. Len(item.values) \in Nat
      BY <1>1
    <2>2. a = ScoreUniqueness(side, item, map, config)
      BY <1>1 DEF Attempt
    <2>3. a.result # "failed"
      BY <2>2 DEF ScoreUniqueness, TooFew, Unscored, IfFlagged, Scored
    <2>4. ASSUME a.result = "scored"
          PROVE  Len(item.values) >= 5 /\ Carries(a, PerturbUniqueness(item.values, config.epsilon))
      <3>1. Len(item.values) >= 5
        BY <2>1, <2>2, <2>4 DEF ScoreUniqueness, TooFew, Unscored, MinRows, ErrorTypes
      <3>2. Carries(a, PerturbUniqueness(item.values, config.epsilon))
        BY <2>2, <2>4 DEF ScoreUniqueness, TooFew, Unscored, IfFlagged, Scored, Carries
      <3> QED
        BY <3>1, <3>2
    <2> QED
      BY <1>1, <2>3, <2>4
  <1>2. CASE type = "functional_dependency"
    <2>1. Len(item.values) \in Nat
      BY <1>2
    <2>2. a = ScoreFunctionalDependency(side, item, map, config)
      BY <1>2 DEF Attempt
    <2>3. a.result # "failed"
      BY <2>2 DEF ScoreFunctionalDependency, TooFew, Unscored, IfFlagged, Scored
    <2>4. ASSUME a.result = "scored"
          PROVE  Len(item.values) >= 5 /\ Carries(a, PerturbFunctionalDependency(item.values, config.epsilon))
      <3>1. Len(item.values) >= 5
        BY <2>1, <2>2, <2>4 DEF ScoreFunctionalDependency, TooFew, Unscored, MinRows, ErrorTypes
      <3>2. Carries(a, PerturbFunctionalDependency(item.values, config.epsilon))
        BY <2>2, <2>4 DEF ScoreFunctionalDependency, TooFew, Unscored, IfFlagged, Scored, Carries
      <3> QED
        BY <3>1, <3>2
    <2> QED
      BY <1>2, <2>3, <2>4
  <1>3. CASE type = "numeric_outlier"
    <2>1. Len(Finite(item.values)) \in Nat
      BY <1>3, NumbersType
    <2>2. a = ScoreNumericOutlier(side, item, config)
      BY <1>3 DEF Attempt
    <2>3. a.result # "failed"
      BY <2>2 DEF ScoreNumericOutlier, TooFew, Unscored, Scored
    <2>4. ASSUME a.result = "scored"
          PROVE  Len(Finite(item.values)) >= 5 /\ Carries(a, PerturbNumericOutlier(item.values))
      <3>1. Len(Finite(item.values)) >= 5
        BY <2>1, <2>2, <2>4 DEF ScoreNumericOutlier, TooFew, Unscored, MinRows, ErrorTypes
      <3>2. Carries(a, PerturbNumericOutlier(item.values))
        BY <2>2, <2>4 DEF ScoreNumericOutlier, TooFew, Unscored, Scored, Carries
      <3> QED
        BY <3>1, <3>2
    <2> QED
      BY <1>3, <2>3, <2>4
  <1>4. CASE type = "spelling"
    <2> DEFINE outcomes == PerturbSpelling(item.values, config.blockSize)
               scores == {Scored(SpellingBucket(item, o.pair, config), o) : o \in outcomes}
    <2>1. a = IF Len(item.values) < MinRows["spelling"] THEN TooFew(side)
              ELSE IF Cardinality(ToSet(TextsOf(item.values))) < 2 THEN Unscored("notApplicable")
              ELSE IF scores = {} THEN Unscored("failed")
              ELSE CHOOSE score \in scores : TRUE
      BY <1>4 DEF Attempt, ScoreSpelling
    <2>2. \A score \in scores : score.result = "scored" /\ \E o \in outcomes : Carries(score, o)
      <3> SUFFICES ASSUME NEW o \in outcomes
                   PROVE  /\ Scored(SpellingBucket(item, o.pair, config), o).result = "scored"
                          /\ Carries(Scored(SpellingBucket(item, o.pair, config), o), o)
        OBVIOUS
      <3> HIDE DEF outcomes
      <3> QED
        BY DEF Scored, Carries
    <2>3. scores = {} => outcomes = {}
      OBVIOUS
    <2>4. outcomes = {} => MinPairwise(TextsOf(item.values), config.blockSize) = {}
      BY DEF PerturbSpelling
    <2> HIDE DEF scores, outcomes
    <2>5. a.result = "failed" => scores = {}
      BY <2>1, <2>2 DEF TooFew, Unscored
    <2>6. a.result = "scored" => a \in scores
      BY <2>1 DEF TooFew, Unscored
    <2> QED
      BY <1>4, <2>2, <2>3, <2>4, <2>5, <2>6 DEF outcomes
  <1> QED
    BY <1>1, <1>2, <1>3, <1>4 DEF ErrorTypes

=============================================================================
