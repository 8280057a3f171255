----------------------------- MODULE OrderLemmas -----------------------------
(***************************************************************************)
(* Finite sets and their orders: a least natural, induction over a finite  *)
(* set, the image of a finite set, a member where a number is least, the   *)
(* k-th member of an order, a union, a function defined by recursion.  The *)
(* inductions are stated for a set, so that a proof can name it.           *)
(***************************************************************************)
EXTENDS Integers, FiniteSets, FiniteSetTheorems, WellFoundedInduction, NaturalsInduction, TLAPS

\* Every set of naturals with a member has a least one.
LEMMA LeastNatural ==
  ASSUME NEW T \in SUBSET Nat, T # {}
  PROVE  \E x \in T : \A y \in T : x <= y
  <1> DEFINE R == OpToRel(<, Nat)
  <1>1. IsWellFoundedOn(R, Nat)
    BY NatLessThanWellFounded
  <1>2. PICK x \in T : \A y \in T : ~(<<y, x>> \in R)
    <2> HIDE DEF R
    <2> QED
      BY <1>1, WFMin
  <1>3. \A y \in T : <<y, x>> \in R <=> y < x
    BY DEF OpToRel
  <1>4. \A y \in T : ~(y < x)
    BY <1>2, <1>3, Zenon
  <1>5. \A y \in T : x <= y
    <2> HIDE DEF R
    <2> QED
      BY <1>4
  <1> QED
    BY <1>5

\* A set of naturals that has 0 and every successor of a member has all of them.
LEMMA NaturalInduction ==
  ASSUME NEW F, 0 \in F, \A n \in Nat : n \in F => n + 1 \in F
  PROVE  Nat \subseteq F
  <1> SUFFICES ASSUME Nat \ F # {} PROVE FALSE
    OBVIOUS
  <1>1. PICK n \in Nat \ F : \A m \in Nat \ F : n <= m
    BY LeastNatural
  <1>2. n # 0 /\ n - 1 \in Nat
    BY <1>1
  <1>3. n - 1 \in F
    BY <1>1, <1>2
  <1> QED
    BY <1>1, <1>2, <1>3

\* A collection of sets that has the empty one, and with a set every extension of it by a
\* member of S, has S.
LEMMA FiniteInduction ==
  ASSUME NEW S, IsFiniteSet(S), NEW F, {} \in F,
         \A T \in F : \A x \in S \ T : T \subseteq S => T \cup {x} \in F
  PROVE  S \in F
  <1>1. PICK n \in Nat : ExistsSurjection(1..n, S)
    BY FS_NatSurjection
  <1>2. PICK f \in [1..n -> S] : \A x \in S : \E i \in 1..n : f[i] = x
    BY <1>1 DEF ExistsSurjection, Surjection
  <1> DEFINE Upto(m) == {f[i] : i \in 1..m}
             N == {m \in Nat : m <= n => Upto(m) \in F}
  <1>3. 0 \in N
    <2>1. Upto(0) = {}
      OBVIOUS
    <2> QED
      BY <2>1
  <1>4. ASSUME NEW m \in Nat, m \in N PROVE m + 1 \in N
    <2> SUFFICES ASSUME m + 1 <= n PROVE Upto(m + 1) \in F
      <3> HIDE DEF Upto
      <3> QED
        OBVIOUS
    <2>1. Upto(m) \in F /\ m + 1 \in 1..n
      <3> HIDE DEF Upto
      <3> QED
        BY <1>4
    <2>2. Upto(m + 1) = Upto(m) \cup {f[m + 1]}
      OBVIOUS
    <2>3. Upto(m) \subseteq S /\ f[m + 1] \in S
      BY <1>2, <2>1
    <2> HIDE DEF Upto
    <2>4. CASE f[m + 1] \in Upto(m)
      <3>1. Upto(m + 1) = Upto(m)
        BY <2>2, <2>4
      <3> QED
        BY <2>1, <3>1
    <2>5. CASE f[m + 1] \notin Upto(m)
      BY <2>1, <2>2, <2>3, <2>5
    <2> QED
      BY <2>4, <2>5
  <1>5. Nat \subseteq N
    <2> HIDE DEF N
    <2> QED
      BY <1>3, <1>4, NaturalInduction
  <1>6. Upto(n) \in F
    <2>1. n \in N
      BY <1>5
    <2> HIDE DEF Upto
    <2> QED
      BY <2>1
  <1>7. Upto(n) = S
    BY <1>2
  <1> QED
    BY <1>6, <1>7

\* What a function takes finitely many members to is finite, and no more.
LEMMA ImageFinite ==
  ASSUME NEW S, IsFiniteSet(S), NEW f, S \subseteq DOMAIN f
  PROVE  /\ IsFiniteSet({f[x] : x \in S})
         /\ Cardinality({f[x] : x \in S}) <= Cardinality(S)
  <1> DEFINE T == {f[x] : x \in S}
             g == [x \in S |-> f[x]]
  <1>1. g \in Surjection(S, T)
    BY DEF Surjection
  <1> HIDE DEF T, g
  <1>2. IsFiniteSet(T) /\ Cardinality(T) <= Cardinality(S)
    BY <1>1, FS_Surjection
  <1> QED
    BY <1>2 DEF T

\* A finite set with a member has one where a number is least.
LEMMA LeastMember ==
  ASSUME NEW S, IsFiniteSet(S), S # {}, NEW f, \A x \in S : f[x] \in Int
  PROVE  \E x \in S : \A y \in S : f[x] <= f[y]
  <1> DEFINE HasLeast(T) == T # {} => \E x \in T : \A y \in T : f[x] <= f[y]
             F == {T \in SUBSET S : HasLeast(T)}
  <1>1. {} \in F
    OBVIOUS
  <1>2. ASSUME NEW T \in F, NEW z \in S \ T PROVE T \cup {z} \in F
    <2>1. CASE T = {}
      BY <2>1
    <2>2. CASE T # {}
      <3>1. PICK x \in T : \A y \in T : f[x] <= f[y]
        BY <2>2
      <3>2. CASE f[x] <= f[z]
        BY <3>1, <3>2
      <3>3. CASE f[z] < f[x]
        <4>1. \A y \in T \cup {z} : f[z] <= f[y]
          BY <3>1, <3>3
        <4> QED
          BY <4>1
      <3> QED
        BY <3>2, <3>3
    <2> QED
      BY <2>1, <2>2
  <1>3. S \in F
    <2> HIDE DEF F
    <2> QED
      BY <1>1, <1>2, FiniteInduction
  <1> QED
    BY <1>3

\* And one where it is greatest.
LEMMA GreatestMember ==
  ASSUME NEW S, IsFiniteSet(S), S # {}, NEW f, \A x \in S : f[x] \in Int
  PROVE  \E x \in S : \A y \in S : f[y] <= f[x]
  <1> DEFINE g == [x \in S |-> 0 - f[x]]
  <1>1. PICK x \in S : \A y \in S : g[x] <= g[y]
    <2>1. \A x \in S : g[x] \in Int
      OBVIOUS
    <2> HIDE DEF g
    <2> QED
      BY <2>1, LeastMember
  <1> QED
    BY <1>1

-----------------------------------------------------------------------------
\* Strict orders, as sets of pairs.
Below(S, order, x) == {y \in S : <<y, x>> \in order}
NotAfter(S, order, x) == {y \in S : <<x, y>> \notin order}

IsStrictOrder(S, order) ==
  /\ \A x \in S : <<x, x>> \notin order
  /\ \A x, y, z \in S : <<x, y>> \in order /\ <<y, z>> \in order => <<x, z>> \in order

\* What comes earlier has less before it.
LEMMA FewerBelow ==
  ASSUME NEW S, IsFiniteSet(S), NEW order, IsStrictOrder(S, order),
         NEW x \in S, NEW y \in S, <<x, y>> \in order
  PROVE  Cardinality(Below(S, order, x)) < Cardinality(Below(S, order, y))
  <1>1. /\ Below(S, order, x) \in SUBSET Below(S, order, y)
        /\ x \in Below(S, order, y) /\ x \notin Below(S, order, x)
    BY DEF Below, IsStrictOrder
  <1>2. IsFiniteSet(Below(S, order, y))
    BY FS_Subset DEF Below
  <1>3. /\ Cardinality(Below(S, order, x)) <= Cardinality(Below(S, order, y))
        /\ Cardinality(Below(S, order, x)) # Cardinality(Below(S, order, y))
        /\ IsFiniteSet(Below(S, order, x))
    BY <1>1, <1>2, FS_Subset
  <1> QED
    BY <1>2, <1>3, FS_CardinalityType

\* How many come before a member, and how many do not come after it.
LEMMA RankType ==
  ASSUME NEW S, IsFiniteSet(S), NEW order, NEW x
  PROVE  /\ IsFiniteSet(Below(S, order, x)) /\ Cardinality(Below(S, order, x)) \in Nat
         /\ IsFiniteSet(NotAfter(S, order, x)) /\ Cardinality(NotAfter(S, order, x)) \in Nat
  <1>1. Below(S, order, x) \in SUBSET S /\ NotAfter(S, order, x) \in SUBSET S
    BY DEF Below, NotAfter
  <1> QED
    BY <1>1, FS_Subset, FS_CardinalityType

\* There is a k-th member: fewer than k come before it, at least k do not come after it.
LEMMA KthExists ==
  ASSUME NEW S, IsFiniteSet(S), NEW order, IsStrictOrder(S, order), NEW k \in 1..Cardinality(S)
  PROVE  \E x \in S : /\ Cardinality(Below(S, order, x)) < k
                      /\ Cardinality(NotAfter(S, order, x)) >= k
  <1> DEFINE rank == [x \in S |-> Cardinality(Below(S, order, x))]
             T == {x \in S : rank[x] < k}
  <1>1. \A x \in S : rank[x] \in Nat
    BY RankType
  <1>2. \A x, y \in S : <<x, y>> \in order => rank[x] < rank[y]
    BY FewerBelow
  <1>3. \A x \in S : Cardinality(NotAfter(S, order, x)) \in Nat
    BY RankType
  <1>4. Cardinality(S) \in Nat /\ S # {}
    BY FS_CardinalityType, FS_EmptySet
  <1>5. T # {}
    <2>1. PICK x \in S : \A y \in S : rank[x] <= rank[y]
      <3> HIDE DEF rank
      <3> QED
        BY <1>1, <1>4, LeastMember
    <2>2. Below(S, order, x) = {}
      <3> SUFFICES ASSUME NEW y \in S, <<y, x>> \in order PROVE FALSE
        BY DEF Below
      <3> HIDE DEF rank
      <3> QED
        BY <1>1, <1>2, <2>1
    <2>3. x \in S /\ rank[x] = 0
      BY <2>2, FS_EmptySet
    <2>4. 0 < k
      BY <1>4
    <2> HIDE DEF rank
    <2> QED
      BY <2>3, <2>4
  <1>6. T \in SUBSET S /\ IsFiniteSet(T)
    BY FS_Subset
  <1>7. PICK x \in T : \A y \in T : rank[y] <= rank[x]
    <2> HIDE DEF rank
    <2> QED
      BY <1>1, <1>5, <1>6, GreatestMember
  <1> SUFFICES ASSUME Cardinality(NotAfter(S, order, x)) < k PROVE FALSE
    BY <1>3, <1>6, <1>7
  <1> DEFINE A == {y \in S : <<x, y>> \in order}
  <1>8. A # {}
    <2> SUFFICES ASSUME A = {} PROVE FALSE
      OBVIOUS
    <2>1. NotAfter(S, order, x) = S
      BY DEF NotAfter
    <2> QED
      BY <1>4, <2>1
  <1>9. A \in SUBSET S /\ IsFiniteSet(A)
    BY FS_Subset
  <1>10. PICK y \in A : \A z \in A : rank[y] <= rank[z]
    <2> HIDE DEF rank, A
    <2> QED
      BY <1>1, <1>8, <1>9, LeastMember
  <1>11. Below(S, order, y) \in SUBSET NotAfter(S, order, x)
    <2> SUFFICES ASSUME NEW z \in S, <<z, y>> \in order, <<x, z>> \in order PROVE FALSE
      BY DEF Below, NotAfter
    <2> HIDE DEF rank
    <2> QED
      BY <1>1, <1>2, <1>10
  <1>12. rank[y] <= Cardinality(NotAfter(S, order, x))
    BY <1>11, RankType, FS_Subset
  <1>13. rank[x] < rank[y] /\ y \in T
    <2> HIDE DEF rank
    <2>1. x \in S /\ y \in S /\ <<x, y>> \in order
      BY <1>6, <1>7, <1>10
    <2> QED
      BY <1>1, <1>2, <1>3, <1>4, <1>12, <2>1
  <1> QED
    <2> HIDE DEF rank, T
    <2> QED
      BY <1>1, <1>6, <1>7, <1>13

-----------------------------------------------------------------------------
\* A strict order has a minimal member.
LEMMA MinimalMember ==
  ASSUME NEW S, IsFiniteSet(S), S # {}, NEW order, IsStrictOrder(S, order)
  PROVE  \E x \in S : \A y \in S : <<y, x>> \notin order
  <1> DEFINE rank == [x \in S |-> Cardinality(Below(S, order, x))]
  <1>1. \A x \in S : rank[x] \in Int
    BY RankType
  <1>2. PICK x \in S : \A y \in S : rank[x] <= rank[y]
    <2> HIDE DEF rank
    <2> QED
      BY <1>1, LeastMember
  <1>3. ASSUME NEW y \in S, <<y, x>> \in order PROVE FALSE
    <2>1. rank[y] < rank[x]
      BY <1>3, FewerBelow
    <2> HIDE DEF rank
    <2> QED
      BY <1>1, <1>2, <2>1
  <1> QED
    BY <1>3

\* The smaller of two finite sets fits into the other one.
LEMMA InjectionExists ==
  ASSUME NEW S, IsFiniteSet(S), NEW T, IsFiniteSet(T), Cardinality(S) <= Cardinality(T)
  PROVE  \E f : /\ f \in [S -> T]
                /\ \A x, y \in S : f[x] = f[y] => x = y
  <1> DEFINE m == Cardinality(S)
             n == Cardinality(T)
  <1>1. m \in Nat /\ n \in Nat /\ ExistsBijection(1..m, S) /\ ExistsBijection(1..n, T)
    BY FS_CardinalityType
  <1>2. PICK g : g \in Bijection(1..m, S)
    BY <1>1 DEF ExistsBijection
  <1>3. PICK h : h \in Bijection(1..n, T)
    BY <1>1 DEF ExistsBijection
  <1> HIDE DEF m, n
  <1>4. /\ g \in [1..m -> S] /\ \A x \in S : \E k \in 1..m : g[k] = x
        /\ h \in [1..n -> T] /\ \A j, k \in 1..n : h[j] = h[k] => j = k
    BY <1>2, <1>3 DEF Bijection, Injection, Surjection, IsInjective
  <1> DEFINE at == [x \in S |-> CHOOSE k \in 1..m : g[k] = x]
             f == [x \in S |-> h[at[x]]]
  <1>5. \A x \in S : at[x] \in 1..m /\ g[at[x]] = x
    BY <1>4
  <1> HIDE DEF at
  <1>6. \A x \in S : at[x] \in 1..n
    BY <1>1, <1>5 DEF m, n
  <1>7. f \in [S -> T]
    BY <1>4, <1>6
  <1>8. ASSUME NEW x \in S, NEW y \in S, f[x] = f[y] PROVE x = y
    <2>1. at[x] = at[y]
      BY <1>4, <1>6, <1>8
    <2> QED
      BY <1>5, <2>1
  <1> QED
    BY <1>7, <1>8

\* An injection bounds the cardinality.
LEMMA InjectionBounds ==
  ASSUME NEW S, NEW T, IsFiniteSet(T), NEW f \in [S -> T], \A x, y \in S : f[x] = f[y] => x = y
  PROVE  IsFiniteSet(S) /\ Cardinality(S) <= Cardinality(T)
  <1>1. f \in Injection(S, T)
    BY DEF Injection, IsInjective
  <1> QED
    BY <1>1, FS_Injection

\* A function that starts with base and takes every value from the one before it.
Recurses(base, step, n, f) == f[0] = base /\ \A k \in 1 .. n : f[k] = step[k][f[k - 1]]

\* Primitive recursion defines a function.
LEMMA Recursion ==
  ASSUME NEW D, NEW n \in Nat, NEW base \in D, NEW step \in [1 .. n -> [D -> D]]
  PROVE  \E f \in [0 .. n -> D] : Recurses(base, step, n, f)
<1> DEFINE Upto(m, f) == f[0] = base /\ \A k \in 1 .. m : f[k] = step[k][f[k - 1]]
           Defined(m) == m <= n => \E f \in [0 .. m -> D] : Upto(m, f)
           N == {m \in Nat : Defined(m)}
<1>1. Defined(0)
  <2>1. [k \in 0 .. 0 |-> base] \in [0 .. 0 -> D] /\ Upto(0, [k \in 0 .. 0 |-> base])
    OBVIOUS
  <2> QED BY <2>1
<1>2. ASSUME NEW m \in Nat, Defined(m) PROVE Defined(m + 1)
  <2> SUFFICES ASSUME m + 1 <= n PROVE \E f \in [0 .. m + 1 -> D] : Upto(m + 1, f)
    OBVIOUS
  <2>1. PICK f \in [0 .. m -> D] : Upto(m, f)
    <3>1. m <= n
      OBVIOUS
    <3> HIDE DEF Upto
    <3> QED BY <1>2, <3>1
  <2> DEFINE g == [k \in 0 .. m + 1 |-> IF k = m + 1 THEN step[m + 1][f[m]] ELSE f[k]]
  <2>2. step[m + 1][f[m]] \in D
    OBVIOUS
  <2>3. g \in [0 .. m + 1 -> D]
    BY <2>2
  <2>4. Upto(m + 1, g)
    BY <2>1
  <2> QED BY <2>3, <2>4
<1>3. Nat \subseteq N
  <2> HIDE DEF Defined
  <2>1. 0 \in N /\ \A m \in Nat : m \in N => m + 1 \in N
    BY <1>1, <1>2
  <2> HIDE DEF N
  <2> QED BY <2>1, NaturalInduction
<1>4. Defined(n)
  BY <1>3
<1> QED BY <1>4 DEF Recurses

\* What holds at m if it holds at all before m, holds up to n.
LEMMA StrongInduction ==
  ASSUME NEW n \in Nat, NEW F, \A m \in 0 .. n : 0 .. m - 1 \subseteq F => m \in F
  PROVE  0 .. n \subseteq F
<1> SUFFICES ASSUME (0 .. n) \ F # {} PROVE FALSE
  OBVIOUS
<1>1. (0 .. n) \ F \in SUBSET Nat
  OBVIOUS
<1>2. PICK m \in (0 .. n) \ F : \A k \in (0 .. n) \ F : m <= k
  BY <1>1, LeastNatural
<1>3. 0 .. m - 1 \subseteq F
  BY <1>2
<1> QED BY <1>2, <1>3

\* The cardinality of a union is at most the sum.
LEMMA UnionBound ==
  ASSUME NEW S, NEW T, NEW U, IsFiniteSet(S), IsFiniteSet(T), U \subseteq S \union T
  PROVE  Cardinality(U) \in Nat /\ Cardinality(U) <= Cardinality(S) + Cardinality(T)
<1>1. IsFiniteSet(S \cup T) /\ Cardinality(S \cup T) = Cardinality(S) + Cardinality(T) - Cardinality(S \cap T)
  BY FS_Union
<1>2. IsFiniteSet(U) /\ Cardinality(U) <= Cardinality(S \cup T)
  BY <1>1, FS_Subset
<1>3. IsFiniteSet(S \cap T)
  <2>1. S \cap T \in SUBSET S
    OBVIOUS
  <2> QED BY <2>1, FS_Subset
<1>4. Cardinality(S \cap T) \in Nat /\ Cardinality(S) \in Nat /\ Cardinality(T) \in Nat /\ Cardinality(U) \in Nat
  BY <1>2, <1>3, FS_CardinalityType
<1> QED BY <1>1, <1>2, <1>4

=============================================================================
