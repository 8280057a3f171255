------------------------- MODULE AutoValidateProofs -------------------------
(***************************************************************************)
(* Auto-Validate, for every corpus, column and configuration: matching is  *)
(* membership in P(v) where no "+" of a value is read as a length; the     *)
(* index is that of the corpus; what FMDV and FMDV-H infer condemns no     *)
(* more of a column than they were told to tolerate; the dynamic program   *)
(* of the vertical variants is optimal, and its segments fit together.     *)
(***************************************************************************)
EXTENDS AutoValidate, OrderLemmas

\* The nodes of the hierarchy, for all tokens.
Nodes ==
  {Literal(t.text) : t \in Tokens}
    \union {Class(c, n) : c \in Classes, n \in Nat \union {Plus}}
    \union {Class("num", 1)}

\* The parts that a pattern may have once it is read.
Parts ==
  Nodes \union {Literal(text) : text \in Range(AfterPlus)} \union {Class("num", Plus)}

-----------------------------------------------------------------------------
(* The k-th of a set of numbers is the one that k - 1 are below.           *)
LEMMA KthRow ==
  ASSUME NEW S \in SUBSET Nat, IsFiniteSet(S), NEW k \in 1 .. Cardinality(S)
  PROVE  \E i \in S : Cardinality({h \in S : h < i}) = k - 1
<1> DEFINE order == {p \in S \X S : p[1] < p[2]}
<1>1. \A x, y \in S : <<x, y>> \in order <=> x < y
  OBVIOUS
<1>2. IsStrictOrder(S, order)
  <2> HIDE DEF order
  <2> QED BY <1>1 DEF IsStrictOrder
<1> HIDE DEF order
<1>3. PICK i \in S : /\ Cardinality(Below(S, order, i)) < k
                     /\ Cardinality(NotAfter(S, order, i)) >= k
  BY <1>2, KthExists
<1>4. Below(S, order, i) = {h \in S : h < i}
  BY <1>1 DEF Below
<1>5. NotAfter(S, order, i) = Below(S, order, i) \cup {i} /\ i \notin Below(S, order, i)
  <2>1. NotAfter(S, order, i) = {h \in S : ~(i < h)}
    BY <1>1 DEF NotAfter
  <2>2. \A h \in S : ~(i < h) <=> h < i \/ h = i
    OBVIOUS
  <2> QED BY <1>4, <2>1, <2>2
<1>6. IsFiniteSet(Below(S, order, i)) /\ Cardinality(Below(S, order, i)) \in Nat
  BY RankType
<1>7. Cardinality(NotAfter(S, order, i)) = Cardinality(Below(S, order, i)) + 1
  BY <1>5, <1>6, FS_AddElement
<1>8. Cardinality(Below(S, order, i)) = k - 1
  <2>1. k \in Int
    OBVIOUS
  <2> QED BY <1>3, <1>6, <1>7, <2>1
<1> QED BY <1>4, <1>8

\* A sequence in the order of the numbers has the values of the function,
LEMMA InOrderRows ==
  ASSUME NEW solved, IsFiniteSet(DOMAIN solved), DOMAIN solved \in SUBSET Nat
  PROVE  /\ Cardinality(DOMAIN solved) \in Nat
         /\ DOMAIN InOrder(solved) = 1 .. Cardinality(DOMAIN solved)
         /\ \A k \in DOMAIN InOrder(solved) : \E r \in DOMAIN solved : InOrder(solved)[k] = solved[r]
<1> DEFINE rows == DOMAIN solved
           row(k) == CHOOSE i \in rows : Cardinality({h \in rows : h < i}) = k - 1
<1>1. InOrder(solved) = [k \in 1 .. Cardinality(rows) |-> solved[row(k)]]
  BY DEF InOrder
<1>2. Cardinality(rows) \in Nat
  BY FS_CardinalityType
<1>3. ASSUME NEW k \in 1 .. Cardinality(rows) PROVE row(k) \in rows
  <2>1. \E i \in rows : Cardinality({h \in rows : h < i}) = k - 1
    BY KthRow
  <2> HIDE DEF rows
  <2> QED BY <2>1
<1> HIDE DEF row, rows
<1> QED BY <1>1, <1>2, <1>3 DEF rows

\* all of them.
LEMMA InOrderCovers ==
  ASSUME NEW f, IsFiniteSet(DOMAIN f), DOMAIN f \in SUBSET Nat, NEW i \in DOMAIN f
  PROVE  \E k \in DOMAIN InOrder(f) : InOrder(f)[k] = f[i]
<1> DEFINE rows == DOMAIN f
           rank(h) == Cardinality({g \in rows : g < h})
           row(k) == CHOOSE h \in rows : rank(h) = k - 1
           k == rank(i) + 1
<1>1. InOrder(f) = [n \in 1 .. Cardinality(rows) |-> f[row(n)]]
  BY DEF InOrder
<1>2. ASSUME NEW h \in rows PROVE IsFiniteSet({g \in rows : g < h}) /\ rank(h) \in Nat
  <2>1. {g \in rows : g < h} \in SUBSET rows
    OBVIOUS
  <2>2. IsFiniteSet({g \in rows : g < h})
    BY <2>1, FS_Subset
  <2> QED BY <2>2, FS_CardinalityType
<1>3. ASSUME NEW g \in rows, NEW h \in rows, g < h PROVE rank(g) < rank(h)
  <2> DEFINE A == {x \in rows : x < g}
             B == {x \in rows : x < h}
  <2>1. A \cup {g} \in SUBSET B /\ g \notin A
    BY <1>3
  <2>2. IsFiniteSet(A) /\ IsFiniteSet(B) /\ Cardinality(A) \in Nat /\ Cardinality(B) \in Nat
    BY <1>2
  <2> HIDE DEF A, B
  <2>3. Cardinality(A \cup {g}) = Cardinality(A) + 1
    BY <2>1, <2>2, FS_AddElement
  <2>4. Cardinality(A \cup {g}) <= Cardinality(B)
    BY <2>1, <2>2, FS_Subset
  <2>5. Cardinality(A) < Cardinality(B)
    BY <2>2, <2>3, <2>4
  <2> QED BY <2>5 DEF A, B
<1>4. Cardinality(rows) \in Nat /\ rank(i) < Cardinality(rows)
  <2> DEFINE A == {x \in rows : x < i}
  <2>1. A \cup {i} \in SUBSET rows /\ i \notin A
    OBVIOUS
  <2>2. IsFiniteSet(A) /\ Cardinality(A) \in Nat
    BY <1>2
  <2>3. Cardinality(rows) \in Nat
    BY FS_CardinalityType
  <2> HIDE DEF A, rows
  <2>4. Cardinality(A \cup {i}) = Cardinality(A) + 1
    BY <2>1, <2>2, FS_AddElement
  <2>5. Cardinality(A \cup {i}) <= Cardinality(rows)
    BY <2>1, FS_Subset DEF rows
  <2>6. Cardinality(A) < Cardinality(rows)
    BY <2>2, <2>3, <2>4, <2>5
  <2> QED BY <2>3, <2>6 DEF A
<1>5. i \in rows /\ rank(i) \in Nat
  BY <1>2
<1>6. \A h \in rows : h \in Nat
  OBVIOUS
<1> HIDE DEF rank, rows
<1>7. k \in 1 .. Cardinality(rows) /\ rank(i) = k - 1
  BY <1>4, <1>5
<1>8. row(k) \in rows /\ rank(row(k)) = k - 1
  BY <1>5, <1>7
<1> HIDE DEF k, row
<1>9. row(k) = i
  <2>1. ~(row(k) < i) /\ ~(i < row(k))
    BY <1>2, <1>3, <1>5, <1>7, <1>8
  <2> QED BY <1>5, <1>6, <1>8, <2>1
<1>10. DOMAIN InOrder(f) = 1 .. Cardinality(rows) /\ InOrder(f)[k] = f[row(k)]
  BY <1>1, <1>7
<1> QED BY <1>7, <1>9, <1>10

(* A part matches a token exactly when the token generalizes to it: the    *)
(* hierarchy's nodes and its matcher are written independently             *)
(* (hierarchy.py:58 and hierarchy.py:230).                                 *)
LEMMA PartMatchesGeneralization ==
  ASSUME NEW t \in Tokens, NEW part \in Nodes
  PROVE  PartMatches(part, t) <=> part \in Generalizations(t)
<1> USE TokensAssumption
<1> DEFINE fits(c, n) == c \in {t.class} \union Broader(t) /\ n \in {Plus, t.length}
<1>1. part \in Generalizations(t) <=>
        \/ part = Literal(t.text)
        \/ \E c, n : fits(c, n) /\ part = Class(c, n)
        \/ t.class = "digit" /\ part = Class("num", 1)
  <2> DEFINE C == {t.class} \union Broader(t)
             N == {Plus, t.length}
             K == {Class(c, n) : c \in C, n \in N}
             D == IF t.class = "digit" THEN {Class("num", 1)} ELSE {}
  <2>1. part \in Generalizations(t) <=> part \in {Literal(t.text)} \/ part \in K \/ part \in D
    BY DEF Generalizations
  <2>2. part \in D <=> t.class = "digit" /\ part = Class("num", 1)
    OBVIOUS
  <2>3. part \in K <=> \E c \in C, n \in N : part = Class(c, n)
    <3> HIDE DEF C, N
    <3> QED OBVIOUS
  <2>4. part \in K <=> \E c, n : fits(c, n) /\ part = Class(c, n)
    <3> HIDE DEF K
    <3> QED BY <2>3, Zenon
  <2> HIDE DEF K, D, fits
  <2> QED BY <2>1, <2>2, <2>4
<1>2. \A c, d, n, k : Class(c, n) = Class(d, k) <=> c = d /\ n = k
  BY DEF Class
<1>3. \A c, n, x : Class(c, n) # Literal(x)
  BY DEF Class, Literal
<1>4. ~fits("num", 1)
  BY DEF Broader, Classes
<1>5. CASE part \in {Literal(s.text) : s \in Tokens}
  <2>1. PICK s \in Tokens : part = Literal(s.text)
    BY <1>5
  <2>2. part.kind = "literal" /\ part.text = s.text
    BY <2>1 DEF Literal
  <2>3. part = Literal(t.text) <=> s.text = t.text
    BY <2>1 DEF Literal
  <2> QED BY <1>1, <1>3, <2>1, <2>2, <2>3 DEF PartMatches
<1>6. CASE part = Class("num", 1)
  <2>1. PartMatches(part, t) <=> t.class = "digit"
    BY <1>6 DEF PartMatches, Class
  <2>2. part \in Generalizations(t) <=> t.class = "digit"
    <3> HIDE DEF fits
    <3> QED BY <1>1, <1>2, <1>3, <1>4, <1>6
  <2> QED BY <2>1, <2>2
<1>7. CASE \E c \in Classes, n \in Nat \union {Plus} : part = Class(c, n)
  <2>1. PICK c \in Classes, n \in Nat \union {Plus} : part = Class(c, n)
    BY <1>7
  <2>2. PartMatches(part, t) <=> fits(c, n)
    BY <2>1 DEF PartMatches, Class, Classes, Broader
  <2>3. c # "num"
    BY DEF Classes
  <2>4. part \in Generalizations(t) <=> fits(c, n)
    <3> HIDE DEF fits
    <3> QED BY <1>1, <1>2, <1>3, <2>1, <2>3
  <2> QED BY <2>2, <2>4
<1> QED BY <1>5, <1>6, <1>7 DEF Nodes

\* What a token generalizes to are nodes.
LEMMA GeneralizationsAreNodes ==
  ASSUME NEW t \in Tokens
  PROVE  /\ Generalizations(t) \subseteq Nodes
         /\ \A part \in Generalizations(t) : part.kind = "literal" => part = Literal(t.text)
<1>1. t.class \in Classes /\ t.length \in Nat
  BY TokensAssumption
<1>2. \A c \in {t.class} \union Broader(t) : c \in Classes
  BY <1>1 DEF Broader, Classes
<1>3. \A k \in {Plus, t.length} : k \in Nat \union {Plus}
  BY <1>1
<1>4. Literal(t.text) \in Nodes /\ Class("num", 1) \in Nodes
  BY DEF Nodes
<1>5. \A c \in {t.class} \union Broader(t), k \in {Plus, t.length} : Class(c, k) \in Nodes
  <2>1. \A c \in Classes, k \in Nat \union {Plus} : Class(c, k) \in Nodes
    BY DEF Nodes
  <2> QED BY <1>2, <1>3, <2>1
<1>6. \A c, k : Class(c, k).kind # "literal"
  BY DEF Class
<1> QED BY <1>4, <1>5, <1>6 DEF Generalizations

\* A product has one node for each token.
LEMMA ProductNodes ==
  ASSUME NEW v \in Seq(Tokens), NEW q \in Products(v)
  PROVE  /\ q \in Seq(Nodes) /\ Len(q) = Len(v) /\ DOMAIN q = 1 .. Len(v)
         /\ \A i \in 1 .. Len(v) :
              /\ v[i] \in Tokens /\ q[i] \in Nodes /\ q[i] \in Generalizations(v[i])
              /\ q[i].kind = "literal" => q[i] = Literal(v[i].text)
<1>1. /\ q \in [1 .. Len(v) -> UNION {Generalizations(v[i]) : i \in 1 .. Len(v)}]
      /\ \A i \in 1 .. Len(v) : q[i] \in Generalizations(v[i])
  BY DEF Products
<1>2. ASSUME NEW i \in 1 .. Len(v)
      PROVE  /\ v[i] \in Tokens /\ q[i] \in Nodes /\ q[i] \in Generalizations(v[i])
             /\ q[i].kind = "literal" => q[i] = Literal(v[i].text)
  <2>1. v[i] \in Tokens
    OBVIOUS
  <2> QED BY <1>1, <2>1, GeneralizationsAreNodes
<1>3. q \in [1 .. Len(v) -> Nodes] /\ Len(v) \in Nat
  BY <1>1, <1>2
<1> QED BY <1>2, <1>3

\* The parts that _parse keeps.
Kept(q) == [i \in {j \in DOMAIN q : ReadAs(q, j) # Literal(NoText)} |-> ReadAs(q, i)]

\* They are finitely many of the parts that are read.
LEMMA KeptParts ==
  ASSUME NEW v \in Seq(Tokens), NEW q \in Products(v)
  PROVE  /\ IsFiniteSet(DOMAIN Kept(q)) /\ DOMAIN Kept(q) \in SUBSET Nat
         /\ \A i \in DOMAIN Kept(q) : i \in DOMAIN q /\ Kept(q)[i] = ReadAs(q, i)
         /\ \A i \in DOMAIN q : ReadAs(q, i) # Literal(NoText) => i \in DOMAIN Kept(q)
         /\ Parsed(q) = IF \E i \in DOMAIN q : Joins(q, i) THEN InOrder(Kept(q)) ELSE q
<1> DEFINE D == {i \in DOMAIN q : ReadAs(q, i) # Literal(NoText)}
<1>1. Kept(q) = [i \in D |-> ReadAs(q, i)]
  BY DEF Kept
<1>2. DOMAIN q = 1 .. Len(v) /\ Len(v) \in Nat
  BY ProductNodes
<1>3. D \in SUBSET (1 .. Len(v)) /\ IsFiniteSet(1 .. Len(v))
  BY <1>2, FS_Interval
<1>4. IsFiniteSet(D) /\ D \in SUBSET Nat
  <2> HIDE DEF D
  <2>1. IsFiniteSet(D)
    BY <1>3, FS_Subset
  <2>2. D \in SUBSET Nat
    BY <1>3
  <2> QED BY <2>1, <2>2
<1>5. Parsed(q) = IF \E i \in DOMAIN q : Joins(q, i) THEN InOrder(Kept(q)) ELSE q
  BY DEF Parsed, Kept
<1> QED BY <1>1, <1>4, <1>5

\* A pattern of a value is a sequence of parts.
LEMMA PatternParts ==
  ASSUME NEW v \in Seq(Tokens), NEW tau, NEW p \in PatternsOf(v, tau)
  PROVE  p \in Seq(Parts)
<1>1. PICK q \in Products(v) : p = Parsed(q)
  BY DEF PatternsOf
<1>2. q \in Seq(Nodes) /\ DOMAIN q = 1 .. Len(v) /\ \A i \in 1 .. Len(v) : q[i] \in Nodes
  BY ProductNodes
<1>3. Nodes \subseteq Parts
  BY DEF Parts
<1>4. ASSUME NEW i \in DOMAIN q PROVE ReadAs(q, i) \in Parts
  <2>1. CASE Joins(q, i)
    <3>1. q[i] \in Nodes /\ q[i].kind = "class"
      BY <1>2, <2>1 DEF Joins
    <3>2. \E c \in Classes \union {"num"} : \E n : q[i] = Class(c, n)
      BY <3>1 DEF Nodes, Literal
    <3>3. q[i].class \in Classes \union {"num"}
      BY <3>2 DEF Class
    <3>4. \A c \in Classes \union {"num"} : Class(c, Plus) \in Parts
      BY DEF Parts, Nodes
    <3> QED BY <2>1, <3>3, <3>4 DEF ReadAs
  <2>2. CASE ~Joins(q, i) /\ Behind(q, i)
    <3>1. q[(i - 1) + 1].text \in DOMAIN AfterPlus
      BY <2>2 DEF Behind, Joins
    <3>2. i = (i - 1) + 1
      BY <1>2
    <3>3. AfterPlus[q[i].text] \in Range(AfterPlus)
      BY <3>1, <3>2 DEF Range
    <3> QED BY <2>2, <3>3 DEF ReadAs, Parts
  <2>3. CASE ~Joins(q, i) /\ ~Behind(q, i)
    BY <1>2, <1>3, <2>3 DEF ReadAs
  <2> QED BY <2>1, <2>2, <2>3
<1>5. CASE ~\E i \in DOMAIN q : Joins(q, i)
  <2>1. p = q
    BY <1>1, <1>5, KeptParts
  <2> QED BY <1>2, <1>3, <2>1
<1>6. CASE \E i \in DOMAIN q : Joins(q, i)
  <2> DEFINE K == Kept(q)
  <2>1. p = InOrder(K) /\ IsFiniteSet(DOMAIN K) /\ DOMAIN K \in SUBSET Nat
    BY <1>1, <1>6, KeptParts
  <2>2. \A i \in DOMAIN K : K[i] \in Parts
    BY <1>4, KeptParts
  <2> HIDE DEF K
  <2>3. /\ Cardinality(DOMAIN K) \in Nat
        /\ DOMAIN InOrder(K) = 1 .. Cardinality(DOMAIN K)
        /\ \A k \in DOMAIN InOrder(K) : \E r \in DOMAIN K : InOrder(K)[k] = K[r]
    BY <2>1, InOrderRows
  <2>4. \A k \in DOMAIN p : p[k] \in Parts
    BY <2>1, <2>2, <2>3
  <2>5. p = [k \in 1 .. Cardinality(DOMAIN K) |-> p[k]]
    BY <2>1, <2>3 DEF InOrder
  <2> QED BY <2>1, <2>3, <2>4, <2>5
<1> QED BY <1>5, <1>6

(* A "+" that is read as a length leaves a part of open length: a pattern  *)
(* with fixed lengths, and any pattern of a value without such a "+", is   *)
(* read as it was put together.                                            *)
LEMMA ReadAsWritten ==
  ASSUME NEW v \in Seq(Tokens), NEW q \in Products(v), FixedLengths(Parsed(q)) \/ NoPlus(v)
  PROVE  Parsed(q) = q /\ \A i \in DOMAIN q : ~Joins(q, i)
<1>1. DOMAIN q = 1 .. Len(v) /\ DOMAIN v = 1 .. Len(v)
      /\ \A i \in 1 .. Len(v) : q[i].kind = "literal" => q[i] = Literal(v[i].text)
  BY ProductNodes
<1>2. ASSUME NEW i \in DOMAIN q, Joins(q, i) PROVE FALSE
  <2>1. i + 1 \in DOMAIN q /\ q[i + 1].kind = "literal" /\ q[i + 1].text \in DOMAIN AfterPlus
    BY <1>2 DEF Joins
  <2>2. v[i + 1].text \in DOMAIN AfterPlus /\ i + 1 \in DOMAIN v
    BY <1>1, <2>1 DEF Literal
  <2>3. FixedLengths(Parsed(q))
    BY <2>2 DEF NoPlus
  <2>4. ReadAs(q, i) = Class(q[i].class, Plus)
    BY <1>2 DEF ReadAs
  <2>5. ReadAs(q, i) # Literal(NoText)
    BY <2>4 DEF Class, Literal
  <2> DEFINE K == Kept(q)
  <2>6. /\ IsFiniteSet(DOMAIN K) /\ DOMAIN K \in SUBSET Nat
        /\ i \in DOMAIN K /\ K[i] = ReadAs(q, i)
        /\ Parsed(q) = InOrder(K)
    BY <1>2, <2>5, KeptParts
  <2> HIDE DEF K
  <2>7. PICK k \in DOMAIN InOrder(K) : InOrder(K)[k] = K[i]
    BY <2>6, InOrderCovers
  <2>8. Parsed(q)[k].kind = "class" /\ Parsed(q)[k].count = Plus /\ k \in DOMAIN Parsed(q)
    BY <2>4, <2>6, <2>7 DEF Class
  <2> QED BY <2>3, <2>8 DEF FixedLengths
<1>3. Parsed(q) = q
  BY <1>2, KeptParts
<1> QED BY <1>2, <1>3

(* matches computes membership in P(v) for the patterns of fixed lengths   *)
(* that any value has, and for all patterns of values without a "+" that   *)
(* may be read as a length: what build_pattern_index counts by enumeration *)
(* is then what detect tests (index.py:170).  Of '9+' it counts <digit>+,  *)
(* which detect does not accept for it.                                    *)
THEOREM MatchesIsMembership ==
  ASSUME NEW v \in Seq(Tokens), v # << >>, NEW tau \in Nat, Len(v) < tau,
         NEW w \in Seq(Tokens), NEW p \in PatternsOf(w, tau),
         FixedLengths(p) \/ (NoPlus(v) /\ NoPlus(w))
  PROVE  Matches(p, v) <=> p \in PatternsOf(v, tau)
<1> DEFINE n == Len(v)
           All == UNION {Generalizations(v[i]) : i \in 1 .. n}
<1>1. p \in Products(w) /\ \A i \in DOMAIN p : ~Joins(p, i)
  <2>1. PICK q \in Products(w) : p = Parsed(q)
    BY DEF PatternsOf
  <2> QED BY <2>1, ReadAsWritten
<1>2. p \in Seq(Nodes) /\ \A i \in 1 .. Len(p) : p[i] \in Nodes
  BY <1>1, ProductNodes
<1>3. p \in Products(v)
        <=> (p \in [1 .. n -> All] /\ \A i \in 1 .. n : p[i] \in Generalizations(v[i]))
  BY DEF Products
<1>4. ASSUME Len(p) = n, NEW i \in 1 .. n
      PROVE  PartMatches(p[i], v[i]) <=> p[i] \in Generalizations(v[i])
  <2>1. v[i] \in Tokens /\ p[i] \in Nodes
    BY <1>2, <1>4
  <2> QED BY <2>1, PartMatchesGeneralization
<1>5. ASSUME Matches(p, v) PROVE p \in Products(v)
  <2>1. Len(p) = n /\ \A i \in 1 .. n : p[i] \in Generalizations(v[i])
    BY <1>4, <1>5 DEF Matches
  <2>2. p \in [1 .. n -> All]
    BY <1>2, <2>1
  <2> QED BY <1>3, <2>1, <2>2
<1>6. ASSUME p \in Products(v) PROVE Matches(p, v)
  <2>1. Len(p) = n /\ \A i \in 1 .. n : p[i] \in Generalizations(v[i])
    BY <1>6, ProductNodes
  <2> QED BY <1>4, <2>1 DEF Matches
<1>7. ASSUME p \in Products(v) PROVE p \in PatternsOf(v, tau)
  <2>1. Parsed(p) = p
    BY <1>1, <1>7, KeptParts
  <2> QED BY <1>7, <2>1 DEF PatternsOf
<1>8. ASSUME p \in PatternsOf(v, tau) PROVE p \in Products(v)
  <2>1. PICK q \in Products(v) : p = Parsed(q)
    BY <1>8 DEF PatternsOf
  <2> QED BY <2>1, ReadAsWritten
<1> QED BY <1>5, <1>6, <1>7, <1>8

-----------------------------------------------------------------------------
(* The rows of a cleaned column are finitely many, and so are the ones     *)
(* that conform.                                                           *)
LEMMA FiniteRows ==
  ASSUME NEW cells \in Seq(Cells)
  PROVE  /\ IsFiniteSet(DOMAIN Clean(cells))
         /\ Size(Clean(cells)) \in Nat
<1>1. DOMAIN Clean(cells) \in SUBSET (1 .. Len(cells))
  BY DEF Clean
<1>2. IsFiniteSet(1 .. Len(cells))
  BY FS_Interval
<1> QED BY <1>1, <1>2, FS_Subset, FS_CardinalityType DEF Size

LEMMA ConformingBound ==
  ASSUME NEW values, IsFiniteSet(DOMAIN values), NEW p
  PROVE  /\ Conforming(p, values) \subseteq DOMAIN values
         /\ IsFiniteSet(Conforming(p, values))
         /\ Cardinality(Conforming(p, values)) \in 0 .. Size(values)
<1>1. Conforming(p, values) \subseteq DOMAIN values
  BY DEF Conforming
<1> QED BY <1>1, FS_Subset, FS_CardinalityType DEF Size

-----------------------------------------------------------------------------
(* A bounded index: FPRs are fractions, coverages count columns.           *)
Bounded(entries, B) == \A p \in DOMAIN entries : /\ entries[p].fpr \in 0 .. Scale
                                                /\ entries[p].cov \in 1 .. B

(* The sums of a running build are sums of as many impurities as columns.  *)
Sums(entries, B) == \A p \in DOMAIN entries : /\ entries[p].cols \in 1 .. B
                                             /\ entries[p].sum \in 0 .. Scale * entries[p].cols

IndexInv ==
  /\ todo \in Seq({BadEntry} \union Seq(Cells))
  /\ \E B \in Nat : Sums(local, B)
  /\ index # NoIndex => \E B \in Nat : Bounded(index, B)

LEMMA ImpurityBound ==
  ASSUME NEW n \in Nat \ {0}, NEW c \in 0 .. n
  PROVE  (Scale * (n - c)) \div n \in 0 .. Scale
<1>1. Scale \in Nat
  BY ScaleAssumption
<1>2. Scale * (n - c) \in Nat /\ Scale * (n - c) <= n * Scale
  BY <1>1
<1> QED BY <1>1, <1>2

LEMMA AddColumnSums ==
  ASSUME NEW values, IsFiniteSet(DOMAIN values), Size(values) # 0,
         NEW B \in Nat, Sums(local, B)
  PROVE  Sums(AddColumn(values), B + 1)
<1> DEFINE n == Size(values)
           sets == [i \in DOMAIN values |-> PatternsOf(values[i], config.tau)]
           found == UNION Range(sets)
           Impurity(p) == (Scale * (n - MatchCount(p, sets))) \div n
           Old(p) == IF p \in DOMAIN local THEN local[p] ELSE [sum |-> 0, cols |-> 0]
<1>1. n \in Nat \ {0}
  BY FS_CardinalityType DEF Size
<1>2. \A p : MatchCount(p, sets) \in 0 .. n
  <2> SUFFICES ASSUME NEW p PROVE MatchCount(p, sets) \in 0 .. n
    OBVIOUS
  <2> DEFINE D == {i \in DOMAIN sets : p \in sets[i]}
  <2>1. D \in SUBSET DOMAIN values
    OBVIOUS
  <2>2. MatchCount(p, sets) = Cardinality(D)
    BY DEF MatchCount
  <2> HIDE DEF D, sets
  <2>3. Cardinality(D) <= n /\ Cardinality(D) \in Nat
    BY <2>1, FS_Subset, FS_CardinalityType DEF Size
  <2> QED BY <1>1, <2>2, <2>3
<1>3. \A p : Impurity(p) \in 0 .. Scale
  <2> HIDE DEF n, sets
  <2> QED BY <1>1, <1>2, ImpurityBound
<1>4. \A p : Old(p).cols \in 0 .. B /\ Old(p).sum \in 0 .. Scale * Old(p).cols
  BY ScaleAssumption DEF Sums
<1>5. AddColumn(values) = [p \in DOMAIN local \union found |->
                             IF p \in found
                             THEN [sum |-> Old(p).sum + Impurity(p), cols |-> Old(p).cols + 1]
                             ELSE local[p]]
  BY DEF AddColumn
<1> HIDE DEF Impurity, Old, found
<1>6. ASSUME NEW p \in DOMAIN local \union found
      PROVE  /\ AddColumn(values)[p].cols \in 1 .. B + 1
             /\ AddColumn(values)[p].sum \in 0 .. Scale * AddColumn(values)[p].cols
  <2>1. CASE p \in found
    <3>1. AddColumn(values)[p].cols = Old(p).cols + 1 /\ AddColumn(values)[p].sum = Old(p).sum + Impurity(p)
      BY <1>5, <2>1
    <3>2. Scale \in Nat /\ Impurity(p) \in 0 .. Scale /\ Old(p).cols \in 0 .. B
          /\ Old(p).sum \in 0 .. Scale * Old(p).cols
      BY <1>3, <1>4, ScaleAssumption
    <3>3. Scale * (Old(p).cols + 1) = Scale * Old(p).cols + Scale
      BY <3>2
    <3> QED BY <3>1, <3>2, <3>3
  <2>2. CASE p \notin found
    BY <1>5, <2>2 DEF Sums
  <2> QED BY <2>1, <2>2
<1> QED BY <1>5, <1>6 DEF Sums

LEMMA EntriesBounded ==
  ASSUME NEW B \in Nat, Sums(local, B)
  PROVE  Bounded(Entries, B)
<1> SUFFICES ASSUME NEW p \in DOMAIN local
             PROVE  /\ local[p].sum \div local[p].cols \in 0 .. Scale
                    /\ local[p].cols \in 1 .. B
  BY DEF Bounded, Entries
<1> DEFINE s == local[p].sum
           c == local[p].cols
<1>1. c \in 1 .. B /\ s \in 0 .. Scale * c /\ Scale \in Nat
  BY ScaleAssumption DEF Sums
<1> HIDE DEF s, c
<1>2. s \div c \in 0 .. Scale
  BY <1>1
<1> QED BY <1>1, <1>2 DEF s, c

LEMMA IndexInvariant == Spec => []IndexInv
<1>1. Init => IndexInv
  BY DEF Init, IndexInv, Sums
<1>2. IndexInv /\ [Next]_vars => IndexInv'
  <2> SUFFICES ASSUME IndexInv, [Next]_vars PROVE IndexInv'
    OBVIOUS
  <2> USE DEF IndexInv
  <2>0. ASSUME UNCHANGED <<todo, local, index>> PROVE IndexInv'
    BY <2>0
  <2>1. CASE UNCHANGED vars
    BY <2>0, <2>1 DEF vars
  <2>2. ASSUME NEW k \in Corpora, StartBuild(k) PROVE IndexInv'
    <3>1. Sums(local', 0)
      BY <2>2 DEF StartBuild, Sums
    <3> QED BY <2>2, <3>1, CorporaAssumption DEF StartBuild
  <2>3. CASE ScanColumn
    <3> DEFINE values == Indexable(Clean(Head(todo)))
    <3>1. Head(todo) \in Seq(Cells) /\ Tail(todo) \in Seq({BadEntry} \union Seq(Cells))
      BY <2>3 DEF ScanColumn
    <3>2. DOMAIN values \in SUBSET DOMAIN Clean(Head(todo))
      BY DEF Indexable, Restrict
    <3>3. IsFiniteSet(DOMAIN values)
      BY <3>1, <3>2, FiniteRows, FS_Subset
    <3>4. PICK B \in Nat : Sums(local, B)
      OBVIOUS
    <3> HIDE DEF values
    <3>5. Size(values) # 0 => Sums(AddColumn(values), B + 1)
      BY <3>3, <3>4, AddColumnSums
    <3>6. local' = local \/ (Size(values) # 0 /\ local' = AddColumn(values))
      BY <2>3 DEF ScanColumn, values
    <3>7. \E C \in Nat : Sums(local', C)
      BY <3>4, <3>5, <3>6
    <3> QED BY <2>3, <3>1, <3>7 DEF ScanColumn
  <2>4. CASE BuildRaises
    <3>1. Sums(local', 0)
      BY <2>4 DEF BuildRaises, Sums
    <3> QED BY <2>4, <3>1 DEF BuildRaises
  <2>5. CASE FinishBuild
    <3>1. Sums(local', 0)
      BY <2>5 DEF FinishBuild, Sums
    <3> QED BY <2>5, <3>1, EntriesBounded DEF FinishBuild
  <2>6. ASSUME NEW cells \in Columns, Infer(cells) \/ CheckDrift(cells) PROVE IndexInv'
    BY <2>0, <2>6 DEF Infer, CheckDrift
  <2>7. CASE InferWithoutIndex \/ Judge \/ NextCall
    BY <2>0, <2>7 DEF InferWithoutIndex, Judge, NextCall
  <2> QED
    BY <2>1, <2>2, <2>3, <2>4, <2>5, <2>6, <2>7 DEF Next
<1> QED BY <1>1, <1>2, PTL DEF Spec

-----------------------------------------------------------------------------
(* What is known of the pattern p that fmdv or fmdv_h inferred.            *)
EnoughConform(p, values) ==
  Cardinality(Conforming(p, values)) >=
    IF config.variant = "fmdv_h" THEN MinConforming(config.theta, Size(values)) ELSE Size(values)

(* The inferred pattern belongs to the column, and the verdicts to the     *)
(* pattern.                                                                *)
DetectInv ==
  /\ config \in Configs
  /\ pc \in {"idle", "inferred", "judged", "raised"}
  /\ pc = "idle" => inferred = NoPattern
  /\ inferred # NoPattern =>
       /\ column \in Columns
       /\ config.variant \in {"fmdv", "fmdv_h"} =>
            \E p : inferred.groups = << <<p>> >> /\ EnoughConform(p, Clean(column))
  /\ pc = "judged" => verdicts = [i \in DOMAIN column |-> CellVerdict(column[i])]

(* A preferred candidate exists: the one of the least FPR, among these of  *)
(* the most hits, and among these of the largest coverage.                 *)
LEMMA BestExists ==
  ASSUME NEW values, IsFiniteSet(DOMAIN values),
         NEW B \in Nat, Bounded(index, B),
         NEW F, F \subseteq DOMAIN index, F # {}
  PROVE  \E p \in F : \A q \in F : ~Preferred(q, p, values)
<1> DEFINE hits(p) == Cardinality(Conforming(p, values))
           n == Size(values)
<1>1. n \in Nat /\ \A p : hits(p) \in 0 .. n
  BY ConformingBound, FS_CardinalityType DEF Size
<1>2. \A p \in F : index[p].fpr \in Nat /\ index[p].cov \in 1 .. B
  BY DEF Bounded
<1>3. \A p, q : Preferred(q, p, values) <=>
                  \/ index[q].fpr < index[p].fpr
                  \/ /\ index[q].fpr = index[p].fpr
                     /\ \/ hits(q) > hits(p)
                        \/ hits(q) = hits(p) /\ index[q].cov > index[p].cov
  BY DEF Preferred
<1> HIDE DEF hits, n
<1>4. PICK a \in F : \A q \in F : index[a].fpr <= index[q].fpr
  <2> DEFINE T == {index[q].fpr : q \in F}
  <2>1. T \in SUBSET Nat /\ T # {}
    BY <1>2
  <2>2. PICK x \in T : \A y \in T : x <= y
    BY <2>1, LeastNatural
  <2> QED BY <2>2
<1> DEFINE G == {q \in F : index[q].fpr = index[a].fpr}
<1>5. PICK b \in G : \A q \in G : hits(b) >= hits(q)
  <2> DEFINE T == {n - hits(q) : q \in G}
  <2>1. T \in SUBSET Nat /\ T # {}
    BY <1>1
  <2>2. PICK x \in T : \A y \in T : x <= y
    BY <2>1, LeastNatural
  <2>3. PICK b \in G : x = n - hits(b)
    BY <2>2
  <2>4. \A q \in G : n - hits(b) <= n - hits(q)
    BY <2>2, <2>3
  <2> QED BY <1>1, <2>4
<1> DEFINE H == {q \in G : hits(q) = hits(b)}
<1>6. PICK c \in H : \A q \in H : index[c].cov >= index[q].cov
  <2> DEFINE T == {B - index[q].cov : q \in H}
  <2>1. T \in SUBSET Nat /\ T # {}
    BY <1>2
  <2>2. PICK x \in T : \A y \in T : x <= y
    BY <2>1, LeastNatural
  <2>3. PICK c \in H : x = B - index[c].cov
    BY <2>2
  <2>4. \A q \in H : B - index[c].cov <= B - index[q].cov
    BY <2>2, <2>3
  <2> QED BY <1>2, <2>4
<1>7. ASSUME NEW q \in F PROVE ~Preferred(q, c, values)
  BY <1>1, <1>2, <1>3, <1>4, <1>5, <1>6
<1> QED BY <1>7

(* What fmdv and fmdv_h return is a feasible pattern.                      *)
LEMMA SolveEnough ==
  ASSUME NEW values, IsFiniteSet(DOMAIN values), NEW tolerant \in BOOLEAN,
         NEW B \in Nat, Bounded(index, B), Solve(values, tolerant) # NoPattern
  PROVE  \E p : /\ Solve(values, tolerant).groups = << <<p>> >>
               /\ Cardinality(Conforming(p, values)) >= Required(values, tolerant)
<1> DEFINE F == Feasible(values, tolerant)
           best == CHOOSE p \in F : \A q \in F : ~Preferred(q, p, values)
<1>1. F # {} /\ Solve(values, tolerant).groups = << <<best>> >>
  BY DEF Solve
<1>2. F \subseteq DOMAIN index
  BY DEF Feasible
<1>3. \E p \in F : \A q \in F : ~Preferred(q, p, values)
  <2> HIDE DEF F
  <2> QED BY <1>1, <1>2, BestExists
<1>4. best \in F
  <2> HIDE DEF F
  <2> QED BY <1>3
<1> HIDE DEF best
<1> QED BY <1>1, <1>4 DEF Feasible

LEMMA DetectInvariant == Spec => []DetectInv
<1>1. Init => DetectInv
  BY DEF Init, DetectInv
<1>2. IndexInv /\ DetectInv /\ [Next]_vars => DetectInv'
  <2> SUFFICES ASSUME IndexInv, DetectInv, [Next]_vars PROVE DetectInv'
    OBVIOUS
  <2> USE DEF DetectInv
  <2>1. CASE UNCHANGED vars
    BY <2>1 DEF vars, EnoughConform, CellVerdict
  <2>2. ASSUME NEW k \in Corpora, StartBuild(k) PROVE DetectInv'
    BY <2>2 DEF StartBuild, EnoughConform, CellVerdict
  <2>3. CASE ScanColumn
    BY <2>3 DEF ScanColumn, EnoughConform, CellVerdict
  <2>4. CASE BuildRaises
    BY <2>4 DEF BuildRaises, EnoughConform, CellVerdict
  <2>5. CASE FinishBuild
    BY <2>5 DEF FinishBuild, EnoughConform, CellVerdict
  <2>6. ASSUME NEW cells \in Columns, Infer(cells) PROVE DetectInv'
    <3>1. ASSUME config.variant \in {"fmdv", "fmdv_h"}, inferred' # NoPattern
          PROVE  \E p : inferred'.groups = << <<p>> >> /\ EnoughConform(p, Clean(cells))
      <4> DEFINE tolerant == config.variant = "fmdv_h"
      <4>1. inferred' = Solve(Clean(cells), tolerant)
        BY <2>6, <3>1 DEF Infer, InferPattern
      <4>2. IsFiniteSet(DOMAIN Clean(cells))
        BY ColumnsAssumption, FiniteRows
      <4>3. PICK B \in Nat : Bounded(index, B)
        BY <2>6 DEF Infer, IndexInv
      <4>4. PICK p : /\ Solve(Clean(cells), tolerant).groups = << <<p>> >>
                     /\ Cardinality(Conforming(p, Clean(cells))) >= Required(Clean(cells), tolerant)
        BY <3>1, <4>1, <4>2, <4>3, SolveEnough
      <4> QED BY <3>1, <4>1, <4>4 DEF EnoughConform, Required
    <3> QED BY <2>6, <3>1 DEF Infer, EnoughConform
  <2>7. ASSUME NEW cells \in Columns, CheckDrift(cells) PROVE DetectInv'
    BY <2>7 DEF CheckDrift, EnoughConform, CellVerdict
  <2>8. CASE InferWithoutIndex
    BY <2>8 DEF InferWithoutIndex, EnoughConform
  <2>9. CASE Judge
    BY <2>9 DEF Judge, EnoughConform, CellVerdict
  <2>10. CASE NextCall
    BY <2>10 DEF NextCall
  <2> QED
    BY <2>1, <2>2, <2>3, <2>4, <2>5, <2>6, <2>7, <2>8, <2>9, <2>10 DEF Next
<1> QED BY <1>1, <1>2, IndexInvariant, PTL DEF Spec

-----------------------------------------------------------------------------
LEMMA FlaggedRows ==
  ASSUME DetectInv, pc = "judged", inferred # NoPattern,
         NEW p, inferred.groups = << <<p>> >>
  PROVE  Flagged = DOMAIN Clean(column) \ Conforming(p, Clean(column))
<1>1. ASSUME NEW i \in DOMAIN Clean(column)
      PROVE  verdicts[i] = "error" <=> ~Matches(p, Clean(column)[i])
  <2>1. /\ i \in DOMAIN column /\ column[i] # Null /\ column[i] # << >>
        /\ Clean(column)[i] = column[i]
    BY DEF Clean
  <2>2. verdicts[i] = Outcome(inferred.groups, column[i])
    BY <2>1 DEF DetectInv, CellVerdict
  <2>3. Outcome(inferred.groups, column[i]) = IF Matches(p, column[i]) THEN "ok" ELSE "error"
    <3>1. ~IsList(inferred.groups)
      BY DEF IsList
    <3>2. DOMAIN inferred.groups[1] = {1} /\ inferred.groups[1][1] = p
      OBVIOUS
    <3> QED BY <3>1, <3>2 DEF Outcome
  <2> QED BY <2>1, <2>2, <2>3
<1> QED BY <1>1 DEF Flagged, Conforming

LEMMA ToleranceArithmetic ==
  ASSUME NEW d \in Nat \ {0}, NEW a \in 0 .. d, NEW n \in Nat, NEW m \in 0 .. n,
         m >= ((d - a) * n + d - 1) \div d
  PROVE  d * (n - m) <= a * n
<1> DEFINE x == (d - a) * n
<1>1. x \in Nat
  OBVIOUS
<1>2. x = d * n - a * n
  OBVIOUS
<1> HIDE DEF x
<1>3. m >= (x + d - 1) \div d
  BY DEF x
<1>4. d * m >= x
  BY <1>1, <1>3
<1>5. d * (n - m) = d * n - d * m
  OBVIOUS
<1>6. d * n \in Int /\ a * n \in Int /\ d * m \in Int
  OBVIOUS
<1> QED BY <1>1, <1>2, <1>4, <1>5, <1>6

(* fmdv never condemns a value of the column it learned from, fmdv_h at    *)
(* most the share theta of them, whatever the corpus and the column.       *)
THEOREM ToleranceIsKept == Spec => []ToleranceKept
<1>1. DetectInv => ToleranceKept
  <2> SUFFICES ASSUME DetectInv, pc = "judged", inferred # NoPattern,
                      config.variant \in {"fmdv", "fmdv_h"}
               PROVE  ToleranceKept
    BY DEF ToleranceKept
  <2>1. PICK p : inferred.groups = << <<p>> >> /\ EnoughConform(p, Clean(column))
    BY DEF DetectInv
  <2> DEFINE V == Clean(column)
             C == Conforming(p, V)
             n == Size(V)
             m == Cardinality(C)
  <2>2. IsFiniteSet(DOMAIN V) /\ n \in Nat
    BY FiniteRows, ColumnsAssumption DEF DetectInv
  <2>3. C \in SUBSET DOMAIN V /\ IsFiniteSet(C) /\ m \in 0 .. n
    BY <2>2, ConformingBound
  <2>4. Flagged = DOMAIN V \ C
    BY <2>1, FlaggedRows
  <2>5. Cardinality(Flagged) = n - m
    <3>1. (DOMAIN V) \cap C = C
      BY <2>3
    <3> HIDE DEF V, C
    <3> QED BY <2>2, <2>3, <2>4, <3>1, FS_Difference DEF Size
  <2>6. CASE config.variant = "fmdv"
    <3>1. m >= n
      BY <2>1, <2>6 DEF EnoughConform
    <3>2. C = DOMAIN V
      <4> HIDE DEF V, C
      <4> QED BY <2>2, <2>3, <3>1, FS_Subset DEF Size
    <3> QED BY <2>4, <2>6, <3>2 DEF ToleranceKept
  <2>7. CASE config.variant = "fmdv_h"
    <3> DEFINE a == config.theta[1]
               d == config.theta[2]
    <3>1. d \in Nat \ {0} /\ a \in 0 .. d
      BY ConfigsAssumption DEF DetectInv
    <3>2. m >= ((d - a) * n + d - 1) \div d
      BY <2>1, <2>7 DEF EnoughConform, MinConforming
    <3> HIDE DEF V, C, n, m, a, d
    <3>3. d * (n - m) <= a * n
      BY <2>2, <2>3, <3>1, <3>2, ToleranceArithmetic
    <3> QED BY <2>5, <2>7, <3>3 DEF ToleranceKept, a, d, n, V
  <2> QED BY <2>6, <2>7
<1> QED BY <1>1, DetectInvariant, PTL

-----------------------------------------------------------------------------
(* What check_drift counted in the column it compares with.                *)
DriftInv ==
  \/ drift = [train |-> 0, test |-> 0]
  \/ pc = "judged" /\ inferred # NoPattern /\ drift.train = NonConforming(column)

LEMMA DriftInvariant == Spec => []DriftInv
<1>1. Init => DriftInv
  BY DEF Init, DriftInv
<1>2. DetectInv /\ DriftInv /\ [Next]_vars => DriftInv'
  <2> SUFFICES ASSUME DetectInv, DriftInv, [Next]_vars PROVE DriftInv'
    OBVIOUS
  <2>1. ASSUME UNCHANGED <<inferred, column, drift>>, pc' = pc PROVE DriftInv'
    <3>1. NonConforming(column)' = NonConforming(column)
      BY <2>1 DEF NonConforming
    <3> QED BY <2>1, <3>1 DEF DriftInv
  <2>2. CASE UNCHANGED vars
    BY <2>1, <2>2 DEF vars
  <2>3. ASSUME NEW k \in Corpora, StartBuild(k) PROVE DriftInv'
    BY <2>1, <2>3 DEF StartBuild
  <2>4. CASE ScanColumn \/ BuildRaises \/ FinishBuild
    BY <2>1, <2>4 DEF ScanColumn, BuildRaises, FinishBuild
  <2>5. ASSUME NEW cells \in Columns, Infer(cells) PROVE DriftInv'
    BY <2>5 DEF Infer, DriftInv
  <2>6. CASE InferWithoutIndex
    BY <2>6 DEF InferWithoutIndex, DriftInv
  <2>7. ASSUME NEW cells \in Columns, CheckDrift(cells) PROVE DriftInv'
    <3>1. NonConforming(column)' = NonConforming(column)
      BY <2>7 DEF NonConforming, CheckDrift
    <3> QED BY <2>7, <3>1 DEF CheckDrift, DriftInv
  <2>8. CASE Judge
    BY <2>8 DEF Judge, DriftInv
  <2>9. CASE NextCall
    BY <2>9 DEF NextCall, DriftInv
  <2> QED
    BY <2>2, <2>3, <2>4, <2>5, <2>6, <2>7, <2>8, <2>9 DEF Next
<1> QED BY <1>1, <1>2, DetectInvariant, PTL DEF Spec

\* A pattern that is one string is read alike by detect and by check_drift.
LEMMA UncutOutcome ==
  ASSUME NEW groups, ~IsList(groups), ~IsList(groups[1]), NEW v
  PROVE  Outcome(groups, v) = "error" <=> ~Conforms(groups, v)
<1>1. Outcome(groups, v) = IF Matches(groups[1][1], v) THEN "ok" ELSE "error"
  BY DEF Outcome, IsList
<1>2. Conforms(groups, v) <=> Matches(groups[1][1], v)
  BY DEF Conforms, IsList
<1> QED BY <1>1, <1>2

(* With an uncut pattern, check_drift counts in the training column the    *)
(* values that detect flagged, whatever the variant and the column: nulls  *)
(* and blanks, which they treat differently, make no difference.           *)
THEOREM DriftCountsWhatWasFlagged == Spec => []DriftCountsFlags
<1>1. DetectInv /\ DriftInv => DriftCountsFlags
  <2> SUFFICES ASSUME DetectInv, DriftInv, pc = "judged", drift # [train |-> 0, test |-> 0],
                      ~IsList(inferred.groups), ~IsList(inferred.groups[1])
               PROVE  drift.train = Cardinality(Flagged)
    BY DEF DriftCountsFlags
  <2>1. inferred # NoPattern /\ drift.train = NonConforming(column)
    BY DEF DriftInv
  <2>2. ASSUME NEW i \in DOMAIN Clean(column)
        PROVE  verdicts[i] = "error" <=> ~Conforms(inferred.groups, column[i])
    <3>1. i \in DOMAIN column /\ column[i] # Null /\ column[i] # << >>
      BY DEF Clean
    <3>2. verdicts[i] = Outcome(inferred.groups, column[i])
      BY <2>1, <3>1 DEF DetectInv, CellVerdict
    <3> QED BY <3>2, UncutOutcome
  <2>3. Flagged = {i \in DOMAIN Clean(column) : ~Conforms(inferred.groups, column[i])}
    BY <2>2 DEF Flagged
  <2> QED BY <2>1, <2>3 DEF NonConforming
<1> QED BY <1>1, DetectInvariant, DriftInvariant, PTL

-----------------------------------------------------------------------------
(* Sums: the recursive function is defined, its value is a natural, an     *)
(* empty sequence sums to 0 and the last number is added last.             *)
IsSum(numbers, sum) ==
  sum = [k \in 0 .. Len(numbers) |-> IF k = 0 THEN 0 ELSE sum[k - 1] + numbers[k]]

\* The running sums of naturals exist, as naturals,
LEMMA SumExists ==
  ASSUME NEW s \in Seq(Nat)
  PROVE  \E f \in [0 .. Len(s) -> Nat] : IsSum(s, f)
<1> DEFINE n == Len(s)
           step == [k \in 1 .. n |-> [x \in Nat |-> x + s[k]]]
<1>1. step \in [1 .. n -> [Nat -> Nat]] /\ n \in Nat
  OBVIOUS
<1>2. PICK f \in [0 .. n -> Nat] : Recurses(0, step, n, f)
  <2>1. 0 \in Nat
    OBVIOUS
  <2> HIDE DEF step, n
  <2> QED BY <1>1, <2>1, Recursion, Zenon
<1>3. f[0] = 0
  BY <1>2 DEF Recurses
<1>4. ASSUME NEW k \in 1 .. n PROVE f[k] = f[k - 1] + s[k]
  <2>a. f[k - 1] \in Nat
    <3>1. k - 1 \in 0 .. n
      OBVIOUS
    <3> HIDE DEF step, n
    <3> QED BY <3>1
  <2>b. f[k] = step[k][f[k - 1]]
    <3> HIDE DEF step, n
    <3> QED BY <1>2 DEF Recurses
  <2>1. f[k] = step[k][f[k - 1]] /\ f[k - 1] \in Nat
    BY <2>a, <2>b
  <2>2. step[k] = [x \in Nat |-> x + s[k]]
    OBVIOUS
  <2> HIDE DEF step
  <2> QED BY <2>1, <2>2
<1>5. f = [k \in 0 .. Len(s) |-> IF k = 0 THEN 0 ELSE f[k - 1] + s[k]]
  <2> HIDE DEF step
  <2> QED BY <1>3, <1>4
<1> QED BY <1>5 DEF IsSum

\* and Total is the last of them.
LEMMA SumUnique ==
  ASSUME NEW s \in Seq(Nat), NEW f \in [0 .. Len(s) -> Nat], IsSum(s, f)
  PROVE  Total(s) = f[Len(s)]
<1> DEFINE g == CHOOSE sum : IsSum(s, sum)
<1>1. IsSum(s, g)
  OBVIOUS
<1>2. Total(s) = g[Len(s)]
  BY DEF Total, IsSum
<1> HIDE DEF g
<1> DEFINE N == {m \in Nat : m <= Len(s) => g[m] = f[m]}
<1>3. g[0] = 0 /\ f[0] = 0
  BY <1>1 DEF IsSum
<1>4. \A k \in 1 .. Len(s) : g[k] = g[k - 1] + s[k] /\ f[k] = f[k - 1] + s[k]
  <2> SUFFICES ASSUME NEW k \in 1 .. Len(s)
               PROVE  g[k] = g[k - 1] + s[k] /\ f[k] = f[k - 1] + s[k]
    OBVIOUS
  <2>1. k \in 0 .. Len(s) /\ k # 0
    OBVIOUS
  <2>2. g[k] = g[k - 1] + s[k]
    BY <1>1, <2>1 DEF IsSum
  <2>3. f[k] = f[k - 1] + s[k]
    BY <2>1 DEF IsSum
  <2> QED BY <2>2, <2>3
<1>5. ASSUME NEW m \in Nat, m \in N PROVE m + 1 \in N
  BY <1>4, <1>5
<1>6. Nat \subseteq N
  <2>1. 0 \in N
    BY <1>3
  <2> HIDE DEF N
  <2> QED BY <1>5, <2>1, NaturalInduction
<1> QED BY <1>2, <1>6

\* A sum of naturals is a natural.
LEMMA TotalType ==
  ASSUME NEW s \in Seq(Nat)
  PROVE  Total(s) \in Nat
<1>1. PICK f \in [0 .. Len(s) -> Nat] : IsSum(s, f)
  BY SumExists
<1> QED BY <1>1, SumUnique

\* The sum of no numbers is 0.
LEMMA TotalEmpty ==
  ASSUME NEW s \in Seq(Nat), Len(s) = 0
  PROVE  Total(s) = 0
<1>1. PICK f \in [0 .. Len(s) -> Nat] : IsSum(s, f)
  BY SumExists
<1>2. Total(s) = f[0] /\ f[0] = 0
  BY <1>1, SumUnique DEF IsSum
<1> QED BY <1>2

\* The last number is added last.
LEMMA TotalLast ==
  ASSUME NEW n \in Nat, NEW s \in Seq(Nat), Len(s) = n + 1,
         NEW r \in Seq(Nat), Len(r) = n, \A k \in 1 .. n : r[k] = s[k]
  PROVE  Total(s) = Total(r) + s[n + 1]
<1>1. PICK f \in [0 .. Len(s) -> Nat] : IsSum(s, f)
  BY SumExists
<1> DEFINE g == [k \in 0 .. n |-> f[k]]
<1>2. g \in [0 .. Len(r) -> Nat]
  OBVIOUS
<1>3. f[0] = 0 /\ \A k \in 1 .. n + 1 : f[k] = f[k - 1] + s[k]
  BY <1>1 DEF IsSum
<1>4. g = [k \in 0 .. Len(r) |-> IF k = 0 THEN 0 ELSE g[k - 1] + r[k]]
  BY <1>3
<1>5. Total(r) = g[n]
  <2>1. IsSum(r, g)
    BY <1>4 DEF IsSum
  <2> HIDE DEF g
  <2> QED BY <1>2, <2>1, SumUnique
<1>6. Total(s) = f[n + 1]
  BY <1>1, SumUnique
<1> QED BY <1>3, <1>5, <1>6

-----------------------------------------------------------------------------
(* Concatenations of sequences over D.                                     *)
IsFlattening(seqs, flat) ==
  flat = [i \in 1 .. Len(seqs) |-> IF i = 1 THEN seqs[i] ELSE flat[i - 1] \o seqs[i]]

\* The concatenations of the first sequences exist,
LEMMA FlattenExists ==
  ASSUME NEW D, NEW s \in Seq(Seq(D))
  PROVE  \E f \in [1 .. Len(s) -> Seq(D)] : IsFlattening(s, f)
<1> DEFINE n == Len(s)
           step == [k \in 1 .. n |-> [x \in Seq(D) |-> x \o s[k]]]
<1>1. step \in [1 .. n -> [Seq(D) -> Seq(D)]] /\ n \in Nat /\ << >> \in Seq(D)
  OBVIOUS
<1>2. PICK f \in [0 .. n -> Seq(D)] : Recurses(<< >>, step, n, f)
  <2> HIDE DEF step, n
  <2> QED BY <1>1, Recursion, Zenon
<1>3. ASSUME NEW k \in 1 .. n PROVE f[k] = f[k - 1] \o s[k]
  <2>a. f[k - 1] \in Seq(D)
    <3>1. k - 1 \in 0 .. n
      OBVIOUS
    <3> HIDE DEF step, n
    <3> QED BY <3>1
  <2>b. f[k] = step[k][f[k - 1]]
    <3> HIDE DEF step, n
    <3> QED BY <1>2 DEF Recurses
  <2>1. f[k] = step[k][f[k - 1]] /\ f[k - 1] \in Seq(D)
    BY <2>a, <2>b
  <2>2. step[k] = [x \in Seq(D) |-> x \o s[k]]
    OBVIOUS
  <2> HIDE DEF step
  <2> QED BY <2>1, <2>2
<1> HIDE DEF step
<1> DEFINE g == [k \in 1 .. n |-> f[k]]
<1>4. g \in [1 .. Len(s) -> Seq(D)]
  OBVIOUS
<1>5. ASSUME NEW k \in 1 .. n PROVE g[k] = IF k = 1 THEN s[k] ELSE g[k - 1] \o s[k]
  <2>1. CASE k = 1
    <3>1. f[0] = << >>
      BY <1>2 DEF Recurses
    <3>2. s[1] \in Seq(D) /\ 1 \in 1 .. n
      BY <2>1
    <3>3. f[1] = f[0] \o s[1]
      <4>1. f[1] = f[1 - 1] \o s[1]
        <5> HIDE DEF n, g
        <5> QED BY <1>3, <3>2, Zenon
      <4> QED BY <4>1
    <3>4. << >> \o s[1] = s[1]
      BY <3>2
    <3> QED BY <2>1, <3>1, <3>2, <3>3, <3>4
  <2>2. CASE k # 1
    <3>1. k - 1 \in 1 .. n /\ g[k] = f[k] /\ g[k - 1] = f[k - 1]
      BY <2>2
    <3>2. f[k] = f[k - 1] \o s[k]
      BY <1>3
    <3> QED BY <2>2, <3>1, <3>2
  <2> QED BY <2>1, <2>2
<1>6. g = [i \in 1 .. Len(s) |-> IF i = 1 THEN s[i] ELSE g[i - 1] \o s[i]]
  BY <1>5
<1>7. IsFlattening(s, g)
  BY <1>6 DEF IsFlattening
<1> HIDE DEF g
<1> QED BY <1>4, <1>7

\* and FlattenSeq is the last of them.
LEMMA FlattenUnique ==
  ASSUME NEW D, NEW s \in Seq(Seq(D)), Len(s) # 0,
         NEW f \in [1 .. Len(s) -> Seq(D)], IsFlattening(s, f)
  PROVE  FlattenSeq(s) = f[Len(s)]
<1> DEFINE g == CHOOSE flat : IsFlattening(s, flat)
<1>1. IsFlattening(s, g)
  OBVIOUS
<1>2. FlattenSeq(s) = g[Len(s)]
  BY DEF FlattenSeq, IsFlattening
<1> HIDE DEF g
<1> DEFINE N == {m \in Nat : m + 1 <= Len(s) => g[m + 1] = f[m + 1]}
<1>3. \A i \in 1 .. Len(s) : g[i] = IF i = 1 THEN s[i] ELSE g[i - 1] \o s[i]
  BY <1>1 DEF IsFlattening
<1>4. \A i \in 1 .. Len(s) : f[i] = IF i = 1 THEN s[i] ELSE f[i - 1] \o s[i]
  BY DEF IsFlattening
<1>5. ASSUME NEW m \in Nat, m \in N PROVE m + 1 \in N
  <2> SUFFICES ASSUME m + 2 <= Len(s) PROVE g[m + 2] = f[m + 2]
    OBVIOUS
  <2>1. g[m + 1] = f[m + 1]
    BY <1>5
  <2>2. m + 2 \in 1 .. Len(s) /\ m + 2 # 1 /\ (m + 2) - 1 = m + 1
    OBVIOUS
  <2>3. g[m + 2] = g[m + 1] \o s[m + 2] /\ f[m + 2] = f[m + 1] \o s[m + 2]
    BY <1>3, <1>4, <2>2
  <2> QED BY <2>1, <2>3
<1>6. Nat \subseteq N
  <2>a. Len(s) >= 1 => 1 \in 1 .. Len(s)
    OBVIOUS
  <2>b. Len(s) >= 1 => g[1] = s[1]
    BY <1>3, <2>a
  <2>c. Len(s) >= 1 => f[1] = s[1]
    BY <1>4, <2>a
  <2>1. Len(s) >= 1 => g[1] = s[1] /\ f[1] = s[1]
    BY <2>b, <2>c
  <2>2. 0 \in N
    BY <2>1
  <2> HIDE DEF N
  <2> QED BY <1>5, <2>2, NaturalInduction
<1>7. Len(s) - 1 \in Nat /\ (Len(s) - 1) + 1 = Len(s)
  OBVIOUS
<1>8. \A m \in Nat : m + 1 <= Len(s) => g[m + 1] = f[m + 1]
  BY <1>6
<1> DEFINE m == Len(s) - 1
<1>9. g[m + 1] = f[m + 1]
  <2>1. m \in Nat /\ m + 1 <= Len(s)
    BY <1>7
  <2> HIDE DEF m
  <2> QED BY <1>8, <2>1
<1> QED BY <1>2, <1>7, <1>9

\* The last sequence comes last.
LEMMA FlattenLast ==
  ASSUME NEW D, NEW r \in Seq(Seq(D)), NEW x \in Seq(D)
  PROVE  /\ FlattenSeq(r) \in Seq(D)
         /\ FlattenSeq(r \o <<x>>) = FlattenSeq(r) \o x
<1> DEFINE s == r \o <<x>>
           n == Len(r)
<1>1. s \in Seq(Seq(D)) /\ Len(s) = n + 1 /\ s[n + 1] = x /\ n \in Nat
      /\ \A k \in 1 .. n : s[k] = r[k]
  OBVIOUS
<1> HIDE DEF s
<1>2. PICK f \in [1 .. Len(s) -> Seq(D)] : IsFlattening(s, f)
  BY <1>1, FlattenExists
<1>3. FlattenSeq(s) = f[n + 1]
  BY <1>1, <1>2, FlattenUnique
<1>4. \A i \in 1 .. n + 1 : f[i] = IF i = 1 THEN s[i] ELSE f[i - 1] \o s[i]
  BY <1>1, <1>2 DEF IsFlattening
<1>5. CASE n = 0
  <2>1. FlattenSeq(r) = r /\ r = << >>
    BY <1>5 DEF FlattenSeq
  <2>2. f[1] = x
    BY <1>1, <1>4, <1>5
  <2>3. << >> \o x = x
    OBVIOUS
  <2> QED BY <1>3, <1>5, <2>1, <2>2, <2>3 DEF s
<1>6. CASE n # 0
  <2> DEFINE g == [i \in 1 .. n |-> f[i]]
  <2>1. g \in [1 .. Len(r) -> Seq(D)]
    BY <1>1
  <2>a. ASSUME NEW i \in 1 .. n PROVE g[i] = IF i = 1 THEN r[i] ELSE g[i - 1] \o r[i]
    <3>1. i \in 1 .. n + 1 /\ s[i] = r[i] /\ g[i] = f[i] /\ (i # 1 => g[i - 1] = f[i - 1])
      BY <1>1
    <3>2. f[i] = IF i = 1 THEN s[i] ELSE f[i - 1] \o s[i]
      BY <1>4, <3>1
    <3> HIDE DEF g
    <3> QED BY <3>1, <3>2
  <2>2. g = [i \in 1 .. Len(r) |-> IF i = 1 THEN r[i] ELSE g[i - 1] \o r[i]]
    BY <2>a
  <2>3. IsFlattening(r, g)
    BY <2>2 DEF IsFlattening
  <2>4. FlattenSeq(r) = g[n]
    <3> HIDE DEF g
    <3> QED BY <1>6, <2>1, <2>3, FlattenUnique
  <2>b. n + 1 \in 1 .. n + 1 /\ n + 1 # 1 /\ (n + 1) - 1 = n /\ n \in 1 .. n
    BY <1>1, <1>6
  <2>c. f[n + 1] = f[n] \o s[n + 1]
    BY <1>4, <2>b
  <2>5. f[n + 1] = f[n] \o x
    BY <1>1, <2>c
  <2>6. g[n] = f[n] /\ f[n] \in Seq(D)
    BY <1>1, <2>b
  <2> HIDE DEF g, n
  <2> QED BY <1>3, <2>4, <2>5, <2>6 DEF s
<1> QED BY <1>5, <1>6

(* The dynamic program: its value at j from its values before j.           *)
NextSegmentation(values, tolerant, j, dp) ==
  LET last == LastSegments(values, tolerant, j)
      ways == Extensions([i \in DOMAIN last |-> dp[i]], last)
  IN  IF j = 0 THEN [at |-> 0, segments |-> << >>, fpr |-> 0, cov |-> 0]
      ELSE IF ways = {} THEN NoPattern ELSE Cheapest(ways)

\* A value of the dynamic program depends on earlier ones only,
LEMMA OnlyEarlier ==
  ASSUME NEW values, NEW tolerant, NEW j \in Nat, NEW f, NEW g,
         \A i \in 0 .. j - 1 : f[i] = g[i]
  PROVE  NextSegmentation(values, tolerant, j, f) = NextSegmentation(values, tolerant, j, g)
<1> DEFINE last == LastSegments(values, tolerant, j)
<1>1. DOMAIN last \subseteq 0 .. j - 1
  BY DEF LastSegments
<1>2. [i \in DOMAIN last |-> f[i]] = [i \in DOMAIN last |-> g[i]]
  <2> HIDE DEF last
  <2> QED BY <1>1
<1> QED BY <1>2 DEF NextSegmentation

\* so that its recursive equation has a solution, and dp solves it.
LEMMA SegmentationsDefined ==
  ASSUME NEW values, Width(values) \in Nat, NEW tolerant
  PROVE  Segmentations(values, tolerant)
           = [j \in 0 .. Width(values) |->
                NextSegmentation(values, tolerant, j, Segmentations(values, tolerant))]
<1> DEFINE n == Width(values)
           Step(j, f) == NextSegmentation(values, tolerant, j, f)
           IsDP(m, f) == f = [j \in 0 .. m |-> Step(j, f)]
           Defined(m) == \E f : IsDP(m, f)
           N == {m \in Nat : Defined(m)}
<1>1. Defined(0)
  <2> DEFINE f == [j \in 0 .. 0 |-> Step(0, << >>)]
  <2>1. \A j \in 0 .. 0 : Step(j, f) = Step(0, << >>)
    BY DEF NextSegmentation
  <2>2. IsDP(0, f)
    <3> HIDE DEF Step
    <3> QED BY <2>1
  <2> QED BY <2>2
<1>2. ASSUME NEW m \in Nat, Defined(m) PROVE Defined(m + 1)
  <2>1. PICK f : IsDP(m, f)
    BY <1>2
  <2> DEFINE g == [j \in 0 .. m + 1 |-> Step(j, f)]
  <2>2. \A i \in 0 .. m : g[i] = f[i]
    <3> HIDE DEF Step
    <3> QED BY <2>1
  <2>3. ASSUME NEW j \in 0 .. m + 1 PROVE Step(j, g) = Step(j, f)
    <3> HIDE DEF g
    <3>1. j \in Nat /\ \A i \in 0 .. j - 1 : g[i] = f[i]
      BY <2>2
    <3> QED BY <3>1, OnlyEarlier
  <2>4. IsDP(m + 1, g)
    <3> HIDE DEF Step
    <3> QED BY <2>3
  <2> QED BY <2>4
<1>3. Defined(n)
  <2> HIDE DEF Defined
  <2>1. 0 \in N /\ \A m \in Nat : m \in N => m + 1 \in N
    BY <1>1, <1>2
  <2>2. Nat \subseteq N
    <3> HIDE DEF N
    <3> QED BY <2>1, NaturalInduction
  <2> QED BY <2>2
<1>4. Segmentations(values, tolerant) = CHOOSE f : IsDP(n, f)
  BY DEF Segmentations, NextSegmentation
<1>5. IsDP(n, Segmentations(values, tolerant))
  <2> HIDE DEF IsDP
  <2> QED BY <1>3, <1>4
<1> QED BY <1>5

(* Where patterns are inferred, the thresholds and the index are sound.    *)
Ready == config \in Configs /\ \E B \in Nat : Bounded(index, B)

(* The values of a group: not empty, and of one length.                    *)
IsGroup(values) ==
  /\ IsFiniteSet(DOMAIN values)
  /\ Width(values) \in Nat \ {0}
  /\ \A i \in DOMAIN values : values[i] \in Seq(Tokens) /\ Len(values[i]) = Width(values)

\* A feasible pattern of the least FPR, and what Solve makes of it.
IsBest(p, values, tolerant) ==
  /\ p \in Feasible(values, tolerant)
  /\ \A q \in Feasible(values, tolerant) : index[p].fpr <= index[q].fpr
  /\ Solve(values, tolerant) = [groups |-> << <<p>> >>, fpr |-> index[p].fpr, cov |-> index[p].cov]

\* Solve finds a best pattern where one is feasible,
LEMMA SolveFinds ==
  ASSUME Ready, NEW values, IsFiniteSet(DOMAIN values), NEW tolerant \in BOOLEAN,
         Feasible(values, tolerant) # {}
  PROVE  \E p : IsBest(p, values, tolerant)
<1> DEFINE F == Feasible(values, tolerant)
           best == CHOOSE p \in F : \A q \in F : ~Preferred(q, p, values)
<1>1. Solve(values, tolerant) = [groups |-> << <<best>> >>, fpr |-> index[best].fpr, cov |-> index[best].cov]
  BY DEF Solve
<1>2. F \subseteq DOMAIN index
  BY DEF Feasible
<1>3. PICK B \in Nat : Bounded(index, B)
  BY DEF Ready
<1>4. \E p \in F : \A q \in F : ~Preferred(q, p, values)
  <2>1. F # {}
    OBVIOUS
  <2> HIDE DEF F
  <2> QED BY <1>2, <1>3, <2>1, BestExists
<1>5. best \in F /\ \A q \in F : ~Preferred(q, best, values)
  <2> HIDE DEF F
  <2> QED BY <1>4
<1> HIDE DEF best
<1>6. \A q \in F : index[best].fpr <= index[q].fpr
  <2> SUFFICES ASSUME NEW q \in F PROVE index[best].fpr <= index[q].fpr
    OBVIOUS
  <2>1. ~(index[q].fpr < index[best].fpr)
    BY <1>5 DEF Preferred
  <2>2. index[q].fpr \in Nat /\ index[best].fpr \in Nat
    BY <1>2, <1>3, <1>5 DEF Bounded
  <2> QED BY <2>1, <2>2
<1> QED BY <1>1, <1>5, <1>6 DEF IsBest

\* and none where none is.
LEMMA SolveFails ==
  ASSUME Ready, NEW values, IsFiniteSet(DOMAIN values), NEW tolerant \in BOOLEAN
  PROVE  Solve(values, tolerant) = NoPattern <=> Feasible(values, tolerant) = {}
<1>1. CASE Feasible(values, tolerant) = {}
  BY <1>1 DEF Solve
<1>2. CASE Feasible(values, tolerant) # {}
  <2>1. PICK p : IsBest(p, values, tolerant)
    BY <1>2, SolveFinds
  <2>2. Solve(values, tolerant).groups = << <<p>> >>
    BY <2>1 DEF IsBest
  <2>3. NoPattern.groups = << >>
    BY DEF NoPattern
  <2> QED BY <1>2, <2>2, <2>3
<1> QED BY <1>1, <1>2

\* The numbers of a solved pattern.
LEMMA SolveNumbers ==
  ASSUME Ready, NEW values, NEW tolerant \in BOOLEAN, NEW p, IsBest(p, values, tolerant)
  PROVE  /\ Solve(values, tolerant).fpr \in 0 .. Scale
         /\ Solve(values, tolerant).cov \in Nat \ {0}
         /\ Solve(values, tolerant).groups = << <<p>> >>
<1>1. p \in DOMAIN index
  BY DEF IsBest, Feasible
<1>2. PICK B \in Nat : Bounded(index, B)
  BY DEF Ready
<1> QED BY <1>1, <1>2 DEF IsBest, Bounded

-----------------------------------------------------------------------------
\* The segmentation of the first i tokens can be extended by a segment to token j.
Extendable(values, tolerant, i, j) ==
  /\ i \in 0 .. j - 1 /\ j - i < config.tau
  /\ Segmentations(values, tolerant)[i] # NoPattern
  /\ Solve(Slice(values, i, j), tolerant) # NoPattern

\* That extension.
Extended(values, tolerant, i, j) ==
  LET before == Segmentations(values, tolerant)[i]
      last == Solve(Slice(values, i, j), tolerant)
  IN  [at       |-> i,
       segments |-> before.segments \o last.groups[1],
       fpr      |-> before.fpr + last.fpr,
       cov      |-> before.cov + last.cov]

\* No other extension to token j is cheaper, and dp[j] is this one.
IsCheapest(values, tolerant, i, j) ==
  /\ Extendable(values, tolerant, i, j)
  /\ Segmentations(values, tolerant)[j] = Extended(values, tolerant, i, j)
  /\ \A h : Extendable(values, tolerant, h, j) =>
              Extended(values, tolerant, i, j).fpr <= Extended(values, tolerant, h, j).fpr

\* A slice keeps the rows.
LEMMA SliceRows ==
  ASSUME NEW values, NEW i, NEW j
  PROVE  DOMAIN Slice(values, i, j) = DOMAIN values
BY DEF Slice

\* Among ways of cutting there is a cheapest one with the longest last segment.
LEMMA CheapestExists ==
  ASSUME NEW ways, ways # {}, \A w \in ways : w.fpr \in Nat /\ w.at \in Nat
  PROVE  /\ Cheapest(ways) \in ways
         /\ \A x \in ways : Cheapest(ways).fpr <= x.fpr
<1> DEFINE T == {w.fpr : w \in ways}
<1>1. PICK a \in ways : \A x \in ways : a.fpr <= x.fpr
  <2>1. T \in SUBSET Nat /\ T # {}
    OBVIOUS
  <2>2. PICK t \in T : \A u \in T : t <= u
    <3> HIDE DEF T
    <3> QED BY <2>1, LeastNatural
  <2> QED BY <2>2
<1> DEFINE U == {w.at : w \in {w \in ways : w.fpr = a.fpr}}
<1>2. PICK b \in ways : b.fpr = a.fpr /\ \A x \in ways : x.fpr = a.fpr => b.at <= x.at
  <2>1. U \in SUBSET Nat /\ U # {}
    OBVIOUS
  <2>2. PICK t \in U : \A u \in U : t <= u
    <3> HIDE DEF U
    <3> QED BY <2>1, LeastNatural
  <2> QED BY <2>2
<1>3. \A x \in ways : b.fpr < x.fpr \/ (b.fpr = x.fpr /\ b.at <= x.at)
  BY <1>1, <1>2
<1> DEFINE c == Cheapest(ways)
<1>4. c \in ways /\ \A x \in ways : c.fpr < x.fpr \/ (c.fpr = x.fpr /\ c.at <= x.at)
  BY <1>3 DEF Cheapest
<1> HIDE DEF c
<1>5. \A x \in ways : c.fpr <= x.fpr
  BY <1>4
<1> QED BY <1>4, <1>5 DEF c

\* What dp[j] is chosen from.
LEMMA WaysAreExtensions ==
  ASSUME NEW values, NEW tolerant, NEW j \in Nat, NEW w
  PROVE  w \in Extensions([i \in DOMAIN LastSegments(values, tolerant, j) |->
                              Segmentations(values, tolerant)[i]],
                          LastSegments(values, tolerant, j))
           <=> \E i : Extendable(values, tolerant, i, j) /\ w = Extended(values, tolerant, i, j)
<1> DEFINE last == LastSegments(values, tolerant, j)
           before == [i \in DOMAIN last |-> Segmentations(values, tolerant)[i]]
           R(i) == [at |-> i, segments |-> before[i].segments \o last[i].groups[1],
                    fpr |-> before[i].fpr + last[i].fpr, cov |-> before[i].cov + last[i].cov]
           D == {h \in DOMAIN last : before[h] # NoPattern /\ last[h] # NoPattern}
<1>1. Extensions(before, last) = {R(i) : i \in D}
  BY DEF Extensions
<1>2. \A i : i \in D <=> Extendable(values, tolerant, i, j)
  BY DEF LastSegments, Extendable
<1>3. \A i \in D : before[i] = Segmentations(values, tolerant)[i]
                   /\ last[i] = Solve(Slice(values, i, j), tolerant)
  BY DEF LastSegments
<1>4. \A i \in D : R(i) = Extended(values, tolerant, i, j)
  <2> HIDE DEF last, before, D
  <2> QED BY <1>3 DEF Extended
<1> HIDE DEF last, before, R, D
<1>5. w \in Extensions(before, last) <=> \E i : i \in D /\ w = R(i)
  BY <1>1
<1>6. w \in Extensions(before, last)
        <=> \E i : Extendable(values, tolerant, i, j) /\ w = Extended(values, tolerant, i, j)
  <2> HIDE DEF Extended
  <2> QED BY <1>2, <1>4, <1>5
<1> QED BY <1>6 DEF before, last

\* dp[j] is a cheapest extension, if the values before it have their type.
LEMMA SegmentationStep ==
  ASSUME Ready, NEW values, IsGroup(values), NEW tolerant \in BOOLEAN,
         NEW j \in 1 .. Width(values),
         \A i \in 0 .. j - 1 : Segmentations(values, tolerant)[i] # NoPattern =>
                                 Segmentations(values, tolerant)[i].fpr \in Nat
  PROVE  \/ /\ Segmentations(values, tolerant)[j] = NoPattern
            /\ \A i : ~Extendable(values, tolerant, i, j)
         \/ \E i : IsCheapest(values, tolerant, i, j)
<1> DEFINE dp == Segmentations(values, tolerant)
           last == LastSegments(values, tolerant, j)
           before == [i \in DOMAIN last |-> dp[i]]
           ways == Extensions(before, last)
<1>1. dp[j] = IF ways = {} THEN NoPattern ELSE Cheapest(ways)
  <2>1. Width(values) \in Nat /\ j \in 0 .. Width(values) /\ j # 0
    BY DEF IsGroup
  <2>2. dp[j] = NextSegmentation(values, tolerant, j, dp)
    <3>1. dp = [h \in 0 .. Width(values) |-> NextSegmentation(values, tolerant, h, dp)]
      BY <2>1, SegmentationsDefined
    <3> HIDE DEF dp
    <3> QED BY <2>1, <3>1
  <2> HIDE DEF dp
  <2> QED BY <2>1, <2>2 DEF NextSegmentation
<1>2. \A w : w \in ways <=> \E i : Extendable(values, tolerant, i, j) /\ w = Extended(values, tolerant, i, j)
  <2> SUFFICES ASSUME NEW w
               PROVE  w \in ways <=> \E i : Extendable(values, tolerant, i, j) /\ w = Extended(values, tolerant, i, j)
    OBVIOUS
  <2>1. j \in Nat
    BY DEF IsGroup
  <2> QED BY <2>1, WaysAreExtensions
<1> HIDE DEF ways, last, before
<1>3. ASSUME NEW i, Extendable(values, tolerant, i, j)
      PROVE  /\ Extended(values, tolerant, i, j).fpr \in Nat
             /\ Extended(values, tolerant, i, j).at = i /\ i \in Nat
  <2> DEFINE V == Slice(values, i, j)
  <2>1. IsFiniteSet(DOMAIN V) /\ Solve(V, tolerant) # NoPattern
    BY <1>3, SliceRows DEF IsGroup, Extendable
  <2>2. PICK p : IsBest(p, V, tolerant)
    <3> HIDE DEF V
    <3> QED BY <2>1, SolveFinds, SolveFails
  <2>3. Solve(V, tolerant).fpr \in Nat
    <3> HIDE DEF V
    <3>1. Solve(V, tolerant).fpr \in 0 .. Scale
      BY <2>2, SolveNumbers
    <3> QED BY <3>1
  <2>4. dp[i].fpr \in Nat /\ i \in Nat
    BY <1>3 DEF Extendable
  <2> HIDE DEF dp
  <2> QED BY <2>3, <2>4 DEF Extended, dp
<1>4. CASE ways = {}
  BY <1>1, <1>2, <1>4
<1>5. CASE ways # {}
  <2>1. \A w \in ways : w.fpr \in Nat /\ w.at \in Nat
    <3> HIDE DEF Extended
    <3> QED BY <1>2, <1>3
  <2>2. dp[j] \in ways /\ \A x \in ways : dp[j].fpr <= x.fpr
    <3>1. dp[j] = Cheapest(ways)
      BY <1>1, <1>5
    <3> HIDE DEF dp
    <3> QED BY <1>5, <2>1, <3>1, CheapestExists
  <2>3. PICK i : Extendable(values, tolerant, i, j) /\ dp[j] = Extended(values, tolerant, i, j)
    BY <1>2, <2>2
  <2>4. ASSUME NEW h, Extendable(values, tolerant, h, j)
        PROVE  Extended(values, tolerant, i, j).fpr <= Extended(values, tolerant, h, j).fpr
    <3>1. Extended(values, tolerant, h, j) \in ways
      BY <1>2, <2>4
    <3> HIDE DEF dp, Extended
    <3> QED BY <2>2, <2>3, <3>1
  <2> QED BY <2>3, <2>4 DEF IsCheapest
<1> QED BY <1>4, <1>5

\* Nothing is cut into no segments.
LEMMA SegmentationStart ==
  ASSUME NEW values, IsGroup(values), NEW tolerant
  PROVE  Segmentations(values, tolerant)[0] = [at |-> 0, segments |-> << >>, fpr |-> 0, cov |-> 0]
<1> DEFINE dp == Segmentations(values, tolerant)
<1>1. Width(values) \in Nat /\ 0 \in 0 .. Width(values)
  BY DEF IsGroup
<1>2. dp = [h \in 0 .. Width(values) |-> NextSegmentation(values, tolerant, h, dp)]
  BY <1>1, SegmentationsDefined
<1> HIDE DEF dp
<1>3. dp[0] = NextSegmentation(values, tolerant, 0, dp)
  BY <1>1, <1>2
<1> QED BY <1>3 DEF NextSegmentation, dp

(* The last segment of a segmentation.                                     *)
LEMMA LastSegmentFound ==
  ASSUME Ready, NEW values, IsGroup(values), NEW tolerant \in BOOLEAN, NEW i, NEW j,
         Extendable(values, tolerant, i, j)
  PROVE  \E p : IsBest(p, Slice(values, i, j), tolerant)
<1> DEFINE V == Slice(values, i, j)
<1>1. IsFiniteSet(DOMAIN V) /\ Solve(V, tolerant) # NoPattern
  BY SliceRows DEF IsGroup, Extendable
<1> HIDE DEF V
<1>2. Feasible(V, tolerant) # {}
  BY <1>1, SolveFails
<1>3. \E p : IsBest(p, V, tolerant)
  BY <1>1, <1>2, SolveFinds
<1> QED BY <1>3 DEF V

\* The numbers of dp[j].
Numbered(values, tolerant, j) ==
  Segmentations(values, tolerant)[j] # NoPattern =>
    /\ Segmentations(values, tolerant)[j].fpr \in Nat
    /\ Segmentations(values, tolerant)[j].cov \in Nat
    /\ j > 0 => Segmentations(values, tolerant)[j].cov > 0

\* Every value of the dynamic program has its type.
LEMMA SegmentationNumbers ==
  ASSUME Ready, NEW values, IsGroup(values), NEW tolerant \in BOOLEAN
  PROVE  \A j \in 0 .. Width(values) : Numbered(values, tolerant, j)
<1> DEFINE dp == Segmentations(values, tolerant)
           n == Width(values)
           F == {j \in Nat : Numbered(values, tolerant, j)}
<1>1. n \in Nat
  BY DEF IsGroup
<1>2. ASSUME NEW j \in 0 .. n, 0 .. j - 1 \subseteq F PROVE j \in F
  <2>1. CASE j = 0
    <3>1. dp[0].fpr = 0 /\ dp[0].cov = 0
      BY SegmentationStart
    <3> HIDE DEF dp
    <3> QED BY <2>1, <3>1 DEF Numbered, dp
  <2>2. CASE j # 0
    <3>1. \A i \in 0 .. j - 1 : Numbered(values, tolerant, i)
      BY <1>2
    <3>2. j \in 1 .. Width(values)
      BY <1>1, <2>2
    <3>3. \A i \in 0 .. j - 1 : dp[i] # NoPattern => dp[i].fpr \in Nat
      BY <3>1 DEF Numbered
    <3>4. \/ dp[j] = NoPattern
          \/ \E i : IsCheapest(values, tolerant, i, j)
      BY <3>2, <3>3, SegmentationStep
    <3>5. ASSUME NEW i, IsCheapest(values, tolerant, i, j) PROVE Numbered(values, tolerant, j)
      <4> DEFINE last == Solve(Slice(values, i, j), tolerant)
      <4>1. Extendable(values, tolerant, i, j) /\ dp[j] = Extended(values, tolerant, i, j)
        BY <3>5 DEF IsCheapest
      <4>2. PICK p : IsBest(p, Slice(values, i, j), tolerant)
        BY <4>1, LastSegmentFound
      <4>3. last.fpr \in 0 .. Scale /\ last.cov \in Nat \ {0}
        BY <4>2, SolveNumbers
      <4>4. dp[i].fpr \in Nat /\ dp[i].cov \in Nat
        <5>1. i \in 0 .. j - 1 /\ dp[i] # NoPattern
          BY <4>1 DEF Extendable
        <5> QED BY <3>1, <5>1 DEF Numbered
      <4>5. dp[j].fpr = dp[i].fpr + last.fpr /\ dp[j].cov = dp[i].cov + last.cov
        <5>1. /\ Extended(values, tolerant, i, j).fpr = dp[i].fpr + last.fpr
              /\ Extended(values, tolerant, i, j).cov = dp[i].cov + last.cov
          BY DEF Extended
        <5> QED BY <4>1, <5>1
      <4>6. dp[j].fpr \in Nat /\ dp[j].cov \in Nat /\ dp[j].cov > 0
        <5>1. Scale \in Nat
          BY ScaleAssumption
        <5> HIDE DEF dp, last, F
        <5> QED BY <4>3, <4>4, <4>5, <5>1
      <4> QED BY <4>6 DEF Numbered
    <3>6. dp[j] = NoPattern => Numbered(values, tolerant, j)
      BY DEF Numbered
    <3> QED BY <3>4, <3>5, <3>6
  <2> QED BY <2>1, <2>2
<1>3. 0 .. n \subseteq F
  <2> HIDE DEF F
  <2> QED BY <1>1, <1>2, StrongInduction
<1> QED BY <1>3

\* No segmentation ends at token j.
Uncuttable(values, tolerant, j) ==
  /\ Segmentations(values, tolerant)[j] = NoPattern
  /\ \A i : ~Extendable(values, tolerant, i, j)

\* dp[j] is the cheapest extension of an earlier value, if there is one.
LEMMA SegmentationCases ==
  ASSUME Ready, NEW values, IsGroup(values), NEW tolerant \in BOOLEAN, NEW j \in 1 .. Width(values)
  PROVE  Uncuttable(values, tolerant, j) \/ \E i : IsCheapest(values, tolerant, i, j)
<1>1. \A i \in 0 .. j - 1 : Segmentations(values, tolerant)[i] # NoPattern =>
                              Segmentations(values, tolerant)[i].fpr \in Nat
  <2> SUFFICES ASSUME NEW i \in 0 .. j - 1, Segmentations(values, tolerant)[i] # NoPattern
               PROVE  Segmentations(values, tolerant)[i].fpr \in Nat
    OBVIOUS
  <2>1. i \in 0 .. Width(values)
    BY DEF IsGroup
  <2>2. Numbered(values, tolerant, i)
    BY <2>1, SegmentationNumbers
  <2> QED BY <2>2 DEF Numbered
<1> QED BY <1>1, SegmentationStep DEF Uncuttable

\* An extension is a segmentation: none is taken for the absence of one.
LEMMA ExtendedIsFound ==
  ASSUME NEW values, NEW tolerant, NEW i, NEW j
  PROVE  Extended(values, tolerant, i, j) # NoPattern
<1> DEFINE e == Extended(values, tolerant, i, j)
<1>1. "at" \in DOMAIN e
  BY DEF Extended
<1>2. "at" \notin DOMAIN NoPattern
  BY DEF NoPattern
<1> QED BY <1>1, <1>2

\* The empty segmentation is one.
LEMMA StartIsFound ==
  ASSUME NEW values, IsGroup(values), NEW tolerant
  PROVE  Segmentations(values, tolerant)[0] # NoPattern
<1>1. "at" \in DOMAIN Segmentations(values, tolerant)[0]
  BY SegmentationStart
<1>2. "at" \notin DOMAIN NoPattern
  BY DEF NoPattern
<1> QED BY <1>1, <1>2

(* Columns without nulls and blanks, and their groups.                     *)
IsCleaned(values, n) ==
  /\ n \in Nat
  /\ DOMAIN values \subseteq 1 .. n
  /\ \A i \in DOMAIN values : values[i] \in Seq(Tokens) /\ Len(values[i]) > 0

\* A cleaned column.
LEMMA CleanIsCleaned ==
  ASSUME NEW cells \in Seq(Cells)
  PROVE  IsCleaned(Clean(cells), Len(cells))
<1> DEFINE V == Clean(cells)
<1>1. DOMAIN V = {j \in DOMAIN cells : cells[j] # Null /\ cells[j] # << >>}
  BY DEF Clean
<1>2. ASSUME NEW i \in DOMAIN V PROVE V[i] \in Seq(Tokens) /\ Len(V[i]) > 0
  <2>1. V[i] = cells[i] /\ i \in DOMAIN cells /\ cells[i] # Null /\ cells[i] # << >>
    BY DEF Clean
  <2>2. cells[i] \in Cells
    BY <2>1
  <2>3. cells[i] \in Seq(Tokens)
    BY <2>1, <2>2 DEF Cells
  <2> HIDE DEF V
  <2> QED BY <2>1, <2>3
<1>3. DOMAIN V \subseteq 1 .. Len(cells)
  BY <1>1
<1> QED BY <1>2, <1>3 DEF IsCleaned

\* Values of one signature have as many tokens.
LEMMA SignatureWidth ==
  ASSUME NEW v \in Seq(Tokens), NEW w \in Seq(Tokens), Signature(v) = Signature(w)
  PROVE  Len(v) = Len(w)
<1>1. DOMAIN Signature(v) = 1 .. Len(v) /\ DOMAIN Signature(w) = 1 .. Len(w)
  BY DEF Signature
<1>2. 1 .. Len(v) = 1 .. Len(w) /\ Len(v) \in Nat /\ Len(w) \in Nat
  BY <1>1
<1> QED BY <1>2

\* A cleaned column has finitely many rows.
LEMMA CleanedFinite ==
  ASSUME NEW n, NEW values, IsCleaned(values, n)
  PROVE  IsFiniteSet(DOMAIN values)
<1>1. DOMAIN values \in SUBSET (1 .. n) /\ IsFiniteSet(1 .. n)
  BY FS_Interval DEF IsCleaned
<1> QED BY <1>1, FS_Subset

\* A group has the values of its rows, all of one length.
LEMMA GroupIsGroup ==
  ASSUME NEW n, NEW values, IsCleaned(values, n), NEW r \in FirstRows(values)
  PROVE  /\ IsGroup(Groups(values)[r])
         /\ DOMAIN Groups(values)[r] \subseteq DOMAIN values
         /\ r \in DOMAIN Groups(values)[r]
         /\ \A i \in DOMAIN Groups(values)[r] :
              Groups(values)[r][i] = values[i] /\ Signature(values[i]) = Signature(values[r])
<1> DEFINE G == Groups(values)[r]
           D == {j \in DOMAIN values : Signature(values[j]) = Signature(values[r])}
<1>1. G = [j \in D |-> values[j]]
  BY DEF Groups, Restrict
<1>2. r \in D
  BY DEF FirstRows
<1>3. D \in SUBSET DOMAIN values /\ IsFiniteSet(D)
  <2>1. D \in SUBSET DOMAIN values
    OBVIOUS
  <2> HIDE DEF D
  <2> QED BY <2>1, CleanedFinite, FS_Subset
<1>4. ASSUME NEW i \in D
      PROVE  values[i] \in Seq(Tokens) /\ Len(values[i]) = Len(values[r]) /\ Len(values[r]) > 0
  BY <1>2, SignatureWidth DEF IsCleaned
<1> DEFINE c == CHOOSE i \in DOMAIN G : TRUE
<1>5. c \in D
  <2> HIDE DEF D, G
  <2> QED BY <1>1, <1>2
<1>6. Width(G) = Len(values[r])
  <2>1. Width(G) = Len(G[c])
    BY DEF Width
  <2> HIDE DEF c, G, D
  <2> QED BY <1>1, <1>4, <1>5, <2>1
<1>7. Len(values[r]) \in Nat \ {0}
  BY <1>2, <1>4
<1> HIDE DEF c, D
<1>8. IsGroup(G)
  <2> HIDE DEF G
  <2> QED BY <1>1, <1>3, <1>4, <1>6, <1>7 DEF IsGroup
<1>9. \A i \in D : Signature(values[i]) = Signature(values[r])
  BY DEF D
<1> QED BY <1>1, <1>2, <1>3, <1>8, <1>9

-----------------------------------------------------------------------------
\* A pattern that could be inferred: its numbers.
Typed(s) == s.fpr \in 0 .. Scale /\ s.cov \in Nat \ {0}

\* A capped sum is a fraction.
LEMMA CapBounds ==
  ASSUME NEW x \in Nat
  PROVE  Cap(x) \in 0 .. Scale
BY ScaleAssumption DEF Cap

\* A solved group has the segments of the dynamic program.
LEMMA SolveGroupFound ==
  ASSUME Ready, NEW values, IsGroup(values), NEW tolerant \in BOOLEAN,
         SolveGroup(values, tolerant) # NoPattern
  PROVE  /\ SegmentDP(values, tolerant) # NoPattern
         /\ SolveGroup(values, tolerant).groups = <<SegmentDP(values, tolerant).segments>>
         /\ Typed(SolveGroup(values, tolerant))
<1> DEFINE best == SegmentDP(values, tolerant)
           s == SolveGroup(values, tolerant)
<1>1. best # NoPattern /\ s = [groups |-> <<best.segments>>, fpr |-> Cap(best.fpr), cov |-> best.cov]
  BY DEF SolveGroup, AsGroup
<1>2. Width(values) \in 0 .. Width(values) /\ Width(values) > 0
  BY DEF IsGroup
<1>3. Numbered(values, tolerant, Width(values))
  BY <1>2, SegmentationNumbers
<1>4. best.fpr \in Nat /\ best.cov \in Nat \ {0}
  BY <1>1, <1>2, <1>3 DEF Numbered, SegmentDP
<1> HIDE DEF best, s
<1>5. Typed(s)
  BY <1>1, <1>4, CapBounds DEF Typed
<1> QED BY <1>1, <1>5 DEF best, s

(* The solved groups.                                                      *)
IsSolved(solved, values, tolerant) ==
  /\ DOMAIN solved \subseteq FirstRows(values)
  /\ \A r \in DOMAIN solved : /\ solved[r] = SolveGroup(Groups(values)[r], tolerant)
                              /\ solved[r] # NoPattern

\* The groups that GroupPatterns keeps are the solved ones.
LEMMA GroupPatternsSolved ==
  ASSUME NEW values, NEW tolerant
  PROVE  IsSolved(GroupPatterns(values, tolerant), values, tolerant)
<1> DEFINE groups == Groups(values)
           found == [i \in DOMAIN groups |-> SolveGroup(groups[i], tolerant)]
           D == {i \in DOMAIN found : found[i] # NoPattern}
<1>1. GroupPatterns(values, tolerant) = [i \in D |-> found[i]]
  BY DEF GroupPatterns, Restrict
<1>2. DOMAIN groups = FirstRows(values)
  BY DEF Groups
<1> QED BY <1>1, <1>2 DEF IsSolved

\* They are finitely many, by rows.
LEMMA SolvedRows ==
  ASSUME NEW n, NEW values, IsCleaned(values, n), NEW tolerant, NEW solved, IsSolved(solved, values, tolerant)
  PROVE  IsFiniteSet(DOMAIN solved) /\ DOMAIN solved \in SUBSET Nat
<1>1. DOMAIN solved \in SUBSET DOMAIN values
  BY DEF IsSolved, FirstRows
<1>2. IsFiniteSet(DOMAIN values)
  BY CleanedFinite
<1>3. DOMAIN values \in SUBSET Nat
  BY DEF IsCleaned
<1> QED BY <1>1, <1>2, <1>3, FS_Subset

\* Their numbers and segments.
LEMMA SolvedTyped ==
  ASSUME Ready, NEW n, NEW values, IsCleaned(values, n), NEW tolerant \in BOOLEAN,
         NEW solved, IsSolved(solved, values, tolerant), NEW r \in DOMAIN solved
  PROVE  /\ Typed(solved[r])
         /\ solved[r].groups = <<SegmentDP(Groups(values)[r], tolerant).segments>>
<1>1. /\ solved[r] = SolveGroup(Groups(values)[r], tolerant) /\ solved[r] # NoPattern
      /\ r \in FirstRows(values)
  BY DEF IsSolved
<1>2. IsGroup(Groups(values)[r])
  BY <1>1, GroupIsGroup
<1> QED BY <1>1, <1>2, SolveGroupFound

(* fmdv_v: a best group exists, since no two groups have the same row.     *)
LEMMA BestGroupFound ==
  ASSUME NEW solved, IsFiniteSet(DOMAIN solved), DOMAIN solved \in SUBSET Nat, DOMAIN solved # {},
         \A r \in DOMAIN solved : Typed(solved[r])
  PROVE  \E r \in DOMAIN solved : BestGroup(solved) = solved[r]
<1> DEFINE D == DOMAIN solved
           fpr == [r \in D |-> solved[r].fpr]
           cov == [r \in D |-> solved[r].cov]
           better(i, j) ==
             \/ solved[i].fpr < solved[j].fpr
             \/ solved[i].fpr = solved[j].fpr
                  /\ (solved[i].cov > solved[j].cov \/ (solved[i].cov = solved[j].cov /\ i < j))
<1>1. \A r \in D : fpr[r] \in Int /\ cov[r] \in Int
  BY ScaleAssumption DEF Typed
<1>2. PICK a \in D : \A r \in D : fpr[a] <= fpr[r]
  <2>1. D # {} /\ IsFiniteSet(D)
    OBVIOUS
  <2> HIDE DEF D, fpr
  <2> QED BY <1>1, <2>1, LeastMember
<1> DEFINE G == {r \in D : fpr[r] = fpr[a]}
<1>3. PICK b \in G : \A r \in G : cov[r] <= cov[b]
  <2>1. G # {} /\ G \in SUBSET D
    OBVIOUS
  <2>2. IsFiniteSet(G)
    <3> HIDE DEF G
    <3> QED BY <2>1, FS_Subset
  <2>3. \A r \in G : cov[r] \in Int
    BY <1>1
  <2> HIDE DEF G, cov
  <2> QED BY <2>1, <2>2, <2>3, GreatestMember
<1> DEFINE H == {r \in G : cov[r] = cov[b]}
<1>4. PICK c \in H : \A r \in H : c <= r
  <2>1. H # {} /\ H \in SUBSET Nat
    OBVIOUS
  <2> HIDE DEF H
  <2> QED BY <2>1, LeastNatural
<1>5. ASSUME NEW r \in D \ {c} PROVE better(c, r)
  <2>1. fpr[c] = fpr[a] /\ cov[c] = cov[b] /\ c \in D
    OBVIOUS
  <2>2. fpr[a] <= fpr[r]
    BY <1>2
  <2>3. fpr[r] = fpr[a] => cov[r] <= cov[b]
    BY <1>3
  <2>4. fpr[r] = fpr[a] /\ cov[r] = cov[b] => c <= r
    BY <1>4
  <2>5. r \in Nat /\ c \in Nat /\ r # c
    OBVIOUS
  <2>6. /\ fpr[r] = solved[r].fpr /\ fpr[c] = solved[c].fpr
        /\ cov[r] = solved[r].cov /\ cov[c] = solved[c].cov
    OBVIOUS
  <2>7. fpr[r] \in Int /\ fpr[a] \in Int /\ cov[r] \in Int /\ cov[b] \in Int
    BY <1>1
  <2> HIDE DEF fpr, cov, D, G, H
  <2> QED BY <2>1, <2>2, <2>3, <2>4, <2>5, <2>6, <2>7
<1>6. \E i \in D : \A j \in D \ {i} : better(i, j)
  <2> HIDE DEF better
  <2> QED BY <1>5
<1>7. (CHOOSE i \in D : \A j \in D \ {i} : better(i, j)) \in D
  <2> HIDE DEF better, D
  <2> QED BY <1>6
<1>8. BestGroup(solved) = solved[CHOOSE i \in D : \A j \in D \ {i} : better(i, j)]
  BY DEF BestGroup
<1> HIDE DEF better
<1> QED BY <1>7, <1>8

\* A sum is positive if its last number is.
LEMMA TotalPositive ==
  ASSUME NEW s \in Seq(Nat), Len(s) > 0, s[Len(s)] > 0
  PROVE  Total(s) \in Nat \ {0}
<1> DEFINE n == Len(s) - 1
           r == [k \in 1 .. n |-> s[k]]
<1>1. n \in Nat /\ Len(s) = n + 1
  OBVIOUS
<1>2. r \in Seq(Nat) /\ Len(r) = n /\ \A k \in 1 .. n : r[k] = s[k]
  BY <1>1
<1> HIDE DEF n, r
<1>3. Total(s) = Total(r) + s[n + 1]
  BY <1>1, <1>2, TotalLast
<1>4. Total(r) \in Nat /\ Total(s) \in Nat /\ s[n + 1] \in Nat
  BY <1>1, <1>2, TotalType
<1> QED BY <1>1, <1>3, <1>4

\* What is summed over all groups has its type.
LEMMA AllGroupsTyped ==
  ASSUME NEW solved, IsFiniteSet(DOMAIN solved), DOMAIN solved \in SUBSET Nat, DOMAIN solved # {},
         \A r \in DOMAIN solved : Typed(solved[r])
  PROVE  Typed(AllGroups(solved))
<1> DEFINE all == InOrder(solved)
           n == Cardinality(DOMAIN solved)
           fprs == [k \in DOMAIN all |-> all[k].fpr]
           covs == [k \in DOMAIN all |-> all[k].cov]
<1>1. n \in Nat /\ n # 0
  BY FS_CardinalityType, FS_EmptySet
<1>2. DOMAIN all = 1 .. n
  BY InOrderRows
<1>3. \A k \in 1 .. n : all[k].fpr \in Nat /\ all[k].cov \in Nat \ {0}
  <2> SUFFICES ASSUME NEW k \in 1 .. n PROVE all[k].fpr \in Nat /\ all[k].cov \in Nat \ {0}
    OBVIOUS
  <2>1. PICK r \in DOMAIN solved : all[k] = solved[r]
    BY <1>2, InOrderRows
  <2> HIDE DEF all
  <2> QED BY <2>1, ScaleAssumption DEF Typed
<1>4. /\ AllGroups(solved).fpr = Cap(Total(fprs))
      /\ AllGroups(solved).cov = Total(covs)
  BY DEF AllGroups
<1> HIDE DEF all, n
<1>5. fprs \in Seq(Nat) /\ covs \in Seq(Nat) /\ Len(covs) = n /\ covs[n] > 0
  BY <1>1, <1>2, <1>3
<1>6. Total(fprs) \in Nat /\ Total(covs) \in Nat \ {0}
  <2> HIDE DEF fprs, covs
  <2>1. Total(fprs) \in Nat
    BY <1>5, TotalType
  <2>2. Total(covs) \in Nat \ {0}
    BY <1>1, <1>5, TotalPositive
  <2> QED BY <2>1, <2>2
<1> QED BY <1>4, <1>6, CapBounds DEF Typed

-----------------------------------------------------------------------------
(* What infer_pattern returns, by the variant.                             *)
Tolerant == config.variant \in {"fmdv_h", "fmdv_vh"}

\* What fmdv_v and fmdv_vh infer.
LEMMA VerticalPattern ==
  ASSUME Ready, NEW n, NEW values, IsCleaned(values, n), config.variant \in {"fmdv_v", "fmdv_vh"},
         InferPattern(values) # NoPattern
  PROVE  /\ DOMAIN GroupPatterns(values, Tolerant) # {}
         /\ InferPattern(values) = IF config.variant = "fmdv_v"
                                   THEN BestGroup(GroupPatterns(values, Tolerant))
                                   ELSE AllGroups(GroupPatterns(values, Tolerant))
<1> DEFINE solved == GroupPatterns(values, Tolerant)
<1>1. InferPattern(values) =
        IF DOMAIN values = {} THEN NoPattern
        ELSE IF config.variant \in {"fmdv", "fmdv_h"} THEN Solve(values, Tolerant)
        ELSE IF DOMAIN solved = {} THEN NoPattern
        ELSE IF config.variant = "fmdv_v" THEN BestGroup(solved)
        ELSE AllGroups(solved)
  BY DEF InferPattern, Tolerant
<1>2. config.variant \notin {"fmdv", "fmdv_h"}
  OBVIOUS
<1> HIDE DEF solved
<1>3. DOMAIN solved # {} /\ DOMAIN values # {}
  BY <1>1, <1>2
<1>4. InferPattern(values) = IF config.variant = "fmdv_v" THEN BestGroup(solved) ELSE AllGroups(solved)
  BY <1>1, <1>2, <1>3
<1> QED BY <1>3, <1>4 DEF solved

\* Only fmdv_vh infers a list, and every inferred pattern has its type.
LEMMA InferredTyped ==
  ASSUME Ready, NEW n, NEW values, IsCleaned(values, n), InferPattern(values) # NoPattern
  PROVE  /\ Typed(InferPattern(values))
         /\ config.variant # "fmdv_vh" => ~IsList(InferPattern(values).groups)
<1>1. IsFiniteSet(DOMAIN values)
  BY CleanedFinite
<1>2. config.variant \in Variants /\ Tolerant \in BOOLEAN
  BY ConfigsAssumption DEF Ready, Tolerant
<1>3. CASE config.variant \in {"fmdv", "fmdv_h"}
  <2>1. InferPattern(values) = Solve(values, Tolerant)
    BY <1>3 DEF InferPattern, Tolerant
  <2>2. PICK p : IsBest(p, values, Tolerant)
    BY <1>1, <1>2, <2>1, SolveFinds, SolveFails
  <2>3. /\ Solve(values, Tolerant).fpr \in 0 .. Scale
        /\ Solve(values, Tolerant).cov \in Nat \ {0}
        /\ Solve(values, Tolerant).groups = << <<p>> >>
    BY <1>2, <2>2, SolveNumbers
  <2> QED BY <2>1, <2>3 DEF Typed, IsList
<1>4. CASE config.variant \in {"fmdv_v", "fmdv_vh"}
  <2> DEFINE solved == GroupPatterns(values, Tolerant)
  <2>1. DOMAIN solved # {}
    BY <1>4, VerticalPattern
  <2>2. InferPattern(values) = IF config.variant = "fmdv_v" THEN BestGroup(solved) ELSE AllGroups(solved)
    BY <1>4, VerticalPattern
  <2>3. IsSolved(solved, values, Tolerant)
    BY GroupPatternsSolved
  <2> HIDE DEF solved
  <2>4. IsFiniteSet(DOMAIN solved) /\ DOMAIN solved \in SUBSET Nat
    BY <2>3, SolvedRows
  <2>5. \A r \in DOMAIN solved : Typed(solved[r])
    BY <1>2, <2>3, SolvedTyped
  <2>6. \A r \in DOMAIN solved : ~IsList(solved[r].groups)
    <3> SUFFICES ASSUME NEW r \in DOMAIN solved PROVE ~IsList(solved[r].groups)
      OBVIOUS
    <3>1. solved[r].groups = <<SegmentDP(Groups(values)[r], Tolerant).segments>>
      BY <1>2, <2>3, SolvedTyped
    <3> QED BY <3>1 DEF IsList
  <2>7. CASE config.variant = "fmdv_v"
    <3>1. PICK r \in DOMAIN solved : BestGroup(solved) = solved[r]
      BY <2>1, <2>4, <2>5, BestGroupFound
    <3> QED BY <2>2, <2>5, <2>6, <2>7, <3>1
  <2>8. CASE config.variant = "fmdv_vh"
    BY <2>1, <2>2, <2>4, <2>5, <2>8, AllGroupsTyped
  <2> QED BY <1>4, <2>7, <2>8
<1> QED BY <1>2, <1>3, <1>4 DEF Variants

\* The verdicts of a column that was judged.
Verdicts == {"none", "ok", "error"}

(* What was inferred, the verdicts and the drift counts, and where a call  *)
(* stands.                                                                 *)
JudgeInv ==
  /\ building \in BOOLEAN
  /\ building => pc = "idle"
  /\ pc = "inferred" => index # NoIndex
  /\ column \in Seq(Cells)
  /\ pc = "idle" => verdicts = << >>
  /\ pc # "judged" => drift = [train |-> 0, test |-> 0]
  /\ inferred # NoPattern => /\ Typed(inferred)
                             /\ config.variant # "fmdv_vh" => ~IsList(inferred.groups)
  /\ \A i \in DOMAIN verdicts : verdicts[i] \in Verdicts
  /\ drift.train \in 0 .. Len(column) /\ drift.test \in Nat

\* No more values fail to conform than there are.
LEMMA NonConformingBound ==
  ASSUME NEW cells \in Seq(Cells)
  PROVE  NonConforming(cells) \in 0 .. Len(cells)
<1> DEFINE N == {i \in DOMAIN Clean(cells) : ~Conforms(inferred.groups, cells[i])}
<1>1. N \in SUBSET (1 .. Len(cells))
  BY DEF Clean
<1>2. Len(cells) \in Nat
  OBVIOUS
<1> HIDE DEF N
<1>3. IsFiniteSet(1 .. Len(cells)) /\ Cardinality(1 .. Len(cells)) = Len(cells)
  BY <1>2, FS_Interval
<1>4. IsFiniteSet(N) /\ Cardinality(N) <= Len(cells)
  BY <1>1, <1>3, FS_Subset
<1>5. Cardinality(N) \in Nat
  BY <1>4, FS_CardinalityType
<1> QED BY <1>2, <1>4, <1>5 DEF NonConforming, N

\* A cell has a verdict, or judging it raises.
LEMMA CellVerdictType ==
  ASSUME NEW cell
  PROVE  CellVerdict(cell) \in Verdicts \union {"raises"}
BY DEF CellVerdict, Outcome, Verdicts

\* JudgeInv is inductive, relative to the invariants before it.
LEMMA JudgeInvariant == Spec => []JudgeInv
<1>1. Init => JudgeInv
  <2> SUFFICES ASSUME Init PROVE JudgeInv
    OBVIOUS
  <2>1. building \in BOOLEAN /\ ~building /\ inferred = NoPattern /\ verdicts = << >> /\ pc = "idle"
    BY DEF Init
  <2>2. column \in Seq(Cells) /\ Len(column) = 0
    BY DEF Init
  <2>3. drift = [train |-> 0, test |-> 0]
    BY DEF Init
  <2> QED BY <2>1, <2>2, <2>3 DEF JudgeInv
<1>2. IndexInv /\ DetectInv /\ DriftInv /\ JudgeInv /\ [Next]_vars => JudgeInv'
  <2> SUFFICES ASSUME IndexInv, DetectInv, DriftInv, JudgeInv, [Next]_vars PROVE JudgeInv'
    OBVIOUS
  <2> USE DEF JudgeInv
  <2>1. ASSUME UNCHANGED <<config, column, inferred, verdicts, drift, pc>>, building' \in BOOLEAN,
               building' => pc = "idle", pc = "inferred" => index' = index
        PROVE  JudgeInv'
    BY <2>1 DEF Typed, CellVerdict
  <2>2. CASE UNCHANGED vars
    BY <2>1, <2>2 DEF vars
  <2>3. ASSUME NEW k \in Corpora, StartBuild(k) PROVE JudgeInv'
    BY <2>1, <2>3 DEF StartBuild
  <2>4. CASE ScanColumn \/ BuildRaises \/ FinishBuild
    BY <2>1, <2>4 DEF ScanColumn, BuildRaises, FinishBuild
  <2>5. ASSUME NEW cells \in Columns, Infer(cells) PROVE JudgeInv'
    <3> DEFINE V == Clean(cells)
    <3>1. cells \in Seq(Cells) /\ IsCleaned(V, Len(cells))
      BY ColumnsAssumption, CleanIsCleaned
    <3>2. Ready
      BY <2>5 DEF Ready, Infer, IndexInv, DetectInv
    <3>3. inferred' = InferPattern(V) /\ column' = cells /\ pc' = "inferred"
          /\ UNCHANGED <<config, building, index, verdicts, drift>> /\ pc = "idle"
          /\ index # NoIndex /\ ~building
      BY <2>5 DEF Infer
    <3>4. inferred' # NoPattern =>
            /\ Typed(inferred')
            /\ config.variant # "fmdv_vh" => ~IsList(inferred'.groups)
      <4> HIDE DEF V
      <4> QED BY <3>1, <3>2, <3>3, InferredTyped
    <3>5. drift' = [train |-> 0, test |-> 0] /\ verdicts' = << >>
      BY <3>3
    <3>6. Len(cells) \in Nat
      BY <3>1
    <3> HIDE DEF V
    <3>7. Typed(inferred)' <=> Typed(inferred')
      BY DEF Typed
    <3> QED BY <3>1, <3>3, <3>4, <3>5, <3>6, <3>7
  <2>6. CASE InferWithoutIndex
    BY <2>6 DEF InferWithoutIndex, DetectInv, Typed
  <2>7. ASSUME NEW cells \in Columns, CheckDrift(cells) PROVE JudgeInv'
    <3>1. UNCHANGED <<config, building, index, column, inferred, verdicts, pc>> /\ pc = "judged"
      BY <2>7 DEF CheckDrift
    <3>2. drift'.train \in 0 .. Len(column) /\ drift'.test \in Nat
      <4>1. cells \in Seq(Cells)
        BY ColumnsAssumption
      <4>2. NonConforming(column) \in 0 .. Len(column)
        BY NonConformingBound
      <4>3. NonConforming(cells) \in 0 .. Len(cells)
        BY <4>1, NonConformingBound
      <4>4. Len(column) \in Nat /\ Len(cells) \in Nat
        BY <4>1
      <4>5. \/ drift' = [train |-> 0, test |-> 0]
            \/ drift' = [train |-> NonConforming(column), test |-> NonConforming(cells)]
        BY <2>7 DEF CheckDrift
      <4> QED BY <4>2, <4>3, <4>4, <4>5
    <3> QED BY <3>1, <3>2 DEF Typed
  <2>8. CASE Judge
    <3> DEFINE found == [i \in DOMAIN column |-> CellVerdict(column[i])]
    <3>1. UNCHANGED <<config, building, index, column, inferred, drift>> /\ pc = "inferred"
      BY <2>8 DEF Judge
    <3>2. /\ "raises" \in Range(found) => pc' = "raised" /\ verdicts' = verdicts
          /\ "raises" \notin Range(found) => pc' = "judged" /\ verdicts' = found
      BY <2>8 DEF Judge
    <3>3. CASE "raises" \in Range(found)
      <4> HIDE DEF found
      <4> QED BY <3>1, <3>2, <3>3 DEF Typed
    <3>4. CASE "raises" \notin Range(found)
      <4>1. \A i \in DOMAIN found : found[i] \in Verdicts
        BY <3>4, CellVerdictType DEF Range
      <4> HIDE DEF found
      <4> QED BY <3>1, <3>2, <3>4, <4>1 DEF Typed
    <3> QED BY <3>3, <3>4
  <2>9. CASE NextCall
    BY <2>9 DEF NextCall
  <2> QED
    BY <2>2, <2>3, <2>4, <2>5, <2>6, <2>7, <2>8, <2>9 DEF Next
<1> QED BY <1>1, <1>2, IndexInvariant, DetectInvariant, DriftInvariant, PTL DEF Spec

(* Every variable of the algorithm has its type: the FPR of a published or *)
(* inferred pattern is a fraction, even where FPRs of segments and groups  *)
(* are added up, and every coverage counts at least one column.            *)
THEOREM AVTypesCorrect == Spec => []AVTypeOK
<1>1. IndexInv /\ DetectInv /\ JudgeInv => AVTypeOK
  <2> SUFFICES ASSUME IndexInv, DetectInv, JudgeInv PROVE AVTypeOK
    OBVIOUS
  <2>1. index # NoIndex =>
          \A p \in DOMAIN index : index[p].fpr \in 0 .. Scale /\ index[p].cov \in Nat \ {0}
    BY DEF IndexInv, Bounded
  <2>2. inferred # NoPattern => inferred.fpr \in 0 .. Scale /\ inferred.cov \in Nat \ {0}
    BY DEF JudgeInv, Typed
  <2>3. /\ config \in Configs /\ building \in BOOLEAN
        /\ pc \in {"idle", "inferred", "judged", "raised"}
    BY DEF DetectInv, JudgeInv
  <2>4. /\ \A i \in DOMAIN verdicts : verdicts[i] \in {"none", "ok", "error"}
        /\ drift.train \in 0 .. Len(column) /\ drift.test \in Nat
    BY DEF JudgeInv, Verdicts
  <2> QED BY <2>1, <2>2, <2>3, <2>4 DEF AVTypeOK
<1> QED BY <1>1, IndexInvariant, DetectInvariant, JudgeInvariant, PTL

\* The number of values that have to conform is at most their number.
LEMMA MinConformingBound ==
  ASSUME NEW d \in Nat \ {0}, NEW a \in 0 .. d, NEW n \in Nat
  PROVE  ((d - a) * n + d - 1) \div d <= n
<1> DEFINE x == (d - a) * n
           q == (x + d - 1) \div d
<1>1. x \in Nat /\ x <= d * n
  <2>1. x = d * n - a * n /\ a * n \in Nat /\ d * n \in Nat /\ (d - a) * n \in Nat
    OBVIOUS
  <2> QED BY <2>1
<1> HIDE DEF x
<1>2. q \in Nat /\ d * q <= x + d - 1
  BY <1>1
<1> HIDE DEF q
<1>3. d * q <= d * n + d - 1
  <2>1. d * n \in Nat /\ d * q \in Nat
    BY <1>2
  <2> QED BY <1>1, <1>2, <2>1
<1>4. ASSUME q >= n + 1 PROVE FALSE
  <2>1. d * q >= d * (n + 1)
    BY <1>2, <1>4
  <2>2. d * (n + 1) = d * n + d /\ d * n \in Nat /\ d * q \in Nat
    BY <1>2
  <2> QED BY <1>3, <2>1, <2>2
<1>5. q <= n
  BY <1>2, <1>4
<1> QED BY <1>5 DEF q, x

\* What no value fails, fewer values than allowed fail.
LEMMA ToleranceAdmits ==
  ASSUME Ready, NEW values, IsFiniteSet(DOMAIN values), NEW tolerant \in BOOLEAN
  PROVE  Feasible(values, FALSE) \subseteq Feasible(values, tolerant)
<1>1. Size(values) \in Nat
  BY FS_CardinalityType DEF Size
<1>2. config.theta[2] \in Nat \ {0} /\ config.theta[1] \in 0 .. config.theta[2]
  BY ConfigsAssumption DEF Ready
<1>3. MinConforming(config.theta, Size(values)) <= Size(values)
  BY <1>1, <1>2, MinConformingBound DEF MinConforming
<1>4. MinConforming(config.theta, Size(values)) \in Int
  BY <1>1, <1>2 DEF MinConforming
<1>5. ASSUME NEW p \in Feasible(values, FALSE) PROVE p \in Feasible(values, tolerant)
  <2>1. Cardinality(Conforming(p, values)) >= Size(values)
    BY DEF Feasible, Required
  <2>2. Cardinality(Conforming(p, values)) \in Nat
    BY ConformingBound
  <2>3. Cardinality(Conforming(p, values)) >= Required(values, tolerant)
    BY <1>1, <1>3, <1>4, <2>1, <2>2 DEF Required
  <2> QED BY <2>3 DEF Feasible
<1> QED BY <1>5

\* The FPR of a solved column is that of its best pattern.
LEMMA BestFpr ==
  ASSUME NEW values, NEW tolerant, NEW p, IsBest(p, values, tolerant)
  PROVE  Solve(values, tolerant).fpr = index[p].fpr
BY DEF IsBest

\* A pattern is found and its FPR is not larger.
NotWorse(found, basic) == found # NoPattern /\ found.fpr <= basic.fpr

\* Tolerating values keeps every feasible pattern, so that the best is not worse.
LEMMA ToleranceHelps ==
  ASSUME Ready, NEW values, IsFiniteSet(DOMAIN values), NEW tolerant \in BOOLEAN,
         Solve(values, FALSE) # NoPattern
  PROVE  NotWorse(Solve(values, tolerant), Solve(values, FALSE))
<1>1. Feasible(values, FALSE) # {}
  BY SolveFails
<1>2. PICK p : IsBest(p, values, FALSE)
  BY <1>1, SolveFinds
<1>3. p \in Feasible(values, tolerant)
  BY <1>2, ToleranceAdmits DEF IsBest
<1>4. PICK q : IsBest(q, values, tolerant)
  BY <1>3, SolveFinds
<1>5. index[q].fpr <= index[p].fpr
  BY <1>3, <1>4 DEF IsBest
<1>6. Solve(values, tolerant).fpr = index[q].fpr /\ Solve(values, FALSE).fpr = index[p].fpr
  BY <1>2, <1>4, BestFpr
<1>7. Solve(values, tolerant) # NoPattern
  BY <1>3, SolveFails
<1> QED BY <1>5, <1>6, <1>7 DEF NotWorse

\* The slice of all tokens is the column.
LEMMA WholeSlice ==
  ASSUME NEW values, IsGroup(values), values = [i \in DOMAIN values |-> values[i]]
  PROVE  Slice(values, 0, Width(values)) = values
<1> DEFINE n == Width(values)
<1>1. ASSUME NEW i \in DOMAIN values PROVE SubSeq(values[i], 0 + 1, n) = values[i]
  <2>1. values[i] \in Seq(Tokens) /\ Len(values[i]) = n
    BY DEF IsGroup
  <2> HIDE DEF n
  <2> QED BY <2>1
<1> QED BY <1>1 DEF Slice

\* The segmentation without cuts is one of those that the dynamic program compares.
LEMMA UncutIsCompared ==
  ASSUME Ready, NEW values, IsGroup(values), values = [i \in DOMAIN values |-> values[i]],
         Width(values) < config.tau, NEW tolerant \in BOOLEAN, Solve(values, tolerant) # NoPattern
  PROVE  NotWorse(SegmentDP(values, tolerant), Solve(values, tolerant))
<1> DEFINE n == Width(values)
           dp == Segmentations(values, tolerant)
           uncut == Extended(values, tolerant, 0, n)
<1>1. n \in Nat \ {0}
  BY DEF IsGroup
<1>2. Slice(values, 0, n) = values
  BY WholeSlice
<1>3. Extendable(values, tolerant, 0, n)
  BY <1>1, <1>2, StartIsFound DEF Extendable
<1>4. uncut.fpr = Solve(values, tolerant).fpr
  <2>1. uncut.fpr = dp[0].fpr + Solve(values, tolerant).fpr
    BY <1>2 DEF Extended
  <2>2. dp[0].fpr = 0
    BY SegmentationStart
  <2>3. PICK p : IsBest(p, Slice(values, 0, n), tolerant)
    BY <1>3, LastSegmentFound
  <2>4. Solve(values, tolerant).fpr \in 0 .. Scale
    BY <1>2, <2>3, SolveNumbers
  <2>5. Solve(values, tolerant).fpr \in Int
    BY <2>4
  <2> HIDE DEF uncut, dp
  <2> QED BY <2>1, <2>2, <2>5
<1>5. PICK i : IsCheapest(values, tolerant, i, n)
  <2>1. n \in 1 .. Width(values)
    BY <1>1
  <2>2. ~Uncuttable(values, tolerant, n)
    BY <1>3 DEF Uncuttable
  <2> QED BY <2>1, <2>2, SegmentationCases
<1>6. dp[n] = Extended(values, tolerant, i, n) /\ Extended(values, tolerant, i, n).fpr <= uncut.fpr
  BY <1>3, <1>5 DEF IsCheapest
<1>7. dp[n] # NoPattern
  BY <1>6, ExtendedIsFound
<1>8. SegmentDP(values, tolerant) = dp[n]
  BY DEF SegmentDP
<1> HIDE DEF dp, uncut, n
<1> QED BY <1>4, <1>6, <1>7, <1>8 DEF NotWorse

\* A column of one signature lines up.
LEMMA CleanedGroup ==
  ASSUME NEW n, NEW values, IsCleaned(values, n), DOMAIN values # {}, OneSignature(values)
  PROVE  /\ IsGroup(values)
         /\ \A i \in DOMAIN values : Len(values[i]) = Width(values)
<1> DEFINE c == CHOOSE i \in DOMAIN values : TRUE
<1>1. c \in DOMAIN values
  OBVIOUS
<1>2. Width(values) = Len(values[c])
  BY DEF Width
<1> HIDE DEF c
<1>3. values[c] \in Seq(Tokens) /\ Len(values[c]) > 0
  BY <1>1 DEF IsCleaned
<1>4. Len(values[c]) \in Nat \ {0}
  BY <1>3
<1>5. ASSUME NEW i \in DOMAIN values
      PROVE  values[i] \in Seq(Tokens) /\ Len(values[i]) = Len(values[c])
  <2>1. values[i] \in Seq(Tokens) /\ Signature(values[i]) = Signature(values[c])
    BY <1>1 DEF IsCleaned, OneSignature
  <2> QED BY <1>3, <2>1, SignatureWidth
<1> QED BY <1>2, <1>4, <1>5, CleanedFinite DEF IsGroup

(* Tolerating some values, or cutting where no cut is needed, never makes  *)
(* a solvable column unsolvable and never raises the FPR of what is        *)
(* inferred, whatever the index and the column.                            *)
THEOREM FreedomIsFree == Spec => []FreedomNeverCosts
<1>1. IndexInv /\ DetectInv /\ JudgeInv => FreedomNeverCosts
  <2> SUFFICES ASSUME IndexInv, DetectInv, JudgeInv, pc = "inferred",
                      DOMAIN Clean(column) # {}, Solve(Clean(column), FALSE) # NoPattern
               PROVE  FreedomNeverCosts
    BY DEF FreedomNeverCosts
  <2> DEFINE V == Clean(column)
             basic == Solve(V, FALSE)
             uncut == OneSignature(V) /\ \A i \in DOMAIN V : Len(V[i]) < config.tau
  <2>1. IsCleaned(V, Len(column)) /\ V = [i \in DOMAIN V |-> V[i]]
    <3>1. V = [i \in DOMAIN V |-> V[i]]
      BY DEF Clean
    <3> QED BY <3>1, CleanIsCleaned DEF JudgeInv
  <2>2. Ready
    BY DEF Ready, IndexInv, DetectInv, JudgeInv
  <2>3. DOMAIN V # {} /\ basic # NoPattern
    OBVIOUS
  <2> HIDE DEF V
  <2>4. IsFiniteSet(DOMAIN V)
    BY <2>1, CleanedFinite
  <2>5. \A t \in BOOLEAN : NotWorse(Solve(V, t), basic)
    BY <2>2, <2>3, <2>4, ToleranceHelps
  <2>6. ASSUME uncut, NEW t \in BOOLEAN PROVE NotWorse(SegmentDP(V, t), basic)
    <3>1. IsGroup(V) /\ \A i \in DOMAIN V : Len(V[i]) = Width(V)
      BY <2>1, <2>3, <2>6, CleanedGroup
    <3>2. Width(V) < config.tau
      BY <2>3, <2>6, <3>1
    <3>3. NotWorse(Solve(V, t), basic)
      BY <2>5
    <3>4. NotWorse(SegmentDP(V, t), Solve(V, t))
      BY <2>1, <2>2, <3>1, <3>2, <3>3, UncutIsCompared DEF NotWorse
    <3>5. PICK p : IsBest(p, V, t)
      BY <2>2, <2>4, <3>3, SolveFails, SolveFinds DEF NotWorse
    <3>6. PICK q : IsBest(q, V, FALSE)
      BY <2>2, <2>3, <2>4, SolveFails, SolveFinds
    <3>7. Solve(V, t).fpr \in 0 .. Scale
      BY <2>2, <3>5, SolveNumbers
    <3>8. basic.fpr \in 0 .. Scale
      BY <2>2, <3>6, SolveNumbers
    <3>9. SegmentDP(V, t).fpr \in Nat
      <4>1. Width(V) \in 0 .. Width(V)
        BY <3>1 DEF IsGroup
      <4>2. Numbered(V, t, Width(V))
        BY <2>2, <3>1, <4>1, SegmentationNumbers
      <4> QED BY <3>4, <4>2 DEF Numbered, SegmentDP, NotWorse
    <3> HIDE DEF basic
    <3> QED BY <3>3, <3>4, <3>7, <3>8, <3>9, ScaleAssumption DEF NotWorse
  <2>7. /\ NotWorse(Solve(V, TRUE), basic)
        /\ uncut => \A t \in BOOLEAN : NotWorse(SegmentDP(V, t), basic)
    BY <2>5, <2>6
  <2> QED BY <2>7 DEF FreedomNeverCosts, NotWorse, V
<1> QED BY <1>1, IndexInvariant, DetectInvariant, JudgeInvariant, PTL

\* Zeros at the end add nothing.
LEMMA TotalZeros ==
  ASSUME NEW r \in Seq(Nat), NEW s \in Seq(Nat), Len(r) <= Len(s),
         \A k \in 1 .. Len(r) : s[k] = r[k],
         \A k \in Len(r) + 1 .. Len(s) : s[k] = 0
  PROVE  Total(s) = Total(r)
<1> DEFINE n == Len(r)
           upto(m) == [k \in 1 .. n + m |-> s[k]]
           N == {m \in Nat : n + m <= Len(s) => Total(upto(m)) = Total(r)}
<1>1. n \in Nat /\ Len(s) \in Nat
  OBVIOUS
<1>2. ASSUME NEW m \in Nat, n + m <= Len(s)
      PROVE  /\ upto(m) \in Seq(Nat) /\ Len(upto(m)) = n + m
             /\ \A k \in 1 .. n + m : upto(m)[k] = s[k]
  <2>1. \A k \in 1 .. n + m : s[k] \in Nat
    BY <1>1, <1>2
  <2>2. n + m \in Nat
    BY <1>1
  <2> HIDE DEF n
  <2> QED BY <2>1, <2>2
<1>3. 0 \in N
  <2>1. upto(0) = r
    <3>1. n + 0 = n
      BY <1>1
    <3>2. r = [k \in 1 .. n |-> r[k]]
      OBVIOUS
    <3>3. \A k \in 1 .. n : s[k] = r[k]
      OBVIOUS
    <3> HIDE DEF n
    <3> QED BY <3>1, <3>2, <3>3
  <2> HIDE DEF upto
  <2> QED BY <2>1
<1>4. ASSUME NEW m \in Nat, m \in N PROVE m + 1 \in N
  <2> SUFFICES ASSUME n + (m + 1) <= Len(s) PROVE Total(upto(m + 1)) = Total(r)
    OBVIOUS
  <2>1. n + m <= Len(s) /\ n + m \in Nat /\ n + (m + 1) = (n + m) + 1 /\ m + 1 \in Nat
    BY <1>1
  <2>2. Total(upto(m)) = Total(r)
    BY <1>4, <2>1
  <2>3. /\ upto(m) \in Seq(Nat) /\ Len(upto(m)) = n + m
        /\ \A k \in 1 .. n + m : upto(m)[k] = s[k]
    BY <1>2, <2>1
  <2>4. /\ upto(m + 1) \in Seq(Nat) /\ Len(upto(m + 1)) = (n + m) + 1
        /\ \A k \in 1 .. (n + m) + 1 : upto(m + 1)[k] = s[k]
    <3> HIDE DEF upto
    <3> QED BY <1>2, <2>1
  <2>5. s[(n + m) + 1] = 0
    BY <1>1, <2>1
  <2> HIDE DEF upto, n
  <2>6. \A k \in 1 .. n + m : upto(m)[k] = upto(m + 1)[k]
    <3> SUFFICES ASSUME NEW k \in 1 .. n + m PROVE upto(m)[k] = upto(m + 1)[k]
      OBVIOUS
    <3>1. k \in 1 .. (n + m) + 1
      BY <2>1
    <3> QED BY <2>3, <2>4, <3>1
  <2>7. Total(upto(m + 1)) = Total(upto(m)) + upto(m + 1)[(n + m) + 1]
    BY <2>1, <2>3, <2>4, <2>6, TotalLast
  <2>8. upto(m + 1)[(n + m) + 1] = 0
    BY <2>1, <2>4, <2>5
  <2>9. Total(upto(m)) \in Nat
    BY <2>3, TotalType
  <2> QED BY <2>2, <2>7, <2>8, <2>9
<1>5. Nat \subseteq N
  <2> HIDE DEF N
  <2> QED BY <1>3, <1>4, NaturalInduction
<1> DEFINE m == Len(s) - n
<1>6. m \in Nat /\ n + m = Len(s)
  BY <1>1
<1>7. Total(upto(m)) = Total(r)
  <2> HIDE DEF m, upto
  <2> QED BY <1>5, <1>6
<1>8. upto(m) = s
  <2>1. s = [k \in 1 .. Len(s) |-> s[k]]
    OBVIOUS
  <2> HIDE DEF m, n
  <2> QED BY <1>6, <2>1
<1> QED BY <1>7, <1>8

\* A sum whose last number follows zeros.
LEMMA TotalSplit ==
  ASSUME NEW r \in Seq(Nat), NEW s \in Seq(Nat), NEW j \in Nat \ {0}, Len(s) = j, Len(r) < j,
         \A k \in 1 .. Len(r) : s[k] = r[k],
         \A k \in Len(r) + 1 .. j - 1 : s[k] = 0
  PROVE  Total(s) = Total(r) + s[j]
<1> DEFINE n == j - 1
           t == [k \in 1 .. n |-> s[k]]
<1>1. n \in Nat /\ j = n + 1 /\ Len(r) <= n
  OBVIOUS
<1>2. t \in Seq(Nat) /\ Len(t) = n /\ \A k \in 1 .. n : t[k] = s[k]
  BY <1>1
<1> HIDE DEF t, n
<1>3. Total(s) = Total(t) + s[j]
  BY <1>1, <1>2, TotalLast
<1>4. Len(r) \in Nat /\ j - 1 = n
  BY <1>1
<1>5. Total(t) = Total(r)
  <2>1. \A k \in 1 .. Len(r) : t[k] = r[k]
    BY <1>1, <1>2, <1>4
  <2>2. \A k \in Len(r) + 1 .. Len(t) : t[k] = 0
    BY <1>1, <1>2, <1>4
  <2> QED BY <1>1, <1>2, <2>1, <2>2, TotalZeros
<1> QED BY <1>3, <1>5

-----------------------------------------------------------------------------
(* Cuts: the positions before j where a segment ends.                      *)
Start(cuts, k) == Max({0} \union {c \in cuts : c < k})

\* The solved segment that ends at k.
Segment(values, tolerant, cuts, k) == Solve(Slice(values, Start(cuts, k), k), tolerant)

\* Cuts of the first j tokens into solved segments narrower than tau.
Cuts(values, tolerant, cuts, j) ==
  /\ cuts \subseteq 1 .. j - 1
  /\ \A k \in (cuts \union {j}) \ {0} :
       k - Start(cuts, k) < config.tau /\ Segment(values, tolerant, cuts, k) # NoPattern

\* The FPRs of these segments, each at its end.
Costs(values, tolerant, cuts, j) ==
  [k \in 1 .. j |-> IF k \in cuts \union {j} THEN Segment(values, tolerant, cuts, k).fpr ELSE 0]

\* A segment starts at the last cut before its end.
LEMMA StartIs ==
  ASSUME NEW cuts \in SUBSET Nat, NEW k \in Nat, NEW i \in Nat,
         i = 0 \/ (i \in cuts /\ i < k), \A c \in cuts : c < k => c <= i
  PROVE  Start(cuts, k) = i
<1> DEFINE S == {0} \union {c \in cuts : c < k}
<1>1. i \in S /\ \A x \in S : i >= x
  OBVIOUS
<1>2. \A x \in S : x \in Nat
  OBVIOUS
<1> DEFINE m == Max(S)
<1>3. m \in S /\ \A x \in S : m >= x
  <2> HIDE DEF S
  <2> QED BY <1>1 DEF Max
<1> HIDE DEF S, m
<1>4. m = i
  BY <1>1, <1>2, <1>3
<1> QED BY <1>4 DEF Start, S, m

(* Cuts before j are the cuts before the last one, i, and i unless it is 0. *)
WithCut(before, i) == (before \union {i}) \ {0}

\* Every set of cuts is one with a last cut, or empty.
LEMMA LastCut ==
  ASSUME NEW j \in Nat \ {0}, NEW cuts \in SUBSET (1 .. j - 1)
  PROVE  \E i \in 0 .. j - 1 : \E before \in SUBSET (1 .. i - 1) : cuts = WithCut(before, i)
<1> DEFINE T == {j - c : c \in cuts \union {0}}
<1>1. T \in SUBSET Nat /\ T # {}
  OBVIOUS
<1>2. PICK t \in T : \A u \in T : t <= u
  <2> HIDE DEF T
  <2> QED BY <1>1, LeastNatural
<1>3. PICK i \in cuts \union {0} : t = j - i
  BY <1>2
<1>4. \A c \in cuts : c <= i
  <2> SUFFICES ASSUME NEW c \in cuts PROVE c <= i
    OBVIOUS
  <2>1. j - c \in T
    OBVIOUS
  <2>2. j - i <= j - c
    BY <1>2, <1>3, <2>1
  <2> QED BY <2>2
<1> DEFINE before == {c \in cuts : c < i}
<1>5. i \in 0 .. j - 1
  OBVIOUS
<1> HIDE DEF T
<1>6. before \in SUBSET (1 .. i - 1)
  <2> SUFFICES ASSUME NEW c \in cuts, c < i PROVE c \in 1 .. i - 1
    OBVIOUS
  <2>1. c \in 1 .. j - 1
    OBVIOUS
  <2> QED BY <1>5, <2>1
<1>7. cuts = WithCut(before, i)
  <2>1. ASSUME NEW c \in cuts PROVE c \in WithCut(before, i)
    <3>1. c \in 1 .. j - 1 /\ c <= i
      BY <1>4
    <3>2. c < i \/ c = i
      BY <1>5, <3>1
    <3> QED BY <3>1, <3>2 DEF WithCut
  <2>2. ASSUME NEW c \in WithCut(before, i) PROVE c \in cuts
    BY DEF WithCut
  <2> QED BY <2>1, <2>2
<1> QED BY <1>5, <1>6, <1>7

\* Up to the last cut the segments are those of the cuts before it.
LEMMA StartsAgree ==
  ASSUME NEW j \in Nat \ {0}, NEW i \in 0 .. j - 1, NEW before \in SUBSET (1 .. i - 1)
  PROVE  /\ WithCut(before, i) \in SUBSET (1 .. j - 1)
         /\ Start(WithCut(before, i), j) = i
         /\ \A k \in 1 .. i : Start(WithCut(before, i), k) = Start(before, k)
<1> DEFINE cuts == WithCut(before, i)
<1>0. \A c \in before : c \in Nat /\ c <= i
  OBVIOUS
<1>1. cuts \in SUBSET (1 .. j - 1)
  BY DEF WithCut
<1>2. \A c : c \in cuts <=> (c \in before \/ c = i) /\ c # 0
  BY DEF WithCut
<1>3. Start(cuts, j) = i
  <2>1. i = 0 \/ (i \in cuts /\ i < j)
    BY <1>2
  <2>2. \A c \in cuts : c < j => c <= i
    <3> SUFFICES ASSUME NEW c \in cuts PROVE c <= i
      OBVIOUS
    <3> HIDE DEF cuts
    <3>1. c \in before \/ c = i
      BY <1>2
    <3>2. CASE c \in before
      BY <3>2, <1>0
    <3>3. CASE c = i
      <4>1. i \in Nat
        OBVIOUS
      <4> QED BY <3>3, <4>1
    <3> QED BY <3>1, <3>2, <3>3
  <2>3. cuts \in SUBSET Nat /\ i \in Nat /\ j \in Nat
    BY <1>1
  <2> HIDE DEF cuts
  <2> QED BY <2>1, <2>2, <2>3, StartIs
<1>4. ASSUME NEW k \in 1 .. i PROVE Start(cuts, k) = Start(before, k)
  <2>1. {c \in cuts : c < k} = {c \in before : c < k}
    BY <1>2
  <2> QED BY <2>1 DEF Start
<1> QED BY <1>1, <1>3, <1>4

\* Cuts are allowed if those before the last one are and the last segment is.
LEMMA CutsSplit ==
  ASSUME NEW values, NEW tolerant, NEW j \in Nat \ {0}, NEW i \in 0 .. j - 1,
         NEW before \in SUBSET (1 .. i - 1)
  PROVE  Cuts(values, tolerant, WithCut(before, i), j)
           <=> /\ Cuts(values, tolerant, before, i)
               /\ j - i < config.tau
               /\ Solve(Slice(values, i, j), tolerant) # NoPattern
<1> DEFINE cuts == WithCut(before, i)
           Good(cs, k) == k - Start(cs, k) < config.tau /\ Segment(values, tolerant, cs, k) # NoPattern
<1>1. /\ cuts \in SUBSET (1 .. j - 1)
      /\ Start(cuts, j) = i
      /\ \A k \in 1 .. i : Start(cuts, k) = Start(before, k)
  BY StartsAgree
<1>2. \A k : k \in (cuts \union {j}) \ {0} <=> k = j \/ k \in (before \union {i}) \ {0}
  BY DEF WithCut
<1> HIDE DEF cuts
<1>3. \A k \in (before \union {i}) \ {0} : k \in 1 .. i
  OBVIOUS
<1>4. \A k \in (before \union {i}) \ {0} : Good(cuts, k) <=> Good(before, k)
  BY <1>1, <1>3 DEF Segment
<1>5. Good(cuts, j) <=> j - i < config.tau /\ Solve(Slice(values, i, j), tolerant) # NoPattern
  BY <1>1 DEF Segment
<1>6. Cuts(values, tolerant, cuts, j) <=> \A k \in (cuts \union {j}) \ {0} : Good(cuts, k)
  BY <1>1 DEF Cuts
<1>7. Cuts(values, tolerant, before, i) <=> \A k \in (before \union {i}) \ {0} : Good(before, k)
  BY DEF Cuts
<1> HIDE DEF Good
<1>8. Cuts(values, tolerant, cuts, j)
        <=> Good(cuts, j) /\ \A k \in (before \union {i}) \ {0} : Good(before, k)
  BY <1>2, <1>4, <1>6
<1> QED BY <1>5, <1>7, <1>8 DEF cuts

\* The FPR of a solved segment is a natural.
LEMMA SegmentFprType ==
  ASSUME Ready, NEW values, IsGroup(values), NEW tolerant \in BOOLEAN, NEW i, NEW j,
         Solve(Slice(values, i, j), tolerant) # NoPattern
  PROVE  Solve(Slice(values, i, j), tolerant).fpr \in Nat
<1> DEFINE V == Slice(values, i, j)
<1>1. IsFiniteSet(DOMAIN V)
  BY SliceRows DEF IsGroup
<1> HIDE DEF V
<1>2. PICK p : IsBest(p, V, tolerant)
  BY <1>1, SolveFails, SolveFinds DEF V
<1>3. Solve(V, tolerant).fpr \in 0 .. Scale
  BY <1>2, SolveNumbers
<1>4. Solve(V, tolerant).fpr \in Nat
  BY <1>3
<1> QED BY <1>4 DEF V

\* So are the costs of allowed cuts.
LEMMA CostsType ==
  ASSUME Ready, NEW values, IsGroup(values), NEW tolerant \in BOOLEAN, NEW j \in Nat,
         NEW cuts, Cuts(values, tolerant, cuts, j)
  PROVE  Costs(values, tolerant, cuts, j) \in Seq(Nat) /\ Len(Costs(values, tolerant, cuts, j)) = j
<1>1. ASSUME NEW k \in 1 .. j, k \in cuts \union {j}
      PROVE  Segment(values, tolerant, cuts, k).fpr \in Nat
  <2>1. k \in (cuts \union {j}) \ {0}
    BY <1>1
  <2>2. Segment(values, tolerant, cuts, k) # NoPattern
    BY <2>1 DEF Cuts
  <2> QED BY <2>2, SegmentFprType DEF Segment
<1> DEFINE cost(k) == IF k \in cuts \union {j} THEN Segment(values, tolerant, cuts, k).fpr ELSE 0
<1>2. \A k \in 1 .. j : cost(k) \in Nat
  BY <1>1
<1>3. Costs(values, tolerant, cuts, j) = [k \in 1 .. j |-> cost(k)]
  BY DEF Costs
<1> HIDE DEF cost
<1> QED BY <1>2, <1>3

\* The last segment is added last.
LEMMA CostSplit ==
  ASSUME Ready, NEW values, IsGroup(values), NEW tolerant \in BOOLEAN,
         NEW j \in Nat \ {0}, NEW i \in 0 .. j - 1, NEW before \in SUBSET (1 .. i - 1),
         Cuts(values, tolerant, WithCut(before, i), j)
  PROVE  Total(Costs(values, tolerant, WithCut(before, i), j))
           = Total(Costs(values, tolerant, before, i)) + Solve(Slice(values, i, j), tolerant).fpr
<1> DEFINE cuts == WithCut(before, i)
           s == Costs(values, tolerant, cuts, j)
           r == Costs(values, tolerant, before, i)
<1>1. Cuts(values, tolerant, before, i)
  BY CutsSplit
<1>2. s \in Seq(Nat) /\ Len(s) = j
  <2> HIDE DEF cuts
  <2> QED BY CostsType DEF cuts
<1>3. r \in Seq(Nat) /\ Len(r) = i
  BY <1>1, CostsType
<1>4. /\ Start(cuts, j) = i
      /\ \A k \in 1 .. i : Start(cuts, k) = Start(before, k)
  BY StartsAgree
<1>5. \A k : k \in cuts <=> (k \in before \/ k = i) /\ k # 0
  BY DEF WithCut
<1> HIDE DEF cuts
<1>6. ASSUME NEW k \in 1 .. i PROVE s[k] = r[k]
  <2>1. k \in cuts \union {j} <=> k \in before \union {i}
    BY <1>5
  <2>2. Segment(values, tolerant, cuts, k) = Segment(values, tolerant, before, k)
    BY <1>4 DEF Segment
  <2>3. k \in 1 .. j
    OBVIOUS
  <2> QED BY <2>1, <2>2, <2>3 DEF Costs
<1>7. ASSUME NEW k \in i + 1 .. j - 1 PROVE s[k] = 0
  <2>1. k \notin cuts \union {j} /\ k \in 1 .. j
    BY <1>5
  <2> QED BY <2>1 DEF Costs
<1>8. s[j] = Solve(Slice(values, i, j), tolerant).fpr
  BY <1>4 DEF Costs, Segment
<1> HIDE DEF s, r
<1>9. Total(s) = Total(r) + s[j]
  BY <1>2, <1>3, <1>6, <1>7, TotalSplit
<1> QED BY <1>8, <1>9 DEF s, r, cuts

(* What the dynamic program holds at j is the least cost of cutting the    *)
(* first j tokens.                                                         *)
LeastCost(values, tolerant, j) ==
  /\ \A cuts : Cuts(values, tolerant, cuts, j) =>
       /\ Segmentations(values, tolerant)[j] # NoPattern
       /\ Segmentations(values, tolerant)[j].fpr <= Total(Costs(values, tolerant, cuts, j))
  /\ Segmentations(values, tolerant)[j] # NoPattern =>
       \E cuts : /\ Cuts(values, tolerant, cuts, j)
                 /\ Segmentations(values, tolerant)[j].fpr = Total(Costs(values, tolerant, cuts, j))

\* At the start nothing is cut, and nothing paid.
LEMMA LeastCostAtStart ==
  ASSUME NEW values, IsGroup(values), NEW tolerant
  PROVE  LeastCost(values, tolerant, 0)
<1> DEFINE dp == Segmentations(values, tolerant)
<1>1. dp[0] # NoPattern /\ dp[0].fpr = 0
  BY StartIsFound, SegmentationStart
<1>2. ASSUME NEW cuts PROVE Total(Costs(values, tolerant, cuts, 0)) = 0
  <2>1. Costs(values, tolerant, cuts, 0) \in Seq(Nat) /\ Len(Costs(values, tolerant, cuts, 0)) = 0
    BY DEF Costs
  <2> QED BY <2>1, TotalEmpty
<1>3. Cuts(values, tolerant, {}, 0)
  BY DEF Cuts
<1> HIDE DEF dp
<1>4. \A cuts : dp[0].fpr <= Total(Costs(values, tolerant, cuts, 0))
  BY <1>1, <1>2
<1> QED BY <1>1, <1>2, <1>3, <1>4 DEF LeastCost, dp

\* What is least for every last cut is least.
LEMMA LeastCostStep ==
  ASSUME Ready, NEW values, IsGroup(values), NEW tolerant \in BOOLEAN,
         NEW j \in 1 .. Width(values), \A i \in 0 .. j - 1 : LeastCost(values, tolerant, i)
  PROVE  LeastCost(values, tolerant, j)
<1> DEFINE dp == Segmentations(values, tolerant)
           last(i) == Solve(Slice(values, i, j), tolerant)
           cost(cuts, k) == Total(Costs(values, tolerant, cuts, k))
<1>1. j \in Nat \ {0} /\ Width(values) \in Nat
  BY DEF IsGroup
<1>2. ASSUME NEW i \in 0 .. j - 1, dp[i] # NoPattern PROVE dp[i].fpr \in Nat
  <2>1. i \in 0 .. Width(values)
    BY <1>1
  <2> QED BY <1>2, <2>1, SegmentationNumbers DEF Numbered
<1>3. \A i : Extended(values, tolerant, i, j).fpr = dp[i].fpr + last(i).fpr
  BY DEF Extended
<1>4. ASSUME NEW cuts, Cuts(values, tolerant, cuts, j)
      PROVE  dp[j] # NoPattern /\ dp[j].fpr <= cost(cuts, j)
  <2>1. cuts \in SUBSET (1 .. j - 1)
    BY <1>4 DEF Cuts
  <2>2. PICK i \in 0 .. j - 1 : \E before \in SUBSET (1 .. i - 1) : cuts = WithCut(before, i)
    BY <1>1, <2>1, LastCut
  <2>3. PICK before \in SUBSET (1 .. i - 1) : cuts = WithCut(before, i)
    BY <2>2
  <2>4. Cuts(values, tolerant, before, i) /\ j - i < config.tau /\ last(i) # NoPattern
    BY <1>1, <1>4, <2>3, CutsSplit
  <2>5. cost(cuts, j) = cost(before, i) + last(i).fpr
    BY <1>1, <1>4, <2>3, CostSplit
  <2>6. dp[i] # NoPattern /\ dp[i].fpr <= cost(before, i)
    BY <2>4 DEF LeastCost
  <2>7. Extendable(values, tolerant, i, j)
    BY <2>4, <2>6 DEF Extendable
  <2>8. PICK h : IsCheapest(values, tolerant, h, j)
    BY <2>7, SegmentationCases DEF Uncuttable
  <2>9. dp[j].fpr <= Extended(values, tolerant, i, j).fpr /\ dp[j] # NoPattern
    <3>1. dp[j] = Extended(values, tolerant, h, j)
      BY <2>8 DEF IsCheapest
    <3>2. Extended(values, tolerant, h, j).fpr <= Extended(values, tolerant, i, j).fpr
      BY <2>7, <2>8 DEF IsCheapest
    <3> QED BY <3>1, <3>2, ExtendedIsFound
  <2>10. dp[i].fpr \in Nat /\ last(i).fpr \in Nat
    BY <1>2, <2>4, <2>6, SegmentFprType
  <2>11. cost(before, i) \in Nat
    <3>1. i \in Nat
      OBVIOUS
    <3>2. Costs(values, tolerant, before, i) \in Seq(Nat)
      BY <2>4, <3>1, CostsType
    <3> QED BY <3>2, TotalType
  <2>12. Width(values) \in Nat /\ j \in 0 .. Width(values)
    BY <1>1
  <2>13. dp[j].fpr \in Nat
    BY <2>9, <2>12, SegmentationNumbers DEF Numbered
  <2>14. Extended(values, tolerant, i, j).fpr = dp[i].fpr + last(i).fpr
    BY <1>3
  <2> HIDE DEF dp, last, cost
  <2> QED BY <2>5, <2>6, <2>9, <2>10, <2>11, <2>13, <2>14
<1>5. ASSUME dp[j] # NoPattern
      PROVE  \E cuts : Cuts(values, tolerant, cuts, j) /\ dp[j].fpr = cost(cuts, j)
  <2>1. PICK i : IsCheapest(values, tolerant, i, j)
    BY <1>5, SegmentationCases DEF Uncuttable
  <2>2. /\ i \in 0 .. j - 1 /\ j - i < config.tau /\ dp[i] # NoPattern /\ last(i) # NoPattern
        /\ dp[j] = Extended(values, tolerant, i, j)
    BY <2>1 DEF IsCheapest, Extendable
  <2>3. PICK before : Cuts(values, tolerant, before, i) /\ dp[i].fpr = cost(before, i)
    BY <2>2 DEF LeastCost
  <2>4. before \in SUBSET (1 .. i - 1)
    BY <2>3 DEF Cuts
  <2>5. Cuts(values, tolerant, WithCut(before, i), j)
    BY <1>1, <2>2, <2>3, <2>4, CutsSplit
  <2>6. cost(WithCut(before, i), j) = cost(before, i) + last(i).fpr
    BY <1>1, <2>2, <2>4, <2>5, CostSplit
  <2>7. dp[j].fpr = dp[i].fpr + last(i).fpr
    BY <1>3, <2>2
  <2>8. dp[j].fpr = cost(WithCut(before, i), j)
    BY <2>3, <2>6, <2>7
  <2> HIDE DEF cost, dp
  <2> QED BY <2>5, <2>8
<1> QED BY <1>4, <1>5 DEF LeastCost

\* The dynamic program ends with the least cost.
LEMMA LeastCostFound ==
  ASSUME Ready, NEW values, IsGroup(values), NEW tolerant \in BOOLEAN
  PROVE  LeastCost(values, tolerant, Width(values))
<1> DEFINE n == Width(values)
           F == {j \in Nat : LeastCost(values, tolerant, j)}
<1>1. n \in Nat
  BY DEF IsGroup
<1>2. ASSUME NEW j \in 0 .. n, 0 .. j - 1 \subseteq F PROVE j \in F
  <2>1. CASE j = 0
    BY <2>1, LeastCostAtStart
  <2>2. CASE j # 0
    <3>1. j \in 1 .. Width(values) /\ \A i \in 0 .. j - 1 : LeastCost(values, tolerant, i)
      BY <1>1, <1>2, <2>2
    <3>2. LeastCost(values, tolerant, j)
      BY <3>1, LeastCostStep
    <3> QED BY <3>2
  <2> QED BY <2>1, <2>2
<1>3. 0 .. n \subseteq F
  <2> HIDE DEF F
  <2> QED BY <1>1, <1>2, StrongInduction
<1> QED BY <1>1, <1>3

\* The least member is the minimum.
LEMMA MinIs ==
  ASSUME NEW S \in SUBSET Int, NEW x \in S, \A y \in S : x <= y
  PROVE  Min(S) = x
<1> DEFINE m == Min(S)
<1>1. m \in S /\ \A y \in S : m <= y
  BY DEF Min
<1> HIDE DEF m
<1>2. m = x
  BY <1>1
<1> QED BY <1>2 DEF m

(* No way of cutting a group into segments narrower than tau has a lower   *)
(* sum of FPRs than the one the dynamic program finds, and none exists     *)
(* where it finds none (fmdv_v.py:136), for every group and every index.   *)
THEOREM SegmentationIsOptimal == Spec => []SegmentationOptimal
<1>1. IndexInv /\ DetectInv /\ JudgeInv => SegmentationOptimal
  <2> SUFFICES ASSUME IndexInv, DetectInv, JudgeInv, pc = "inferred",
                      NEW values \in Range(Groups(Clean(column))), NEW tolerant \in BOOLEAN
               PROVE  LET n == Width(values)
                          ends(cuts) == cuts \union {n}
                          start(cuts, j) == Max({0} \union {c \in cuts : c < j})
                          solved(cuts, j) == Solve(Slice(values, start(cuts, j), j), tolerant)
                          allowed == {cuts \in SUBSET (1 .. n - 1) :
                                        \A j \in ends(cuts) : j - start(cuts, j) < config.tau
                                                               /\ solved(cuts, j) # NoPattern}
                          cost(cuts) == Total([j \in 1 .. n |->
                                                 IF j \in ends(cuts) THEN solved(cuts, j).fpr ELSE 0])
                          found == SegmentDP(values, tolerant)
                      IN  IF allowed = {} THEN found = NoPattern
                          ELSE found # NoPattern /\ found.fpr = Min({cost(cuts) : cuts \in allowed})
    BY DEF SegmentationOptimal
  <2> DEFINE n == Width(values)
             ends(cuts) == cuts \union {n}
             start(cuts, j) == Max({0} \union {c \in cuts : c < j})
             solved(cuts, j) == Solve(Slice(values, start(cuts, j), j), tolerant)
             allowed == {cuts \in SUBSET (1 .. n - 1) :
                           \A j \in ends(cuts) : j - start(cuts, j) < config.tau
                                                  /\ solved(cuts, j) # NoPattern}
             cost(cuts) == Total([j \in 1 .. n |-> IF j \in ends(cuts) THEN solved(cuts, j).fpr ELSE 0])
             found == SegmentDP(values, tolerant)
             costs == {cost(cuts) : cuts \in allowed}
  <2>1. Ready
    BY DEF Ready, IndexInv, DetectInv, JudgeInv
  <2>2. IsGroup(values)
    <3>1. IsCleaned(Clean(column), Len(column))
      BY CleanIsCleaned DEF JudgeInv
    <3>2. PICK r \in FirstRows(Clean(column)) : values = Groups(Clean(column))[r]
      BY DEF Range, Groups
    <3> QED BY <3>1, <3>2, GroupIsGroup
  <2>3. n \in Nat \ {0}
    BY <2>2 DEF IsGroup
  <2>4. LeastCost(values, tolerant, n)
    BY <2>1, <2>2, LeastCostFound
  <2>5. \A cuts : cuts \in allowed <=> Cuts(values, tolerant, cuts, n)
    <3> SUFFICES ASSUME NEW cuts PROVE cuts \in allowed <=> Cuts(values, tolerant, cuts, n)
      OBVIOUS
    <3>1. \A j : start(cuts, j) = Start(cuts, j) /\ solved(cuts, j) = Segment(values, tolerant, cuts, j)
      BY DEF Start, Segment
    <3> HIDE DEF start, solved
    <3>2. cuts \in SUBSET (1 .. n - 1) => (cuts \union {n}) \ {0} = ends(cuts)
      BY <2>3
    <3> QED BY <3>1, <3>2 DEF Cuts
  <2>6. \A cuts : cost(cuts) = Total(Costs(values, tolerant, cuts, n))
    BY DEF Costs, Segment, Start
  <2>7. found = Segmentations(values, tolerant)[n]
    BY DEF SegmentDP
  <2> HIDE DEF allowed, cost, found, n
  <2>8. \A cuts \in allowed : found # NoPattern /\ found.fpr <= cost(cuts)
    BY <2>4, <2>5, <2>6, <2>7 DEF LeastCost
  <2>9. found # NoPattern => \E cuts \in allowed : found.fpr = cost(cuts)
    BY <2>4, <2>5, <2>6, <2>7 DEF LeastCost
  <2>10. \A cuts \in allowed : cost(cuts) \in Int
    <3> SUFFICES ASSUME NEW cuts \in allowed PROVE cost(cuts) \in Int
      OBVIOUS
    <3>1. Cuts(values, tolerant, cuts, n) /\ n \in Nat
      BY <2>3, <2>5
    <3>2. Costs(values, tolerant, cuts, n) \in Seq(Nat)
      BY <2>1, <2>2, <3>1, CostsType
    <3>3. cost(cuts) \in Nat
      BY <2>6, <3>2, TotalType
    <3> QED BY <3>3
  <2>11. CASE allowed = {}
    <3>1. found = NoPattern
      BY <2>9, <2>11
    <3> QED BY <2>11, <3>1 DEF allowed, cost, found, n
  <2>12. CASE allowed # {}
    <3>1. found # NoPattern
      BY <2>8, <2>12
    <3>2. found.fpr \in costs /\ \A y \in costs : found.fpr <= y
      BY <2>8, <2>9, <3>1
    <3>3. costs \in SUBSET Int
      BY <2>10
    <3>4. Min(costs) = found.fpr
      <4> HIDE DEF costs
      <4> QED BY <3>2, <3>3, MinIs
    <3> QED BY <2>12, <3>1, <3>4 DEF allowed, cost, found, n
  <2> QED BY <2>11, <2>12
<1> QED BY <1>1, IndexInvariant, DetectInvariant, JudgeInvariant, PTL

\* The members of a concatenation.
LEMMA ConcatenationOf ==
  ASSUME NEW D, NEW f \in Seq(D), NEW p \in Seq(D)
  PROVE  /\ Len(f \o p) = Len(f) + Len(p)
         /\ \A k \in 1 .. Len(f) : (f \o p)[k] = f[k]
         /\ \A k \in Len(f) + 1 .. Len(f) + Len(p) : (f \o p)[k] = p[k - Len(f)]
<1>1. Len(f \o p) = Len(f) + Len(p)
  OBVIOUS
<1>2. ASSUME NEW k \in 1 .. Len(f) PROVE (f \o p)[k] = f[k]
  OBVIOUS
<1>3. ASSUME NEW k \in Len(f) + 1 .. Len(f) + Len(p) PROVE (f \o p)[k] = p[k - Len(f)]
  OBVIOUS
<1> QED BY <1>1, <1>2, <1>3

\* A concatenation matches what its parts match side by side.
LEMMA MatchesConcatenation ==
  ASSUME NEW v \in Seq(Tokens), NEW j \in 0 .. Len(v), NEW i \in 0 .. j,
         NEW f \in Seq(Parts), NEW p \in Seq(Parts),
         Matches(f, SubSeq(v, 1, i)), Matches(p, SubSeq(v, i + 1, j))
  PROVE  Matches(f \o p, SubSeq(v, 1, j))
<1> DEFINE a == SubSeq(v, 1, i)
           b == SubSeq(v, i + 1, j)
           c == SubSeq(v, 1, j)
           fp == f \o p
<1>1. Len(a) = i /\ Len(b) = j - i /\ Len(c) = j
  OBVIOUS
<1>2. /\ \A k \in 1 .. i : c[k] = a[k]
      /\ \A k \in i + 1 .. j : c[k] = b[k - i]
  OBVIOUS
<1>3. Len(f) = i /\ Len(p) = j - i
      /\ (\A k \in 1 .. i : PartMatches(f[k], a[k]))
      /\ (\A k \in 1 .. j - i : PartMatches(p[k], b[k]))
  <2>1. Matches(f, a) /\ Matches(p, b)
    OBVIOUS
  <2> HIDE DEF a, b, c
  <2>2. Len(f) = i /\ \A k \in 1 .. i : PartMatches(f[k], a[k])
    BY <1>1, <2>1 DEF Matches
  <2>3. Len(p) = j - i /\ \A k \in 1 .. j - i : PartMatches(p[k], b[k])
    BY <1>1, <2>1 DEF Matches
  <2> QED BY <2>2, <2>3
<1>4. /\ Len(fp) = j
      /\ \A k \in 1 .. i : fp[k] = f[k]
      /\ \A k \in i + 1 .. j : fp[k] = p[k - i]
  <2>1. Len(f) = i /\ Len(p) = j - i /\ i \in Nat /\ j \in Nat
    BY <1>3
  <2>2. /\ Len(fp) = Len(f) + Len(p)
        /\ \A k \in 1 .. Len(f) : fp[k] = f[k]
        /\ \A k \in Len(f) + 1 .. Len(f) + Len(p) : fp[k] = p[k - Len(f)]
    BY ConcatenationOf
  <2> HIDE DEF fp
  <2> QED BY <2>1, <2>2
<1>5. \A k \in 1 .. j : k \in 1 .. i \/ (k \in i + 1 .. j /\ k - i \in 1 .. j - i)
  OBVIOUS
<1> HIDE DEF a, b, c, fp
<1>6. \A k \in 1 .. j : PartMatches(fp[k], c[k])
  BY <1>2, <1>3, <1>4, <1>5
<1>7. Matches(fp, c)
  BY <1>1, <1>4, <1>6 DEF Matches
<1> QED BY <1>7 DEF fp, c

\* What a solved segment loses.
Tolerated(values, tolerant) == IF tolerant THEN config.theta[1] * Size(values) ELSE 0

\* The values of which the pattern does not match the first j tokens.
Missed(values, pattern, j) == {k \in DOMAIN values : ~Matches(pattern, SubSeq(values[k], 1, j))}

\* The segments up to token j lose at most their share each.
SegmentsFit(values, tolerant, j) ==
  LET segments == Segmentations(values, tolerant)[j].segments
  IN  /\ segments \in Seq(Seq(Parts))
      /\ (Len(segments) = 0) <=> (j = 0)
      /\ config.theta[2] * Cardinality(Missed(values, FlattenSeq(segments), j))
           <= Len(segments) * Tolerated(values, tolerant)

\* The share is a natural.
LEMMA ToleratedType ==
  ASSUME Ready, NEW values, IsFiniteSet(DOMAIN values), NEW tolerant \in BOOLEAN
  PROVE  /\ Tolerated(values, tolerant) \in Nat
         /\ config.theta[2] \in Nat \ {0} /\ config.theta[1] \in 0 .. config.theta[2]
         /\ Size(values) \in Nat
<1>1. Size(values) \in Nat
  BY FS_CardinalityType DEF Size
<1>2. config.theta[2] \in Nat \ {0} /\ config.theta[1] \in 0 .. config.theta[2]
  BY ConfigsAssumption DEF Ready
<1>3. config.theta[1] * Size(values) \in Nat
  BY <1>1, <1>2
<1> QED BY <1>1, <1>2, <1>3 DEF Tolerated

\* A best pattern loses at most the share.
LEMMA BestLoss ==
  ASSUME Ready, NEW values, IsFiniteSet(DOMAIN values), NEW tolerant \in BOOLEAN,
         NEW p, IsBest(p, values, tolerant)
  PROVE  /\ IsFiniteSet(DOMAIN values \ Conforming(p, values))
         /\ config.theta[2] * Cardinality(DOMAIN values \ Conforming(p, values))
              <= Tolerated(values, tolerant)
<1> DEFINE D == DOMAIN values
           C == Conforming(p, values)
           n == Size(values)
           m == Cardinality(C)
           d == config.theta[2]
           a == config.theta[1]
<1>1. m >= Required(values, tolerant)
  BY DEF IsBest, Feasible
<1>2. n \in Nat /\ d \in Nat \ {0} /\ a \in 0 .. d
  BY ToleratedType
<1>3. C \in SUBSET D /\ IsFiniteSet(C) /\ m \in 0 .. n
  BY ConformingBound
<1>4. IsFiniteSet(D \ C) /\ Cardinality(D \ C) = n - m
  <2>1. D \cap C = C /\ IsFiniteSet(D)
    BY <1>3
  <2>2. n = Cardinality(D)
    BY DEF Size
  <2> HIDE DEF D, C, n
  <2> QED BY <1>3, <2>1, <2>2, FS_Difference
<1>5. CASE tolerant
  <2>1. m >= ((d - a) * n + d - 1) \div d
    BY <1>1, <1>5 DEF Required, MinConforming
  <2>2. Tolerated(values, tolerant) = a * n
    BY <1>5 DEF Tolerated
  <2> HIDE DEF D, C, n, m, d, a
  <2>3. d * (n - m) <= a * n
    BY <1>2, <1>3, <2>1, ToleranceArithmetic
  <2> QED BY <1>4, <2>2, <2>3 DEF D, C, d
<1>6. CASE ~tolerant
  <2>1. m >= n
    BY <1>1, <1>6 DEF Required
  <2>2. Tolerated(values, tolerant) = 0
    BY <1>6 DEF Tolerated
  <2> HIDE DEF n, m, d
  <2>3. n - m = 0 /\ d * 0 <= 0
    BY <1>2, <1>3, <2>1
  <2> QED BY <1>4, <2>2, <2>3 DEF D, C, d
<1> QED BY <1>4, <1>5, <1>6

\* Losses add up.
LEMMA LossArithmetic ==
  ASSUME NEW d \in Nat, NEW l \in Nat, NEW t \in Nat, NEW x \in Nat, NEW y \in Nat, NEW z \in Nat,
         z <= x + y, d * x <= l * t, d * y <= t
  PROVE  d * z <= (l + 1) * t
<1>1. d * z <= d * (x + y)
  OBVIOUS
<1>2. d * (x + y) = d * x + d * y /\ (l + 1) * t = l * t + t
  OBVIOUS
<1>3. d * z \in Nat /\ d * (x + y) \in Nat /\ d * x \in Nat /\ d * y \in Nat /\ l * t \in Nat
  OBVIOUS
<1> QED BY <1>1, <1>2, <1>3

\* The slice of a value.
LEMMA SliceType ==
  ASSUME NEW values, IsGroup(values), NEW j \in 1 .. Width(values), NEW i \in 0 .. j - 1,
         NEW k \in DOMAIN values
  PROVE  Slice(values, i, j)[k] = SubSeq(values[k], i + 1, j) /\ Slice(values, i, j)[k] \in Seq(Tokens)
<1>1. values[k] \in Seq(Tokens) /\ Len(values[k]) = Width(values) /\ Width(values) \in Nat
  BY DEF IsGroup
<1>2. SubSeq(values[k], i + 1, j) \in Seq(Tokens)
  BY <1>1
<1> QED BY <1>2 DEF Slice

\* One more segment loses one more share.
LEMMA SegmentsFitStep ==
  ASSUME Ready, NEW values, IsGroup(values), NEW tolerant \in BOOLEAN, NEW j \in 1 .. Width(values),
         NEW i, IsCheapest(values, tolerant, i, j), SegmentsFit(values, tolerant, i)
  PROVE  SegmentsFit(values, tolerant, j)
<1> DEFINE V == Slice(values, i, j)
           s == Segmentations(values, tolerant)[i].segments
           r == Segmentations(values, tolerant)[j].segments
           S == Missed(values, FlattenSeq(s), i)
           U == Missed(values, FlattenSeq(r), j)
           d == config.theta[2]
           t == Tolerated(values, tolerant)
<1>1. Extendable(values, tolerant, i, j) /\ i \in 0 .. j - 1
  BY DEF IsCheapest, Extendable
<1>2. PICK p : IsBest(p, V, tolerant)
  BY <1>1, LastSegmentFound
<1>3. r = s \o <<p>>
  <2>1. Solve(V, tolerant).groups[1] = <<p>>
    BY <1>2, SolveNumbers
  <2>2. Extended(values, tolerant, i, j).segments = s \o Solve(V, tolerant).groups[1]
    BY DEF Extended
  <2>3. Segmentations(values, tolerant)[j] = Extended(values, tolerant, i, j)
    BY DEF IsCheapest
  <2>4. r = Extended(values, tolerant, i, j).segments
    BY <2>3
  <2> HIDE DEF r, s, V
  <2> QED BY <2>1, <2>2, <2>4
<1>4. IsFiniteSet(DOMAIN values) /\ DOMAIN V = DOMAIN values
  BY SliceRows DEF IsGroup
<1>5. p \in Seq(Parts)
  <2>1. PICK k \in DOMAIN V : p \in PatternsOf(V[k], config.tau)
    BY <1>2 DEF IsBest, Feasible, Candidates
  <2>2. V[k] \in Seq(Tokens)
    BY <1>1, <1>4, <2>1, SliceType
  <2> HIDE DEF V
  <2> QED BY <2>1, <2>2, PatternParts
<1>6. s \in Seq(Seq(Parts)) /\ d * Cardinality(S) <= Len(s) * t
  BY DEF SegmentsFit
<1>7. FlattenSeq(s) \in Seq(Parts) /\ FlattenSeq(r) = FlattenSeq(s) \o p
  <2> HIDE DEF s, r
  <2> QED BY <1>3, <1>5, <1>6, FlattenLast
<1>8. U \subseteq S \union (DOMAIN V \ Conforming(p, V))
  <2> SUFFICES ASSUME NEW k \in DOMAIN values,
                      Matches(FlattenSeq(s), SubSeq(values[k], 1, i)), Matches(p, V[k])
               PROVE  Matches(FlattenSeq(r), SubSeq(values[k], 1, j))
    <3> HIDE DEF V, s, r
    <3> QED BY <1>4 DEF Missed, Conforming
  <2>1. values[k] \in Seq(Tokens) /\ Len(values[k]) = Width(values) /\ Width(values) \in Nat
    BY DEF IsGroup
  <2>2. j \in 0 .. Len(values[k]) /\ i \in 0 .. j
    BY <1>1, <2>1
  <2>3. V[k] = SubSeq(values[k], i + 1, j)
    BY <1>1, SliceType
  <2> HIDE DEF V, s, r
  <2> QED BY <1>5, <1>7, <2>1, <2>2, <2>3, MatchesConcatenation
<1>9. IsFiniteSet(S)
  <2>1. S \in SUBSET DOMAIN values
    BY DEF Missed
  <2> HIDE DEF S
  <2> QED BY <1>4, <2>1, FS_Subset
<1> DEFINE T == DOMAIN V \ Conforming(p, V)
<1>10. IsFiniteSet(T) /\ d * Cardinality(T) <= t
  <2>1. Tolerated(V, tolerant) = t
    BY <1>4 DEF Tolerated, Size
  <2>2. IsFiniteSet(DOMAIN V)
    BY <1>4
  <2> HIDE DEF V, d, t
  <2> QED BY <1>2, <2>1, <2>2, BestLoss DEF d
<1>11. d \in Nat /\ t \in Nat /\ Cardinality(S) \in Nat /\ Cardinality(T) \in Nat /\ Len(s) \in Nat
  <2>1. d \in Nat /\ t \in Nat
    BY <1>4, ToleratedType
  <2>2. Cardinality(S) \in Nat /\ Cardinality(T) \in Nat
    <3> HIDE DEF S, T
    <3> QED BY <1>9, <1>10, FS_CardinalityType
  <2>3. Len(s) \in Nat
    <3> HIDE DEF s
    <3> QED BY <1>6
  <2> QED BY <2>1, <2>2, <2>3
<1>12. Cardinality(U) \in Nat /\ Cardinality(U) <= Cardinality(S) + Cardinality(T)
  <2> HIDE DEF S, U
  <2>1. U \subseteq S \union T
    BY <1>8
  <2> HIDE DEF T
  <2> QED BY <1>9, <1>10, <2>1, UnionBound
<1>13. r \in Seq(Seq(Parts)) /\ Len(r) = Len(s) + 1
  <2> HIDE DEF s, r
  <2> QED BY <1>3, <1>5, <1>6
<1>14. d * Cardinality(U) <= Len(r) * t
  <2> HIDE DEF S, T, U, s, r, d, t
  <2>1. d * Cardinality(U) <= (Len(s) + 1) * t
    BY <1>6, <1>10, <1>11, <1>12, LossArithmetic
  <2> QED BY <1>13, <2>1
<1>15. (Len(r) = 0) <=> (j = 0)
  <2> HIDE DEF r, s
  <2>1. Len(r) # 0 /\ j # 0
    BY <1>11, <1>13
  <2> QED BY <2>1
<1> QED BY <1>13, <1>14, <1>15 DEF SegmentsFit

\* So does whatever the dynamic program holds at j.
Fits(values, tolerant, j) ==
  Segmentations(values, tolerant)[j] # NoPattern => SegmentsFit(values, tolerant, j)

\* What every segmentation loses of its values.
LEMMA SegmentationsFit ==
  ASSUME Ready, NEW values, IsGroup(values), NEW tolerant \in BOOLEAN
  PROVE  \A j \in 0 .. Width(values) : Fits(values, tolerant, j)
<1> DEFINE n == Width(values)
           F == {j \in Nat : Fits(values, tolerant, j)}
<1>1. n \in Nat
  BY DEF IsGroup
<1>2. ASSUME NEW j \in 0 .. n, 0 .. j - 1 \subseteq F PROVE j \in F
  <2>1. CASE j = 0
    <3> DEFINE s == Segmentations(values, tolerant)[0].segments
               M == Missed(values, FlattenSeq(s), 0)
    <3>1. s = << >>
      BY SegmentationStart
    <3>2. FlattenSeq(s) = << >>
      BY <3>1 DEF FlattenSeq
    <3>3. M = {}
      <4> SUFFICES ASSUME NEW k \in DOMAIN values PROVE Matches(<< >>, SubSeq(values[k], 1, 0))
        BY <3>2 DEF Missed
      <4>1. values[k] \in Seq(Tokens)
        BY DEF IsGroup
      <4>2. SubSeq(values[k], 1, 0) = << >>
        BY <4>1
      <4> QED BY <4>2 DEF Matches
    <3>4. Cardinality(M) = 0
      <4> HIDE DEF M
      <4> QED BY <3>3, FS_EmptySet
    <3>5. config.theta[2] \in Nat /\ Tolerated(values, tolerant) \in Nat
      BY ToleratedType DEF IsGroup
    <3>6. << >> \in Seq(Seq(Parts)) /\ Len(<< >>) = 0
      OBVIOUS
    <3>7. SegmentsFit(values, tolerant, 0)
      <4> HIDE DEF M
      <4>1. config.theta[2] * Cardinality(M) <= Len(s) * Tolerated(values, tolerant)
        BY <3>1, <3>4, <3>5, <3>6
      <4> QED BY <3>1, <3>6, <4>1 DEF SegmentsFit, M
    <3> QED BY <2>1, <3>7 DEF Fits
  <2>2. CASE j # 0
    <3>1. j \in 1 .. Width(values)
      BY <1>1, <2>2
    <3>2. CASE Uncuttable(values, tolerant, j)
      <4>1. Fits(values, tolerant, j)
        BY <3>2 DEF Uncuttable, Fits
      <4> QED BY <3>1, <4>1
    <3>3. CASE \E i : IsCheapest(values, tolerant, i, j)
      <4>1. PICK i : IsCheapest(values, tolerant, i, j)
        BY <3>3
      <4>2. i \in 0 .. j - 1 /\ Segmentations(values, tolerant)[i] # NoPattern
        BY <4>1 DEF IsCheapest, Extendable
      <4>3. SegmentsFit(values, tolerant, i)
        BY <1>2, <4>2 DEF Fits
      <4>4. Fits(values, tolerant, j)
        BY <3>1, <4>1, <4>3, SegmentsFitStep DEF Fits
      <4> QED BY <3>1, <4>4
    <3> QED BY <3>1, <3>2, <3>3, SegmentationCases
  <2> QED BY <2>1, <2>2
<1>3. 0 .. n \subseteq F
  <2> HIDE DEF F
  <2> QED BY <1>1, <1>2, StrongInduction
<1> QED BY <1>3

\* What conforms to segments matches their concatenation.
LEMMA SegmentsConformTogether ==
  ASSUME NEW segments \in Seq(Seq(Parts)), Len(segments) # 0, NEW v
  PROVE  Conforms(<<segments>>, v) <=> Matches(FlattenSeq(segments), v)
<1> DEFINE groups == <<segments>>
<1>1. ~IsList(groups) /\ groups[1] = segments
  BY DEF IsList
<1> HIDE DEF groups
<1>2. Conforms(groups, v) <=> IF IsList(segments) THEN Matches(FlattenSeq(segments), v) ELSE Matches(segments[1], v)
  BY <1>1 DEF Conforms
<1>3. ASSUME ~IsList(segments) PROVE FlattenSeq(segments) = segments[1]
  <2>1. DOMAIN segments = {1}
    BY <1>3 DEF IsList
  <2>2. Len(segments) = 1
    <3> DEFINE l == Len(segments)
    <3>1. l \in Nat /\ DOMAIN segments = 1 .. l
      OBVIOUS
    <3> HIDE DEF l
    <3>2. l \in 1 .. l
      <4>1. l # 0
        BY DEF l
      <4> QED BY <3>1, <4>1
    <3>3. l = 1
      BY <2>1, <3>1, <3>2
    <3> QED BY <3>3 DEF l
  <2> DEFINE x == segments[1]
             none == << >>
  <2>3. x \in Seq(Parts) /\ segments = none \o <<x>>
    BY <2>2
  <2>4. none \in Seq(Seq(Parts)) /\ FlattenSeq(none) = << >>
    BY DEF FlattenSeq
  <2>5. FlattenSeq(none \o <<x>>) = FlattenSeq(none) \o x
    <3> HIDE DEF none, x
    <3> QED BY <2>3, <2>4, FlattenLast
  <2>6. << >> \o x = x
    BY <2>3
  <2> HIDE DEF none, x
  <2> QED BY <2>3, <2>4, <2>5, <2>6 DEF x
<1> QED BY <1>2, <1>3 DEF groups

\* A column of one signature is its only group.
LEMMA OneGroup ==
  ASSUME NEW n, NEW values, IsCleaned(values, n), DOMAIN values # {}, OneSignature(values),
         values = [i \in DOMAIN values |-> values[i]]
  PROVE  \E r : FirstRows(values) = {r} /\ Groups(values)[r] = values
<1>1. DOMAIN values \in SUBSET Nat
  BY DEF IsCleaned
<1>2. PICK r \in DOMAIN values : \A h \in DOMAIN values : r <= h
  BY <1>1, LeastNatural
<1>3. \A i, j \in DOMAIN values : Signature(values[i]) = Signature(values[j])
  BY DEF OneSignature
<1>4. FirstRows(values) = {r}
  <2>1. ASSUME NEW i PROVE i \in FirstRows(values) <=> i = r
    <3>1. i \in FirstRows(values) <=> i \in DOMAIN values /\ \A h \in DOMAIN values : i <= h
      BY <1>3 DEF FirstRows
    <3> QED BY <1>1, <1>2, <3>1
  <2> QED BY <2>1
<1>5. Groups(values)[r] = [j \in {j \in DOMAIN values : Signature(values[j]) = Signature(values[r])} |-> values[j]]
  BY <1>4 DEF Groups, Restrict
<1>6. {j \in DOMAIN values : Signature(values[j]) = Signature(values[r])} = DOMAIN values
  BY <1>2, <1>3
<1>7. Groups(values)[r] = [j \in DOMAIN values |-> values[j]]
  BY <1>5, <1>6
<1>8. Groups(values)[r] = values
  BY <1>7
<1> QED BY <1>4, <1>8

\* The only solved group is the best, and all of them.
LEMMA OnlyPattern ==
  ASSUME NEW solved, NEW r, DOMAIN solved = {r}, r \in Nat
  PROVE  BestGroup(solved) = solved[r] /\ AllGroups(solved).groups = <<solved[r].groups[1]>>
<1>1. BestGroup(solved) = solved[r]
  <2> DEFINE better(i, j) ==
        \/ solved[i].fpr < solved[j].fpr
        \/ solved[i].fpr = solved[j].fpr
             /\ (solved[i].cov > solved[j].cov \/ (solved[i].cov = solved[j].cov /\ i < j))
             c == CHOOSE i \in DOMAIN solved : \A j \in DOMAIN solved \ {i} : better(i, j)
  <2>1. BestGroup(solved) = solved[c]
    BY DEF BestGroup
  <2> HIDE DEF better
  <2>2. \A j \in DOMAIN solved \ {r} : better(r, j)
    OBVIOUS
  <2>3. c \in DOMAIN solved
    BY <2>2
  <2> HIDE DEF c
  <2> QED BY <2>1, <2>3
<1> DEFINE row(k) == CHOOSE i \in DOMAIN solved : Cardinality({h \in DOMAIN solved : h < i}) = k - 1
<1>2. row(1) = r
  <2>1. {h \in DOMAIN solved : h < r} = {}
    OBVIOUS
  <2>2. Cardinality({h \in DOMAIN solved : h < r}) = 1 - 1
    BY <2>1, FS_EmptySet
  <2>3. row(1) \in DOMAIN solved
    BY <2>2
  <2> HIDE DEF row
  <2> QED BY <2>3
<1>3. Cardinality(DOMAIN solved) = 1
  BY FS_Singleton
<1>4. InOrder(solved) = [k \in 1 .. Cardinality(DOMAIN solved) |-> solved[row(k)]]
  BY DEF InOrder
<1>5. DOMAIN InOrder(solved) = 1 .. 1 /\ InOrder(solved)[1] = solved[r]
  <2> HIDE DEF row
  <2> QED BY <1>2, <1>3, <1>4
<1>6. AllGroups(solved).groups = [k \in DOMAIN InOrder(solved) |-> InOrder(solved)[k].groups[1]]
  BY DEF AllGroups
<1>7. AllGroups(solved).groups = [k \in 1 .. 1 |-> solved[r].groups[1]]
  BY <1>5, <1>6
<1>8. AllGroups(solved).groups = <<solved[r].groups[1]>>
  BY <1>7
<1> QED BY <1>1, <1>8

\* What is inferred from a column of one signature are its segments.
LEMMA InferredSegments ==
  ASSUME Ready, NEW n, NEW values, IsCleaned(values, n), values = [i \in DOMAIN values |-> values[i]],
         OneSignature(values), config.variant \in {"fmdv_v", "fmdv_vh"},
         InferPattern(values) # NoPattern
  PROVE  /\ IsGroup(values)
         /\ SegmentDP(values, Tolerant) # NoPattern
         /\ InferPattern(values).groups = <<SegmentDP(values, Tolerant).segments>>
<1> DEFINE solved == GroupPatterns(values, Tolerant)
<1>1. DOMAIN values # {}
  BY DEF InferPattern
<1>2. PICK r : FirstRows(values) = {r} /\ Groups(values)[r] = values
  BY <1>1, OneGroup
<1>3. DOMAIN solved # {}
  BY VerticalPattern
<1>4. IsSolved(solved, values, Tolerant)
  BY GroupPatternsSolved
<1>5. Tolerant \in BOOLEAN
  BY DEF Tolerant
<1>6. InferPattern(values) = IF config.variant = "fmdv_v" THEN BestGroup(solved) ELSE AllGroups(solved)
  BY VerticalPattern
<1> HIDE DEF solved
<1>7. DOMAIN solved = {r} /\ r \in Nat
  <2>1. r \in Nat
    BY <1>2 DEF FirstRows, IsCleaned
  <2> QED BY <1>2, <1>3, <1>4, <2>1 DEF IsSolved
<1>8. solved[r].groups = <<SegmentDP(values, Tolerant).segments>>
  BY <1>2, <1>4, <1>5, <1>7, SolvedTyped
<1>9. IsGroup(values)
  BY <1>1, CleanedGroup
<1>10. SegmentDP(values, Tolerant) # NoPattern
  <2>1. SolveGroup(values, Tolerant) # NoPattern
    BY <1>2, <1>4, <1>7 DEF IsSolved
  <2> QED BY <1>5, <1>9, <2>1, SolveGroupFound
<1>11. BestGroup(solved) = solved[r] /\ AllGroups(solved).groups = <<solved[r].groups[1]>>
  BY <1>7, OnlyPattern
<1>12. solved[r].groups[1] = SegmentDP(values, Tolerant).segments
  BY <1>8
<1> QED BY <1>6, <1>8, <1>9, <1>10, <1>11, <1>12

(* What the segments of a column of one signature lose, by the variant.    *)
LEMMA SegmentsLoss ==
  ASSUME Ready, NEW n, NEW values, IsCleaned(values, n), values = [i \in DOMAIN values |-> values[i]],
         OneSignature(values), config.variant \in {"fmdv_v", "fmdv_vh"},
         InferPattern(values) # NoPattern
  PROVE  config.theta[2] * Cardinality({k \in DOMAIN values : ~Conforms(InferPattern(values).groups, values[k])})
           <= Len(InferPattern(values).groups[1]) * Tolerated(values, Tolerant)
<1> DEFINE w == Width(values)
           s == SegmentDP(values, Tolerant).segments
           g == InferPattern(values).groups
<1>1. IsGroup(values) /\ SegmentDP(values, Tolerant) # NoPattern /\ g = <<s>>
  BY InferredSegments
<1>2. Tolerant \in BOOLEAN /\ w \in Nat \ {0} /\ w \in 0 .. w
  BY <1>1 DEF Tolerant, IsGroup
<1>3. SegmentsFit(values, Tolerant, w)
  <2>1. Fits(values, Tolerant, w)
    BY <1>1, <1>2, SegmentationsFit
  <2> QED BY <1>1, <2>1 DEF Fits, SegmentDP
<1>4. /\ s \in Seq(Seq(Parts)) /\ Len(s) # 0
      /\ config.theta[2] * Cardinality(Missed(values, FlattenSeq(s), w)) <= Len(s) * Tolerated(values, Tolerant)
  BY <1>2, <1>3 DEF SegmentsFit, SegmentDP
<1>5. {k \in DOMAIN values : ~Conforms(g, values[k])} = Missed(values, FlattenSeq(s), w)
  <2> SUFFICES ASSUME NEW k \in DOMAIN values
               PROVE  Conforms(g, values[k]) <=> Matches(FlattenSeq(s), SubSeq(values[k], 1, w))
    <3> HIDE DEF g, s, w
    <3> QED BY DEF Missed
  <2>1. SubSeq(values[k], 1, w) = values[k]
    <3>1. values[k] \in Seq(Tokens) /\ Len(values[k]) = w
      BY <1>1 DEF IsGroup
    <3> HIDE DEF w
    <3> QED BY <3>1
  <2> HIDE DEF g, s, w
  <2> QED BY <1>1, <1>4, <2>1, SegmentsConformTogether
<1>6. g[1] = s
  BY <1>1
<1> HIDE DEF g, s, w
<1> QED BY <1>4, <1>5, <1>6 DEF g

(* Vertical cuts lose nothing of a column of one signature, and with       *)
(* horizontal cuts no more than a share for each segment, whatever the     *)
(* index, the column and the number of segments.                           *)
THEOREM CutSegmentsConform == Spec => []SegmentsConform
<1>1. Init => SegmentsConform
  BY DEF Init, SegmentsConform
<1>2. IndexInv /\ DetectInv /\ JudgeInv /\ SegmentsConform /\ [Next]_vars => SegmentsConform'
  <2> SUFFICES ASSUME IndexInv, DetectInv, JudgeInv, SegmentsConform, [Next]_vars
               PROVE  SegmentsConform'
    OBVIOUS
  <2>1. ASSUME UNCHANGED <<config, column, inferred>> PROVE SegmentsConform'
    BY <2>1 DEF SegmentsConform, NonConforming
  <2>2. CASE UNCHANGED vars
    BY <2>1, <2>2 DEF vars
  <2>3. ASSUME NEW k \in Corpora, StartBuild(k) PROVE SegmentsConform'
    BY <2>1, <2>3 DEF StartBuild
  <2>4. CASE ScanColumn \/ BuildRaises \/ FinishBuild
    BY <2>1, <2>4 DEF ScanColumn, BuildRaises, FinishBuild
  <2>5. ASSUME NEW cells \in Columns, Infer(cells) PROVE SegmentsConform'
    <3> DEFINE V == Clean(cells)
               lost == Cardinality({i \in DOMAIN V : ~Conforms(InferPattern(V).groups, cells[i])})
               segments == InferPattern(V).groups[1]
    <3>1. config' = config /\ column' = cells /\ inferred' = InferPattern(V)
      BY <2>5 DEF Infer
    <3>2. Ready
      BY <2>5 DEF Ready, Infer, IndexInv, DetectInv
    <3>3. IsCleaned(V, Len(cells)) /\ V = [i \in DOMAIN V |-> V[i]] /\ IsFiniteSet(DOMAIN V)
      <4>1. IsCleaned(V, Len(cells))
        BY ColumnsAssumption, CleanIsCleaned
      <4>2. V = [i \in DOMAIN V |-> V[i]]
        BY DEF Clean
      <4> QED BY <4>1, <4>2, CleanedFinite
    <3>4. \A i \in DOMAIN V : V[i] = cells[i]
      BY DEF Clean
    <3>5. NonConforming(column)' = Cardinality({i \in DOMAIN V : ~Conforms(inferred'.groups, cells[i])})
      BY <3>1 DEF NonConforming
    <3>6. NonConforming(column)' = lost
      BY <3>1, <3>5
    <3>7. SegmentsConform' <=>
            ((InferPattern(V) # NoPattern /\ OneSignature(V)) =>
               /\ config.variant = "fmdv_v" => lost = 0
               /\ config.variant = "fmdv_vh" =>
                    config.theta[2] * lost <= Len(segments) * config.theta[1] * Size(V))
      <4>1. SegmentsConform' <=>
              ((inferred' # NoPattern /\ OneSignature(V)) =>
                 /\ config.variant = "fmdv_v" => NonConforming(column)' = 0
                 /\ config.variant = "fmdv_vh" =>
                      config.theta[2] * NonConforming(column)'
                        <= Len(inferred'.groups[1]) * config.theta[1] * Size(V))
        BY <3>1 DEF SegmentsConform
      <4> QED BY <3>1, <3>6, <4>1
    <3>8. ASSUME InferPattern(V) # NoPattern, OneSignature(V), config.variant \in {"fmdv_v", "fmdv_vh"}
          PROVE  config.theta[2] * lost <= Len(segments) * Tolerated(V, Tolerant)
      <4>1. lost = Cardinality({i \in DOMAIN V : ~Conforms(InferPattern(V).groups, V[i])})
        <5>1. {i \in DOMAIN V : ~Conforms(InferPattern(V).groups, cells[i])}
                = {i \in DOMAIN V : ~Conforms(InferPattern(V).groups, V[i])}
          <6> HIDE DEF V
          <6> QED BY <3>4
        <5> QED BY <5>1
      <4> HIDE DEF V, lost
      <4> QED BY <3>2, <3>3, <3>8, <4>1, SegmentsLoss DEF segments
    <3>9. config.theta[1] \in Nat /\ config.theta[2] \in Nat \ {0} /\ Size(V) \in Nat
      <4> HIDE DEF V
      <4>1. Tolerant \in BOOLEAN
        BY DEF Tolerant
      <4> QED BY <3>2, <3>3, <4>1, ToleratedType
    <3>10. lost \in Nat
      <4>1. {i \in DOMAIN V : ~Conforms(InferPattern(V).groups, cells[i])} \in SUBSET DOMAIN V
        OBVIOUS
      <4> HIDE DEF V
      <4> QED BY <3>3, <4>1, FS_Subset, FS_CardinalityType
    <3>11. ASSUME InferPattern(V) # NoPattern, OneSignature(V), config.variant \in {"fmdv_v", "fmdv_vh"}
           PROVE  Len(segments) \in Nat
      <4> HIDE DEF V
      <4>1. /\ IsGroup(V) /\ SegmentDP(V, Tolerant) # NoPattern
            /\ InferPattern(V).groups = <<SegmentDP(V, Tolerant).segments>>
        BY <3>2, <3>3, <3>11, InferredSegments
      <4>2. Tolerant \in BOOLEAN /\ Width(V) \in 0 .. Width(V)
        BY <4>1 DEF Tolerant, IsGroup
      <4>3. SegmentsFit(V, Tolerant, Width(V))
        BY <3>2, <4>1, <4>2, SegmentationsFit DEF Fits, SegmentDP
      <4>4. segments \in Seq(Seq(Parts))
        BY <4>1, <4>3 DEF SegmentsFit, SegmentDP
      <4> HIDE DEF segments
      <4> QED BY <4>4
    <3>12. ASSUME InferPattern(V) # NoPattern, OneSignature(V), config.variant = "fmdv_v" PROVE lost = 0
      <4>1. Tolerated(V, Tolerant) = 0
        BY <3>12 DEF Tolerated, Tolerant
      <4>2. config.theta[2] * lost <= Len(segments) * 0 /\ Len(segments) \in Nat
        BY <3>8, <3>11, <3>12, <4>1
      <4> HIDE DEF lost, segments, V
      <4> QED BY <3>9, <3>10, <4>2
    <3>13. ASSUME InferPattern(V) # NoPattern, OneSignature(V), config.variant = "fmdv_vh"
           PROVE  config.theta[2] * lost <= Len(segments) * config.theta[1] * Size(V)
      <4>1. Tolerated(V, Tolerant) = config.theta[1] * Size(V)
        BY <3>13 DEF Tolerated, Tolerant
      <4>2. config.theta[2] * lost <= Len(segments) * (config.theta[1] * Size(V)) /\ Len(segments) \in Nat
        BY <3>8, <3>11, <3>13, <4>1
      <4> HIDE DEF lost, segments, V
      <4>3. Len(segments) * (config.theta[1] * Size(V)) = Len(segments) * config.theta[1] * Size(V)
        BY <3>9, <4>2
      <4> QED BY <4>2, <4>3
    <3> HIDE DEF V, lost, segments
    <3>14. (InferPattern(V) # NoPattern /\ OneSignature(V)) =>
             /\ config.variant = "fmdv_v" => lost = 0
             /\ config.variant = "fmdv_vh" =>
                  config.theta[2] * lost <= Len(segments) * config.theta[1] * Size(V)
      BY <3>12, <3>13
    <3> QED BY <3>7, <3>14
  <2>6. ASSUME NEW cells \in Columns, CheckDrift(cells) PROVE SegmentsConform'
    BY <2>1, <2>6 DEF CheckDrift
  <2>7. CASE InferWithoutIndex \/ Judge
    BY <2>1, <2>7 DEF InferWithoutIndex, Judge
  <2>8. CASE NextCall
    BY <2>8 DEF NextCall, SegmentsConform
  <2> QED
    BY <2>2, <2>3, <2>4, <2>5, <2>6, <2>7, <2>8 DEF Next
<1> QED BY <1>1, <1>2, IndexInvariant, DetectInvariant, JudgeInvariant, PTL DEF Spec

(* An index read off a corpus, column by column.                           *)
Rows(cells, tau) == {i \in DOMAIN cells : cells[i] \notin {Null, << >>} /\ Len(cells[i]) < tau}

\* The rows that the pattern is enumerated for.
Hits(p, cells, tau) == {i \in Rows(cells, tau) : p \in PatternsOf(cells[i], tau)}

\* The impurity of a pattern in a column (Eqn 4).
Impure(p, cells, tau) ==
  Scale - (Scale * Cardinality(Hits(p, cells, tau))) \div Cardinality(Rows(cells, tau))

\* What a column adds to the sum of the pattern's impurities.
Adds(p, cells, tau) == IF Hits(p, cells, tau) # {} THEN Impure(p, cells, tau) ELSE 0

\* The patterns of a column.
PatternsIn(cells, tau) == UNION {PatternsOf(cells[i], tau) : i \in Rows(cells, tau)}

\* The first m columns in which the pattern is found.
MatchingColumns(p, k, m, tau) == {j \in 1 .. m : Hits(p, k[j], tau) # {}}

\* Their impurities.
SumUpTo(p, k, m, tau) == Total([j \in 1 .. m |-> Adds(p, k[j], tau)])

\* Their number.
ColsUpTo(p, k, m, tau) == Cardinality(MatchingColumns(p, k, m, tau))

\* The patterns of the first m columns.
PatternsUpTo(k, m, tau) == UNION {PatternsIn(k[j], tau) : j \in 1 .. m}

\* What a build has added up after m columns.
Partial(k, m, tau) ==
  [p \in PatternsUpTo(k, m, tau) |->
     [sum |-> SumUpTo(p, k, m, tau), cols |-> ColsUpTo(p, k, m, tau)]]

\* A multiple of n is divided by n without a rest.
LEMMA Multiple ==
  ASSUME NEW n \in Nat \ {0}, NEW x \in Nat
  PROVE  (n * x) \div n = x
OBVIOUS

\* The impurity from the misses is the impurity from the hits.
LEMMA ImpurityTwoWays ==
  ASSUME NEW s \in Nat, NEW n \in Nat \ {0}, NEW h \in 0 .. n, s % n = 0
  PROVE  /\ (s * (n - h)) \div n = s - (s * h) \div n
         /\ s - (s * h) \div n \in Nat
<1> DEFINE q == s \div n
<1>1. q \in Nat /\ s = n * q
  OBVIOUS
<1> HIDE DEF q
<1>2. s * (n - h) = n * (q * (n - h)) /\ s * h = n * (q * h)
  BY <1>1
<1>3. q * (n - h) \in Nat /\ q * h \in Nat
  BY <1>1
<1>4. (s * (n - h)) \div n = q * (n - h) /\ (s * h) \div n = q * h
  BY <1>2, <1>3, Multiple
<1>5. q * (n - h) = n * q - q * h
  BY <1>1
<1> QED BY <1>1, <1>3, <1>4, <1>5

\* The indexed rows of a column.
LEMMA RowsFinite ==
  ASSUME NEW cells \in Seq(Cells), NEW tau \in Nat, NEW p
  PROVE  /\ IsFiniteSet(Rows(cells, tau))
         /\ Cardinality(Rows(cells, tau)) \in 0 .. Len(cells)
         /\ IsFiniteSet(Hits(p, cells, tau))
         /\ Cardinality(Hits(p, cells, tau)) \in 0 .. Cardinality(Rows(cells, tau))
         /\ \A i \in Rows(cells, tau) : cells[i] \in Seq(Tokens) /\ cells[i] # << >> /\ Len(cells[i]) < tau
<1> DEFINE R == Rows(cells, tau)
           H == Hits(p, cells, tau)
<1>1. R \in SUBSET (1 .. Len(cells)) /\ H \in SUBSET R
  BY DEF Rows, Hits
<1>2. IsFiniteSet(1 .. Len(cells)) /\ Cardinality(1 .. Len(cells)) = Len(cells) /\ Len(cells) \in Nat
  <2>1. Len(cells) \in Nat
    OBVIOUS
  <2> QED BY <2>1, FS_Interval
<1>3. \A i \in R : cells[i] \in Seq(Tokens) /\ cells[i] # << >> /\ Len(cells[i]) < tau
  <2> SUFFICES ASSUME NEW i \in R PROVE cells[i] \in Seq(Tokens) /\ cells[i] # << >> /\ Len(cells[i]) < tau
    OBVIOUS
  <2>1. i \in DOMAIN cells /\ cells[i] # Null /\ cells[i] # << >> /\ Len(cells[i]) < tau
    BY DEF Rows
  <2>2. cells[i] \in Cells
    BY <2>1
  <2> HIDE DEF R
  <2> QED BY <2>1, <2>2 DEF Cells
<1> HIDE DEF R, H
<1>4. IsFiniteSet(R) /\ Cardinality(R) <= Len(cells)
  BY <1>1, <1>2, FS_Subset
<1>5. IsFiniteSet(H) /\ Cardinality(H) <= Cardinality(R)
  BY <1>1, <1>4, FS_Subset
<1>6. Cardinality(R) \in Nat /\ Cardinality(H) \in Nat
  BY <1>4, <1>5, FS_CardinalityType
<1>7. Cardinality(R) \in 0 .. Len(cells) /\ Cardinality(H) \in 0 .. Cardinality(R)
  BY <1>2, <1>4, <1>5, <1>6
<1> QED BY <1>3, <1>4, <1>5, <1>7 DEF R, H

\* A pattern is found in a column if and only if one of its rows has it.
LEMMA FoundIsHit ==
  ASSUME NEW cells, NEW tau, NEW p
  PROVE  p \in PatternsIn(cells, tau) <=> Hits(p, cells, tau) # {}
<1>1. p \in PatternsIn(cells, tau) <=> \E i \in Rows(cells, tau) : p \in PatternsOf(cells[i], tau)
  BY DEF PatternsIn
<1>2. Hits(p, cells, tau) # {} <=> \E i \in Rows(cells, tau) : p \in PatternsOf(cells[i], tau)
  BY DEF Hits
<1> QED BY <1>1, <1>2

\* What a column adds is a natural.
LEMMA AddsType ==
  ASSUME NEW k \in Corpora, NEW j \in DOMAIN k, k[j] # BadEntry, NEW tau \in Nat, NEW p
  PROVE  /\ k[j] \in Seq(Cells)
         /\ Adds(p, k[j], tau) \in Nat
         /\ Hits(p, k[j], tau) # {} =>
              LET n == Cardinality(Rows(k[j], tau))
                  h == Cardinality(Hits(p, k[j], tau))
              IN  n \in Nat \ {0} /\ h \in 0 .. n /\ Scale % n = 0
<1> DEFINE c == k[j]
           n == Cardinality(Rows(c, tau))
           h == Cardinality(Hits(p, c, tau))
<1>1. k \in Seq({BadEntry} \union Seq(Cells))
  BY CorporaAssumption
<1>2. c \in Seq(Cells)
  BY <1>1
<1>3. n \in 0 .. Len(c) /\ h \in 0 .. n /\ IsFiniteSet(Hits(p, c, tau)) /\ Len(c) \in Nat
  <2> HIDE DEF c
  <2>1. Len(c) \in Nat
    BY <1>2
  <2> QED BY <1>2, <2>1, RowsFinite
<1>4. ASSUME Hits(p, c, tau) # {} PROVE n \in Nat \ {0} /\ h \in 0 .. n /\ Scale % n = 0
  <2>1. h # 0 /\ h \in Nat
    <3> HIDE DEF c
    <3> QED BY <1>3, <1>4, FS_EmptySet, FS_CardinalityType
  <2>2. n \in 1 .. Len(c)
    <3> HIDE DEF c, n, h
    <3> QED BY <1>3, <2>1
  <2>3. 1 \in DOMAIN k
    BY <1>1
  <2>4. Scale % (n * 1) = 0
    <3>1. \A i \in DOMAIN k : \A m \in 1 .. Len(k[j]) : Scale % (m * i) = 0
      BY ScaleAssumption
    <3> QED BY <2>2, <2>3, <3>1
  <2>5. n * 1 = n /\ n \in Nat \ {0}
    <3> HIDE DEF c, n
    <3> QED BY <1>3, <2>2
  <2> HIDE DEF c, n, h
  <2> QED BY <1>3, <2>4, <2>5
<1>5. Adds(p, c, tau) \in Nat
  <2>1. CASE Hits(p, c, tau) = {}
    BY <2>1 DEF Adds
  <2>2. CASE Hits(p, c, tau) # {}
    <3>1. Adds(p, c, tau) = Scale - (Scale * h) \div n
      BY <2>2 DEF Adds, Impure
    <3>2. n \in Nat \ {0} /\ h \in 0 .. n /\ Scale % n = 0 /\ Scale \in Nat
      BY <1>4, <2>2, ScaleAssumption
    <3> HIDE DEF c, n, h
    <3> QED BY <3>1, <3>2, ImpurityTwoWays
  <2> QED BY <2>1, <2>2
<1> QED BY <1>2, <1>4, <1>5

\* The columns before column m + 1 have been read.
Read(k, m) == k \in Corpora /\ m \in 0 .. Len(k) /\ \A j \in 1 .. m : k[j] # BadEntry

\* What has been read are columns.
LEMMA CorpusColumns ==
  ASSUME NEW k, NEW m, Read(k, m)
  PROVE  /\ m \in Nat /\ Len(k) \in Nat
         /\ \A j \in 1 .. m : j \in DOMAIN k /\ k[j] \in Seq(Cells)
<1>1. k \in Seq({BadEntry} \union Seq(Cells)) /\ m \in 0 .. Len(k)
  BY CorporaAssumption DEF Read
<1>2. Len(k) \in Nat /\ m \in Nat
  BY <1>1
<1>3. ASSUME NEW j \in 1 .. m PROVE j \in DOMAIN k /\ k[j] \in Seq(Cells)
  <2>1. j \in DOMAIN k
    BY <1>1
  <2>2. k[j] \in {BadEntry} \union Seq(Cells) /\ k[j] # BadEntry
    BY <1>1, <2>1 DEF Read
  <2> QED BY <2>1, <2>2
<1> QED BY <1>2, <1>3

\* The next column adds its impurity,
LEMMA SumNext ==
  ASSUME NEW k, NEW m \in Nat, Read(k, m + 1), NEW tau \in Nat, NEW p
  PROVE  /\ SumUpTo(p, k, m, tau) \in Nat
         /\ SumUpTo(p, k, m + 1, tau) = SumUpTo(p, k, m, tau) + Adds(p, k[m + 1], tau)
<1> DEFINE r == [j \in 1 .. m |-> Adds(p, k[j], tau)]
           s == [j \in 1 .. m + 1 |-> Adds(p, k[j], tau)]
<1>1. \A j \in 1 .. m + 1 : Adds(p, k[j], tau) \in Nat
  <2> SUFFICES ASSUME NEW j \in 1 .. m + 1 PROVE Adds(p, k[j], tau) \in Nat
    OBVIOUS
  <2>1. j \in DOMAIN k
    BY CorpusColumns
  <2>2. k \in Corpora /\ k[j] # BadEntry
    BY DEF Read
  <2> QED BY <2>1, <2>2, AddsType
<1>2. s \in Seq(Nat) /\ Len(s) = m + 1 /\ s[m + 1] = Adds(p, k[m + 1], tau)
  BY <1>1
<1>3. r \in Seq(Nat) /\ Len(r) = m /\ \A j \in 1 .. m : r[j] = s[j]
  <2>1. \A j \in 1 .. m : j \in 1 .. m + 1
    OBVIOUS
  <2> QED BY <1>1, <2>1
<1>4. SumUpTo(p, k, m, tau) = Total(r) /\ SumUpTo(p, k, m + 1, tau) = Total(s)
  BY DEF SumUpTo
<1> HIDE DEF r, s
<1>5. Total(r) \in Nat
  BY <1>3, TotalType
<1>6. Total(s) = Total(r) + s[m + 1]
  BY <1>2, <1>3, TotalLast
<1> QED BY <1>2, <1>4, <1>5, <1>6

\* counts if the pattern is found in it,
LEMMA ColsNext ==
  ASSUME NEW k, NEW m \in Nat, NEW tau, NEW p
  PROVE  /\ ColsUpTo(p, k, m, tau) \in Nat
         /\ ColsUpTo(p, k, m + 1, tau) =
              ColsUpTo(p, k, m, tau) + IF Hits(p, k[m + 1], tau) # {} THEN 1 ELSE 0
<1> DEFINE M == MatchingColumns(p, k, m, tau)
           N == MatchingColumns(p, k, m + 1, tau)
<1>1. M \in SUBSET (1 .. m) /\ m + 1 \notin M
  BY DEF MatchingColumns
<1>2. IsFiniteSet(M)
  <2>1. IsFiniteSet(1 .. m)
    BY FS_Interval
  <2> HIDE DEF M
  <2> QED BY <1>1, <2>1, FS_Subset
<1>3. \A j : j \in 1 .. m + 1 <=> j \in 1 .. m \/ j = m + 1
  OBVIOUS
<1>4. N = IF Hits(p, k[m + 1], tau) # {} THEN M \cup {m + 1} ELSE M
  BY <1>3 DEF MatchingColumns
<1> HIDE DEF M, N
<1>5. Cardinality(M) \in Nat
  BY <1>2, FS_CardinalityType
<1>6. Cardinality(M \cup {m + 1}) = Cardinality(M) + 1
  BY <1>1, <1>2, FS_AddElement
<1>7. Cardinality(N) = Cardinality(M) + IF Hits(p, k[m + 1], tau) # {} THEN 1 ELSE 0
  BY <1>4, <1>5, <1>6
<1> QED BY <1>5, <1>7 DEF ColsUpTo, M, N

\* A pattern that was not found in the columns so far has nothing to its account.
LEMMA NothingYet ==
  ASSUME NEW k, NEW m, Read(k, m), NEW tau \in Nat, NEW p,
         p \notin PatternsUpTo(k, m, tau)
  PROVE  SumUpTo(p, k, m, tau) = 0 /\ ColsUpTo(p, k, m, tau) = 0
<1>1. m \in Nat /\ \A j \in 1 .. m : k[j] \in Seq(Cells)
  BY CorpusColumns
<1>2. ASSUME NEW j \in 1 .. m PROVE Hits(p, k[j], tau) = {}
  <2>1. p \notin PatternsIn(k[j], tau)
    BY DEF PatternsUpTo
  <2> QED BY <1>1, <2>1, FoundIsHit
<1>3. ColsUpTo(p, k, m, tau) = 0
  <2>1. MatchingColumns(p, k, m, tau) = {}
    BY <1>2 DEF MatchingColumns
  <2> QED BY <2>1, FS_EmptySet DEF ColsUpTo
<1> DEFINE s == [j \in 1 .. m |-> Adds(p, k[j], tau)]
           none == << >>
<1>4. s \in Seq(Nat) /\ Len(s) = m /\ \A j \in 1 .. m : s[j] = 0
  <2>1. \A j \in 1 .. m : Adds(p, k[j], tau) = 0
    BY <1>2 DEF Adds
  <2> QED BY <1>1, <2>1
<1>5. none \in Seq(Nat) /\ Len(none) = 0
  OBVIOUS
<1>6. SumUpTo(p, k, m, tau) = Total(s)
  BY DEF SumUpTo
<1> HIDE DEF s, none
<1>7. Total(s) = Total(none)
  <2>1. /\ Len(none) <= Len(s)
        /\ \A j \in 1 .. Len(none) : s[j] = none[j]
        /\ \A j \in Len(none) + 1 .. Len(s) : s[j] = 0
    BY <1>1, <1>4, <1>5
  <2> QED BY <1>4, <1>5, <2>1, TotalZeros
<1>8. Total(none) = 0
  BY <1>5, TotalEmpty
<1> QED BY <1>3, <1>6, <1>7, <1>8

\* and adds its patterns.
LEMMA PatternsNext ==
  ASSUME NEW k, NEW m \in Nat, NEW tau
  PROVE  PatternsUpTo(k, m + 1, tau) = PatternsUpTo(k, m, tau) \union PatternsIn(k[m + 1], tau)
<1>1. \A j : j \in 1 .. m + 1 <=> j \in 1 .. m \/ j = m + 1
  OBVIOUS
<1>2. ASSUME NEW p
      PROVE  p \in PatternsUpTo(k, m + 1, tau)
               <=> p \in PatternsUpTo(k, m, tau) \/ p \in PatternsIn(k[m + 1], tau)
  <2>1. p \in PatternsUpTo(k, m + 1, tau) <=> \E j \in 1 .. m + 1 : p \in PatternsIn(k[j], tau)
    BY DEF PatternsUpTo
  <2>2. p \in PatternsUpTo(k, m, tau) <=> \E j \in 1 .. m : p \in PatternsIn(k[j], tau)
    BY DEF PatternsUpTo
  <2> QED BY <1>1, <2>1, <2>2
<1> QED BY <1>2

\* The rows that AddColumn is given.
LEMMA IndexableRows ==
  ASSUME NEW cells
  PROVE  Indexable(Clean(cells)) = [i \in Rows(cells, config.tau) |-> cells[i]]
<1> DEFINE V == Clean(cells)
           D == {i \in DOMAIN V : Len(V[i]) < config.tau}
<1>1. V = [i \in {j \in DOMAIN cells : cells[j] # Null /\ cells[j] # << >>} |-> cells[i]]
  BY DEF Clean
<1>2. D = Rows(cells, config.tau)
  BY <1>1 DEF Rows
<1>3. Indexable(V) = [i \in D |-> V[i]]
  BY DEF Indexable, Restrict
<1>4. \A i \in D : V[i] = cells[i]
  BY <1>1
<1> HIDE DEF V, D
<1>5. [i \in D |-> V[i]] = [i \in D |-> cells[i]]
  BY <1>4
<1> QED BY <1>2, <1>3, <1>5 DEF V

\* The enumerated patterns of a column, and how often each is counted.
LEMMA CountedHits ==
  ASSUME NEW cells \in Seq(Cells), config.tau \in Nat, NEW values,
         values = [i \in Rows(cells, config.tau) |-> cells[i]],
         NEW sets, sets = [i \in DOMAIN values |-> PatternsOf(values[i], config.tau)]
  PROVE  /\ UNION Range(sets) = PatternsIn(cells, config.tau)
         /\ \A p : MatchCount(p, sets) = Cardinality(Hits(p, cells, config.tau))
<1> DEFINE R == Rows(cells, config.tau)
<1>1. sets = [i \in R |-> PatternsOf(cells[i], config.tau)]
  BY DEF R
<1>2. UNION Range(sets) = PatternsIn(cells, config.tau)
  BY <1>1 DEF Range, PatternsIn
<1>3. ASSUME NEW p PROVE MatchCount(p, sets) = Cardinality(Hits(p, cells, config.tau))
  <2>1. {i \in DOMAIN sets : p \in sets[i]} = Hits(p, cells, config.tau)
    BY <1>1 DEF Hits
  <2> QED BY <2>1 DEF MatchCount
<1> QED BY <1>2, <1>3

(* AddColumn adds to every pattern what the column adds to it.             *)
LEMMA ColumnAdded ==
  ASSUME NEW k, NEW m \in Nat, Read(k, m + 1), config.tau \in Nat,
         local = Partial(k, m, config.tau),
         NEW values, values = Indexable(Clean(k[m + 1])),
         Size(values) # 0
  PROVE  AddColumn(values) = Partial(k, m + 1, config.tau)
<1> DEFINE tau == config.tau
           c == k[m + 1]
           n == Size(values)
           sets == [i \in DOMAIN values |-> PatternsOf(values[i], tau)]
           found == UNION Range(sets)
           Impurity(p) == (Scale * (n - MatchCount(p, sets))) \div n
           Old(p) == IF p \in DOMAIN local THEN local[p] ELSE [sum |-> 0, cols |-> 0]
<1>1. AddColumn(values) = [p \in DOMAIN local \union found |->
                             IF p \in found
                             THEN [sum |-> Old(p).sum + Impurity(p), cols |-> Old(p).cols + 1]
                             ELSE local[p]]
  BY DEF AddColumn
<1>2. values = [i \in Rows(c, tau) |-> c[i]] /\ n = Cardinality(Rows(c, tau))
  BY IndexableRows DEF Size
<1>3. c \in Seq(Cells) /\ m + 1 \in DOMAIN k /\ c # BadEntry /\ k \in Corpora /\ Read(k, m)
  <2>1. m + 1 \in 1 .. m + 1 /\ m \in 0 .. m + 1
    OBVIOUS
  <2>2. c \in Seq(Cells) /\ m + 1 \in DOMAIN k
    BY <2>1, CorpusColumns
  <2>3. m \in 0 .. Len(k)
    BY CorpusColumns DEF Read
  <2>4. \A j \in 1 .. m : j \in 1 .. m + 1
    OBVIOUS
  <2> QED BY <2>1, <2>2, <2>3, <2>4 DEF Read
<1>4. found = PatternsIn(c, tau) /\ \A p : MatchCount(p, sets) = Cardinality(Hits(p, c, tau))
  <2> HIDE DEF c
  <2> QED BY <1>2, <1>3, CountedHits
<1>5. DOMAIN local = PatternsUpTo(k, m, tau)
      /\ \A p \in DOMAIN local : local[p] = [sum |-> SumUpTo(p, k, m, tau), cols |-> ColsUpTo(p, k, m, tau)]
  BY DEF Partial
<1> HIDE DEF tau, sets, found, n
<1>6. ASSUME NEW p
      PROVE  Old(p).sum = SumUpTo(p, k, m, tau) /\ Old(p).cols = ColsUpTo(p, k, m, tau)
  <2>1. CASE p \in DOMAIN local
    <3>1. Old(p) = local[p]
      BY <2>1
    <3>2. local[p] = [sum |-> SumUpTo(p, k, m, tau), cols |-> ColsUpTo(p, k, m, tau)]
      BY <1>5, <2>1
    <3> HIDE DEF Old
    <3> QED BY <3>1, <3>2
  <2>2. CASE p \notin DOMAIN local
    <3>1. SumUpTo(p, k, m, tau) = 0 /\ ColsUpTo(p, k, m, tau) = 0
      BY <1>3, <1>5, <2>2, NothingYet DEF tau
    <3> QED BY <2>2, <3>1
  <2> QED BY <2>1, <2>2
<1>7. ASSUME NEW p, p \in found
      PROVE  Impurity(p) = Adds(p, c, tau) /\ Hits(p, c, tau) # {}
  <2> HIDE DEF c
  <2>1. Hits(p, c, tau) # {}
    BY <1>3, <1>4, <1>7, FoundIsHit DEF tau
  <2> DEFINE h == Cardinality(Hits(p, c, tau))
  <2>2. n \in Nat \ {0} /\ h \in 0 .. n /\ Scale % n = 0
    BY <1>2, <1>3, <2>1, AddsType DEF tau, c
  <2>3. Impurity(p) = (Scale * (n - h)) \div n
    BY <1>4
  <2>4. Adds(p, c, tau) = Scale - (Scale * h) \div n
    BY <1>2, <2>1 DEF Adds, Impure
  <2>5. Scale \in Nat
    BY ScaleAssumption
  <2> HIDE DEF h, Impurity
  <2>6. (Scale * (n - h)) \div n = Scale - (Scale * h) \div n
    BY <2>2, <2>5, ImpurityTwoWays
  <2> QED BY <2>1, <2>3, <2>4, <2>6
<1>8. PatternsUpTo(k, m + 1, tau) = DOMAIN local \union found
  BY <1>4, <1>5, PatternsNext
<1>9. ASSUME NEW p \in DOMAIN local \union found
      PROVE  AddColumn(values)[p]
               = [sum |-> SumUpTo(p, k, m + 1, tau), cols |-> ColsUpTo(p, k, m + 1, tau)]
  <2>2. SumUpTo(p, k, m + 1, tau) = SumUpTo(p, k, m, tau) + Adds(p, c, tau)
    BY SumNext DEF tau
  <2>3. ColsUpTo(p, k, m + 1, tau) = ColsUpTo(p, k, m, tau) + IF Hits(p, c, tau) # {} THEN 1 ELSE 0
    BY ColsNext
  <2>4. SumUpTo(p, k, m, tau) \in Nat /\ ColsUpTo(p, k, m, tau) \in Nat
    BY SumNext, ColsNext DEF tau
  <2>5. CASE p \in found
    <3>1. AddColumn(values)[p] = [sum |-> Old(p).sum + Impurity(p), cols |-> Old(p).cols + 1]
      BY <1>1, <2>5
    <3> HIDE DEF Old, Impurity, c
    <3> QED BY <1>6, <1>7, <2>2, <2>3, <2>5, <3>1
  <2>6. CASE p \notin found
    <3>1. AddColumn(values)[p] = local[p] /\ p \in DOMAIN local
      BY <1>1, <2>6
    <3>2. Hits(p, c, tau) = {}
      BY <1>3, <1>4, <2>6, FoundIsHit DEF tau
    <3>3. Adds(p, c, tau) = 0
      BY <3>2 DEF Adds
    <3> HIDE DEF c
    <3> QED BY <1>5, <2>2, <2>3, <2>4, <3>1, <3>2, <3>3
  <2> QED BY <2>5, <2>6
<1>10. DOMAIN AddColumn(values) = DOMAIN local \union found
       /\ AddColumn(values) = [p \in DOMAIN AddColumn(values) |-> AddColumn(values)[p]]
  <2> HIDE DEF Old, Impurity
  <2> QED BY <1>1
<1> HIDE DEF Old, Impurity, c
<1>11. AddColumn(values) = [p \in PatternsUpTo(k, m + 1, tau) |->
                             [sum |-> SumUpTo(p, k, m + 1, tau), cols |-> ColsUpTo(p, k, m + 1, tau)]]
  BY <1>8, <1>9, <1>10
<1> QED BY <1>11 DEF Partial, tau

\* A column without an indexable value adds nothing.
LEMMA EmptyColumn ==
  ASSUME NEW k, NEW m \in Nat, Read(k, m + 1), NEW tau \in Nat, Rows(k[m + 1], tau) = {}
  PROVE  Partial(k, m + 1, tau) = Partial(k, m, tau)
<1>1. PatternsIn(k[m + 1], tau) = {}
  BY DEF PatternsIn
<1>2. PatternsUpTo(k, m + 1, tau) = PatternsUpTo(k, m, tau)
  <2>1. PatternsUpTo(k, m + 1, tau) = PatternsUpTo(k, m, tau) \union PatternsIn(k[m + 1], tau)
    BY PatternsNext
  <2> QED BY <1>1, <2>1
<1>3. ASSUME NEW p
      PROVE  /\ SumUpTo(p, k, m + 1, tau) = SumUpTo(p, k, m, tau)
             /\ ColsUpTo(p, k, m + 1, tau) = ColsUpTo(p, k, m, tau)
  <2>1. Hits(p, k[m + 1], tau) = {}
    BY DEF Hits
  <2>2. Adds(p, k[m + 1], tau) = 0
    BY <2>1 DEF Adds
  <2>3. /\ SumUpTo(p, k, m, tau) \in Nat
        /\ SumUpTo(p, k, m + 1, tau) = SumUpTo(p, k, m, tau) + 0
    BY <2>2, SumNext
  <2>4. /\ ColsUpTo(p, k, m, tau) \in Nat
        /\ ColsUpTo(p, k, m + 1, tau) = ColsUpTo(p, k, m, tau) + 0
    BY <2>1, ColsNext
  <2> QED BY <2>3, <2>4
<1> QED BY <1>2, <1>3 DEF Partial

\* Meaning, with the sums of a build over the whole corpus.
MeaningFor(k, tau) ==
  [p \in PatternsUpTo(k, Len(k), tau) |->
     [fpr |-> SumUpTo(p, k, Len(k), tau) \div ColsUpTo(p, k, Len(k), tau),
      cov |-> ColsUpTo(p, k, Len(k), tau)]]

\* The columns of a corpus without bad entries.
LEMMA WholeColumns ==
  ASSUME NEW k \in Corpora, BadEntry \notin Range(k)
  PROVE  DOMAIN k = 1 .. Len(k) /\ \A j \in DOMAIN k : k[j] \in Seq(Cells)
<1>1. k \in Seq({BadEntry} \union Seq(Cells))
  BY CorporaAssumption
<1>2. DOMAIN k = 1 .. Len(k)
  BY <1>1
<1>3. ASSUME NEW j \in DOMAIN k PROVE k[j] \in Seq(Cells)
  <2>1. k[j] \in {BadEntry} \union Seq(Cells) /\ k[j] \in Range(k)
    BY <1>1 DEF Range
  <2> QED BY <2>1
<1> QED BY <1>2, <1>3

\* The patterns of its values are those a build finds in all columns.
LEMMA EnumeratedIs ==
  ASSUME NEW k \in Corpora, BadEntry \notin Range(k), config.tau \in Nat
  PROVE  PatternsUpTo(k, Len(k), config.tau) = Enumerated(k)
<1> DEFINE tau == config.tau
           n == Len(k)
<1>1. DOMAIN k = 1 .. n /\ \A j \in DOMAIN k : k[j] \in Seq(Cells)
  BY WholeColumns
<1>2. ASSUME NEW p PROVE p \in PatternsUpTo(k, n, tau) <=> p \in Enumerated(k)
  <2>1. p \in PatternsUpTo(k, n, tau)
          <=> \E j \in DOMAIN k : \E i \in Rows(k[j], tau) : p \in PatternsOf(k[j][i], tau)
    BY <1>1 DEF PatternsUpTo, PatternsIn
  <2>2. p \in Enumerated(k)
          <=> \E j \in DOMAIN k : \E i \in DOMAIN k[j] : k[j][i] # Null /\ p \in PatternsOf(k[j][i], tau)
    <3>1. p \in Enumerated(k)
            <=> \E v \in (UNION {Range(k[j]) : j \in DOMAIN k}) \ {Null} : p \in PatternsOf(v, tau)
      BY DEF Enumerated
    <3>2. \A v : v \in (UNION {Range(k[j]) : j \in DOMAIN k}) \ {Null}
                   <=> v # Null /\ \E j \in DOMAIN k : \E i \in DOMAIN k[j] : v = k[j][i]
      BY DEF Range
    <3> HIDE DEF tau
    <3> QED BY <3>1, <3>2
  <2>3. ASSUME NEW j \in DOMAIN k, NEW i \in DOMAIN k[j], k[j][i] # Null, p \in PatternsOf(k[j][i], tau)
        PROVE  i \in Rows(k[j], tau)
    <3>1. k[j][i] \in Seq(Tokens)
      <4>1. k[j][i] \in Cells
        BY <1>1
      <4> QED BY <2>3, <4>1 DEF Cells
    <3>2. k[j][i] # << >> /\ ~(Len(k[j][i]) >= tau)
      BY <2>3 DEF PatternsOf
    <3>3. Len(k[j][i]) < tau
      BY <3>1, <3>2
    <3> QED BY <2>3, <3>2, <3>3 DEF Rows
  <2>4. \A j \in DOMAIN k : \A i \in Rows(k[j], tau) : i \in DOMAIN k[j] /\ k[j][i] # Null
    BY DEF Rows
  <2> QED BY <2>1, <2>2, <2>3, <2>4
<1> QED BY <1>2

\* A pattern with fixed lengths is found where it matches.
LEMMA FoundIsMatched ==
  ASSUME NEW k \in Corpora, BadEntry \notin Range(k), NEW tau \in Nat,
         NEW p \in PatternsUpTo(k, Len(k), tau), FixedLengths(p) \/ ~HasPlus(k),
         NEW j \in DOMAIN k
  PROVE  Hits(p, k[j], tau) = {i \in Rows(k[j], tau) : Matches(p, k[j][i])}
<1>1. DOMAIN k = 1 .. Len(k) /\ \A g \in DOMAIN k : k[g] \in Seq(Cells)
  BY WholeColumns
<1>2. \A g \in DOMAIN k : \A i \in Rows(k[g], tau) :
        k[g][i] \in Seq(Tokens) /\ k[g][i] # << >> /\ Len(k[g][i]) < tau
  BY <1>1, RowsFinite
<1>3. \A g \in DOMAIN k : \A i \in Rows(k[g], tau) : HasPlus(k) \/ NoPlus(k[g][i])
  BY DEF HasPlus, Rows
<1>4. PICK g \in DOMAIN k : \E h \in Rows(k[g], tau) : p \in PatternsOf(k[g][h], tau)
  BY <1>1 DEF PatternsUpTo, PatternsIn
<1>5. PICK h \in Rows(k[g], tau) : p \in PatternsOf(k[g][h], tau)
  BY <1>4
<1>6. ASSUME NEW i \in Rows(k[j], tau)
      PROVE  Matches(p, k[j][i]) <=> p \in PatternsOf(k[j][i], tau)
  <2> DEFINE v == k[j][i]
             w == k[g][h]
  <2>1. v \in Seq(Tokens) /\ v # << >> /\ Len(v) < tau /\ w \in Seq(Tokens) /\ p \in PatternsOf(w, tau)
    BY <1>2, <1>5
  <2>2. FixedLengths(p) \/ (NoPlus(v) /\ NoPlus(w))
    BY <1>3
  <2> HIDE DEF v, w
  <2>3. Matches(p, v) <=> p \in PatternsOf(v, tau)
    BY <2>1, <2>2, MatchesIsMembership
  <2> QED BY <2>3 DEF v
<1> QED BY <1>6 DEF Hits

\* Meaning reads the entries of these patterns off the columns at once.
LEMMA MeaningIs ==
  ASSUME NEW k \in Corpora, BadEntry \notin Range(k), config.tau \in Nat,
         NEW p \in PatternsUpTo(k, Len(k), config.tau), FixedLengths(p) \/ ~HasPlus(k)
  PROVE  MeaningFor(k, config.tau)[p] = Meaning(k, p)
<1> DEFINE tau == config.tau
           n == Len(k)
           rows(j) == {i \in DOMAIN k[j] : k[j][i] \notin {Null, << >>} /\ Len(k[j][i]) < config.tau}
           hits(j) == {i \in rows(j) : Matches(p, k[j][i])}
           matching == {j \in DOMAIN k : hits(j) # {}}
           impurity(j) == Scale - (Scale * Cardinality(hits(j))) \div Cardinality(rows(j))
           total == Total([j \in DOMAIN k |-> IF j \in matching THEN impurity(j) ELSE 0])
<1>1. Meaning(k, p) = [fpr |-> total \div Cardinality(matching), cov |-> Cardinality(matching)]
  BY DEF Meaning
<1>2. DOMAIN k = 1 .. n
  BY WholeColumns
<1>3. \A j : rows(j) = Rows(k[j], tau)
  BY DEF Rows
<1> HIDE DEF rows, n
<1>4. \A j \in DOMAIN k : hits(j) = Hits(p, k[j], tau)
  BY <1>3, FoundIsMatched DEF n
<1> HIDE DEF hits
<1>5. \A j \in DOMAIN k : impurity(j) = Impure(p, k[j], tau)
  BY <1>3, <1>4 DEF Impure
<1>6. matching = MatchingColumns(p, k, n, tau)
  BY <1>2, <1>4 DEF MatchingColumns
<1> HIDE DEF impurity
<1>7. total = SumUpTo(p, k, n, tau)
  <2>1. \A j \in DOMAIN k : (IF j \in matching THEN impurity(j) ELSE 0) = Adds(p, k[j], tau)
    BY <1>4, <1>5 DEF Adds
  <2> HIDE DEF matching
  <2>2. [j \in DOMAIN k |-> IF j \in matching THEN impurity(j) ELSE 0]
          = [j \in 1 .. n |-> Adds(p, k[j], tau)]
    BY <1>2, <2>1
  <2> QED BY <2>2 DEF SumUpTo
<1> HIDE DEF matching, total, tau
<1>8. MeaningFor(k, tau)[p] = [fpr |-> SumUpTo(p, k, n, tau) \div ColsUpTo(p, k, n, tau),
                               cov |-> ColsUpTo(p, k, n, tau)]
  BY DEF MeaningFor, n, tau
<1> QED BY <1>1, <1>6, <1>7, <1>8 DEF ColsUpTo, tau

(* A running build has added up the columns it has read, and what it will  *)
(* publish is the index of the whole corpus.                               *)
Half(k, m) == /\ Read(k, m)
              /\ todo = SubSeq(k, m + 1, Len(k))
              /\ local = Partial(k, m, config.tau)

\* The entries are the index of a corpus without bad entries.
Whole(entries, tau) ==
  \E k \in Corpora : BadEntry \notin Range(k) /\ entries = MeaningFor(k, tau)

\* What a build has read, and what the last one published.
BuildInv ==
  /\ building => \E k, m : Half(k, m)
  /\ index # NoIndex => Whole(index, config.tau)

\* The empty sequence is the one of length 0.
LEMMA EmptyIsShort ==
  ASSUME NEW E, NEW s \in Seq(E)
  PROVE  s = << >> <=> Len(s) = 0
OBVIOUS

\* The columns that have not been read.
LEMMA RestOfCorpus ==
  ASSUME NEW k, NEW m, Read(k, m), NEW rest, rest = SubSeq(k, m + 1, Len(k))
  PROVE  /\ m \in Nat /\ m <= Len(k)
         /\ rest = << >> <=> m = Len(k)
         /\ rest # << >> => /\ m + 1 \in 0 .. Len(k)
                            /\ Head(rest) = k[m + 1]
                            /\ Tail(rest) = SubSeq(k, (m + 1) + 1, Len(k))
<1>1. k \in Seq({BadEntry} \union Seq(Cells)) /\ m \in 0 .. Len(k)
  BY CorporaAssumption DEF Read
<1>2. m \in Nat /\ Len(k) \in Nat /\ m <= Len(k)
  BY <1>1
<1>3. Len(rest) = Len(k) - m /\ rest \in Seq({BadEntry} \union Seq(Cells))
      /\ \A j \in 1 .. Len(k) - m : rest[j] = k[m + j]
  <2> DEFINE E == {BadEntry} \union Seq(Cells)
  <2> HIDE DEF E
  <2>1. k \in Seq(E)
    BY <1>1 DEF E
  <2>2. Len(rest) = Len(k) - m /\ rest \in Seq(E) /\ \A j \in 1 .. Len(k) - m : rest[j] = k[m + j]
    BY <1>2, <2>1
  <2> QED BY <2>2 DEF E
<1>4. rest = << >> <=> m = Len(k)
  <2> DEFINE E == {BadEntry} \union Seq(Cells)
  <2> HIDE DEF E
  <2>1. rest \in Seq(E) /\ Len(rest) = Len(k) - m
    BY <1>3 DEF E
  <2>2. rest = << >> <=> Len(rest) = 0
    BY <2>1, EmptyIsShort
  <2> QED BY <1>2, <2>1, <2>2
<1>5. ASSUME rest # << >>
      PROVE  /\ m + 1 \in 0 .. Len(k)
             /\ Head(rest) = k[m + 1]
             /\ Tail(rest) = SubSeq(k, (m + 1) + 1, Len(k))
  <2> DEFINE E == {BadEntry} \union Seq(Cells)
  <2> HIDE DEF E
  <2>1. m < Len(k)
    BY <1>2, <1>4, <1>5
  <2>2. rest \in Seq(E) /\ k \in Seq(E) /\ Len(rest) = Len(k) - m
    BY <1>1, <1>3 DEF E
  <2>3. Head(rest) = k[m + 1]
    <3>1. Head(rest) = rest[1] /\ 1 \in 1 .. Len(k) - m
      BY <1>2, <1>5, <2>1, <2>2
    <3> QED BY <1>3, <3>1
  <2> DEFINE t == Tail(rest)
             u == SubSeq(k, (m + 1) + 1, Len(k))
  <2>4. t \in Seq(E) /\ Len(t) = Len(k) - m - 1 /\ \A j \in 1 .. Len(k) - m - 1 : t[j] = k[m + (j + 1)]
    <3>1. t \in Seq(E) /\ Len(t) = Len(rest) - 1 /\ \A j \in 1 .. Len(rest) - 1 : t[j] = rest[j + 1]
      BY <1>5, <2>2
    <3>2. \A j \in 1 .. Len(k) - m - 1 : j + 1 \in 1 .. Len(k) - m
      BY <1>2
    <3> HIDE DEF t
    <3> QED BY <1>2, <1>3, <2>2, <3>1, <3>2
  <2>5. u \in Seq(E) /\ Len(u) = Len(k) - m - 1 /\ \A j \in 1 .. Len(k) - m - 1 : u[j] = k[((m + 1) + j)]
    BY <1>2, <2>1, <2>2
  <2> HIDE DEF t, u
  <2>6. \A j \in 1 .. Len(k) - m - 1 : t[j] = u[j]
    <3>1. \A j \in 1 .. Len(k) - m - 1 : m + (j + 1) = (m + 1) + j
      BY <1>2
    <3> QED BY <2>4, <2>5, <3>1
  <2>7. t = u
    BY <1>2, <2>4, <2>5, <2>6
  <2> QED BY <1>2, <2>1, <2>3, <2>7 DEF t, u
<1> QED BY <1>2, <1>4, <1>5

\* A build starts with the whole corpus and no sums.
LEMMA NothingRead ==
  ASSUME NEW k \in Corpora, NEW tau
  PROVE  Read(k, 0) /\ k = SubSeq(k, 0 + 1, Len(k)) /\ Partial(k, 0, tau) = << >>
<1>1. k \in Seq({BadEntry} \union Seq(Cells))
  BY CorporaAssumption
<1>2. Read(k, 0)
  <2>1. 0 \in 0 .. Len(k)
    BY <1>1
  <2> QED BY <2>1 DEF Read
<1>3. k = SubSeq(k, 0 + 1, Len(k))
  <2> DEFINE E == {BadEntry} \union Seq(Cells)
  <2>1. k \in Seq(E)
    BY <1>1
  <2> HIDE DEF E
  <2> QED BY <2>1
<1>4. PatternsUpTo(k, 0, tau) = {}
  BY DEF PatternsUpTo
<1>5. Partial(k, 0, tau) = << >>
  BY <1>4 DEF Partial
<1> QED BY <1>2, <1>3, <1>5

\* Reading one more column.
LEMMA HalfReadStep ==
  ASSUME NEW k, NEW m, Half(k, m), config.tau \in Nat, todo # << >>, Head(todo) # BadEntry
  PROVE  /\ Read(k, m + 1)
         /\ Tail(todo) = SubSeq(k, (m + 1) + 1, Len(k))
         /\ LET values == Indexable(Clean(Head(todo)))
            IN  (IF Size(values) = 0 THEN local ELSE AddColumn(values)) = Partial(k, m + 1, config.tau)
<1> DEFINE values == Indexable(Clean(Head(todo)))
<1>1. Read(k, m) /\ todo = SubSeq(k, m + 1, Len(k)) /\ local = Partial(k, m, config.tau)
  BY DEF Half
<1>2. /\ m \in Nat
      /\ m + 1 \in 0 .. Len(k)
      /\ Head(todo) = k[m + 1]
      /\ Tail(todo) = SubSeq(k, (m + 1) + 1, Len(k))
  BY <1>1, RestOfCorpus
<1>3. Read(k, m + 1)
  <2>1. \A j \in 1 .. m + 1 : j \in 1 .. m \/ j = m + 1
    BY <1>2
  <2> QED BY <1>1, <1>2, <2>1 DEF Read
<1>4. CASE Size(values) = 0
  <2>1. k[m + 1] \in Seq(Cells)
    <3>1. m + 1 \in 1 .. m + 1
      BY <1>2
    <3> QED BY <1>3, <3>1, CorpusColumns
  <2>2. DOMAIN values = Rows(k[m + 1], config.tau)
    BY <1>2, IndexableRows
  <2>3. Rows(k[m + 1], config.tau) = {}
    <3>1. Cardinality(Rows(k[m + 1], config.tau)) = 0
      BY <1>4, <2>2 DEF Size
    <3>2. IsFiniteSet(Rows(k[m + 1], config.tau))
      BY <2>1, RowsFinite
    <3> QED BY <3>1, <3>2, FS_EmptySet
  <2>4. Partial(k, m + 1, config.tau) = Partial(k, m, config.tau)
    BY <1>2, <1>3, <2>3, EmptyColumn
  <2> HIDE DEF values
  <2>5. (IF Size(values) = 0 THEN local ELSE AddColumn(values)) = Partial(k, m + 1, config.tau)
    BY <1>1, <1>4, <2>4
  <2> QED BY <1>2, <1>3, <2>5 DEF values
<1>5. CASE Size(values) # 0
  <2>1. values = Indexable(Clean(k[m + 1]))
    BY <1>2
  <2> HIDE DEF values
  <2>2. AddColumn(values) = Partial(k, m + 1, config.tau)
    BY <1>1, <1>2, <1>3, <1>5, <2>1, ColumnAdded
  <2>3. (IF Size(values) = 0 THEN local ELSE AddColumn(values)) = Partial(k, m + 1, config.tau)
    BY <1>5, <2>2
  <2> QED BY <1>2, <1>3, <2>3 DEF values
<1> QED BY <1>4, <1>5

\* With nothing left to read, the entries are the index of the corpus.
LEMMA WholeRead ==
  ASSUME NEW k, NEW m, Half(k, m), todo = << >>
  PROVE  Whole(Entries, config.tau)
<1> DEFINE tau == config.tau
<1>1. Read(k, m) /\ todo = SubSeq(k, m + 1, Len(k)) /\ local = Partial(k, m, tau)
  BY DEF Half
<1>2. m = Len(k)
  BY <1>1, RestOfCorpus
<1>3. k \in Corpora /\ BadEntry \notin Range(k)
  <2>1. k \in Corpora /\ \A j \in 1 .. Len(k) : k[j] # BadEntry
    BY <1>1, <1>2 DEF Read
  <2>2. DOMAIN k = 1 .. Len(k)
    <3>1. k \in Seq({BadEntry} \union Seq(Cells))
      BY <2>1, CorporaAssumption
    <3> QED BY <3>1
  <2> QED BY <2>1, <2>2 DEF Range
<1>4. Entries = MeaningFor(k, tau)
  <2>1. local = [p \in PatternsUpTo(k, Len(k), tau) |->
                   [sum |-> SumUpTo(p, k, Len(k), tau), cols |-> ColsUpTo(p, k, Len(k), tau)]]
    BY <1>1, <1>2 DEF Partial
  <2> HIDE DEF tau
  <2>2. /\ DOMAIN local = PatternsUpTo(k, Len(k), tau)
        /\ \A p \in DOMAIN local : /\ local[p].sum = SumUpTo(p, k, Len(k), tau)
                                   /\ local[p].cols = ColsUpTo(p, k, Len(k), tau)
    BY <2>1
  <2> QED BY <2>2 DEF Entries, MeaningFor
<1> QED BY <1>3, <1>4 DEF Whole

\* BuildInv is inductive, relative to the types of the configuration.
LEMMA BuildInvariant == Spec => []BuildInv
<1>1. Init => BuildInv
  BY DEF Init, BuildInv
<1>2. DetectInv /\ JudgeInv /\ BuildInv /\ [Next]_vars => BuildInv'
  <2> SUFFICES ASSUME DetectInv, JudgeInv, BuildInv, [Next]_vars PROVE BuildInv'
    OBVIOUS
  <2>1. ASSUME UNCHANGED <<config, todo, building, local, index>> PROVE BuildInv'
    BY <2>1 DEF BuildInv, Half
  <2>2. CASE UNCHANGED vars
    BY <2>1, <2>2 DEF vars
  <2>3. ASSUME NEW k \in Corpora, StartBuild(k) PROVE BuildInv'
    <3>1. Half(k, 0)'
      <4>1. todo' = k /\ local' = << >> /\ config' = config
        BY <2>3 DEF StartBuild
      <4>2. /\ Read(k, 0) /\ k = SubSeq(k, 0 + 1, Len(k))
            /\ Partial(k, 0, config'.tau) = << >>
        BY NothingRead
      <4> QED BY <4>1, <4>2 DEF Half
    <3>2. index' = index /\ config' = config
      BY <2>3 DEF StartBuild
    <3> QED BY <3>1, <3>2 DEF BuildInv
  <2>4. CASE ScanColumn
    <3> DEFINE values == Indexable(Clean(Head(todo)))
    <3>1. building /\ todo # << >> /\ Head(todo) # BadEntry
      BY <2>4 DEF ScanColumn
    <3>2. /\ todo' = Tail(todo) /\ local' = IF Size(values) = 0 THEN local ELSE AddColumn(values)
          /\ config' = config /\ index' = index
      BY <2>4 DEF ScanColumn
    <3>3. PICK k, m : Half(k, m)
      BY <3>1 DEF BuildInv
    <3>4. config.tau \in Nat
      BY ConfigsAssumption DEF DetectInv
    <3>5. /\ Read(k, m + 1)
          /\ Tail(todo) = SubSeq(k, (m + 1) + 1, Len(k))
          /\ (IF Size(values) = 0 THEN local ELSE AddColumn(values)) = Partial(k, m + 1, config.tau)
      BY <3>1, <3>3, <3>4, HalfReadStep
    <3> HIDE DEF values
    <3>6. Half(k, m + 1)'
      BY <3>2, <3>5 DEF Half
    <3> QED BY <3>2, <3>6 DEF BuildInv
  <2>5. CASE BuildRaises
    BY <2>5 DEF BuildRaises, BuildInv
  <2>6. CASE FinishBuild
    <3>1. building /\ todo = << >> /\ index' = Entries /\ config' = config /\ ~building'
      BY <2>6 DEF FinishBuild
    <3>2. PICK k, m : Half(k, m)
      BY <3>1 DEF BuildInv
    <3>3. Whole(Entries, config.tau)
      BY <3>1, <3>2, WholeRead
    <3> QED BY <3>1, <3>3 DEF BuildInv
  <2>7. ASSUME NEW cells \in Columns, Infer(cells) \/ CheckDrift(cells) PROVE BuildInv'
    BY <2>1, <2>7 DEF Infer, CheckDrift
  <2>8. CASE InferWithoutIndex \/ Judge \/ NextCall
    BY <2>1, <2>8 DEF InferWithoutIndex, Judge, NextCall
  <2> QED
    BY <2>2, <2>3, <2>4, <2>5, <2>6, <2>7, <2>8 DEF Next
<1> QED BY <1>1, <1>2, DetectInvariant, JudgeInvariant, PTL DEF Spec

(* The index is the index of a whole corpus without bad entries, and a     *)
(* build that raises leaves nothing behind; for the patterns with fixed    *)
(* lengths, what is added up column by column from counts of enumerated    *)
(* patterns is Eqn 4 read off by matching.                                 *)
THEOREM IndexIsTheCorpus == Spec => []IndexMeansCorpus
<1>1. DetectInv /\ BuildInv => IndexMeansCorpus
  <2> SUFFICES ASSUME DetectInv, BuildInv, index # NoIndex
               PROVE  \E k \in Corpora :
                        /\ BadEntry \notin Range(k)
                        /\ DOMAIN index = Enumerated(k)
                        /\ \A p \in DOMAIN index :
                             FixedLengths(p) \/ ~HasPlus(k) => index[p] = Meaning(k, p)
    BY DEF IndexMeansCorpus
  <2>1. PICK k \in Corpora : BadEntry \notin Range(k) /\ index = MeaningFor(k, config.tau)
    BY DEF BuildInv, Whole
  <2>2. config.tau \in Nat
    BY ConfigsAssumption DEF DetectInv
  <2>3. DOMAIN index = PatternsUpTo(k, Len(k), config.tau)
    BY <2>1 DEF MeaningFor
  <2>4. DOMAIN index = Enumerated(k)
    BY <2>1, <2>2, <2>3, EnumeratedIs
  <2>5. \A p \in DOMAIN index : FixedLengths(p) \/ ~HasPlus(k) => index[p] = Meaning(k, p)
    BY <2>1, <2>2, <2>3, MeaningIs
  <2> QED BY <2>1, <2>4, <2>5
<1> QED BY <1>1, DetectInvariant, BuildInvariant, PTL

=============================================================================
