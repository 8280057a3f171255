------------------------------- MODULE Metrics -------------------------------
(***************************************************************************)
(* The metric functions of Uni-Detect (uni_detect/metrics/): how unique a  *)
(* column is, how well a column pair obeys a functional dependency, how    *)
(* far its most outlying number lies, how close its closest two words are; *)
(* and what each of them singles out for removal.                          *)
(*                                                                         *)
(* Ratios are integers, in multiples of 1 / Scale, rounded down.  A text   *)
(* is a sequence of characters, a character an integer, its upper-case     *)
(* form the negative of it.                                                *)
(***************************************************************************)
EXTENDS Integers, SequencesExt

CONSTANTS
  Scale,          \* the denominator of ratios and scores
  InverseFloor,   \* 1 / _MIN_MAD_FLOOR
  Levenshtein(_, _)   \* rapidfuzz's edit distance of two texts

ASSUME ScaleAssumption == Scale \in Nat \ {0} /\ InverseFloor \in Nat \ {0}

Occurrences(s, v) == {i \in DOMAIN s : s[i] = v}

\* Lexicographic order of sequences of integers; a prefix comes first.
Before(a, b) ==
  \E k \in DOMAIN b : /\ k \in DOMAIN a => a[k] < b[k]
                      /\ \A l \in 1..(k - 1) : l \in DOMAIN a /\ a[l] = b[l]

\* The first n elements of S in the order of their keys.
FirstFew(S, n, key) == {x \in S : Cardinality({y \in S : Before(key[y], key[x])}) < n}

\* The k-th element of S in an order, a set of pairs: fewer than k come before it, at least k
\* do not come after it.
KthIn(S, order, k) ==
  CHOOSE x \in S : /\ Cardinality({y \in S : <<y, x>> \in order}) < k
                   /\ Cardinality({y \in S : <<x, y>> \notin order}) >= k

Ascending(S) == {p \in S \X S : p[1] < p[2]}

\* s without the given positions.
Without(s, positions) ==
  LET kept == DOMAIN s \ positions
  IN [k \in 1..Cardinality(kept) |-> s[KthIn(kept, Ascending(kept), k)]]

-----------------------------------------------------------------------------
\* Uniqueness.
UniquenessRatio(values) == (Scale * Cardinality(ToSet(values))) \div Len(values)

\* All but the first occurrence of a value, smallest groups first, within the budget.
DuplicatesToDrop(values, budget) ==
  LET group == [i \in DOMAIN values |-> Occurrences(values, values[i])]
      later == {i \in DOMAIN values : i # Min(group[i])}
  IN FirstFew(later, budget,
              [i \in later |-> <<Cardinality(group[i]), Min(group[i]), i>>])

-----------------------------------------------------------------------------
\* Functional dependencies.  A row is a pair <<lhs, rhs>>.
GroupOf(rows, i) == {j \in DOMAIN rows : rows[j][1] = rows[i][1]}

ComplianceRatio(rows) ==
  LET conforming == {i \in DOMAIN rows : GroupOf(rows, i) = Occurrences(rows, rows[i])}
  IN (Scale * Cardinality(conforming)) \div Len(rows)

\* The rows outside their group's majority, smallest violating groups and then largest
\* minorities first, within the budget.
MinorityRows(rows, budget) ==
  LET group == [i \in DOMAIN rows |-> GroupOf(rows, i)]
      class == [i \in DOMAIN rows |-> Occurrences(rows, rows[i])]
      rank == [i \in DOMAIN rows |-> <<0 - Cardinality(class[i]), Min(class[i])>>]
      minority == {i \in DOMAIN rows : \E j \in group[i] : Before(rank[j], rank[i])}
  IN FirstFew(minority, budget,
              [i \in minority |-> <<Cardinality(group[i]), Min(group[i])>> \o rank[i] \o <<i>>])

-----------------------------------------------------------------------------
\* Numeric outliers.
KthSmallest(s, k) ==
  s[KthIn(DOMAIN s, {p \in (DOMAIN s) \X (DOMAIN s) : s[p[1]] < s[p[2]]}, k)]

\* Twice the median.
Median2(s) == KthSmallest(s, (Len(s) + 1) \div 2) + KthSmallest(s, Len(s) \div 2 + 1)

\* Twice the distances from the median.
Deviations2(s) ==
  LET median2 == Median2(s)
  IN [i \in DOMAIN s |-> IF 2 * s[i] < median2 THEN median2 - 2 * s[i] ELSE 2 * s[i] - median2]

\* The index (the first, if several) and the score of the number farthest from the median.
MaxMad(s) ==
  LET deviations2 == Deviations2(s)
      mad4 == Median2(deviations2)
      top == CHOOSE i \in DOMAIN s : \A j \in DOMAIN s :
               deviations2[j] < deviations2[i] \/ (deviations2[j] = deviations2[i] /\ i <= j)
  IN [index |-> top,
      score |-> IF mad4 = 0 THEN (Scale * deviations2[top] * InverseFloor) \div 2
                            ELSE (2 * Scale * deviations2[top]) \div mad4]

-----------------------------------------------------------------------------
\* Spelling.
Lower(c) == IF c < 0 THEN 0 - c ELSE c

\* Mutant: without the shifted length bucket.
X_BlockingKeys(text) ==
  LET n == Len(text)
      lowered == [k \in 1..n |-> Lower(text[k])]
      ends == {<<"p", SubSeq(lowered, 1, Min({2, n}))>>, <<"s", SubSeq(lowered, Max({1, n - 1}), n)>>}
  IN (ends \X {n \div 3}) \cup {<<<<"short", << >>>>, 0>> : k \in {n} \cap 0..3}

\* The keys a text is compared under: its two ends by its length, and one for short texts.
BlockingKeys(text) ==
  LET n == Len(text)
      lowered == [k \in 1..n |-> Lower(text[k])]
      ends == {<<"p", SubSeq(lowered, 1, Min({2, n}))>>, <<"s", SubSeq(lowered, Max({1, n - 1}), n)>>}
  IN (ends \X {n \div 3, (n + 1) \div 3}) \cup {<<<<"short", << >>>>, 0>> : k \in {n} \cap 0..3}

\* A block that is too large keeps every stride-th of its members.
Thinned(block, maxSize) ==
  LET stride == IF Cardinality(block) > maxSize THEN Cardinality(block) \div maxSize + 1 ELSE 1
  IN {i \in block : Cardinality({j \in block : j < i}) % stride = 0}

Distinct(s) == Without(s, {i \in DOMAIN s : \E j \in 1..(i - 1) : s[j] = s[i]})

\* Which of the distinct texts are compared with each other.
Blocks(distinct, maxSize) ==
  IF Len(distinct) <= maxSize THEN {DOMAIN distinct}
  ELSE LET keys == [i \in DOMAIN distinct |-> BlockingKeys(distinct[i])]
       IN {Thinned({i \in DOMAIN distinct : key \in keys[i]}, maxSize) : key \in UNION Range(keys)}

\* The first of the closest pairs of a block.
ClosestPair(distinct, block) ==
  LET Distance(p) == Levenshtein(distinct[p[1]], distinct[p[2]])
      closest == CHOOSE p \in Ascending(block) : \A q \in Ascending(block) \ {p} :
                   Distance(p) < Distance(q) \/ (Distance(p) = Distance(q) /\ Before(p, q))
  IN [pair |-> <<distinct[closest[1]], distinct[closest[2]]>>, mpd |-> Distance(closest)]

\* The closest pair of different texts, {} if no two are compared.  Which one comes first, of
\* equally close ones in several blocks, depends on the order of a set of keys: a fixed one.
MinPairwise(texts, maxSize) ==
  LET distinct == Distinct(texts)
      found == {ClosestPair(distinct, b) : b \in {b \in Blocks(distinct, maxSize) : Ascending(b) # {}}}
  IN {r \in found : r = CHOOSE q \in found : \A other \in found : q.mpd <= other.mpd}

=============================================================================
