----------------------------- MODULE RahaFeatures -----------------------------
(***************************************************************************)
(* Raha's error detection strategies and the feature vectors they make     *)
(* (strategies.py, features.py).                                           *)
(*                                                                         *)
(* A column is a function from positions to values.  A value is abstracted *)
(* to what the strategies look at: which cells hold the same value, the    *)
(* characters it contains and the number it parses to.  A null cell is the *)
(* value NULL_SENTINEL, a value like any other.  A strategy is named       *)
(* <<family, parameter>> and identified with the positions it flags;       *)
(* comparisons with real thresholds are multiplied out to integers.        *)
(***************************************************************************)
EXTENDS Integers, FiniteSets, FiniteSetsExt

CONSTANTS
  Rows,            \* positions 0 .. n - 1 of the table
  Columns,         \* its column names
  Values,          \* what a cell can hold, nulls included
  CharsOf,         \* CharsOf[v]: code points of the characters of str(v)
  NumberOf,        \* NumberOf[v]: the number v parses to, or NotNumeric
  NotNumeric,
  TfThresholds,    \* config.tf_thresholds, as <<numerator, denominator>>
  DistThresholds,  \* config.dist_thresholds squared, likewise
  MaxPatternCharacters

ASSUME TableAssumption ==
  /\ IsFiniteSet(Rows) /\ Rows # {}
  /\ IsFiniteSet(Columns) /\ Columns # {}

N == Cardinality(Rows)
Holders(column, v) == {r \in Rows : column[r] = v}

\* freq < t: the value's share of the rows is below the threshold.
HistogramOutlier(column, t) ==
  {r \in Rows : Cardinality(Holders(column, column[r])) * t[2] < t[1] * N}

\* At least half of the rows parse; the ones that do give mean and deviation.
Numeric(column) == {r \in Rows : NumberOf[column[r]] # NotNumeric}
MostlyNumeric(column) == 2 * Cardinality(Numeric(column)) >= N /\ Cardinality(Numeric(column)) >= 2

(* z > t with z = |x - mean| / std: over m numbers with sum S and sum of   *)
(* squares Q, (m x - S)^2 > t^2 (m Q - S^2).  Equal numbers have no        *)
(* deviation and flag nothing.                                             *)
GaussianOutlier(column, t2) ==
  LET x(r) == NumberOf[column[r]]
      m == Cardinality(Numeric(column))
      S == MapThenSumSet(x, Numeric(column))
      Q == MapThenSumSet(LAMBDA r : x(r) * x(r), Numeric(column))
      spread == m * Q - S * S
  IN {r \in Numeric(column) :
        spread > 0 /\ (m * x(r) - S) * (m * x(r) - S) * t2[2] > t2[1] * spread}

PatternContains(column, ch) == {r \in Rows : ch \in CharsOf[column[r]]}

\* The characters found in most rows; equally frequent ones by code point.
TopCharacters(column) ==
  LET present == UNION {CharsOf[column[r]] : r \in Rows}
      count(ch) == Cardinality(PatternContains(column, ch))
      before(c1, c2) == count(c1) > count(c2) \/ (count(c1) = count(c2) /\ c1 < c2)
  IN {ch \in present :
        Cardinality({other \in present : before(other, ch)}) < MaxPatternCharacters}

\* The rows whose group under lhs holds more than one value of rhs.
FdViolation(lhs, rhs) ==
  {r \in Rows : Cardinality({rhs[s] : s \in Holders(lhs, lhs[r])}) > 1}

\* Every strategy that applies to a column of the table.
Strategies(table, col) ==
  ({"tf"} \X TfThresholds)
  \cup (IF MostlyNumeric(table[col]) THEN {"dist"} \X DistThresholds ELSE {})
  \cup ({"char"} \X TopCharacters(table[col]))
  \cup ({"fd"} \X (Columns \ {col}))

Flags(table, col, strategy) ==
  CASE strategy[1] = "tf"   -> HistogramOutlier(table[col], strategy[2])
    [] strategy[1] = "dist" -> GaussianOutlier(table[col], strategy[2])
    [] strategy[1] = "char" -> PatternContains(table[col], strategy[2])
    [] strategy[1] = "fd"   -> FdViolation(table[strategy[2]], table[col])

(* ColumnFeatures: the strategies that tell at least two rows apart, and   *)
(* the ones that fired on each row.                                        *)
BuildColumnFeatures(table, col) ==
  LET names == {s \in Strategies(table, col) : Flags(table, col, s) \notin {{}, Rows}}
  IN [names |-> names,
      matrix |-> [r \in Rows |-> {s \in names : r \in Flags(table, col, s)}]]

BuildAllFeatures(table) == [col \in Columns |-> BuildColumnFeatures(table, col)]

=============================================================================
