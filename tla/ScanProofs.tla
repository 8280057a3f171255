------------------------------- MODULE ScanProofs -------------------------------
(***************************************************************************)
(* Theorems about Scan, for every catalog, every configuration that        *)
(* UniDetectConfig accepts, every digest and every edit distance that      *)
(* ValidInput describes.                                                   *)
(***************************************************************************)
EXTENDS Scan, MetricsProofs

-----------------------------------------------------------------------------
\* The input is one that UniDetectConfig accepts.
LEMMA InputValid ==
  ASSUME input \in Inputs
  PROVE  /\ et \in ErrorTypes /\ ValidConfig(cfg) /\ ValidInput(input)
         /\ MaxValues \in Nat
  <1>1. et \in ErrorTypes /\ ValidConfig(cfg) /\ ValidInput(input)
    BY InputsAssumption DEF ValidInput, et, cfg
  <1>2. cfg.blockSize \in Nat /\ SampleFactor \in Nat
    BY <1>1, InputsAssumption DEF ValidConfig
  <1>3. MaxValues \in Nat
    BY <1>2, SMT DEF MaxValues
  <1> QED
    BY <1>1, <1>3

\* A verdict is what batch_score computes from the final corpus and candidates.
VerdictInv ==
  /\ phase # "done" => verdicts = << >>
  /\ \/ verdicts = << >>
     \/ corpus # NoCorpus /\ verdicts = [k \in Frame |-> Verdict(corpus, et, attempts[k], cfg)]

LEMMA VerdictsComputed == Spec => []VerdictInv
  <1>1. Init => VerdictInv
    BY DEF Init, VerdictInv
  <1>2. VerdictInv /\ [Next]_vars => VerdictInv'
    <2> SUFFICES ASSUME VerdictInv, [Next]_vars PROVE VerdictInv'
      OBVIOUS
    <2>1. CASE UNCHANGED vars
      BY <2>1 DEF vars, VerdictInv, Frame, et, cfg
    <2>2. CASE BatchScore
      BY <2>2 DEF BatchScore, VerdictInv, Frame, et, cfg
    <2>3. CASE Next /\ ~ BatchScore
      <3>1. phase # "done" /\ verdicts' = verdicts
        BY <2>3 DEF Next, ListCorpus, IngestColumns, IngestPairs, CountFrame, CheckFrame, Publish,
                    WriteFrame, WriteAgain, GiveUp, ExtractCandidates, CountCandidates,
                    CheckCandidates, CorpusNotFound
      <3>2. verdicts' = << >>
        BY <3>1 DEF VerdictInv
      <3> QED
        BY <3>2 DEF VerdictInv
    <2> QED
      BY <2>1, <2>2, <2>3
  <1> QED
    BY <1>1, <1>2, PTL DEF Spec

\* The input is never changed.
LEMMA InputChosen == Spec => [](input \in Inputs)
  <1>1. Init => input \in Inputs
    BY DEF Init
  <1>2. input \in Inputs /\ [Next]_vars => (input \in Inputs)'
    BY DEF Next, vars, ListCorpus, IngestColumns, IngestPairs, CountFrame, CheckFrame, Publish,
           WriteFrame, WriteAgain, GiveUp, ExtractCandidates, CountCandidates, CheckCandidates,
           BatchScore, CorpusNotFound
  <1> QED
    BY <1>1, <1>2, PTL DEF Spec

-----------------------------------------------------------------------------
\* What the ingestor samples.

\* Cells that are missing or have a text.
Readable(cells) == cells \in Seq(ToSet(cells)) /\ \A i \in NonNull(cells) : cells[i].text \in Seq(Int)

Present(cells) == ToSet(cells) \ {Missing}

LEMMA NonNullType ==
  ASSUME NEW cells, Readable(cells)
  PROVE  /\ NonNull(cells) \subseteq DOMAIN cells /\ \A i \in NonNull(cells) : cells[i] \in Present(cells)
         /\ IsFiniteSet(NonNull(cells))
         /\ Cardinality(NonNull(cells)) \in Nat /\ Cardinality(NonNull(cells)) <= Len(cells)
         /\ Len(cells) \in Nat
  <1>1. IsFiniteSet(DOMAIN cells) /\ Cardinality(DOMAIN cells) = Len(cells) /\ Len(cells) \in Nat
    BY SequenceDomain DEF Readable
  <1>2. NonNull(cells) \in SUBSET DOMAIN cells
    BY DEF NonNull
  <1>3. \A i \in NonNull(cells) : cells[i] \in Present(cells)
    BY DEF NonNull, Present, ToSet
  <1> QED
    BY <1>1, <1>2, <1>3, FS_Subset, FS_CardinalityType

\* A sampled column is made of the cells that are present, no more than the limit allows.
LEMMA SampledColumnType ==
  ASSUME NEW cells, Readable(cells), NEW limit \in Nat
  PROVE  /\ SampledColumn(cells, limit) \in Seq(Present(cells))
         /\ Len(SampledColumn(cells, limit)) <= Len(cells) /\ Len(SampledColumn(cells, limit)) <= limit
  <1> DEFINE rows == NonNull(cells)
             order == {r \in rows \X rows : Before(cells[r[1]].text, cells[r[2]].text)}
             n == Min({Cardinality(rows), Max({0, limit - (Len(cells) - Cardinality(rows))})})
  <1>1. SampledColumn(cells, limit) = [k \in 1..n |-> cells[KthIn(rows, order, k)]]
    BY DEF SampledColumn
  <1>2. IsStrictOrder(rows, order)
    <2>1. \A x, y \in rows : <<x, y>> \in order <=> Before(cells[x].text, cells[y].text)
      OBVIOUS
    <2>2. \A x \in rows : cells[x].text \in Seq(Int)
      BY DEF Readable
    <2> HIDE DEF rows, order
    <2> QED
      BY <2>1, <2>2, BeforeStrict DEF IsStrictOrder
  <1> HIDE DEF order
  <1>3. n \in Nat /\ n <= Cardinality(rows) /\ n <= Len(cells) /\ n <= limit
    <2>1. Cardinality(rows) \in Nat /\ Len(cells) \in Nat /\ Cardinality(rows) <= Len(cells)
      BY NonNullType
    <2> DEFINE room == limit - (Len(cells) - Cardinality(rows))
    <2>2. room \in Int /\ room <= limit
      BY <2>1
    <2> HIDE DEF room
    <2>3. /\ Max({0, room}) \in {0, room} /\ Max({0, room}) >= 0
      BY <2>2, MinMaxOfTwo
    <2>4. Max({0, room}) \in Nat /\ Max({0, room}) <= limit
      BY <2>2, <2>3
    <2>5. Min({Cardinality(rows), Max({0, room})}) \in Nat /\ Min({Cardinality(rows), Max({0, room})}) <= Cardinality(rows)
          /\ Min({Cardinality(rows), Max({0, room})}) <= Max({0, room})
      BY <2>1, <2>4, MinOfNaturals
    <2> QED
      BY <2>1, <2>4, <2>5 DEF room
  <1> HIDE DEF n, rows
  <1>4. IsFiniteSet(rows) /\ Cardinality(rows) \in Nat /\ \A i \in rows : cells[i] \in Present(cells)
    BY NonNullType DEF rows
  <1>5. \A k \in 1..n : KthIn(rows, order, k) \in rows
    <2>1. \A k \in 1..n : k \in 1..Cardinality(rows)
      BY <1>3, <1>4
    <2> QED
      BY <1>2, <1>4, <2>1, KthMember
  <1>6. \A k \in 1..n : cells[KthIn(rows, order, k)] \in Present(cells)
    BY <1>4, <1>5
  <1> QED
    BY <1>1, <1>3, <1>6

\* So is a sampled pair of columns.
LEMMA SampledPairType ==
  ASSUME NEW lhs, NEW rhs, Readable(lhs), Readable(rhs), NEW limit \in Nat
  PROVE  /\ SampledPair(lhs, rhs, limit) \in Seq(Present(lhs) \X Present(rhs))
         /\ Len(SampledPair(lhs, rhs, limit)) <= Len(lhs) /\ Len(SampledPair(lhs, rhs, limit)) <= limit
  <1> DEFINE rows == NonNull(lhs) \cap NonNull(rhs)
             order == {r \in rows \X rows :
                         \/ Before(lhs[r[1]].text, lhs[r[2]].text)
                         \/ lhs[r[1]] = lhs[r[2]] /\ Before(rhs[r[1]].text, rhs[r[2]].text)}
             n == Min({Cardinality(rows), limit})
             row == [k \in 1..n |-> KthIn(rows, order, k)]
  <1>1. SampledPair(lhs, rhs, limit) = [k \in 1..n |-> <<lhs[row[k]], rhs[row[k]]>>]
    BY DEF SampledPair
  <1>2. IsStrictOrder(rows, order)
    <2>1. \A x, y \in rows : <<x, y>> \in order <=> \/ Before(lhs[x].text, lhs[y].text)
                                                    \/ lhs[x] = lhs[y] /\ Before(rhs[x].text, rhs[y].text)
      OBVIOUS
    <2>2. \A x \in rows : lhs[x].text \in Seq(Int) /\ rhs[x].text \in Seq(Int)
      BY DEF Readable
    <2> HIDE DEF rows, order
    <2>3. \A x \in rows : <<x, x>> \notin order
      BY <2>1, <2>2, BeforeStrict
    <2>4. ASSUME NEW x \in rows, NEW y \in rows, NEW z \in rows, <<x, y>> \in order, <<y, z>> \in order
          PROVE  <<x, z>> \in order
      BY <2>1, <2>2, <2>4, BeforeStrict
    <2> QED
      BY <2>3, <2>4 DEF IsStrictOrder
  <1> HIDE DEF order
  <1>3. /\ IsFiniteSet(rows) /\ Cardinality(rows) \in Nat /\ Cardinality(rows) <= Len(lhs)
        /\ \A i \in rows : lhs[i] \in Present(lhs) /\ rhs[i] \in Present(rhs)
    <2>1. rows \in SUBSET NonNull(lhs)
      OBVIOUS
    <2>2. /\ IsFiniteSet(rows) /\ Cardinality(rows) <= Cardinality(NonNull(lhs))
      BY <2>1, NonNullType, FS_Subset
    <2>3. \A i \in rows : lhs[i] \in Present(lhs) /\ rhs[i] \in Present(rhs)
      BY NonNullType
    <2>4. Cardinality(rows) \in Nat /\ Cardinality(NonNull(lhs)) \in Nat /\ Cardinality(NonNull(lhs)) <= Len(lhs)
          /\ Len(lhs) \in Nat
      BY <2>2, NonNullType, FS_CardinalityType
    <2> HIDE DEF rows
    <2> QED
      BY <2>2, <2>3, <2>4
  <1>4. n \in Nat /\ n <= Cardinality(rows) /\ n <= limit
    BY <1>3, MinOfNaturals
  <1> HIDE DEF n, rows
  <1>5. \A k \in 1..n : row[k] \in rows
    <2>1. \A k \in 1..n : k \in 1..Cardinality(rows)
      BY <1>3, <1>4
    <2> QED
      BY <1>2, <1>3, <2>1, KthMember
  <1> HIDE DEF row
  <1>6. \A k \in 1..n : <<lhs[row[k]], rhs[row[k]]>> \in Present(lhs) \X Present(rhs)
    BY <1>3, <1>5
  <1>7. n <= Len(lhs)
    <2>1. Len(lhs) \in Nat
      BY NonNullType
    <2> QED
      BY <1>3, <1>4, <2>1
  <1> QED
    BY <1>1, <1>4, <1>6, <1>7

\* What the proofs say of an item: its values, and how many they are.
HasValues(i) ==
  /\ IF et = "functional_dependency" THEN i.values \in Seq(ValuesIn(input) \X ValuesIn(input))
                                     ELSE i.values \in Seq(ValuesIn(input))

IsBounded(i) == i.rows \in Nat /\ Len(i.values) <= i.rows /\ Len(i.values) <= MaxValues

\* The columns of a valid table.
LEMMA TableColumns ==
  ASSUME input \in Inputs, NEW t \in DOMAIN input.tables, NEW c \in DOMAIN input.tables[t]
  PROVE  /\ Readable(input.tables[t][c]) /\ Present(input.tables[t][c]) \subseteq ValuesIn(input)
         /\ Len(input.tables[t][c]) = RowCount(input.tables[t]) /\ RowCount(input.tables[t]) \in Nat
  <1> DEFINE cells == input.tables[t][c]
  <1>1. IsTable(input.tables[t]) /\ \A v \in ValuesIn(input) : IsValue(v)
    BY InputValid DEF ValidInput
  <1>2. cells \in Seq(ToSet(cells)) /\ Len(cells) = RowCount(input.tables[t])
    BY <1>1 DEF IsTable, IsSeq, RowCount
  <1>3. cells \in ToSet(input.tables[t])
    BY DEF ToSet
  <1>4. Present(cells) \subseteq ValuesIn(input)
    BY <1>3 DEF Present, ValuesIn, CellsIn
  <1>5. \A i \in NonNull(cells) : cells[i] \in Present(cells)
    BY DEF NonNull, Present, ToSet
  <1>6. Readable(cells)
    BY <1>1, <1>2, <1>4, <1>5 DEF Readable, IsValue
  <1>7. Len(cells) \in Nat
    BY <1>2
  <1> QED
    BY <1>2, <1>4, <1>6, <1>7

LEMMA ColumnItemsType ==
  ASSUME input \in Inputs, NEW t \in DOMAIN input.tables
  PROVE  /\ IsFiniteSet(ColumnItems(t))
         /\ \A i \in ColumnItems(t) : i.values \in Seq(ValuesIn(input)) /\ IsBounded(i)
  <1> DEFINE table == input.tables[t]
             S == {k \in DOMAIN table : RowCount(table) > 0}
             item == [c \in S |-> [id |-> <<t, c>>, index |-> c - 1, rows |-> RowCount(table),
                                   values |-> SampledColumn(table[c], MaxValues)]]
  <1>1. ColumnItems(t) = {item[c] : c \in S}
    BY DEF ColumnItems
  <1>2. IsFiniteSet(DOMAIN table)
    BY InputValid, SequenceDomain DEF ValidInput, IsTable, IsSeq
  <1>3. IsFiniteSet(S)
    BY <1>2, FS_Subset
  <1> HIDE DEF item
  <1>4. IsFiniteSet({item[c] : c \in S})
    BY <1>3, ImageFinite DEF item
  <1>5. ASSUME NEW c \in S PROVE item[c].values \in Seq(ValuesIn(input)) /\ IsBounded(item[c])
    <2>1. /\ Readable(table[c]) /\ Present(table[c]) \subseteq ValuesIn(input)
          /\ Len(table[c]) = RowCount(table) /\ RowCount(table) \in Nat
      BY TableColumns
    <2>2. MaxValues \in Nat
      BY InputValid
    <2>3. /\ SampledColumn(table[c], MaxValues) \in Seq(Present(table[c]))
          /\ Len(SampledColumn(table[c], MaxValues)) <= Len(table[c])
          /\ Len(SampledColumn(table[c], MaxValues)) <= MaxValues
      BY <2>1, <2>2, SampledColumnType
    <2>4. SampledColumn(table[c], MaxValues) \in Seq(ValuesIn(input))
      BY <2>1, <2>3
    <2>5. /\ item[c].values = SampledColumn(table[c], MaxValues) /\ item[c].rows = RowCount(table)
      BY DEF item
    <2> QED
      BY <2>1, <2>3, <2>4, <2>5 DEF IsBounded
  <1> QED
    BY <1>1, <1>4, <1>5

LEMMA PairItemsType ==
  ASSUME input \in Inputs, NEW t \in DOMAIN input.tables
  PROVE  /\ IsFiniteSet(PairItems(t))
         /\ \A i \in PairItems(t) : i.values \in Seq(ValuesIn(input) \X ValuesIn(input)) /\ IsBounded(i)
  <1> DEFINE table == input.tables[t]
             S == {q \in SelectedPairs(t) : RowCount(table) > 0}
             item == [p \in S |-> [id |-> <<t, p[1], p[2]>>, index |-> p[2] - 1, rows |-> RowCount(table),
                                   values |-> SampledPair(table[p[1]], table[p[2]], MaxValues)]]
  <1>1. PairItems(t) = {item[p] : p \in S}
    BY DEF PairItems
  <1>2. IsFiniteSet(DOMAIN table)
    BY InputValid, SequenceDomain DEF ValidInput, IsTable, IsSeq
  <1>3. S \in SUBSET ((DOMAIN table) \X (DOMAIN table))
    BY DEF SelectedPairs, FirstFew
  <1>4. IsFiniteSet(S)
    BY <1>2, <1>3, FS_Product, FS_Subset
  <1> HIDE DEF item, S
  <1>5. IsFiniteSet({item[p] : p \in S})
    BY <1>4, ImageFinite DEF item
  <1>6. ASSUME NEW p \in S PROVE item[p].values \in Seq(ValuesIn(input) \X ValuesIn(input)) /\ IsBounded(item[p])
    <2>0. p[1] \in DOMAIN table /\ p[2] \in DOMAIN table
      BY <1>3
    <2>1. /\ Readable(table[p[1]]) /\ Present(table[p[1]]) \subseteq ValuesIn(input)
          /\ Readable(table[p[2]]) /\ Present(table[p[2]]) \subseteq ValuesIn(input)
          /\ Len(table[p[1]]) = RowCount(table) /\ RowCount(table) \in Nat
      BY <2>0, TableColumns
    <2>2. MaxValues \in Nat
      BY InputValid
    <2> DEFINE values == SampledPair(table[p[1]], table[p[2]], MaxValues)
    <2>3. /\ values \in Seq(Present(table[p[1]]) \X Present(table[p[2]]))
          /\ Len(values) <= Len(table[p[1]])
          /\ Len(values) <= MaxValues
      BY <2>1, <2>2, SampledPairType
    <2>4. item[p].values = values /\ item[p].rows = RowCount(table)
      BY DEF item
    <2> HIDE DEF values
    <2>5. values \in Seq(ValuesIn(input) \X ValuesIn(input))
      <3>1. Present(table[p[1]]) \X Present(table[p[2]]) \subseteq ValuesIn(input) \X ValuesIn(input)
        BY <2>1
      <3> QED
        BY <2>3, <3>1
    <2> QED
      BY <2>1, <2>3, <2>4, <2>5 DEF IsBounded
  <1> QED
    BY <1>1, <1>5, <1>6

\* What is ingested from finitely many tables.
LEMMA IngestedType ==
  ASSUME input \in Inputs, NEW tables \in SUBSET DOMAIN input.tables, IsFiniteSet(tables), NEW unreadable
  PROVE  /\ IsFiniteSet(IngestedColumns(tables, unreadable))
         /\ \A i \in IngestedColumns(tables, unreadable) : i.values \in Seq(ValuesIn(input)) /\ IsBounded(i)
         /\ IsFiniteSet(IngestedPairs(tables, unreadable))
         /\ \A i \in IngestedPairs(tables, unreadable) :
              i.values \in Seq(ValuesIn(input) \X ValuesIn(input)) /\ IsBounded(i)
  <1> DEFINE T == tables \ unreadable
             columns == [t \in T |-> ColumnItems(t)]
             pairs == [t \in T |-> PairItems(t)]
  <1>1. IsFiniteSet(T) /\ T \subseteq DOMAIN input.tables
    BY FS_Subset
  <1>2. /\ IngestedColumns(tables, unreadable) = UNION {columns[t] : t \in T}
        /\ IngestedPairs(tables, unreadable) = UNION {pairs[t] : t \in T}
    BY DEF IngestedColumns, IngestedPairs
  <1>3. /\ \A t \in T : columns[t] = ColumnItems(t) /\ pairs[t] = PairItems(t)
        /\ DOMAIN columns = T /\ DOMAIN pairs = T
    OBVIOUS
  <1> HIDE DEF T, columns, pairs
  <1>4. IsFiniteSet({columns[t] : t \in T}) /\ IsFiniteSet({pairs[t] : t \in T})
    BY <1>1, <1>3, ImageFinite
  <1>5. \A t \in T : IsFiniteSet(columns[t]) /\ IsFiniteSet(pairs[t])
    BY <1>1, <1>3, ColumnItemsType, PairItemsType
  <1>6. IsFiniteSet(UNION {columns[t] : t \in T}) /\ IsFiniteSet(UNION {pairs[t] : t \in T})
    BY <1>4, <1>5, FS_UNION
  <1> QED
    BY <1>1, <1>2, <1>3, <1>6, ColumnItemsType, PairItemsType

-----------------------------------------------------------------------------
\* The likelihood ratio.  A corpus of finitely many integer observations.
Numeric(observations) ==
  /\ IsFiniteSet(DOMAIN observations)
  /\ \A k \in DOMAIN observations : observations[k].before \in Int /\ observations[k].after \in Int

\* Both counts are of finitely many observations of the bucket.
LEMMA CountsAreCounts ==
  ASSUME NEW observations, Numeric(observations), NEW type, NEW c, NEW config
  PROVE  LET v == Verdict(observations, type, c, config)
         IN /\ IsFiniteSet(Numerator(observations, type, c)) /\ IsFiniteSet(Denominator(observations, type, c))
            /\ v.numerator \in Nat /\ v.denominator \in Nat /\ v.support \in Nat
            /\ v.numerator <= v.support /\ v.denominator <= v.support
            /\ v.numerator = Cardinality(Numerator(observations, type, c))
            /\ v.denominator = Cardinality(Denominator(observations, type, c))
            /\ v.significant = Significant(v.numerator, v.denominator, config)
  <1> DEFINE B == Bucket(observations, c.bucket)
             N == Numerator(observations, type, c)
             D == Denominator(observations, type, c)
  <1>1. IsFiniteSet(B)
    BY FS_Subset DEF Bucket, Numeric
  <1>2. N \in SUBSET B /\ D \in SUBSET B
    BY DEF Numerator, Denominator
  <1>3. /\ IsFiniteSet(N) /\ IsFiniteSet(D)
        /\ Cardinality(N) <= Cardinality(B) /\ Cardinality(D) <= Cardinality(B)
    BY <1>1, <1>2, FS_Subset
  <1>4. Cardinality(B) \in Nat /\ Cardinality(N) \in Nat /\ Cardinality(D) \in Nat
    BY <1>1, <1>3, FS_CardinalityType
  <1> HIDE DEF B, N, D
  <1>5. Verdict(observations, type, c, config) =
          [numerator |-> Cardinality(N), denominator |-> Cardinality(D), support |-> Cardinality(B),
           significant |-> Significant(Cardinality(N), Cardinality(D), config)]
    BY DEF Verdict, B, N, D
  <1> QED
    BY <1>3, <1>4, <1>5 DEF N, D

\* A candidate that starts lower and ends higher in the same bucket has fewer observations in
\* its numerator and more in its denominator.
LEMMA CountsMonotone ==
  ASSUME NEW observations, Numeric(observations), NEW type, NEW config, NEW c, NEW d,
         c.bucket = d.bucket,
         c.before \in Int, c.after \in Int, d.before \in Int, d.after \in Int,
         AtMost(type, c.before, d.before), AtMost(type, d.after, c.after)
  PROVE  /\ Verdict(observations, type, c, config).numerator <= Verdict(observations, type, d, config).numerator
         /\ Verdict(observations, type, d, config).denominator <= Verdict(observations, type, c, config).denominator
  <1>1. Numerator(observations, type, c) \in SUBSET Numerator(observations, type, d)
    BY DEF Numerator, Bucket, AtMost, Numeric
  <1>2. Denominator(observations, type, d) \in SUBSET Denominator(observations, type, c)
    BY DEF Denominator, Bucket, AtMost, Numeric
  <1>3. /\ IsFiniteSet(Numerator(observations, type, d)) /\ IsFiniteSet(Denominator(observations, type, c))
        /\ Verdict(observations, type, c, config).numerator = Cardinality(Numerator(observations, type, c))
        /\ Verdict(observations, type, d, config).numerator = Cardinality(Numerator(observations, type, d))
        /\ Verdict(observations, type, c, config).denominator = Cardinality(Denominator(observations, type, c))
        /\ Verdict(observations, type, d, config).denominator = Cardinality(Denominator(observations, type, d))
    BY CountsAreCounts
  <1> QED
    BY <1>1, <1>2, <1>3, FS_Subset

-----------------------------------------------------------------------------
\* Types.

\* The token table counts tables.
LEMMA TokenStatsType ==
  ASSUME NEW V, \A v \in V : v.tokens \in Seq(Int),
         NEW columns, IsFiniteSet(columns), \A i \in columns : i.values \in Seq(V)
  PROVE  /\ IsFiniteSet(DOMAIN TokenStats(columns))
         /\ \A t \in DOMAIN TokenStats(columns) : t \in Int /\ TokenStats(columns)[t] \in Nat
  <1> DEFINE tokensIn == [item \in columns |-> UNION {ToSet(v.tokens) : v \in ToSet(item.values)}]
             tokens == UNION {tokensIn[item] : item \in columns}
             tables(t) == {item.id[1] : item \in {i \in columns : t \in tokensIn[i]}}
  <1>1. TokenStats(columns) = [t \in tokens |-> Cardinality(tables(t))]
    BY DEF TokenStats
  <1>2. ASSUME NEW item \in columns PROVE IsFiniteSet(tokensIn[item]) /\ tokensIn[item] \subseteq Int
    <2> DEFINE values == ToSet(item.values)
               of == [v \in values |-> ToSet(v.tokens)]
    <2>1. IsFiniteSet(values) /\ values \subseteq V
      BY SequenceDomain
    <2>2. \A v \in values : IsFiniteSet(of[v]) /\ of[v] \subseteq Int
      <3>1. \A v \in V : IsFiniteSet(ToSet(v.tokens)) /\ ToSet(v.tokens) \subseteq Int
        BY SequenceDomain
      <3> QED
        BY <2>1, <3>1
    <2>3. tokensIn[item] = UNION {of[v] : v \in values}
      OBVIOUS
    <2> HIDE DEF values
    <2>4. IsFiniteSet({of[v] : v \in values})
      BY <2>1, ImageFinite
    <2> HIDE DEF of, tokensIn
    <2>5. IsFiniteSet(UNION {of[v] : v \in values})
      BY <2>2, <2>4, FS_UNION
    <2> QED
      BY <2>2, <2>3, <2>5
  <1>3. IsFiniteSet(tokens) /\ tokens \subseteq Int
    <2>1. DOMAIN tokensIn = columns
      OBVIOUS
    <2> HIDE DEF tokensIn
    <2>2. IsFiniteSet({tokensIn[item] : item \in columns})
      BY <2>1, ImageFinite
    <2>3. IsFiniteSet(UNION {tokensIn[item] : item \in columns})
      BY <1>2, <2>2, FS_UNION
    <2> QED
      BY <1>2, <2>3
  <1>4. ASSUME NEW t \in tokens PROVE Cardinality(tables(t)) \in Nat
    <2> DEFINE S == {i \in columns : t \in tokensIn[i]}
               name == [item \in S |-> item.id[1]]
    <2>1. IsFiniteSet(S)
      BY FS_Subset
    <2>2. tables(t) = {name[item] : item \in S} /\ DOMAIN name = S
      OBVIOUS
    <2> HIDE DEF S, name
    <2>3. IsFiniteSet({name[item] : item \in S})
      BY <2>1, <2>2, ImageFinite
    <2> HIDE DEF tables
    <2> QED
      BY <2>2, <2>3, FS_CardinalityType
  <1> HIDE DEF tokens, tables
  <1> QED
    BY <1>1, <1>3, <1>4

\* Every task runs at least once and at most MaxRuns times.
LEMMA RunsBounded ==
  ASSUME NEW tasks, IsFiniteSet(tasks), NEW runs, \A k \in tasks : runs[k] \in 1..MaxRuns
  PROVE  /\ IsFiniteSet(RunsOf(tasks, runs))
         /\ Cardinality(tasks) \in Nat /\ Cardinality(RunsOf(tasks, runs)) \in Nat
         /\ Cardinality(tasks) <= Cardinality(RunsOf(tasks, runs))
         /\ Cardinality(RunsOf(tasks, runs)) <= Cardinality(tasks) * MaxRuns
  <1>1. MaxRuns \in Nat
    BY InputsAssumption
  <1>2. IsFiniteSet(1..MaxRuns) /\ Cardinality(1..MaxRuns) = MaxRuns
    BY <1>1, FS_Interval
  <1>3. /\ IsFiniteSet(tasks \X (1..MaxRuns))
        /\ Cardinality(tasks \X (1..MaxRuns)) = Cardinality(tasks) * MaxRuns
    BY <1>2, FS_Product
  <1>4. RunsOf(tasks, runs) \in SUBSET (tasks \X (1..MaxRuns))
    BY DEF RunsOf
  <1>5. /\ IsFiniteSet(RunsOf(tasks, runs))
        /\ Cardinality(RunsOf(tasks, runs)) <= Cardinality(tasks) * MaxRuns
    BY <1>3, <1>4, FS_Subset
  <1>6. Cardinality(tasks) \in Nat /\ Cardinality(RunsOf(tasks, runs)) \in Nat
    BY <1>5, FS_CardinalityType
  <1>7. Cardinality(tasks) <= Cardinality(RunsOf(tasks, runs))
    <2> DEFINE first == [r \in RunsOf(tasks, runs) |-> r[1]]
    <2>1. first \in Surjection(RunsOf(tasks, runs), tasks)
      <3>1. \A k \in tasks : <<k, 1>> \in RunsOf(tasks, runs)
        BY <1>1 DEF RunsOf
      <3>2. \A r \in RunsOf(tasks, runs) : r[1] \in tasks
        BY <1>4
      <3>3. \A k \in tasks : first[<<k, 1>>] = k
        BY <3>1
      <3> QED
        BY <3>1, <3>2, <3>3 DEF Surjection
    <2> HIDE DEF first
    <2> QED
      BY <1>5, <2>1, FS_Surjection
  <1> QED
    BY <1>5, <1>6, <1>7

\* What the tasks of a side count.
LEMMA TasksCount ==
  ASSUME NEW side, RunTasks(side), IsFiniteSet(items)
  PROVE  /\ IsFiniteSet(DOMAIN attempts')
         /\ Failed' \subseteq Tried' /\ Tried' \subseteq DOMAIN attempts'
         /\ \E runs \in [DOMAIN attempts' -> 1..MaxRuns] : counts' = Counted(Tried', Failed', runs)
  <1> DEFINE id == [i \in items |-> i.id]
  <1>1. IsFiniteSet({id[i] : i \in items})
    BY ImageFinite
  <1>2. DOMAIN attempts' = {id[i] : i \in items}
    BY DEF RunTasks
  <1>3. Failed' \subseteq Tried' /\ Tried' \subseteq DOMAIN attempts'
    BY DEF Failed, Tried
  <1>4. \E runs \in [DOMAIN attempts' -> 1..MaxRuns] : counts' = Counted(Tried', Failed', runs)
    BY DEF RunTasks
  <1> QED
    BY <1>1, <1>2, <1>3, <1>4

\* The items that are scored next have values of their type.
ItemsInv ==
  /\ IsFiniteSet(items)
  /\ phase = "pairs" => et = "functional_dependency"
  /\ phase \in {"count", "countCandidates"} => \A i \in items : HasValues(i)

\* What the tasks leave has its type.
LEMMA TasksType ==
  ASSUME NEW side, RunTasks(side), input \in Inputs, input' = input,
         IsFiniteSet(items), \A i \in items : HasValues(i)
  PROVE  /\ IsFiniteSet(DOMAIN attempts')
         /\ \A k \in Frame' : attempts'[k].before \in Int /\ attempts'[k].after \in Int
         /\ counts'.processed \in Nat /\ counts'.skipped \in 0..counts'.processed
  <1>1. IsFiniteSet(DOMAIN attempts')
    BY TasksCount
  <1>2. ASSUME NEW k \in Frame' PROVE attempts'[k].before \in Int /\ attempts'[k].after \in Int
    <2> DEFINE item == CHOOSE i \in items : i.id = k
               V == ValuesIn(input)
    <2>1. k \in DOMAIN attempts' /\ attempts'[k].result = "scored"
      BY <1>2 DEF Frame
    <2>2. k \in {i.id : i \in items} /\ attempts'[k] = Attempt(side, et, item, tokenMap, cfg)
      BY <2>1 DEF RunTasks
    <2>3. item \in items
      BY <2>2
    <2> HIDE DEF item
    <2>4. Values(V)
      BY InputValid DEF ValidInput, IsValue, IsDistance, Values
    <2>5. /\ et # "functional_dependency" => item.values \in Seq(V)
          /\ et = "functional_dependency" => item.values \in Seq(V \X V)
      BY <2>3 DEF HasValues
    <2>6. et \in ErrorTypes
      BY InputValid
    <2> HIDE DEF V
    <2>7. IsObservation(attempts'[k])
      BY <2>1, <2>2, <2>4, <2>5, <2>6, AttemptObservation
    <2> QED
      BY <2>7 DEF IsObservation
  <1>3. counts'.processed \in Nat /\ counts'.skipped \in 0..counts'.processed
    <2>1. PICK runs \in [DOMAIN attempts' -> 1..MaxRuns] : counts' = Counted(Tried', Failed', runs)
      BY TasksCount
    <2>2. Failed' \in SUBSET Tried' /\ Tried' \in SUBSET DOMAIN attempts'
      BY TasksCount
    <2>3. IsFiniteSet(Tried')
      BY <1>1, <2>2, FS_Subset
    <2>4. \A k \in Tried' : runs[k] \in 1..MaxRuns
      BY <2>2
    <2>5. IsFiniteSet(RunsOf(Tried', runs)) /\ Cardinality(RunsOf(Tried', runs)) \in Nat
      BY <2>3, <2>4, RunsBounded
    <2>6. RunsOf(Failed', runs) \in SUBSET RunsOf(Tried', runs)
      BY <2>2 DEF RunsOf
    <2>7. /\ IsFiniteSet(RunsOf(Failed', runs))
          /\ Cardinality(RunsOf(Failed', runs)) <= Cardinality(RunsOf(Tried', runs))
      BY <2>5, <2>6, FS_Subset
    <2>8. Cardinality(RunsOf(Failed', runs)) \in Nat
      BY <2>7, FS_CardinalityType
    <2>9. counts'.processed = Cardinality(RunsOf(Tried', runs)) /\ counts'.skipped = Cardinality(RunsOf(Failed', runs))
      BY <2>1 DEF Counted
    <2> QED
      BY <2>5, <2>7, <2>8, <2>9
  <1> QED
    BY <1>1, <1>2, <1>3

\* Which tables can be ingested, and that there are finitely many of them.
LEMMA TablesFinite ==
  ASSUME input \in Inputs
  PROVE  /\ IsFiniteSet(UNION input.schemas) /\ UNION input.schemas \subseteq DOMAIN input.tables
         /\ IsFiniteSet(input.targets) /\ input.targets \subseteq DOMAIN input.tables
  BY InputValid, FS_UNION DEF ValidInput

\* A frame is written at most twice, and once when it is checked.
WritesInv ==
  /\ phase \in {"list", "columns", "pairs", "count"} => writes = 0
  /\ phase \in {"check", "write", "refused"} => writes = 1

\* What keeps the types: the second half is needed to type what the tasks compute.
TypesInv == ScanTypeOK /\ ItemsInv /\ WritesInv

\* The conjuncts of ScanTypeOK that a step disturbs, by the variable they constrain.
ItemsTyped == \A i \in items : IsBounded(i)
FrequencyTyped ==
  /\ IsFiniteSet(DOMAIN frequency) /\ \A t \in DOMAIN frequency : t \in Int /\ frequency[t] \in Nat
  /\ DOMAIN tokenMap \subseteq DOMAIN frequency
AttemptsTyped ==
  /\ IsFiniteSet(DOMAIN attempts)
  /\ \A k \in Frame : attempts[k].before \in Int /\ attempts[k].after \in Int
  /\ counts.processed \in Nat /\ counts.skipped \in 0..counts.processed
CorpusTyped == corpus = NoCorpus \/ Numeric(corpus)
VerdictsTyped == \A k \in DOMAIN verdicts : verdicts[k].numerator \in Nat /\ verdicts[k].denominator \in Nat
Phases == {"list", "columns", "pairs", "count", "check", "write", "refused", "extract",
           "countCandidates", "checkCandidates", "score", "done", "failed"}

LEMMA TypeParts ==
  ScanTypeOK <=> /\ input \in Inputs /\ phase \in Phases /\ names \subseteq UNION input.schemas
                 /\ ItemsTyped /\ FrequencyTyped /\ AttemptsTyped /\ writes \in 0..2
                 /\ CorpusTyped /\ VerdictsTyped
  BY DEF ScanTypeOK, ItemsTyped, FrequencyTyped, AttemptsTyped, CorpusTyped, VerdictsTyped, Phases,
         IsBounded, Numeric

\* A step that leaves a variable alone leaves its part.
LEMMA PartsKept ==
  ASSUME input' = input
  PROVE  /\ et' = et /\ cfg' = cfg
         /\ \A i : HasValues(i)' <=> HasValues(i)
         /\ items' = items => (ItemsTyped' <=> ItemsTyped)
         /\ frequency' = frequency /\ tokenMap' = tokenMap => (FrequencyTyped' <=> FrequencyTyped)
         /\ attempts' = attempts /\ counts' = counts => (AttemptsTyped' <=> AttemptsTyped)
         /\ corpus' = corpus => (CorpusTyped' <=> CorpusTyped)
         /\ verdicts' = verdicts => (VerdictsTyped' <=> VerdictsTyped)
  <1>1. et' = et /\ cfg' = cfg
    BY DEF et, cfg
  <1>2. ValuesIn(input)' = ValuesIn(input)
    OBVIOUS
  <1>3. MaxValues' = MaxValues
    BY <1>1 DEF MaxValues
  <1>4. \A i : HasValues(i)' <=> HasValues(i)
    BY <1>1, <1>2 DEF HasValues
  <1>5. \A i : IsBounded(i)' <=> IsBounded(i)
    BY <1>3 DEF IsBounded
  <1>6. items' = items => (ItemsTyped' <=> ItemsTyped)
    BY <1>5 DEF ItemsTyped
  <1> QED
    BY <1>1, <1>4, <1>6 DEF FrequencyTyped, AttemptsTyped, Frame, CorpusTyped, VerdictsTyped

LEMMA TypesInvariant == Spec => []TypesInv
  <1>1. Init => TypesInv
    <2> SUFFICES ASSUME Init PROVE TypesInv
      OBVIOUS
    <2>1. ItemsTyped /\ FrequencyTyped /\ AttemptsTyped /\ CorpusTyped /\ VerdictsTyped
      BY FS_EmptySet DEF Init, ItemsTyped, FrequencyTyped, AttemptsTyped, Frame, CorpusTyped, VerdictsTyped
    <2>2. ScanTypeOK
      BY <2>1, TypeParts DEF Init, Phases
    <2> QED
      BY <2>2, FS_EmptySet DEF Init, TypesInv, ItemsInv, WritesInv
  <1>2. TypesInv /\ [Next]_vars => TypesInv'
    <2> SUFFICES ASSUME TypesInv, [Next]_vars PROVE TypesInv'
      OBVIOUS
    <2>0. /\ input' = input
          /\ input \in Inputs /\ phase \in Phases /\ names \subseteq UNION input.schemas
          /\ ItemsTyped /\ FrequencyTyped /\ AttemptsTyped /\ writes \in 0..2
          /\ CorpusTyped /\ VerdictsTyped
      BY TypeParts DEF TypesInv, Next, vars, ListCorpus, IngestColumns, IngestPairs, CountFrame, CheckFrame,
         Publish, WriteFrame, WriteAgain, GiveUp, ExtractCandidates, CountCandidates, CheckCandidates,
         BatchScore, CorpusNotFound
    <2>a. /\ IsFiniteSet(items)
          /\ phase = "pairs" => et = "functional_dependency"
          /\ phase \in {"count", "countCandidates"} => \A i \in items : HasValues(i)
          /\ phase \in {"list", "columns", "pairs", "count"} => writes = 0
          /\ phase \in {"check", "write", "refused"} => writes = 1
      BY DEF TypesInv, ItemsInv, WritesInv
    <2>b. /\ et' = et /\ cfg' = cfg
          /\ \A i : HasValues(i)' <=> HasValues(i)
          /\ items' = items => (ItemsTyped' <=> ItemsTyped)
          /\ frequency' = frequency /\ tokenMap' = tokenMap => (FrequencyTyped' <=> FrequencyTyped)
          /\ attempts' = attempts /\ counts' = counts => (AttemptsTyped' <=> AttemptsTyped)
          /\ corpus' = corpus => (CorpusTyped' <=> CorpusTyped)
          /\ verdicts' = verdicts => (VerdictsTyped' <=> VerdictsTyped)
      BY <2>0, PartsKept
    <2>c. SUFFICES /\ phase' \in Phases /\ names' \subseteq UNION input.schemas
                   /\ ItemsTyped' /\ FrequencyTyped' /\ AttemptsTyped' /\ writes' \in 0..2
                   /\ CorpusTyped' /\ VerdictsTyped' /\ ItemsInv' /\ WritesInv'
      <3>1. input' \in Inputs /\ input'.schemas = input.schemas
        BY <2>0
      <3>2. ScanTypeOK' <=> /\ input' \in Inputs /\ phase' \in Phases /\ names' \subseteq UNION input'.schemas
                            /\ ItemsTyped' /\ FrequencyTyped' /\ AttemptsTyped' /\ writes' \in 0..2
                            /\ CorpusTyped' /\ VerdictsTyped'
        BY DEF ScanTypeOK, ItemsTyped, FrequencyTyped, AttemptsTyped, CorpusTyped, VerdictsTyped, Phases,
               IsBounded, Numeric
      <3> QED
        BY <3>1, <3>2 DEF TypesInv
    <2>d. /\ IsFiniteSet(names) /\ names \in SUBSET DOMAIN input.tables
          /\ IsFiniteSet(input.targets) /\ input.targets \in SUBSET DOMAIN input.tables
      BY <2>0, TablesFinite, FS_Subset
    <2> USE DEF ItemsInv, WritesInv, Phases
    <2>1. CASE ListCorpus
      BY <2>0, <2>a, <2>b, <2>1 DEF ListCorpus
    <2>2. CASE IngestColumns
      <3>1. PICK unreadable \in SUBSET names :
              /\ items' = IngestedColumns(names, unreadable)
              /\ frequency' = IF et \in {"uniqueness", "functional_dependency"}
                              THEN TokenStats(IngestedColumns(names, unreadable)) ELSE frequency
        BY <2>2 DEF IngestColumns
      <3>2. /\ IsFiniteSet(items')
            /\ \A i \in items' : i.values \in Seq(ValuesIn(input)) /\ IsBounded(i)
        BY <2>0, <2>d, <3>1, IngestedType
      <3>3. ItemsTyped'
        <4>1. \A i : IsBounded(i)' <=> IsBounded(i)
          BY <2>b DEF IsBounded, MaxValues
        <4> QED
          BY <3>2, <4>1 DEF ItemsTyped
      <3>4. FrequencyTyped'
        <4>1. tokenMap' = frequency'
          BY <2>2 DEF IngestColumns
        <4>2. \A v \in ValuesIn(input) : v.tokens \in Seq(Int)
          BY <2>0, InputValid DEF ValidInput, IsValue
        <4>3. /\ IsFiniteSet(DOMAIN TokenStats(items'))
              /\ \A t \in DOMAIN TokenStats(items') : t \in Int /\ TokenStats(items')[t] \in Nat
          BY <3>2, <4>2, TokenStatsType
        <4>4. /\ IsFiniteSet(DOMAIN frequency')
              /\ \A t \in DOMAIN frequency' : t \in Int /\ frequency'[t] \in Nat
          BY <2>0, <3>1, <4>3 DEF FrequencyTyped
        <4> QED
          BY <4>1, <4>4 DEF FrequencyTyped
      <3>5. phase' = "count" => \A i \in items' : HasValues(i)'
        BY <2>2, <2>b, <3>2 DEF IngestColumns, HasValues
      <3> QED
        BY <2>0, <2>a, <2>b, <2>2, <3>2, <3>3, <3>4, <3>5 DEF IngestColumns
    <2>3. CASE IngestPairs
      <3>1. PICK unreadable \in SUBSET names : items' = IngestedPairs(names, unreadable)
        BY <2>3 DEF IngestPairs
      <3>2. /\ IsFiniteSet(items')
            /\ \A i \in items' : i.values \in Seq(ValuesIn(input) \X ValuesIn(input)) /\ IsBounded(i)
        BY <2>0, <2>d, <3>1, IngestedType
      <3>3. ItemsTyped'
        <4>1. \A i : IsBounded(i)' <=> IsBounded(i)
          BY <2>b DEF IsBounded, MaxValues
        <4> QED
          BY <3>2, <4>1 DEF ItemsTyped
      <3>4. \A i \in items' : HasValues(i)'
        <4>1. et = "functional_dependency"
          BY <2>a, <2>3 DEF IngestPairs
        <4> QED
          BY <2>b, <3>2, <4>1 DEF HasValues
      <3> QED
        BY <2>0, <2>a, <2>b, <2>3, <3>2, <3>3, <3>4 DEF IngestPairs
    <2>4. ASSUME CountFrame \/ CountCandidates
          PROVE  /\ IsFiniteSet(DOMAIN attempts') /\ AttemptsTyped' /\ ItemsTyped' /\ IsFiniteSet(items')
      <3>1. PICK side \in {"build", "detect"} : RunTasks(side)
        BY <2>4 DEF CountFrame, CountCandidates
      <3>2. items' = items /\ \A i \in items : HasValues(i)
        BY <2>a, <2>4 DEF CountFrame, CountCandidates
      <3> QED
        BY <2>0, <2>a, <2>b, <3>1, <3>2, TasksType DEF AttemptsTyped
    <2>5. CASE CountFrame
      BY <2>0, <2>a, <2>b, <2>4, <2>5 DEF CountFrame
    <2>6. CASE CheckFrame
      BY <2>0, <2>a, <2>b, <2>6 DEF CheckFrame
    <2>7. ASSUME Publish PROVE CorpusTyped'
      <3>1. DOMAIN corpus' = Frame /\ \A k \in Frame : corpus'[k].before = attempts[k].before /\ corpus'[k].after = attempts[k].after
        BY <2>7 DEF Publish
      <3>2. Frame \in SUBSET DOMAIN attempts
        BY DEF Frame
      <3>3. IsFiniteSet(Frame)
        BY <2>0, <3>2, FS_Subset DEF AttemptsTyped
      <3>4. Numeric(corpus')
        BY <2>0, <3>1, <3>3 DEF Numeric, AttemptsTyped
      <3> QED
        BY <3>4 DEF CorpusTyped
    <2>8. CASE WriteFrame
      BY <2>0, <2>a, <2>b, <2>7, <2>8 DEF WriteFrame, Publish
    <2>9. CASE WriteAgain
      BY <2>0, <2>a, <2>b, <2>7, <2>9 DEF WriteAgain, Publish
    <2>10. CASE GiveUp
      BY <2>0, <2>a, <2>b, <2>10 DEF GiveUp
    <2>11. CASE ExtractCandidates
      <3>1. PICK unreadable \in SUBSET input.targets :
              items' = IF et = "functional_dependency" THEN IngestedPairs(input.targets, unreadable)
                                                       ELSE IngestedColumns(input.targets, unreadable)
        BY <2>11 DEF ExtractCandidates
      <3>2. /\ IsFiniteSet(items') /\ \A i \in items' : HasValues(i) /\ IsBounded(i)
        BY <2>0, <2>d, <3>1, IngestedType DEF HasValues
      <3>3. ItemsTyped'
        <4>1. \A i : IsBounded(i)' <=> IsBounded(i)
          BY <2>b DEF IsBounded, MaxValues
        <4> QED
          BY <3>2, <4>1 DEF ItemsTyped
      <3>4. FrequencyTyped'
        <4>1. DOMAIN LoadTokenMap(frequency) \subseteq DOMAIN frequency
          BY DEF LoadTokenMap, Restrict, FirstFew
        <4> QED
          BY <2>0, <2>11, <4>1 DEF FrequencyTyped, ExtractCandidates
      <3> QED
        BY <2>0, <2>a, <2>b, <2>11, <3>2, <3>3, <3>4 DEF ExtractCandidates
    <2>12. CASE CountCandidates
      BY <2>0, <2>a, <2>b, <2>4, <2>12 DEF CountCandidates
    <2>13. CASE CheckCandidates
      BY <2>0, <2>a, <2>b, <2>13 DEF CheckCandidates
    <2>14. CASE BatchScore
      <3>1. VerdictsTyped'
        <4>1. Numeric(corpus) /\ verdicts' = [k \in Frame |-> Verdict(corpus, et, attempts[k], cfg)]
          BY <2>0, <2>14 DEF BatchScore, CorpusTyped
        <4> QED
          BY <4>1, CountsAreCounts DEF VerdictsTyped
      <3> QED
        BY <2>0, <2>a, <2>b, <2>14, <3>1 DEF BatchScore
    <2>15. CASE CorpusNotFound
      BY <2>0, <2>a, <2>b, <2>15 DEF CorpusNotFound
    <2>16. CASE UNCHANGED vars
      BY <2>0, <2>a, <2>b, <2>16 DEF vars
    <2> QED
      BY <2>1, <2>2, <2>3, <2>5, <2>6, <2>8, <2>9, <2>10, <2>11, <2>12, <2>13, <2>14, <2>15, <2>16 DEF Next
  <1> QED
    BY <1>1, <1>2, PTL DEF Spec

\* Every variable has its type: what is compared with the corpus are integers, whatever the
\* columns contain.
THEOREM TypesCorrect == Spec => []ScanTypeOK
  <1>1. TypesInv => ScanTypeOK
    BY DEF TypesInv
  <1> QED
    BY <1>1, TypesInvariant, PTL

-----------------------------------------------------------------------------
\* The failure gate.

\* What the counters say of the items when every task ran between once and MaxRuns times.
CountsInv ==
  LET failed == Cardinality(Failed)
      tried == Cardinality(Tried)
  IN /\ failed \in Nat /\ tried \in Nat
     /\ tried <= counts.processed /\ counts.processed <= tried * MaxRuns
     /\ failed <= counts.skipped /\ counts.skipped <= failed * MaxRuns

\* What the gate decided about what was counted last.
DecidedInv ==
  /\ phase \in {"list", "columns", "pairs", "count", "check", "write", "refused"} => corpus = NoCorpus
  /\ phase \in {"write", "score"} => ~ TooManyFailures
  /\ phase = "refused" => TooManyFailures
  /\ phase = "extract" /\ corpus # NoCorpus => writes = 2 \/ (writes = 1 /\ ~ TooManyFailures)

\* What counts within these bounds say when the gate lets them through, and when it does not.
LEMMA GateArithmetic ==
  ASSUME NEW failed \in Nat, NEW tried \in Nat, NEW skipped \in Nat, NEW processed \in Nat,
         NEW m1 \in Nat, NEW m2 \in Nat \ {0}, m1 <= m2, NEW runs \in Nat,
         tried <= processed, processed <= tried * runs,
         failed <= skipped, skipped <= failed * runs, skipped <= processed
  PROVE  /\ ~ (skipped > 0 /\ skipped * m2 > m1 * processed) =>
              failed * m2 <= runs * m1 * tried /\ (m1 = 0 => failed = 0)
         /\ skipped > 0 /\ skipped * m2 > m1 * processed =>
              runs * failed * m2 > m1 * tried /\ m1 < m2
  <1> DEFINE sm == skipped * m2
             mp == m1 * processed
  <1>1. sm \in Nat /\ mp \in Nat /\ failed * m2 \in Nat /\ m1 * tried \in Nat
        /\ tried * runs \in Nat /\ failed * runs \in Nat
    BY SMT
  <1>2. failed * m2 <= sm /\ m1 * tried <= mp
    BY Products
  <1>3. mp <= m1 * (tried * runs) /\ sm <= (failed * runs) * m2
    BY <1>1, Products
  <1>4. m1 * (tried * runs) = runs * m1 * tried /\ (failed * runs) * m2 = runs * failed * m2
        /\ runs * m1 * tried \in Int /\ runs * failed * m2 \in Int
    BY SMT
  <1>5. ASSUME ~ (skipped > 0 /\ sm > mp)
        PROVE  failed * m2 <= runs * m1 * tried /\ (m1 = 0 => failed = 0)
    <2>1. CASE skipped = 0
      <3>1. failed = 0 /\ sm = 0
        BY <2>1, SMT
      <3>2. failed * m2 = 0
        BY <3>1, SMT
      <3> HIDE DEF sm, mp
      <3> QED
        BY <1>1, <1>3, <1>4, <3>1, <3>2
    <2>2. CASE skipped # 0
      <3>1. sm <= mp
        BY <1>1, <1>5, <2>2
      <3>2. m1 = 0 => mp = 0
        BY SMT
      <3>3. 1 * 1 <= sm
        BY <2>2, Products
      <3> HIDE DEF sm, mp
      <3> QED
        BY <1>1, <1>2, <1>3, <1>4, <3>1, <3>2, <3>3
    <2> QED
      BY <2>1, <2>2
  <1>6. ASSUME skipped > 0, sm > mp
        PROVE  runs * failed * m2 > m1 * tried /\ m1 < m2
    <2>1. m1 # m2
      <3> SUFFICES ASSUME m1 = m2 PROVE FALSE
        OBVIOUS
      <3>1. m2 * skipped <= mp
        BY Products
      <3>2. m2 * skipped = sm
        BY SMT
      <3> HIDE DEF sm, mp
      <3> QED
        BY <1>1, <1>6, <3>1, <3>2
    <2> HIDE DEF sm, mp
    <2> QED
      BY <1>1, <1>2, <1>3, <1>4, <1>6, <2>1
  <1> QED
    BY <1>5, <1>6

\* Tasks that ran between once and MaxRuns times.
LEMMA TasksCounted ==
  ASSUME NEW side, RunTasks(side), IsFiniteSet(items)
  PROVE  CountsInv'
  <1>1. /\ IsFiniteSet(DOMAIN attempts') /\ Failed' \in SUBSET DOMAIN attempts' /\ Tried' \in SUBSET DOMAIN attempts'
    BY TasksCount
  <1>2. PICK runs \in [DOMAIN attempts' -> 1..MaxRuns] : counts' = Counted(Tried', Failed', runs)
    BY TasksCount
  <1>3. IsFiniteSet(Failed') /\ IsFiniteSet(Tried')
    BY <1>1, FS_Subset
  <1>4. (\A k \in Failed' : runs[k] \in 1..MaxRuns) /\ \A k \in Tried' : runs[k] \in 1..MaxRuns
    BY <1>1
  <1>5. /\ Cardinality(Tried') \in Nat
        /\ Cardinality(Tried') <= Cardinality(RunsOf(Tried', runs))
        /\ Cardinality(RunsOf(Tried', runs)) <= Cardinality(Tried') * MaxRuns
    BY <1>3, <1>4, RunsBounded
  <1>6. /\ Cardinality(Failed') \in Nat
        /\ Cardinality(Failed') <= Cardinality(RunsOf(Failed', runs))
        /\ Cardinality(RunsOf(Failed', runs)) <= Cardinality(Failed') * MaxRuns
    BY <1>3, <1>4, RunsBounded
  <1>7. counts'.processed = Cardinality(RunsOf(Tried', runs)) /\ counts'.skipped = Cardinality(RunsOf(Failed', runs))
    BY <1>2 DEF Counted
  <1> QED
    BY <1>5, <1>6, <1>7 DEF CountsInv

LEMMA GateInvariant == Spec => [](CountsInv /\ DecidedInv)
  <1>1. Init => CountsInv /\ DecidedInv
    <2> SUFFICES ASSUME Init PROVE CountsInv /\ DecidedInv
      OBVIOUS
    <2>1. Failed = {} /\ Tried = {} /\ counts.processed = 0 /\ counts.skipped = 0
      BY DEF Init, Failed, Tried
    <2>2. Cardinality(Failed) = 0 /\ Cardinality(Tried) = 0
      BY <2>1, FS_EmptySet
    <2>3. MaxRuns \in Nat
      BY InputsAssumption
    <2> QED
      BY <2>1, <2>2, <2>3 DEF Init, CountsInv, DecidedInv
  <1>2. CountsInv /\ DecidedInv /\ TypesInv /\ [Next]_vars => (CountsInv /\ DecidedInv)'
    <2> SUFFICES ASSUME CountsInv, DecidedInv, TypesInv, [Next]_vars PROVE CountsInv' /\ DecidedInv'
      OBVIOUS
    <2>1. input' = input
      BY DEF Next, vars, ListCorpus, IngestColumns, IngestPairs, CountFrame, CheckFrame,
         Publish, WriteFrame, WriteAgain, GiveUp, ExtractCandidates, CountCandidates, CheckCandidates,
         BatchScore, CorpusNotFound
    <2>2. ASSUME attempts' = attempts, counts' = counts
          PROVE  CountsInv' /\ (TooManyFailures' <=> TooManyFailures)
      <3>1. Failed' = Failed /\ Tried' = Tried /\ cfg' = cfg
        BY <2>1, <2>2 DEF Failed, Tried, cfg
      <3> QED
        BY <2>2, <3>1 DEF CountsInv, TooManyFailures
    <2>3. IsFiniteSet(items) /\ (phase \in {"check", "write", "refused"} => writes = 1)
      BY DEF TypesInv, ItemsInv, WritesInv
    <2>4. CASE CountFrame
      <3>1. CountsInv'
        BY <2>3, <2>4, TasksCounted DEF CountFrame
      <3> QED
        BY <2>4, <3>1 DEF CountFrame, DecidedInv
    <2>5. CASE CountCandidates
      <3>1. CountsInv'
        BY <2>3, <2>5, TasksCounted DEF CountCandidates
      <3> QED
        BY <2>5, <3>1 DEF CountCandidates, DecidedInv
    <2>6. CASE ListCorpus
      BY <2>2, <2>6 DEF ListCorpus, DecidedInv
    <2>7. CASE IngestColumns
      BY <2>2, <2>7 DEF IngestColumns, DecidedInv
    <2>8. CASE IngestPairs
      BY <2>2, <2>8 DEF IngestPairs, DecidedInv
    <2>9. CASE CheckFrame
      BY <2>2, <2>9 DEF CheckFrame, DecidedInv
    <2>10. CASE WriteFrame
      BY <2>2, <2>3, <2>10 DEF WriteFrame, Publish, DecidedInv
    <2>11. CASE WriteAgain
      BY <2>2, <2>3, <2>11 DEF WriteAgain, Publish, DecidedInv
    <2>12. CASE GiveUp
      BY <2>2, <2>12 DEF GiveUp, DecidedInv
    <2>13. CASE ExtractCandidates
      BY <2>2, <2>13 DEF ExtractCandidates, DecidedInv
    <2>14. CASE CheckCandidates
      BY <2>2, <2>14 DEF CheckCandidates, DecidedInv
    <2>15. CASE BatchScore
      BY <2>2, <2>15 DEF BatchScore, DecidedInv
    <2>16. CASE CorpusNotFound
      BY <2>2, <2>16 DEF CorpusNotFound, DecidedInv
    <2>17. CASE UNCHANGED vars
      BY <2>2, <2>17 DEF vars, DecidedInv
    <2> QED
      BY <2>4, <2>5, <2>6, <2>7, <2>8, <2>9, <2>10, <2>11, <2>12, <2>13, <2>14, <2>15, <2>16, <2>17 DEF Next
  <1> QED
    BY <1>1, <1>2, TypesInvariant, PTL DEF Spec

\* Recomputed tasks can shift the decision of the gate by the factor MaxRuns and no further;
\* at the limits 0 and 1 they cannot shift it.
THEOREM GateBounded == Spec => []GateWithinRetries
  <1>1. ASSUME CountsInv, DecidedInv, TypesInv PROVE GateWithinRetries
    <2> DEFINE max == cfg.maxFailure
               failed == Cardinality(Failed)
               tried == Cardinality(Tried)
    <2>1. /\ failed \in Nat /\ tried \in Nat
          /\ tried <= counts.processed /\ counts.processed <= tried * MaxRuns
          /\ failed <= counts.skipped /\ counts.skipped <= failed * MaxRuns
      BY <1>1 DEF CountsInv
    <2>2. /\ counts.processed \in Nat /\ counts.skipped \in Nat /\ counts.skipped <= counts.processed
          /\ input \in Inputs /\ writes \in 0..2
      BY <1>1 DEF TypesInv, ScanTypeOK
    <2>3. max[1] \in Nat /\ max[2] \in Nat \ {0} /\ max[1] <= max[2]
      BY <2>2, InputValid DEF ValidConfig
    <2>4. MaxRuns \in Nat
      BY InputsAssumption
    <2> HIDE DEF max, failed, tried
    <2>5. /\ ~ (counts.skipped > 0 /\ counts.skipped * max[2] > max[1] * counts.processed) =>
               failed * max[2] <= MaxRuns * max[1] * tried /\ (max[1] = 0 => failed = 0)
          /\ counts.skipped > 0 /\ counts.skipped * max[2] > max[1] * counts.processed =>
               MaxRuns * failed * max[2] > max[1] * tried /\ max[1] < max[2]
      BY <2>1, <2>2, <2>3, <2>4, GateArithmetic
    <2>6. /\ ~ TooManyFailures => failed * max[2] <= MaxRuns * max[1] * tried /\ (max[1] = 0 => failed = 0)
          /\ TooManyFailures => MaxRuns * failed * max[2] > max[1] * tried /\ max[1] < max[2]
      BY <2>5 DEF TooManyFailures, max
    <2>7. failed * max[2] \in Int /\ MaxRuns * max[1] * tried \in Int
      BY <2>1, <2>3, <2>4, SMT
    <2>8. ~ TooManyFailures => ~ (MaxRuns * max[1] * tried < failed * max[2])
      BY <2>6, <2>7
    <2>9. phase \in {"write", "score"} \/ (phase = "extract" /\ writes = 1 /\ corpus # NoCorpus) => ~ TooManyFailures
      BY <1>1 DEF DecidedInv
    <2>10. phase = "extract" /\ corpus # NoCorpus /\ ~ (writes = 2) => ~ TooManyFailures
      BY <1>1 DEF DecidedInv
    <2>11. phase = "refused" => TooManyFailures
      BY <1>1 DEF DecidedInv
    <2> QED
      BY <2>6, <2>8, <2>9, <2>10, <2>11 DEF GateWithinRetries, max, failed, tried
  <1> QED
    BY <1>1, GateInvariant, TypesInvariant, PTL

-----------------------------------------------------------------------------
\* The ratio orders the candidates of a bucket by how far their measured metric moves,
\* whatever the corpus: Definition 3 ranks by it.
THEOREM RankingSound == Spec => []RatioMonotone
  <1>1. ASSUME VerdictInv, input \in Inputs, ScanTypeOK PROVE RatioMonotone
    <2> SUFFICES ASSUME NEW k \in DOMAIN verdicts, NEW l \in DOMAIN verdicts,
                        attempts[k].bucket = attempts[l].bucket,
                        AtMost(et, attempts[k].before, attempts[l].before),
                        AtMost(et, attempts[l].after, attempts[k].after)
                 PROVE  LET s == cfg.smoothing
                        IN (verdicts[k].numerator * s[2] + s[1]) * (verdicts[l].denominator * s[2] + s[1])
                             <= (verdicts[l].numerator * s[2] + s[1]) * (verdicts[k].denominator * s[2] + s[1])
      BY DEF RatioMonotone
    <2>1. /\ corpus # NoCorpus
          /\ k \in Frame /\ verdicts[k] = Verdict(corpus, et, attempts[k], cfg)
          /\ l \in Frame /\ verdicts[l] = Verdict(corpus, et, attempts[l], cfg)
      BY <1>1 DEF VerdictInv
    <2>2. Numeric(corpus)
      BY <1>1, <2>1 DEF ScanTypeOK, Numeric
    <2>3. /\ attempts[k].before \in Int /\ attempts[k].after \in Int
          /\ attempts[l].before \in Int /\ attempts[l].after \in Int
      BY <1>1, <2>1 DEF ScanTypeOK
    <2>4. /\ verdicts[k].numerator \in Nat /\ verdicts[k].denominator \in Nat
          /\ verdicts[l].numerator \in Nat /\ verdicts[l].denominator \in Nat
      BY <2>1, <2>2, CountsAreCounts
    <2>5. verdicts[k].numerator <= verdicts[l].numerator /\ verdicts[l].denominator <= verdicts[k].denominator
      BY <2>1, <2>2, <2>3, CountsMonotone
    <2>6. cfg.smoothing[1] \in Nat /\ cfg.smoothing[2] \in Nat
      BY <1>1, InputValid DEF ValidConfig
    <2> DEFINE Smoothed(n) == n * cfg.smoothing[2] + cfg.smoothing[1]
    <2>7. ASSUME NEW m \in Nat, NEW n \in Nat, m <= n
          PROVE  Smoothed(m) \in Nat /\ Smoothed(n) \in Nat /\ Smoothed(m) <= Smoothed(n)
      <3>1. m * cfg.smoothing[2] <= n * cfg.smoothing[2]
        BY <2>6, <2>7, Products
      <3>2. m * cfg.smoothing[2] \in Nat /\ n * cfg.smoothing[2] \in Nat
        BY <2>6, <2>7, SMT
      <3> QED
        BY <2>6, <3>1, <3>2
    <2> HIDE DEF Smoothed
    <2>8. /\ Smoothed(verdicts[k].numerator) \in Nat /\ Smoothed(verdicts[l].numerator) \in Nat
          /\ Smoothed(verdicts[k].numerator) <= Smoothed(verdicts[l].numerator)
          /\ Smoothed(verdicts[k].denominator) \in Nat /\ Smoothed(verdicts[l].denominator) \in Nat
          /\ Smoothed(verdicts[l].denominator) <= Smoothed(verdicts[k].denominator)
      BY <2>4, <2>5, <2>7
    <2>9. Smoothed(verdicts[k].numerator) * Smoothed(verdicts[l].denominator)
            <= Smoothed(verdicts[l].numerator) * Smoothed(verdicts[k].denominator)
      BY <2>8, Products
    <2> QED
      BY <2>9 DEF Smoothed
  <1> QED
    BY <1>1, VerdictsComputed, InputChosen, TypesCorrect, PTL

\* What significance costs: the evidence in the denominator outweighs the smoothing.
LEMMA SignificanceBound ==
  ASSUME NEW config, ValidConfig(config), NEW n \in Nat, NEW d \in Nat, Significant(n, d, config)
  PROVE  /\ config.smoothing[1] * (config.alpha[2] - config.alpha[1]) <= config.alpha[1] * config.smoothing[2] * d
         /\ d # 0
  <1> DEFINE s1 == config.smoothing[1]
             s2 == config.smoothing[2]
             a1 == config.alpha[1]
             a2 == config.alpha[2]
  <1>1. s1 \in Nat \ {0} /\ s2 \in Nat \ {0} /\ a1 \in Nat \ {0} /\ a2 \in Nat /\ a1 < a2
    BY DEF ValidConfig
  <1>2. (n * s2 + s1) * a2 <= a1 * (d * s2 + s1)
    BY DEF Significant
  <1> HIDE DEF s1, s2, a1, a2
  <1>3. n * s2 \in Nat /\ d * s2 \in Nat
    BY <1>1, SMT
  <1>4. s1 * a2 <= (n * s2 + s1) * a2
    BY <1>1, <1>3, Products
  <1>5. a1 * (d * s2 + s1) = a1 * s2 * d + a1 * s1
    BY <1>1, SMT
  <1>6. s1 * (a2 - a1) = s1 * a2 - a1 * s1
    BY <1>1, SMT
  <1>7. s1 * a2 \in Int /\ a1 * s1 \in Int /\ a1 * s2 * d \in Int /\ (n * s2 + s1) * a2 \in Int
    BY <1>1, SMT
  <1>8. s1 * (a2 - a1) <= a1 * s2 * d
    BY <1>2, <1>4, <1>5, <1>6, <1>7
  <1>9. d # 0
    <2> SUFFICES ASSUME d = 0 PROVE FALSE
      OBVIOUS
    <2>1. a1 * s2 * d = 0
      BY <1>1, SMT
    <2>2. 1 * 1 <= s1 * (a2 - a1)
      BY <1>1, Products
    <2> QED
      BY <1>7, <1>8, <2>1, <2>2, <1>6
  <1> QED
    BY <1>8, <1>9 DEF s1, s2, a1, a2

\* No candidate is significant without corpus columns in its bucket, and the ratio exceeds one
\* only where the perturbation moved the metric the wrong way.
THEOREM SupportNeeded == Spec => []SignificanceNeedsSupport
  <1>1. ASSUME VerdictInv, input \in Inputs, ScanTypeOK PROVE SignificanceNeedsSupport
    <2> SUFFICES ASSUME NEW k \in DOMAIN verdicts
                 PROVE  /\ verdicts[k].significant =>
                             /\ verdicts[k].support > 0
                             /\ cfg.smoothing[1] * (cfg.alpha[2] - cfg.alpha[1])
                                  <= cfg.alpha[1] * cfg.smoothing[2] * verdicts[k].denominator
                        /\ AtMost(et, attempts[k].before, attempts[k].after) =>
                             verdicts[k].numerator <= verdicts[k].denominator
      BY DEF SignificanceNeedsSupport
    <2>1. corpus # NoCorpus /\ k \in Frame /\ verdicts[k] = Verdict(corpus, et, attempts[k], cfg)
      BY <1>1 DEF VerdictInv
    <2>2. Numeric(corpus)
      BY <1>1, <2>1 DEF ScanTypeOK, Numeric
    <2>3. attempts[k].before \in Int /\ attempts[k].after \in Int
      BY <1>1, <2>1 DEF ScanTypeOK
    <2> DEFINE v == verdicts[k]
    <2>4. /\ v.numerator \in Nat /\ v.denominator \in Nat /\ v.support \in Nat
          /\ v.denominator <= v.support
          /\ v.numerator = Cardinality(Numerator(corpus, et, attempts[k]))
          /\ v.denominator = Cardinality(Denominator(corpus, et, attempts[k]))
          /\ v.significant = Significant(v.numerator, v.denominator, cfg)
          /\ IsFiniteSet(Denominator(corpus, et, attempts[k]))
      BY <2>1, <2>2, CountsAreCounts
    <2>5. ValidConfig(cfg)
      BY <1>1, InputValid
    <2>6. ASSUME v.significant
          PROVE  /\ v.support > 0
                 /\ cfg.smoothing[1] * (cfg.alpha[2] - cfg.alpha[1]) <= cfg.alpha[1] * cfg.smoothing[2] * v.denominator
      <3>1. /\ cfg.smoothing[1] * (cfg.alpha[2] - cfg.alpha[1]) <= cfg.alpha[1] * cfg.smoothing[2] * v.denominator
            /\ v.denominator # 0
        BY <2>4, <2>5, <2>6, SignificanceBound
      <3> QED
        BY <2>4, <3>1
    <2>7. ASSUME AtMost(et, attempts[k].before, attempts[k].after)
          PROVE  v.numerator <= v.denominator
      <3>1. Numerator(corpus, et, attempts[k]) \in SUBSET Denominator(corpus, et, attempts[k])
        BY <2>2, <2>3, <2>7 DEF Numerator, Denominator, Bucket, AtMost, Numeric
      <3> QED
        BY <2>4, <3>1, FS_Subset
    <2> QED
      BY <2>6, <2>7
  <1> QED
    BY <1>1, VerdictsComputed, InputChosen, TypesCorrect, PTL

-----------------------------------------------------------------------------
\* What the builder scored and what a detector scores.

\* The columns, or pairs, of any table.
IsItem(i) == \E t : i \in IF et = "functional_dependency" THEN PairItems(t) ELSE ColumnItems(t)

\* Item k was scored by the given side with the given token map.
AttemptOf(side, k, map, a) ==
  \E i : IsItem(i) /\ i.id = k /\ a = Attempt(side, et, i, map, cfg)

\* Until a corpus is published; then its observations are the builder's scores.
CorpusInv ==
  /\ phase \in {"list", "columns"} => corpus = NoCorpus
  /\ corpus # NoCorpus =>
       \A k \in DOMAIN corpus :
         \E a : /\ AttemptOf("build", k, frequency, a) /\ a.result = "scored"
                /\ corpus[k] = [bucket |-> a.bucket, before |-> a.before, after |-> a.after]

\* Which items the tasks score, with which token map, and what they leave.
ScoredInv ==
  /\ phase = "pairs" => et = "functional_dependency"
  /\ phase \in {"count", "countCandidates"} => \A i \in items : IsItem(i)
  /\ phase \in {"pairs", "count"} => tokenMap = frequency
  /\ phase = "countCandidates" => tokenMap = LoadTokenMap(frequency)
  /\ frequency = [t \in DOMAIN frequency |-> frequency[t]]
  /\ phase \in {"check", "write", "refused"} =>
       \A k \in DOMAIN attempts : AttemptOf("build", k, frequency, attempts[k])
  /\ phase \in {"checkCandidates", "score", "done"} =>
       \A k \in DOMAIN attempts : AttemptOf("detect", k, LoadTokenMap(frequency), attempts[k])

\* An item is known by its table and its column or columns.
LEMMA UniqueIds ==
  ASSUME NEW i, NEW j, IsItem(i), IsItem(j), i.id = j.id
  PROVE  i = j
  <1>1. PICK t : i \in IF et = "functional_dependency" THEN PairItems(t) ELSE ColumnItems(t)
    BY DEF IsItem
  <1>2. PICK u : j \in IF et = "functional_dependency" THEN PairItems(u) ELSE ColumnItems(u)
    BY DEF IsItem
  <1>3. CASE et = "functional_dependency"
    <2>1. PICK p : i = [id |-> <<t, p[1], p[2]>>, index |-> p[2] - 1, rows |-> RowCount(input.tables[t]),
                        values |-> SampledPair(input.tables[t][p[1]], input.tables[t][p[2]], MaxValues)]
      BY <1>1, <1>3 DEF PairItems
    <2>2. PICK q : j = [id |-> <<u, q[1], q[2]>>, index |-> q[2] - 1, rows |-> RowCount(input.tables[u]),
                        values |-> SampledPair(input.tables[u][q[1]], input.tables[u][q[2]], MaxValues)]
      BY <1>2, <1>3 DEF PairItems
    <2>3. t = u /\ p[1] = q[1] /\ p[2] = q[2]
      BY <2>1, <2>2
    <2> QED
      BY <2>1, <2>2, <2>3
  <1>4. CASE et # "functional_dependency"
    <2>1. PICK c : i = [id |-> <<t, c>>, index |-> c - 1, rows |-> RowCount(input.tables[t]),
                        values |-> SampledColumn(input.tables[t][c], MaxValues)]
      BY <1>1, <1>4 DEF ColumnItems
    <2>2. PICK d : j = [id |-> <<u, d>>, index |-> d - 1, rows |-> RowCount(input.tables[u]),
                        values |-> SampledColumn(input.tables[u][d], MaxValues)]
      BY <1>2, <1>4 DEF ColumnItems
    <2>3. t = u /\ c = d
      BY <2>1, <2>2
    <2> QED
      BY <2>1, <2>2, <2>3
  <1> QED
    BY <1>3, <1>4

\* An item that both sides score, with the same token map, gets the same score from both.
LEMMA SidesAgree ==
  ASSUME NEW type \in ErrorTypes, NEW item, NEW map, NEW config,
         Attempt("build", type, item, map, config).result = "scored",
         Attempt("detect", type, item, map, config).result = "scored"
  PROVE  Attempt("build", type, item, map, config) = Attempt("detect", type, item, map, config)
  <1>1. CASE type = "uniqueness"
    BY <1>1 DEF Attempt, ScoreUniqueness, TooFew, Unscored, IfFlagged
  <1>2. CASE type = "functional_dependency"
    BY <1>2 DEF Attempt, ScoreFunctionalDependency, TooFew, Unscored, IfFlagged
  <1>3. CASE type = "numeric_outlier"
    BY <1>3 DEF Attempt, ScoreNumericOutlier, TooFew, Unscored
  <1>4. CASE type = "spelling"
    BY <1>4 DEF Attempt, ScoreSpelling, TooFew, Unscored
  <1> QED
    BY <1>1, <1>2, <1>3, <1>4 DEF ErrorTypes

\* The driver's map is the whole token table if the table fits into it.
LEMMA WholeMapLoaded ==
  ASSUME NEW table, table = [t \in DOMAIN table |-> table[t]], IsFiniteSet(DOMAIN table),
         \A t \in DOMAIN table : t \in Int /\ table[t] \in Nat,
         Cardinality(DOMAIN table) <= MaxTokens
  PROVE  LoadTokenMap(table) = table
  <1> DEFINE D == DOMAIN table
             key == [t \in D |-> <<0 - table[t], t>>]
             Ahead(x) == {y \in D : Before(key[y], key[x])}
  <1>1. ASSUME NEW x \in D PROVE Cardinality(Ahead(x)) < MaxTokens
    <2>1. ~ Before(key[x], key[x])
      BY DEF Before
    <2>2. Ahead(x) \in SUBSET D /\ x \notin Ahead(x)
      BY <2>1
    <2> HIDE DEF Ahead
    <2>3. Cardinality(Ahead(x)) <= Cardinality(D) /\ Cardinality(Ahead(x)) # Cardinality(D) /\ IsFiniteSet(Ahead(x))
      BY <2>2, FS_Subset
    <2>4. Cardinality(Ahead(x)) \in Nat /\ Cardinality(D) \in Nat
      BY <2>3, FS_CardinalityType
    <2> QED
      BY <2>3, <2>4, InputsAssumption
  <1>2. FirstFew(D, MaxTokens, key) = D
    BY <1>1 DEF FirstFew
  <1> QED
    BY <1>2 DEF LoadTokenMap, Restrict

\* What the tasks of a side leave.
LEMMA TasksScore ==
  ASSUME NEW side, RunTasks(side), \A i \in items : IsItem(i)
  PROVE  \A k \in DOMAIN attempts' : AttemptOf(side, k, tokenMap, attempts'[k])
  <1> SUFFICES ASSUME NEW k \in DOMAIN attempts' PROVE AttemptOf(side, k, tokenMap, attempts'[k])
    OBVIOUS
  <1> DEFINE item == CHOOSE i \in items : i.id = k
  <1>1. /\ k \in {i.id : i \in items}
        /\ attempts'[k] = Attempt(side, et, item, tokenMap, cfg)
    BY DEF RunTasks
  <1>2. item \in items /\ item.id = k
    BY <1>1
  <1> HIDE DEF item
  <1> QED
    BY <1>1, <1>2 DEF AttemptOf

\* What is published is what the builder scored.
LEMMA PublishedScores ==
  ASSUME Publish, \A k \in DOMAIN attempts : AttemptOf("build", k, frequency, attempts[k])
  PROVE  \A k \in DOMAIN corpus' :
           \E a : /\ AttemptOf("build", k, frequency, a) /\ a.result = "scored"
                  /\ corpus'[k] = [bucket |-> a.bucket, before |-> a.before, after |-> a.after]
  <1> SUFFICES ASSUME NEW k \in DOMAIN corpus'
               PROVE  /\ AttemptOf("build", k, frequency, attempts[k]) /\ attempts[k].result = "scored"
                      /\ corpus'[k] = [bucket |-> attempts[k].bucket, before |-> attempts[k].before,
                                       after |-> attempts[k].after]
    OBVIOUS
  <1>1. /\ k \in Frame
        /\ corpus'[k] = [bucket |-> attempts[k].bucket, before |-> attempts[k].before,
                         after |-> attempts[k].after]
    BY DEF Publish
  <1> QED
    BY <1>1 DEF Frame

LEMMA ScoresInvariant == Spec => [](ScoredInv /\ CorpusInv)
  <1>1. Init => ScoredInv /\ CorpusInv
    BY DEF Init, ScoredInv, CorpusInv
  <1>2. ScoredInv /\ CorpusInv /\ [Next]_vars => (ScoredInv /\ CorpusInv)'
    <2> SUFFICES ASSUME ScoredInv, CorpusInv, [Next]_vars PROVE ScoredInv' /\ CorpusInv'
      OBVIOUS
    <2> USE DEF ScoredInv, CorpusInv
    <2>0. /\ et' = et /\ \A i : IsItem(i)' <=> IsItem(i)
          /\ \A side, k, map, a : AttemptOf(side, k, map, a)' <=> AttemptOf(side, k, map, a)
          /\ \A table : LoadTokenMap(table)' = LoadTokenMap(table)
      <3>1. input' = input
        BY DEF Next, vars, ListCorpus, IngestColumns, IngestPairs, CountFrame, CheckFrame, Publish,
               WriteFrame, WriteAgain, GiveUp, ExtractCandidates, CountCandidates, CheckCandidates,
               BatchScore, CorpusNotFound
      <3>2. et' = et /\ cfg' = cfg
        BY <3>1 DEF et, cfg
      <3>3. \A i : IsItem(i)' <=> IsItem(i)
        <4>1. MaxValues' = MaxValues
          BY <3>2 DEF MaxValues
        <4>2. \A t : SelectedPairs(t)' = SelectedPairs(t)
          BY <3>1, <3>2 DEF SelectedPairs
        <4>3. \A t : PairItems(t)' = PairItems(t) /\ ColumnItems(t)' = ColumnItems(t)
          BY <3>1, <4>1, <4>2 DEF PairItems, ColumnItems
        <4> QED
          BY <3>2, <4>3 DEF IsItem
      <3> QED
        BY <3>2, <3>3 DEF AttemptOf
    <2>1. CASE ListCorpus
      BY <2>0, <2>1 DEF ListCorpus
    <2>2. CASE IngestColumns
      <3>1. phase' = "pairs" => et = "functional_dependency"
        BY <2>2 DEF IngestColumns
      <3>2. phase' = "count" => et # "functional_dependency"
        BY <2>2 DEF IngestColumns
      <3>3. \A i \in items' : \E t : i \in ColumnItems(t)
        BY <2>2 DEF IngestColumns, IngestedColumns
      <3>4. phase' = "count" => \A i \in items' : IsItem(i)
        BY <3>2, <3>3 DEF IsItem
      <3>5. frequency' = [t \in DOMAIN frequency' |-> frequency'[t]]
        BY <2>2 DEF IngestColumns, TokenStats
      <3>6. phase' \in {"pairs", "count"} /\ tokenMap' = frequency' /\ corpus' = NoCorpus
        BY <2>2 DEF IngestColumns
      <3> QED
        BY <2>0, <3>1, <3>4, <3>5, <3>6
    <2>3. CASE IngestPairs
      <3>1. \A i \in items' : \E t : i \in PairItems(t)
        BY <2>3 DEF IngestPairs, IngestedPairs
      <3>2. \A i \in items' : IsItem(i)
        BY <2>3, <3>1 DEF IngestPairs, IsItem
      <3> QED
        BY <2>0, <2>3, <3>2 DEF IngestPairs
    <2>4. CASE CountFrame
      <3>1. \A k \in DOMAIN attempts' : AttemptOf("build", k, frequency, attempts'[k])
        BY <2>4, TasksScore DEF CountFrame
      <3> QED
        BY <2>0, <2>4, <3>1 DEF CountFrame
    <2>5. CASE CheckFrame
      BY <2>0, <2>5 DEF CheckFrame
    <2>6. ASSUME WriteFrame \/ WriteAgain PROVE ScoredInv' /\ CorpusInv'
      <3>1. phase \in {"write", "refused"} /\ Publish
        BY <2>6 DEF WriteFrame, WriteAgain
      <3>2. \A k \in DOMAIN corpus' :
              \E a : /\ AttemptOf("build", k, frequency, a) /\ a.result = "scored"
                     /\ corpus'[k] = [bucket |-> a.bucket, before |-> a.before, after |-> a.after]
        BY <3>1, PublishedScores
      <3>3. /\ phase' = "extract"
            /\ UNCHANGED <<input, names, items, frequency, tokenMap, attempts, counts, verdicts>>
        BY <3>1 DEF Publish
      <3> QED
        BY <2>0, <3>2, <3>3
    <2>7. CASE GiveUp
      BY <2>0, <2>7 DEF GiveUp
    <2>8. CASE ExtractCandidates
      <3>1. \A i \in items' : IsItem(i)
        BY <2>8 DEF ExtractCandidates, IngestedColumns, IngestedPairs, IsItem
      <3> QED
        BY <2>0, <2>8, <3>1 DEF ExtractCandidates
    <2>9. CASE CountCandidates
      <3>1. \A k \in DOMAIN attempts' : AttemptOf("detect", k, LoadTokenMap(frequency), attempts'[k])
        BY <2>9, TasksScore DEF CountCandidates
      <3> QED
        BY <2>0, <2>9, <3>1 DEF CountCandidates
    <2>10. CASE CheckCandidates
      BY <2>0, <2>10 DEF CheckCandidates
    <2>11. CASE BatchScore
      BY <2>0, <2>11 DEF BatchScore
    <2>12. CASE CorpusNotFound
      BY <2>0, <2>12 DEF CorpusNotFound
    <2>13. CASE UNCHANGED vars
      BY <2>0, <2>13 DEF vars
    <2> QED
      BY <2>1, <2>2, <2>3, <2>4, <2>5, <2>6, <2>7, <2>8, <2>9, <2>10, <2>11, <2>12, <2>13 DEF Next
  <1> QED
    BY <1>1, <1>2, VerdictsComputed, PTL DEF Spec

\* Builder and detectors agree: a scanned column or pair that the corpus contains is compared
\* with itself, if the token table fits into the detector's map.
THEOREM OwnObservation == Spec => []OwnObservationFound
  <1>1. ASSUME VerdictInv, ScoredInv, CorpusInv, input \in Inputs, ScanTypeOK PROVE OwnObservationFound
    <2> SUFFICES ASSUME corpus # NoCorpus, Cardinality(DOMAIN frequency) <= MaxTokens,
                        NEW k \in DOMAIN verdicts \cap DOMAIN corpus
                 PROVE  k \in Numerator(corpus, et, attempts[k]) /\ verdicts[k].numerator >= 1
      BY DEF OwnObservationFound
    <2>1. phase = "done" /\ k \in Frame /\ verdicts[k] = Verdict(corpus, et, attempts[k], cfg)
      BY <1>1 DEF VerdictInv
    <2>2. LoadTokenMap(frequency) = frequency
      BY <1>1, WholeMapLoaded DEF ScanTypeOK, ScoredInv
    <2>3. AttemptOf("detect", k, frequency, attempts[k]) /\ attempts[k].result = "scored"
      BY <1>1, <2>1, <2>2 DEF ScoredInv, Frame
    <2>4. PICK a : /\ AttemptOf("build", k, frequency, a) /\ a.result = "scored"
                   /\ corpus[k] = [bucket |-> a.bucket, before |-> a.before, after |-> a.after]
      BY <1>1 DEF CorpusInv
    <2>5. a = attempts[k]
      <3>1. PICK i : IsItem(i) /\ i.id = k /\ attempts[k] = Attempt("detect", et, i, frequency, cfg)
        BY <2>3 DEF AttemptOf
      <3>2. PICK j : IsItem(j) /\ j.id = k /\ a = Attempt("build", et, j, frequency, cfg)
        BY <2>4 DEF AttemptOf
      <3>3. i = j
        BY <3>1, <3>2, UniqueIds
      <3>4. et \in ErrorTypes
        BY <1>1, InputValid
      <3> QED
        BY <2>3, <2>4, <3>1, <3>2, <3>3, <3>4, SidesAgree
    <2>6. Numeric(corpus)
      BY <1>1 DEF ScanTypeOK, Numeric
    <2>7. k \in Numerator(corpus, et, attempts[k])
      BY <2>4, <2>5, <2>6 DEF Numerator, Bucket, AtMost, Numeric
    <2>8. /\ IsFiniteSet(Numerator(corpus, et, attempts[k]))
          /\ verdicts[k].numerator = Cardinality(Numerator(corpus, et, attempts[k]))
      BY <2>1, <2>6, CountsAreCounts
    <2>9. Cardinality(Numerator(corpus, et, attempts[k])) \in Nat /\ Cardinality(Numerator(corpus, et, attempts[k])) # 0
      BY <2>7, <2>8, FS_EmptySet, FS_CardinalityType
    <2> QED
      BY <2>7, <2>8, <2>9
  <1> QED
    BY <1>1, VerdictsComputed, ScoresInvariant, InputChosen, TypesCorrect, PTL

-----------------------------------------------------------------------------
\* What is flagged.

Examined(k) == CHOOSE i \in items : i.id = k

\* When the tasks are done, the items they scored are still there.
ExaminedInv ==
  phase \in {"check", "checkCandidates"} =>
    \A k \in DOMAIN attempts :
      /\ HasValues(Examined(k))
      /\ \E side, map : attempts[k] = Attempt(side, et, Examined(k), map, cfg)

LEMMA TasksExamine ==
  ASSUME NEW side, RunTasks(side), input' = input, items' = items, \A i \in items : HasValues(i)
  PROVE  \A k \in DOMAIN attempts' :
           /\ HasValues(Examined(k))'
           /\ attempts'[k] = Attempt(side, et', Examined(k)', tokenMap, cfg')
  <1> SUFFICES ASSUME NEW k \in DOMAIN attempts'
               PROVE  HasValues(Examined(k))' /\ attempts'[k] = Attempt(side, et', Examined(k)', tokenMap, cfg')
    OBVIOUS
  <1>1. et' = et /\ cfg' = cfg /\ Examined(k)' = Examined(k)
    BY DEF et, cfg, Examined
  <1>2. k \in {i.id : i \in items} /\ attempts'[k] = Attempt(side, et, Examined(k), tokenMap, cfg)
    BY DEF RunTasks, Examined
  <1>3. Examined(k) \in items
    BY <1>2 DEF Examined
  <1>4. HasValues(Examined(k))
    BY <1>3
  <1>5. HasValues(Examined(k))'
    BY <1>1, <1>4 DEF HasValues
  <1> QED
    BY <1>1, <1>2, <1>5

LEMMA ItemsExamined == Spec => []ExaminedInv
  <1>1. Init => ExaminedInv
    BY DEF Init, ExaminedInv
  <1>2. TypesInv /\ ExaminedInv /\ [Next]_vars => ExaminedInv'
    <2> SUFFICES ASSUME TypesInv, ExaminedInv, [Next]_vars PROVE ExaminedInv'
      OBVIOUS
    <2>1. phase \in {"count", "countCandidates"} => \A i \in items : HasValues(i)
      BY DEF TypesInv, ItemsInv
    <2>2. CASE CountFrame
      <3>1. RunTasks("build") /\ input' = input /\ items' = items /\ \A i \in items : HasValues(i)
        BY <2>1, <2>2 DEF CountFrame
      <3> QED
        BY <3>1, TasksExamine DEF ExaminedInv
    <2>3. CASE CountCandidates
      <3>1. RunTasks("detect") /\ input' = input /\ items' = items /\ \A i \in items : HasValues(i)
        BY <2>1, <2>3 DEF CountCandidates
      <3> QED
        BY <3>1, TasksExamine DEF ExaminedInv
    <2>4. CASE Next /\ ~CountFrame /\ ~CountCandidates
      <3>1. phase' \notin {"check", "checkCandidates"}
        BY <2>4 DEF Next, ListCorpus, IngestColumns, IngestPairs, CheckFrame, Publish, WriteFrame,
                    WriteAgain, GiveUp, ExtractCandidates, CheckCandidates, BatchScore, CorpusNotFound
      <3> QED
        BY <3>1 DEF ExaminedInv
    <2>5. CASE UNCHANGED vars
      <3>1. input' = input /\ items' = items /\ attempts' = attempts /\ phase' = phase
        BY <2>5 DEF vars
      <3>2. et' = et /\ cfg' = cfg /\ \A k : Examined(k)' = Examined(k)
        BY <3>1 DEF et, cfg, Examined
      <3>3. ASSUME NEW k, HasValues(Examined(k)) PROVE HasValues(Examined(k))'
        BY <3>1, <3>2, <3>3 DEF HasValues
      <3> QED
        BY <3>1, <3>2, <3>3 DEF ExaminedInv
    <2> QED
      BY <2>2, <2>3, <2>4, <2>5
  <1> QED
    BY <1>1, <1>2, TypesInvariant, PTL DEF Spec

\* The four kinds of repair, each of an item whose values have their type.
Examining(k) ==
  /\ input \in Inputs /\ k \in Frame /\ HasValues(Examined(k))
  /\ \E side, map : attempts[k] = Attempt(side, et, Examined(k), map, cfg)

LEMMA UniquenessCase ==
  ASSUME NEW k, Examining(k), et = "uniqueness"
  PROVE  RepairsUniqueness(k, ValuesOf(k))
  <1> DEFINE values == ValuesOf(k)
             V == ValuesIn(input)
             o == PerturbUniqueness(values, cfg.epsilon)
  <1>1. values = Examined(k).values
    BY DEF ValuesOf, Examined
  <1>2. values \in Seq(V)
    BY <1>1 DEF Examining, HasValues
  <1>3. Values(V) /\ et \in ErrorTypes /\ IsEpsilon(cfg.epsilon)
    BY InputValid DEF Examining, ValidInput, IsValue, IsDistance, Values, ValidConfig, IsEpsilon
  <1>4. Len(values) >= 5 /\ Carries(attempts[k], o)
    <2>1. PICK side, map : attempts[k] = Attempt(side, et, Examined(k), map, cfg)
      BY DEF Examining
    <2>2. attempts[k].result = "scored"
      BY DEF Examining, Frame
    <2> QED
      BY <1>1, <1>2, <1>3, <2>1, <2>2, AttemptOutcome
  <1> HIDE DEF values, V
  <1>5. Rest(k) = Without(values, o.dropped)
    BY <1>4 DEF Rest, Carries, values
  <1> HIDE DEF o
  <1>6. /\ ToSet(Rest(k)) = ToSet(values)
        /\ \/ Len(Rest(k)) = Cardinality(ToSet(values))
           \/ Cardinality(o.dropped) = Budget(Len(values), cfg.epsilon)
        /\ o.before <= o.after
    BY <1>2, <1>3, <1>4, <1>5, UniquenessRepaired DEF o
  <1> QED
    BY <1>4, <1>6 DEF RepairsUniqueness, Carries, values

LEMMA DependencyCase ==
  ASSUME NEW k, Examining(k), et = "functional_dependency"
  PROVE  RepairsDependency(k, ValuesOf(k))
  <1> DEFINE rows == ValuesOf(k)
             V == ValuesIn(input)
             o == PerturbFunctionalDependency(rows, cfg.epsilon)
  <1>1. rows = Examined(k).values
    BY DEF ValuesOf, Examined
  <1>2. rows \in Seq(V \X V)
    BY <1>1 DEF Examining, HasValues
  <1>3. Values(V) /\ et \in ErrorTypes /\ IsEpsilon(cfg.epsilon)
    BY InputValid DEF Examining, ValidInput, IsValue, IsDistance, Values, ValidConfig, IsEpsilon
  <1>4. Len(rows) >= 5 /\ Carries(attempts[k], o)
    <2>1. PICK side, map : attempts[k] = Attempt(side, et, Examined(k), map, cfg)
      BY DEF Examining
    <2>2. attempts[k].result = "scored"
      BY DEF Examining, Frame
    <2> QED
      BY <1>1, <1>2, <1>3, <2>1, <2>2, AttemptOutcome
  <1> HIDE DEF rows, V
  <1>5. Rest(k) = Without(rows, o.dropped)
    BY <1>4 DEF Rest, Carries, rows
  <1> HIDE DEF o
  <1>6. /\ {r[1] : r \in ToSet(Rest(k))} = {r[1] : r \in ToSet(rows)}
        /\ Obeys(Rest(k), DOMAIN Rest(k)) \/ Cardinality(o.dropped) = Budget(Len(rows), cfg.epsilon)
        /\ \A other \in SUBSET DOMAIN rows :
             Obeys(rows, DOMAIN rows \ other) => Cardinality(o.dropped) <= Cardinality(other)
        /\ o.before <= o.after
    BY <1>2, <1>3, <1>4, <1>5, DependencyRepaired DEF o
  <1>7. ASSUME NEW other, Holds(Without(rows, other)) PROVE Obeys(rows, DOMAIN rows \ other)
    <2>1. Obeys(Without(rows, other), DOMAIN Without(rows, other))
      BY <1>7 DEF Holds, Obeys
    <2> QED
      BY <1>2, <2>1, ObeysWithout
  <1>8. Holds(Rest(k)) <=> Obeys(Rest(k), DOMAIN Rest(k))
    BY DEF Holds, Obeys
  <1> QED
    BY <1>4, <1>6, <1>7, <1>8 DEF RepairsDependency, Carries, rows

LEMMA OutlierCase ==
  ASSUME NEW k, Examining(k), et = "numeric_outlier"
  PROVE  RepairsOutlier(k, ValuesOf(k))
  <1> DEFINE values == ValuesOf(k)
             V == ValuesIn(input)
             o == PerturbNumericOutlier(values)
  <1>1. values = Examined(k).values
    BY DEF ValuesOf, Examined
  <1>2. values \in Seq(V)
    BY <1>1 DEF Examining, HasValues
  <1>3. Values(V) /\ et \in ErrorTypes
    BY InputValid DEF Examining, ValidInput, IsValue, IsDistance, Values
  <1>4. Len(Finite(values)) >= 5 /\ Carries(attempts[k], o)
    <2>1. PICK side, map : attempts[k] = Attempt(side, et, Examined(k), map, cfg)
      BY DEF Examining
    <2>2. attempts[k].result = "scored"
      BY DEF Examining, Frame
    <2> QED
      BY <1>1, <1>2, <1>3, <2>1, <2>2, AttemptOutcome
  <1> HIDE DEF values, V, o
  <1>5. PICK p \in DOMAIN values :
          /\ o.dropped = {p} /\ values[p].number # NoNumber
          /\ \/ \A i \in DOMAIN values : values[i].number # NoNumber => values[i].number <= values[p].number
             \/ \A i \in DOMAIN values : values[i].number # NoNumber => values[p].number <= values[i].number
    BY <1>2, <1>3, <1>4, OutlierDropped DEF o
  <1> QED
    BY <1>4, <1>5 DEF RepairsOutlier, Carries, values

\* The texts of the values of an input are words.
LEMMA TextsAreWords ==
  ASSUME input \in Inputs
  PROVE  Words({v.text : v \in ValuesIn(input)})
  <1> DEFINE V == ValuesIn(input)
  <1>1. /\ \A v \in V : IsValue(v)
        /\ \A v, w \in V : /\ IsDistance(v.text, w.text, Levenshtein(v.text, w.text))
                           /\ Levenshtein(v.text, w.text) = Levenshtein(w.text, v.text)
    BY InputValid DEF ValidInput
  <1> HIDE DEF V
  <1>2. {v.text : v \in V} \in SUBSET Seq(Int)
    BY <1>1 DEF IsValue
  <1>3. ASSUME NEW u \in {v.text : v \in V}, NEW w \in {v.text : v \in V}
        PROVE  IsDistance(u, w, Levenshtein(u, w)) /\ Levenshtein(u, w) = Levenshtein(w, u)
    BY <1>1
  <1> QED
    BY <1>2, <1>3 DEF Words, V

LEMMA SpellingCase ==
  ASSUME NEW k, Examining(k), et = "spelling"
  PROVE  RepairsSpelling(k, ValuesOf(k))
  <1> DEFINE values == ValuesOf(k)
             V == ValuesIn(input)
             words == {v.text : v \in ToSet(values)}
             left == {v.text : v \in ToSet(Rest(k))}
  <1>1. values = Examined(k).values
    BY DEF ValuesOf, Examined
  <1>2. values \in Seq(V)
    BY <1>1 DEF Examining, HasValues
  <1>3. Values(V) /\ et \in ErrorTypes /\ cfg.blockSize \in Nat /\ cfg.blockSize >= 2
    BY InputValid DEF Examining, ValidInput, IsValue, IsDistance, Values, ValidConfig
  <1>4. Words({v.text : v \in V})
    BY TextsAreWords DEF Examining
  <1>5. PICK o \in PerturbSpelling(values, cfg.blockSize) : Carries(attempts[k], o)
    <2>1. PICK side, map : attempts[k] = Attempt(side, et, Examined(k), map, cfg)
      BY DEF Examining
    <2>2. attempts[k].result = "scored"
      BY DEF Examining, Frame
    <2>3. et # "functional_dependency"
      OBVIOUS
    <2>4. \E o \in PerturbSpelling(Examined(k).values, cfg.blockSize) : Carries(attempts[k], o)
      <3>1. Examined(k).values \in Seq(V)
        BY <1>1, <1>2
      <3> DEFINE item == Examined(k)
                 a == attempts[k]
                 outcome == \E o \in PerturbSpelling(item.values, cfg.blockSize) : Carries(a, o)
      <3>2. item.values \in Seq(V) /\ Values(V) /\ et \in ErrorTypes
        BY <1>3, <3>1
      <3>3. a = Attempt(side, et, item, map, cfg) /\ a.result = "scored"
        BY <2>1, <2>2
      <3> HIDE DEF values, V, words, left, item, a
      <3>4. a.result = "scored" => (et = "spelling" => \E o \in PerturbSpelling(item.values, cfg.blockSize) : Carries(a, o))
        BY <2>3, <3>2, <3>3, AttemptOutcome
      <3> QED
        BY <3>3, <3>4 DEF item, a
    <2> QED
      BY <1>1, <2>4
  <1> HIDE DEF values, V
  <1>6. left = {v.text : v \in ToSet(Without(values, o.dropped))}
    BY <1>5 DEF Rest, Carries, values
  <1>7. words = {v.text : v \in ToSet(values)}
    OBVIOUS
  <1> HIDE DEF words, left
  <1>8. IsMended(words, left, cfg.blockSize, o)
    BY <1>2, <1>3, <1>4, <1>6, <1>7, SpellingRepaired
  <1>9. IsMended(words, left, cfg.blockSize, attempts[k])
    BY <1>5, <1>8 DEF Carries, IsMended
  <1>10. IsMended(words, left, cfg.blockSize, attempts[k]) <=> RepairsSpelling(k, values)
    BY DEF IsMended, RepairsSpelling, Gaps, IsThinned, Sharing, words, left
  <1> QED
    BY <1>9, <1>10 DEF values

\* A column fails only if no two of its words are one edit apart.
LEMMA FailedCase ==
  ASSUME NEW k \in Failed, input \in Inputs, HasValues(Examined(k)),
         \E side, map : attempts[k] = Attempt(side, et, Examined(k), map, cfg)
  PROVE  \A v, w \in ToSet(ValuesOf(k)) : Levenshtein(v.text, w.text) # 1
  <1> DEFINE values == ValuesOf(k)
             V == ValuesIn(input)
             texts == TextsOf(values)
             words == ToSet(texts)
  <1>1. values = Examined(k).values
    BY DEF ValuesOf, Examined
  <1>2. Values(V) /\ et \in ErrorTypes /\ cfg.blockSize \in Nat /\ cfg.blockSize >= 2
    BY InputValid DEF ValidInput, IsValue, IsDistance, Values, ValidConfig
  <1>3. /\ et # "functional_dependency" => values \in Seq(V)
        /\ et = "functional_dependency" => values \in Seq(V \X V)
    BY <1>1 DEF HasValues
  <1>4. et = "spelling" /\ MinPairwise(texts, cfg.blockSize) = {}
    <2>1. PICK side, map : attempts[k] = Attempt(side, et, Examined(k), map, cfg)
      OBVIOUS
    <2>2. attempts[k].result = "failed"
      BY DEF Failed
    <2> HIDE DEF V
    <2> QED
      BY <1>1, <1>2, <1>3, <2>1, <2>2, AttemptOutcome
  <1>5. values \in Seq(V)
    BY <1>3, <1>4
  <1> HIDE DEF values, V
  <1>6. Words({v.text : v \in V})
    BY TextsAreWords DEF V
  <1>7. texts \in Seq({v.text : v \in V}) /\ \A v \in ToSet(values) : v.text \in words
    <2>1. DOMAIN values = 1..Len(values) /\ Len(values) \in Nat /\ \A i \in DOMAIN values : values[i] \in V
      BY <1>5
    <2>2. texts \in Seq({v.text : v \in V}) /\ DOMAIN texts = DOMAIN values /\ \A i \in DOMAIN values : texts[i] = values[i].text
      BY <2>1 DEF TextsOf
    <2> QED
      BY <2>2 DEF ToSet
  <1> HIDE DEF texts
  <1>8. 1 \notin Gaps(words)
    BY <1>2, <1>4, <1>6, <1>7, ClosestWords
  <1>9. \A u, w \in words : Levenshtein(u, w) # 1
    BY <1>8 DEF Gaps
  <1> HIDE DEF words
  <1> QED
    BY <1>7, <1>9 DEF values

\* What is flagged is an error in the sense of its type, found within the budget of epsilon,
\* and dropping it leaves the rest intact: of every column, whatever it contains.  Words one
\* edit apart are always compared, so that only columns without such words fail.
THEOREM FlaggedRepaired == Spec => []FlaggedIsRepaired
  <1>1. ASSUME ExaminedInv, input \in Inputs PROVE FlaggedIsRepaired
    <2> SUFFICES ASSUME phase \in {"check", "checkCandidates"} PROVE FlaggedIsRepaired
      BY DEF FlaggedIsRepaired
    <2>1. \A k \in DOMAIN attempts :
            HasValues(Examined(k)) /\ \E side, map : attempts[k] = Attempt(side, et, Examined(k), map, cfg)
      BY <1>1 DEF ExaminedInv
    <2>2. \A k \in Failed : \A v, w \in ToSet(ValuesOf(k)) : Levenshtein(v.text, w.text) # 1
      <3> SUFFICES ASSUME NEW k \in Failed
                   PROVE  \A v, w \in ToSet(ValuesOf(k)) : Levenshtein(v.text, w.text) # 1
        OBVIOUS
      <3>1. k \in DOMAIN attempts
        BY DEF Failed
      <3> QED
        BY <1>1, <2>1, <3>1, FailedCase
    <2>3. \A k \in Frame : Examining(k)
      BY <1>1, <2>1 DEF Frame, Examining
    <2>4. et \in ErrorTypes
      BY <1>1, InputValid
    <2>5. \A k \in Frame : /\ et = "uniqueness" => RepairsUniqueness(k, ValuesOf(k))
                           /\ et = "functional_dependency" => RepairsDependency(k, ValuesOf(k))
                           /\ et = "numeric_outlier" => RepairsOutlier(k, ValuesOf(k))
                           /\ et = "spelling" => RepairsSpelling(k, ValuesOf(k))
      BY <2>3, UniquenessCase, DependencyCase, OutlierCase, SpellingCase
    <2> QED
      BY <2>2, <2>4, <2>5 DEF FlaggedIsRepaired, ErrorTypes
  <1> QED
    BY <1>1, ItemsExamined, InputChosen, PTL

=============================================================================
