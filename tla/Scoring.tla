------------------------------- MODULE Scoring -------------------------------
(***************************************************************************)
(* What the corpus builder and the detectors compute for one column or     *)
(* column pair (uni_detect/perturbation.py, featurization.py, the _score   *)
(* functions of corpus/builder.py and of the detectors), and how           *)
(* batch_score compares an observation with the corpus.                    *)
(*                                                                         *)
(* A value is a record: its text, the finite number it parses to or        *)
(* NoNumber, its tokens in lower case, its type.  An item is a column, or  *)
(* an ordered pair of columns whose values are pairs; its id starts with   *)
(* the name of its table.  A text is one word.  Evidence is left out.      *)
(***************************************************************************)
EXTENDS Metrics

CONSTANTS
  High,         \* _UNDEFINED_AFTER_HIGH
  NoNumber,     \* a text that does not parse to a finite number
  SampleSize,   \* how many values infer_column_data_type looks at
  LogShaped     \* the sequences of positive numbers that log1p makes less skewed

ASSUME HighAssumption == High \in Nat /\ High > Scale

\* w is u with one more character.
OneLonger(u, w) ==
  /\ Len(w) = Len(u) + 1
  /\ \E p \in DOMAIN w : /\ \A k \in 1..(p - 1) : u[k] = w[k]
                         /\ \A k \in p..Len(u) : u[k] = w[k + 1]

OneEdit(u, w) ==
  \/ OneLonger(u, w) \/ OneLonger(w, u)
  \/ Len(u) = Len(w) /\ \E p \in DOMAIN u : \A k \in DOMAIN u : k # p => u[k] = w[k]

\* rapidfuzz counts edits, and no text is as long as the sentinel is large.
IsDistance(u, w, distance) ==
  /\ distance \in Nat /\ distance <= High
  /\ distance = 0 <=> u = w
  /\ distance = 1 => OneEdit(u, w)

ErrorTypes == {"uniqueness", "functional_dependency", "numeric_outlier", "spelling"}

MinRows == [et \in ErrorTypes |-> IF et = "spelling" THEN 3 ELSE 5]

-----------------------------------------------------------------------------
\* Perturbations: the metric before, the positions dropped, the metric after.

\* A fraction is a pair.
Budget(n, epsilon) == Max({1, (epsilon[1] * n + epsilon[2] - 1) \div epsilon[2]})

PerturbUniqueness(values, epsilon) ==
  LET dropped == DuplicatesToDrop(values, Budget(Len(values), epsilon))
      rest == Without(values, dropped)
  IN [before |-> UniquenessRatio(values), dropped |-> dropped,
      after |-> IF Len(rest) >= 2 THEN UniquenessRatio(rest) ELSE High]

PerturbFunctionalDependency(rows, epsilon) ==
  LET dropped == MinorityRows(rows, Budget(Len(rows), epsilon))
      rest == Without(rows, dropped)
  IN [before |-> ComplianceRatio(rows), dropped |-> dropped,
      after |-> IF Len(rest) >= 2 THEN ComplianceRatio(rest) ELSE High]

\* The positions of the finite numbers.  Both sides ask for five of them.
Finite(values) ==
  Without([i \in DOMAIN values |-> i], {i \in DOMAIN values : values[i].number = NoNumber})

NumbersOf(values) ==
  LET finite == Finite(values) IN [k \in DOMAIN finite |-> values[finite[k]].number]

PerturbNumericOutlier(values) ==
  LET numbers == NumbersOf(values)
      worst == MaxMad(numbers)
  IN [before |-> worst.score, dropped |-> {Finite(values)[worst.index]},
      after |-> MaxMad(Without(numbers, {worst.index})).score]

TextsOf(values) == [i \in DOMAIN values |-> values[i].text]

\* Every occurrence of the first word of the closest pair.
Misspelled(values, mpd, blockSize) ==
  LET dropped == Occurrences(TextsOf(values), mpd.pair[1])
      rest == MinPairwise(Without(TextsOf(values), dropped), blockSize)
  IN [pair |-> mpd.pair, dropped |-> dropped, before |-> mpd.mpd,
      after |-> IF rest = {} THEN High ELSE (CHOOSE r \in rest : TRUE).mpd]

\* The outcome, {} if no two words are compared.
PerturbSpelling(values, blockSize) ==
  {Misspelled(values, mpd, blockSize) : mpd \in MinPairwise(TextsOf(values), blockSize)}

-----------------------------------------------------------------------------
\* Featurization.

\* Which half-open range between the edges the fraction num / den lies in.
BucketByEdges(num, den, edges) == Cardinality({k \in DOMAIN edges : edges[k] * den < num})

Leftness(index) == Min({index, 10})

\* A type with a majority of three fifths; the most permissive one without.
InferType(values) ==
  LET sample == SubSeq(values, 1, Min({SampleSize, Len(values)}))
      Share(t) == Cardinality({i \in DOMAIN sample : sample[i].type = t})
      clear == {t \in {v.type : v \in ToSet(sample)} : 5 * Share(t) >= 3 * Len(sample)}
  IN IF clear = {} THEN "string" ELSE CHOOSE t \in clear : TRUE

\* Prev(C): the mean document frequency of the tokens, an unknown one counting 0.
PrevalenceBucket(values, frequency, edges) ==
  LET all == FlattenSeq([i \in DOMAIN values |-> values[i].tokens])
      sum == FoldLeft(LAMBDA s, t : IF t \in DOMAIN frequency THEN s + frequency[t] ELSE s, 0, all)
  IN BucketByEdges(sum, Max({1, Len(all)}), edges)

UniquenessBucket(values, item, frequency, cfg) ==
  <<InferType(values), BucketByEdges(item.rows, 1, cfg.rowEdges), Leftness(item.index),
    PrevalenceBucket(values, frequency, cfg.prevalenceEdges)>>

OutlierBucket(item, cfg) ==
  LET numbers == NumbersOf(item.values)
  IN <<"float", BucketByEdges(item.rows, 1, cfg.rowEdges),
       (\A i \in DOMAIN numbers : numbers[i] > 0) /\ numbers \in LogShaped>>

SpellingBucket(item, pair, cfg) ==
  <<InferType(item.values), BucketByEdges(item.rows, 1, cfg.rowEdges),
    BucketByEdges(Max({Len(pair[1]), Len(pair[2])}), 1, cfg.lengthEdges)>>

-----------------------------------------------------------------------------
\* Scoring one item.  The builder raises InsufficientDataError for an item with too few
\* values, which is counted as not applicable; a detector passes over it before counting,
\* and has no candidate for an item of which nothing would be dropped.
Unscored(result) == [result |-> result]

Scored(bucket, o) == [result |-> "scored", bucket |-> bucket, before |-> o.before,
                      after |-> o.after, dropped |-> o.dropped]

TooFew(side) == Unscored(IF side = "build" THEN "notApplicable" ELSE "ignored")

IfFlagged(side, score) ==
  IF side = "detect" /\ score.dropped = {} THEN Unscored("clean") ELSE score

ScoreUniqueness(side, item, frequency, cfg) ==
  IF Len(item.values) < MinRows["uniqueness"] THEN TooFew(side)
  ELSE IfFlagged(side, Scored(UniquenessBucket(item.values, item, frequency, cfg),
                              PerturbUniqueness(item.values, cfg.epsilon)))

\* Featurized by the right-hand side.
ScoreFunctionalDependency(side, item, frequency, cfg) ==
  IF Len(item.values) < MinRows["functional_dependency"] THEN TooFew(side)
  ELSE LET rhs == [i \in DOMAIN item.values |-> item.values[i][2]]
       IN IfFlagged(side, Scored(UniquenessBucket(rhs, item, frequency, cfg),
                                 PerturbFunctionalDependency(item.values, cfg.epsilon)))

\* For the builder a column is numeric if four fifths of it are; a detector does not ask.
ScoreNumericOutlier(side, item, cfg) ==
  LET usable == Len(Finite(item.values))
  IN IF \/ usable < MinRows["numeric_outlier"]
        \/ side = "build" /\ 5 * usable < 4 * Len(item.values)
     THEN TooFew(side)
     ELSE Scored(OutlierBucket(item, cfg), PerturbNumericOutlier(item.values))

\* A column of more than blockSize words no two of which are compared raises ValidationError.
ScoreSpelling(side, item, cfg) ==
  LET scores == {Scored(SpellingBucket(item, o.pair, cfg), o) : o \in PerturbSpelling(item.values, cfg.blockSize)}
  IN IF Len(item.values) < MinRows["spelling"] THEN TooFew(side)
     ELSE IF Cardinality(ToSet(TextsOf(item.values))) < 2 THEN Unscored("notApplicable")
     ELSE IF scores = {} THEN Unscored("failed")
     ELSE CHOOSE score \in scores : TRUE

Attempt(side, et, item, frequency, cfg) ==
  CASE et = "uniqueness" -> ScoreUniqueness(side, item, frequency, cfg)
    [] et = "functional_dependency" -> ScoreFunctionalDependency(side, item, frequency, cfg)
    [] et = "numeric_outlier" -> ScoreNumericOutlier(side, item, cfg)
    [] et = "spelling" -> ScoreSpelling(side, item, cfg)

-----------------------------------------------------------------------------
\* batch_score.  A corpus is a function from items to observations.

\* x is at most y in the direction in which the metric of et moves when errors are dropped.
AtMost(et, x, y) == IF et = "numeric_outlier" THEN y <= x ELSE x <= y

Bucket(corpus, b) == {k \in DOMAIN corpus : corpus[k].bucket = b}

\* Mutant: the two sides of the first condition are swapped.
X_Numerator(corpus, et, c) ==
  {k \in Bucket(corpus, c.bucket) : /\ AtMost(et, c.before, corpus[k].before)
                                    /\ AtMost(et, c.after, corpus[k].after)}

\* Mutant: compares the metric after the perturbation on both sides.
X_Denominator(corpus, et, c) ==
  {k \in Bucket(corpus, c.bucket) : AtMost(et, corpus[k].after, c.after)}

\* The corpus observations that start lower and end higher, and those that start lower than
\* the candidate ends.
Numerator(corpus, et, c) ==
  {k \in Bucket(corpus, c.bucket) : /\ AtMost(et, corpus[k].before, c.before)
                                    /\ AtMost(et, c.after, corpus[k].after)}

Denominator(corpus, et, c) ==
  {k \in Bucket(corpus, c.bucket) : AtMost(et, corpus[k].before, c.after)}

\* The smoothed ratio is (numerator + s) / (denominator + s), for a fraction s.
Significant(numerator, denominator, cfg) ==
  LET s == cfg.smoothing
  IN (numerator * s[2] + s[1]) * cfg.alpha[2] <= cfg.alpha[1] * (denominator * s[2] + s[1])

Verdict(corpus, et, c, cfg) ==
  LET n == Cardinality(Numerator(corpus, et, c))
      d == Cardinality(Denominator(corpus, et, c))
  IN [numerator |-> n, denominator |-> d, support |-> Cardinality(Bucket(corpus, c.bucket)),
      significant |-> Significant(n, d, cfg)]

=============================================================================
