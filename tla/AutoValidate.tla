---------------------------- MODULE AutoValidate ----------------------------
(***************************************************************************)
(* Auto-Validate (algorithms/auto_validate/): build_index scans a corpus   *)
(* column by column, infer_pattern solves one of four optimization         *)
(* problems for a column, detect judges the column's cells by the inferred *)
(* pattern and check_drift counts how many values of a later column        *)
(* conform to it.  One object is used by one caller.                       *)
(*                                                                         *)
(* Fractions are integers: an impurity, an FPR and the threshold r are     *)
(* multiples of 1 / Scale.  Float rounding, scores, evidence and the       *)
(* p-value of Fisher's test are left out; the lexicographic order that     *)
(* breaks the last ties is some fixed order.                               *)
(***************************************************************************)
EXTENDS AutoValidatePatterns, SequencesExt

CONSTANTS
  Null,        \* a null cell
  BadEntry,    \* a corpus entry that is no column
  Corpora,     \* sequences of columns
  Columns,     \* the columns that are scanned: sequences of cells
  Configs,     \* records [variant, r, m, tau, theta], theta a fraction <<n, d>>
  Scale,
  NoIndex

Variants == {"fmdv", "fmdv_h", "fmdv_v", "fmdv_vh"}

ASSUME ConfigsAssumption ==
  \A c \in Configs : /\ c.variant \in Variants
                     /\ c.r \in 0 .. Scale
                     /\ c.m \in Nat \ {0}
                     /\ c.tau \in Nat \ {0}
                     /\ c.theta[1] \in 0 .. c.theta[2]
                     /\ c.theta[2] \in Nat \ {0}

Cells == {Null} \union Seq(Tokens)

ASSUME ColumnsAssumption == \A c \in Columns : c \in Seq(Cells)

ASSUME CorporaAssumption == \A k \in Corpora : k \in Seq({BadEntry} \union Seq(Cells))

ASSUME ScaleAssumption ==
  /\ Scale \in Nat \ {0}
  /\ \A k \in Corpora : \A i, j \in DOMAIN k :
       k[j] # BadEntry => \A n \in 1 .. Len(k[j]) : Scale % (n * i) = 0

VARIABLES
  config,      \* AutoValidateConfig
  todo,        \* the corpus columns build_pattern_index has not read yet
  building,    \* build_index is running
  local,       \* pattern -> [sum, cols], the impurities added up so far
  index,       \* self._index
  column,      \* the column detect works on
  inferred,    \* its InferredPattern
  verdicts,    \* one verdict per cell
  drift,       \* what check_drift counted
  pc           \* idle, inferred, judged or raised

vars == <<config, todo, building, local, index, column, inferred, verdicts, drift, pc>>

(* The rows of a column that hold a value, with their values.              *)
Clean(cells) ==
  [i \in {j \in DOMAIN cells : cells[j] # Null /\ cells[j] # << >>} |-> cells[i]]

Size(values) == Cardinality(DOMAIN values)

Candidates(values) == UNION {PatternsOf(values[i], config.tau) : i \in DOMAIN values}

\* sum(numbers)
Total(numbers) ==
  LET sum[k \in 0 .. Len(numbers)] == IF k = 0 THEN 0 ELSE sum[k - 1] + numbers[k]
  IN  sum[Len(numbers)]

(***************************************************************************)
(* The offline index                                                       *)
(***************************************************************************)
Indexable(values) == Restrict(values, {i \in DOMAIN values : Len(values[i]) < config.tau})

(* match_counts: in how many of the pattern sets, one per row, p occurs.   *)
MatchCount_Distinct(p, sets) == Cardinality({S \in Range(sets) : p \in S})

MatchCount(p, sets) == Cardinality({i \in DOMAIN sets : p \in sets[i]})

AddColumn(values) ==
  LET n == Size(values)
      sets == [i \in DOMAIN values |-> PatternsOf(values[i], config.tau)]
      found == UNION Range(sets)
      Impurity(p) == (Scale * (n - MatchCount(p, sets))) \div n
      Old(p) == IF p \in DOMAIN local THEN local[p] ELSE [sum |-> 0, cols |-> 0]
  IN  [p \in DOMAIN local \union found |->
         IF p \in found
         THEN [sum |-> Old(p).sum + Impurity(p), cols |-> Old(p).cols + 1]
         ELSE local[p]]

Entries == [p \in DOMAIN local |-> [fpr |-> local[p].sum \div local[p].cols, cov |-> local[p].cols]]

StartBuild(k) ==
  /\ ~building /\ pc = "idle"
  /\ building' = TRUE
  /\ todo' = k
  /\ local' = << >>
  /\ UNCHANGED <<config, index, column, inferred, verdicts, drift, pc>>

ScanColumn ==
  /\ building /\ todo # << >> /\ Head(todo) # BadEntry
  /\ todo' = Tail(todo)
  /\ local' = LET values == Indexable(Clean(Head(todo)))
              IN  IF Size(values) = 0 THEN local ELSE AddColumn(values)
  /\ UNCHANGED <<config, building, index, column, inferred, verdicts, drift, pc>>

(* ValidationError leaves the index of the previous build in place.        *)
BuildRaises_Publishes ==
  /\ building /\ todo # << >> /\ Head(todo) = BadEntry
  /\ building' = FALSE
  /\ index' = Entries
  /\ todo' = << >>
  /\ local' = << >>
  /\ UNCHANGED <<config, column, inferred, verdicts, drift, pc>>

BuildRaises ==
  /\ building /\ todo # << >> /\ Head(todo) = BadEntry
  /\ building' = FALSE
  /\ todo' = << >>
  /\ local' = << >>
  /\ UNCHANGED <<config, index, column, inferred, verdicts, drift, pc>>

FinishBuild ==
  /\ building /\ todo = << >>
  /\ building' = FALSE
  /\ index' = Entries
  /\ local' = << >>
  /\ UNCHANGED <<config, todo, column, inferred, verdicts, drift, pc>>

(***************************************************************************)
(* FMDV and FMDV-H.  FMDV is FMDV-H that tolerates nothing: with every     *)
(* value matched the impurity in the key of FMDV-H is 0 for all.           *)
(***************************************************************************)
MinConforming_Truncated(theta, n) == ((theta[2] - theta[1]) * n) \div theta[2]

MinConforming(theta, n) == ((theta[2] - theta[1]) * n + theta[2] - 1) \div theta[2]

Conforming(p, values) == {i \in DOMAIN values : Matches(p, values[i])}

Required(values, tolerant) ==
  IF tolerant THEN MinConforming(config.theta, Size(values)) ELSE Size(values)

Feasible(values, tolerant) ==
  {p \in Candidates(values) \intersect DOMAIN index :
     /\ index[p].fpr <= config.r
     /\ index[p].cov >= config.m
     /\ Cardinality(Conforming(p, values)) >= Required(values, tolerant)}

(* p is preferred to q: lower FPR, then lower impurity, then coverage.     *)
Preferred_ByCoverage(p, q, values) == index[p].cov > index[q].cov

Preferred(p, q, values) ==
  LET hits(x) == Cardinality(Conforming(x, values))
  IN  \/ index[p].fpr < index[q].fpr
      \/ /\ index[p].fpr = index[q].fpr
         /\ \/ hits(p) > hits(q)
            \/ hits(p) = hits(q) /\ index[p].cov > index[q].cov

(* An inferred pattern is a sequence of signature groups, each a sequence  *)
(* of segment patterns; the code unwraps sequences of length one, and      *)
(* returns None where there are no groups here.                            *)
NoPattern == [groups |-> << >>, fpr |-> 0, cov |-> 0]

Solve(values, tolerant) ==
  LET F == Feasible(values, tolerant)
      best == CHOOSE p \in F : \A q \in F : ~Preferred(q, p, values)
  IN  IF F = {} THEN NoPattern
      ELSE [groups |-> << << best >> >>, fpr |-> index[best].fpr, cov |-> index[best].cov]

(***************************************************************************)
(* Vertical cuts.  The values of a group share their token classes, so     *)
(* that the tokens at one position line up.                                *)
(***************************************************************************)
Signature(v) == [i \in 1 .. Len(v) |-> v[i].class]

FirstRows(values) ==
  {i \in DOMAIN values :
     \A h \in DOMAIN values : Signature(values[h]) = Signature(values[i]) => i <= h}

(* sig_to_idx: the groups, by their first rows.  A group keeps its rows.   *)
Groups(values) ==
  [i \in FirstRows(values) |->
     Restrict(values, {j \in DOMAIN values : Signature(values[j]) = Signature(values[i])})]

\* The number of tokens, the same for all values of a group.
Width(values) == Len(values[CHOOSE i \in DOMAIN values : TRUE])

Slice(values, i, j) == [k \in DOMAIN values |-> SubSeq(values[k], i + 1, j)]

(* The segmentations of j tokens that append the solved segment last[i],   *)
(* tokens i to j, to a segmentation of the first i tokens.                 *)
Extensions(before, last) ==
  {[at       |-> i,
    segments |-> before[i].segments \o last[i].groups[1],
    fpr      |-> before[i].fpr + last[i].fpr,
    cov      |-> before[i].cov + last[i].cov] :
     i \in {h \in DOMAIN last : before[h] # NoPattern /\ last[h] # NoPattern}}

Cheapest_Greedy(ways) == CHOOSE w \in ways : \A x \in ways : w.at >= x.at

(* Of several cheapest ones, the one whose last segment is the longest.    *)
Cheapest(ways) ==
  CHOOSE w \in ways : \A x \in ways : w.fpr < x.fpr \/ (w.fpr = x.fpr /\ w.at <= x.at)

(* The segments that end before token j + 1, by the tokens before them.    *)
LastSegments(values, tolerant, j) ==
  [i \in {h \in 0 .. j - 1 : j - h < config.tau} |-> Solve(Slice(values, i, j), tolerant)]

(* dp[j]: the cheapest segmentation of the first j tokens.                 *)
Segmentations(values, tolerant) ==
  LET dp[j \in 0 .. Width(values)] ==
        LET last == LastSegments(values, tolerant, j)
            ways == Extensions([i \in DOMAIN last |-> dp[i]], last)
        IN  IF j = 0 THEN [at |-> 0, segments |-> << >>, fpr |-> 0, cov |-> 0]
            ELSE IF ways = {} THEN NoPattern ELSE Cheapest(ways)
  IN  dp

SegmentDP(values, tolerant) == Segmentations(values, tolerant)[Width(values)]

Cap_Identity(x) == x

Cap(x) == IF x > Scale THEN Scale ELSE x

AsGroup_Unreversed(best) ==
  IF best = NoPattern THEN NoPattern
  ELSE [groups |-> <<Reverse(best.segments)>>, fpr |-> Cap(best.fpr), cov |-> best.cov]

(* A segmentation of all tokens as the pattern of one signature group.     *)
AsGroup(best) ==
  IF best = NoPattern THEN NoPattern
  ELSE [groups |-> <<best.segments>>, fpr |-> Cap(best.fpr), cov |-> best.cov]

(* _segment_dp: the segments of one signature group.                       *)
SolveGroup(values, tolerant) == AsGroup(SegmentDP(values, tolerant))

(* The solved groups, without the ones that have no feasible segmentation. *)
GroupPatterns(values, tolerant) ==
  LET groups == Groups(values)
      found == [i \in DOMAIN groups |-> SolveGroup(groups[i], tolerant)]
  IN  Restrict(found, {i \in DOMAIN found : found[i] # NoPattern})

(* fmdv_v keeps the best group only, fmdv_vh all of them, in order.        *)
BestGroup(solved) ==
  LET better(i, j) ==
        \/ solved[i].fpr < solved[j].fpr
        \/ solved[i].fpr = solved[j].fpr
             /\ (solved[i].cov > solved[j].cov \/ (solved[i].cov = solved[j].cov /\ i < j))
  IN  solved[CHOOSE i \in DOMAIN solved : \A j \in DOMAIN solved \ {i} : better(i, j)]

AllGroups(solved) ==
  LET all == InOrder(solved)
  IN  [groups |-> [k \in DOMAIN all |-> all[k].groups[1]],
       fpr    |-> Cap(Total([k \in DOMAIN all |-> all[k].fpr])),
       cov    |-> Total([k \in DOMAIN all |-> all[k].cov])]

InferPattern(values) ==
  LET tolerant == config.variant \in {"fmdv_h", "fmdv_vh"}
      solved == GroupPatterns(values, tolerant)
  IN  IF DOMAIN values = {} THEN NoPattern
      ELSE IF config.variant \in {"fmdv", "fmdv_h"} THEN Solve(values, tolerant)
      ELSE IF DOMAIN solved = {} THEN NoPattern
      ELSE IF config.variant = "fmdv_v" THEN BestGroup(solved)
      ELSE AllGroups(solved)

(***************************************************************************)
(* detect, for one column, and check_drift                                 *)
(***************************************************************************)
(* _value_matches: a list is a disjunction.  With several groups, a group  *)
(* of several segments is a list inside the list, which matches cannot     *)
(* hash: any() raises if it gets that far.                                 *)
IsList(group) == DOMAIN group # {1}

Outcome(groups, v) ==
  LET tried == {k \in DOMAIN groups :
                  \A h \in 1 .. k - 1 : ~IsList(groups[h]) /\ ~Matches(groups[h][1], v)}
  IN  IF ~IsList(groups)
      THEN IF \E s \in DOMAIN groups[1] : Matches(groups[1][s], v) THEN "ok" ELSE "error"
      ELSE IF \E k \in tried : ~IsList(groups[k]) /\ Matches(groups[k][1], v) THEN "ok"
      ELSE IF \E k \in tried : IsList(groups[k]) THEN "raises" ELSE "error"

(* With a pattern a blank cell is an error; without one it has no verdict. *)
CellVerdict(cell) ==
  IF cell = Null THEN "none"
  ELSE IF inferred = NoPattern THEN IF cell = << >> THEN "none" ELSE "ok"
  ELSE IF cell = << >> THEN "error"
  ELSE Outcome(inferred.groups, cell)

Infer(cells) ==
  /\ ~building /\ pc = "idle" /\ index # NoIndex
  /\ column' = cells
  /\ inferred' = InferPattern(Clean(cells))
  /\ pc' = "inferred"
  /\ UNCHANGED <<config, todo, building, local, index, verdicts, drift>>

(* IndexNotBuiltError *)
InferWithoutIndex ==
  /\ ~building /\ pc = "idle" /\ index = NoIndex
  /\ pc' = "raised"
  /\ UNCHANGED <<config, todo, building, local, index, column, inferred, verdicts, drift>>

Judge ==
  /\ pc = "inferred"
  /\ LET found == [i \in DOMAIN column |-> CellVerdict(column[i])]
     IN  IF "raises" \in Range(found)
         THEN pc' = "raised" /\ UNCHANGED verdicts
         ELSE pc' = "judged" /\ verdicts' = found
  /\ UNCHANGED <<config, todo, building, local, index, column, inferred, drift>>

(* _conforms: a list is a concatenation, the segments of one group.        *)
Conforms(groups, v) ==
  LET segments == IF IsList(groups) THEN [k \in DOMAIN groups |-> groups[k][1]] ELSE groups[1]
  IN  IF IsList(segments) THEN Matches(FlattenSeq(segments), v) ELSE Matches(segments[1], v)

NonConforming(cells) ==
  Cardinality({i \in DOMAIN Clean(cells) : ~Conforms(inferred.groups, cells[i])})

(* For patterns without nested lists: _parse cannot hash those either.     *)
CheckDrift_Uncleaned(later) ==
  /\ pc = "judged" /\ inferred # NoPattern
  /\ IsList(inferred.groups) => \A k \in DOMAIN inferred.groups : ~IsList(inferred.groups[k])
  /\ drift' = [train |-> Cardinality({i \in DOMAIN column : column[i] # Null
                                          /\ ~Conforms(inferred.groups, column[i])}),
               test |-> NonConforming(later)]
  /\ UNCHANGED <<config, todo, building, local, index, column, inferred, verdicts, pc>>

CheckDrift(later) ==
  /\ pc = "judged" /\ inferred # NoPattern
  /\ IsList(inferred.groups) => \A k \in DOMAIN inferred.groups : ~IsList(inferred.groups[k])
  /\ drift' = IF DOMAIN Clean(column) = {} \/ DOMAIN Clean(later) = {}
              THEN [train |-> 0, test |-> 0]
              ELSE [train |-> NonConforming(column), test |-> NonConforming(later)]
  /\ UNCHANGED <<config, todo, building, local, index, column, inferred, verdicts, pc>>

NextCall ==
  /\ pc \in {"judged", "raised"}
  /\ pc' = "idle"
  /\ column' = << >>
  /\ inferred' = NoPattern
  /\ verdicts' = << >>
  /\ drift' = [train |-> 0, test |-> 0]
  /\ UNCHANGED <<config, todo, building, local, index>>

Init ==
  /\ config \in Configs
  /\ todo = << >>
  /\ building = FALSE
  /\ local = << >>
  /\ index = NoIndex
  /\ column = << >>
  /\ inferred = NoPattern
  /\ verdicts = << >>
  /\ drift = [train |-> 0, test |-> 0]
  /\ pc = "idle"

Next ==
  \/ \E k \in Corpora : StartBuild(k)
  \/ ScanColumn
  \/ BuildRaises
  \/ FinishBuild
  \/ \E cells \in Columns : Infer(cells) \/ CheckDrift(cells)
  \/ InferWithoutIndex
  \/ Judge
  \/ NextCall

Spec == Init /\ [][Next]_vars

-----------------------------------------------------------------------------
AVTypeOK ==
  /\ config \in Configs
  /\ building \in BOOLEAN
  /\ pc \in {"idle", "inferred", "judged", "raised"}
  /\ index # NoIndex => \A p \in DOMAIN index : index[p].fpr \in 0 .. Scale /\ index[p].cov \in Nat \ {0}
  /\ inferred # NoPattern => inferred.fpr \in 0 .. Scale /\ inferred.cov \in Nat \ {0}
  /\ \A i \in DOMAIN verdicts : verdicts[i] \in {"none", "ok", "error"}
  /\ drift.train \in 0 .. Len(column) /\ drift.test \in Nat

(* Eqn 4 read off the columns: a pattern's FPR is the mean of its impurity *)
(* over the columns in which it matches a value, its coverage is their     *)
(* number.                                                                 *)
Meaning(k, p) ==
  LET rows(j) == {i \in DOMAIN k[j] : k[j][i] \notin {Null, << >>} /\ Len(k[j][i]) < config.tau}
      hits(j) == {i \in rows(j) : Matches(p, k[j][i])}
      matching == {j \in DOMAIN k : hits(j) # {}}
      impurity(j) == Scale - (Scale * Cardinality(hits(j))) \div Cardinality(rows(j))
      total == Total([j \in DOMAIN k |-> IF j \in matching THEN impurity(j) ELSE 0])
  IN  [fpr |-> total \div Cardinality(matching), cov |-> Cardinality(matching)]

Enumerated(k) ==
  UNION {PatternsOf(v, config.tau) : v \in (UNION {Range(k[j]) : j \in DOMAIN k}) \ {Null}}

NoPlus(v) == \A h \in DOMAIN v : v[h].text \notin DOMAIN AfterPlus

HasPlus(k) == \E j \in DOMAIN k : \E i \in DOMAIN k[j] : k[j][i] # Null /\ ~NoPlus(k[j][i])

FixedLengths(p) == \A i \in DOMAIN p : p[i].kind = "class" => p[i].count # Plus

(* The index that detect reads is always the whole index of a corpus, even *)
(* after a build that raised half-way, and the enumerated patterns it is   *)
(* computed from are counted as often as they match.  index.py:170 says so *)
(* of all patterns; it holds of those whose lengths are fixed, and of all  *)
(* if no value has a token that begins with "+", which may be read as the  *)
(* length of the part before it.                                           *)
IndexMeansCorpus ==
  index # NoIndex =>
    \E k \in Corpora : /\ BadEntry \notin Range(k)
                       /\ DOMAIN index = Enumerated(k)
                       /\ \A p \in DOMAIN index :
                            FixedLengths(p) \/ ~HasPlus(k) => index[p] = Meaning(k, p)

OneSignature(values) == \A i, j \in DOMAIN values : Signature(values[i]) = Signature(values[j])

Flagged == {i \in DOMAIN Clean(column) : verdicts[i] = "error"}

(* The pattern that fmdv infers from a column condemns none of its values, *)
(* that of fmdv_h at most the tolerated share (Eqn 16, fmdv.py:119).       *)
ToleranceKept ==
  (pc = "judged" /\ inferred # NoPattern) =>
    /\ config.variant = "fmdv" => Flagged = {}
    /\ config.variant = "fmdv_h" =>
         config.theta[2] * Cardinality(Flagged) <= config.theta[1] * Size(Clean(column))

(* No other way of cutting a group into segments narrower than tau has a   *)
(* lower sum of FPRs, and none exists where the dynamic program finds none *)
(* (fmdv_v.py:136).                                                        *)
SegmentationOptimal ==
  pc = "inferred" =>
    \A values \in Range(Groups(Clean(column))), tolerant \in BOOLEAN :
      LET n == Width(values)
          ends(cuts) == cuts \union {n}
          start(cuts, j) == Max({0} \union {c \in cuts : c < j})
          solved(cuts, j) == Solve(Slice(values, start(cuts, j), j), tolerant)
          allowed == {cuts \in SUBSET (1 .. n - 1) :
                        \A j \in ends(cuts) : j - start(cuts, j) < config.tau
                                               /\ solved(cuts, j) # NoPattern}
          cost(cuts) == Total([j \in 1 .. n |-> IF j \in ends(cuts) THEN solved(cuts, j).fpr ELSE 0])
          found == SegmentDP(values, tolerant)
      IN  IF allowed = {} THEN found = NoPattern
          ELSE found # NoPattern /\ found.fpr = Min({cost(cuts) : cuts \in allowed})

(* Tolerating some values, or cutting where a cut is not needed, never     *)
(* makes a solvable column unsolvable or its FPR larger.                   *)
FreedomNeverCosts ==
  (pc = "inferred" /\ DOMAIN Clean(column) # {}) =>
    LET values == Clean(column)
        basic == Solve(values, FALSE)
        notWorse(found) == found # NoPattern /\ found.fpr <= basic.fpr
        uncut == OneSignature(values) /\ \A i \in DOMAIN values : Len(values[i]) < config.tau
    IN  basic # NoPattern => /\ notWorse(Solve(values, TRUE))
                             /\ uncut => \A t \in BOOLEAN : notWorse(SegmentDP(values, t))

(* With an uncut pattern, the training values check_drift counts as not    *)
(* conforming are the values detect flagged (drift.py:99).                 *)
DriftCountsFlags ==
  (pc = "judged" /\ drift # [train |-> 0, test |-> 0]
    /\ ~IsList(inferred.groups) /\ ~IsList(inferred.groups[1]))
  => drift.train = Cardinality(Flagged)

(* Read as a concatenation, the segments cut from a column of one          *)
(* signature conform to all its values; with horizontal cuts each segment  *)
(* may lose its share of them (drift.py:104).                              *)
SegmentsConform ==
  (inferred # NoPattern /\ OneSignature(Clean(column))) =>
    /\ config.variant = "fmdv_v" => NonConforming(column) = 0
    /\ config.variant = "fmdv_vh" =>
         config.theta[2] * NonConforming(column)
           <= Len(inferred.groups[1]) * config.theta[1] * Size(Clean(column))

(* A value is valid if it satisfies the pattern of its signature group     *)
(* (detector.py:202): with one group, no value that fmdv_v inferred from   *)
(* is flagged.                                                             *)
OwnGroupAccepted ==
  (pc = "judged" /\ inferred # NoPattern /\ config.variant = "fmdv_v" /\ OneSignature(Clean(column)))
  => Flagged = {}

(* A list stands for a disjunction of one pattern per signature group      *)
(* (detector.py:200): whatever list was inferred, detect answers for every *)
(* value.                                                                  *)
InferredIsReadable == inferred # NoPattern => pc # "raised"

=============================================================================
