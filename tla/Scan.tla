--------------------------------- MODULE Scan ---------------------------------
(***************************************************************************)
(* One error type from end to end, down to the values: list the corpus,    *)
(* ingest its tables, score every item, publish the observations unless    *)
(* too many items failed; then do the same with the tables to scan and     *)
(* compare what was found with the corpus.  One caller and no concurrent   *)
(* build: those are CorpusBuild and Detection, for which the statistics    *)
(* are opaque.                                                             *)
(*                                                                         *)
(* Sources: uni_detect/catalog.py, corpus/ingestion.py, corpus/builder.py, *)
(* failures.py, corpus/store.py, detectors/.  A table that cannot be read  *)
(* when it is ingested, a schema that cannot be listed and a Spark task    *)
(* that counts its items more than once are faults of the environment.     *)
(***************************************************************************)
EXTENDS Scoring

CONSTANTS
  Inputs,         \* error type, schemas (sets of names), tables, targets and configuration
  Missing,        \* a null cell
  SampleFactor,   \* max_values_per_column is this times the block size
  MaxTokens,      \* the bound of load_token_stats_map
  MaxRuns,        \* how often a task may have been run when its counts are read
  Digest(_, _),   \* the hash of a table name and a pair of column names, as a number
  NoCorpus        \* the statistics table does not exist

VARIABLES
  input,      \* chosen once
  phase,      \* where the caller is
  names,      \* the tables of the corpus
  items,      \* the columns or pairs last ingested
  frequency,  \* the token table: by token, in how many tables it occurs
  tokenMap,   \* the driver's copy of it
  attempts,   \* by item: what scoring it resulted in
  counts,     \* the accumulator of the failure tracker
  writes,     \* calls of CorpusStatsBuilder.write
  corpus,     \* the partition of the error type
  verdicts    \* the result of detect

\* What UniDetectConfig accepts; fractions are pairs.
Edges(s) == Len(s) > 0 /\ \A i, j \in DOMAIN s : i < j => s[i] < s[j]

ValidConfig(c) ==
  /\ c.epsilon \in (Nat \ {0}) \X Nat /\ c.epsilon[1] <= c.epsilon[2]
  /\ c.alpha \in (Nat \ {0}) \X Nat /\ c.alpha[1] < c.alpha[2]
  /\ c.smoothing \in (Nat \ {0}) \X (Nat \ {0})
  /\ c.blockSize \in Nat /\ c.blockSize >= 2 /\ c.maxPairs \in Nat \ {0}
  /\ c.maxFailure \in Nat \X (Nat \ {0}) /\ c.maxFailure[1] <= c.maxFailure[2]
  /\ Edges(c.rowEdges) /\ Edges(c.prevalenceEdges) /\ Edges(c.lengthEdges)

\* Spark's tables: columns of one length.  The text of a cell determines what it parses to.
IsSeq(s) == s \in Seq(ToSet(s))

IsTable(table) ==
  /\ IsSeq(table)
  /\ \A c \in DOMAIN table : IsSeq(table[c]) /\ Len(table[c]) = Len(table[1])

CellsIn(i) == UNION {UNION {ToSet(column) : column \in ToSet(i.tables[t])} : t \in DOMAIN i.tables}

ValuesIn(i) == CellsIn(i) \ {Missing}

IsValue(v) ==
  /\ v.text \in Seq(Int) /\ v.tokens \in Seq(Int)
  /\ v.number # NoNumber => v.number \in Int

ValidInput(i) ==
  /\ i.et \in ErrorTypes /\ ValidConfig(i.cfg)
  /\ \A t \in DOMAIN i.tables : IsTable(i.tables[t])
  /\ \A v \in ValuesIn(i) : IsValue(v)
  /\ \A v, w \in ValuesIn(i) : v.text = w.text => v = w
  /\ \A v, w \in ValuesIn(i) : /\ IsDistance(v.text, w.text, Levenshtein(v.text, w.text))
                              /\ Levenshtein(v.text, w.text) = Levenshtein(w.text, v.text)
  /\ IsFiniteSet(i.schemas) /\ \A s \in i.schemas : IsFiniteSet(s) /\ s \subseteq DOMAIN i.tables
  /\ IsFiniteSet(i.targets) /\ i.targets \subseteq DOMAIN i.tables

ASSUME InputsAssumption ==
  /\ \A i \in Inputs : ValidInput(i)
  /\ SampleFactor \in Nat \ {0} /\ MaxTokens \in Nat /\ MaxRuns \in Nat \ {0}

vars == <<input, phase, names, items, frequency, tokenMap, attempts, counts, writes, corpus, verdicts>>

et == input.et
cfg == input.cfg

-----------------------------------------------------------------------------
\* Ingestion.  A table is a sequence of columns of one length, a column a sequence of cells.

MaxValues == SampleFactor * cfg.blockSize

RowCount(table) == Len(table[1])

NonNull(cells) == {i \in DOMAIN cells : cells[i] # Missing}

\* Cast, order by value with the nulls first, limit; collect_list leaves the nulls out.
SampledColumn(cells, limit) ==
  LET rows == NonNull(cells)
      order == {r \in rows \X rows : Before(cells[r[1]].text, cells[r[2]].text)}
      room == limit - (Len(cells) - Cardinality(rows))
  IN [k \in 1..Min({Cardinality(rows), Max({0, room})}) |-> cells[KthIn(rows, order, k)]]

\* The rows without a null, ordered, limited.
SampledPair(lhs, rhs, limit) ==
  LET rows == NonNull(lhs) \cap NonNull(rhs)
      order == {r \in rows \X rows : \/ Before(lhs[r[1]].text, lhs[r[2]].text)
                                     \/ lhs[r[1]] = lhs[r[2]] /\ Before(rhs[r[1]].text, rhs[r[2]].text)}
      row == [k \in 1..Min({Cardinality(rows), limit}) |-> KthIn(rows, order, k)]
  IN [k \in DOMAIN row |-> <<lhs[row[k]], rhs[row[k]]>>]

ColumnItems(t) ==
  LET table == input.tables[t]
  IN {[id |-> <<t, c>>, index |-> c - 1, rows |-> RowCount(table), values |-> SampledColumn(table[c], MaxValues)] :
        c \in {k \in DOMAIN table : RowCount(table) > 0}}

\* The ordered pairs with the smallest digests.
SelectedPairs(t) ==
  LET columns == DOMAIN input.tables[t]
      candidates == {p \in columns \X columns : p[1] # p[2]}
  IN FirstFew(candidates, cfg.maxPairs, [p \in candidates |-> <<Digest(t, p)>> \o p])

PairItems(t) ==
  LET table == input.tables[t]
  IN {[id |-> <<t, p[1], p[2]>>, index |-> p[2] - 1, rows |-> RowCount(table),
       values |-> SampledPair(table[p[1]], table[p[2]], MaxValues)] :
        p \in {q \in SelectedPairs(t) : RowCount(table) > 0}}

\* In how many tables of the corpus a token occurs.
TokenStats(columns) ==
  LET TokensIn(item) == UNION {ToSet(v.tokens) : v \in ToSet(item.values)}
      tokens == UNION {TokensIn(item) : item \in columns}
  IN [t \in tokens |-> Cardinality({item.id[1] : item \in {i \in columns : t \in TokensIn(i)}})]

\* Mutant: tokens of a single table are not loaded.
X_LoadTokenMap(table) == Restrict(table, {t \in DOMAIN table : table[t] > 1})

\* The most frequent tokens; in which order equally frequent ones come is Spark's choice.
LoadTokenMap(table) ==
  Restrict(table, FirstFew(DOMAIN table, MaxTokens, [t \in DOMAIN table |-> <<0 - table[t], t>>]))

\* A table that cannot be read is skipped.
IngestedColumns(tables, unreadable) == UNION {ColumnItems(t) : t \in tables \ unreadable}
IngestedPairs(tables, unreadable) == UNION {PairItems(t) : t \in tables \ unreadable}

-----------------------------------------------------------------------------
\* Failure accounting.
\* Mutant: an item that failed is not counted as processed.
X_Tried == {k \in DOMAIN attempts : attempts[k].result \in {"scored", "clean"}}

Tried == {k \in DOMAIN attempts : attempts[k].result \in {"scored", "clean", "failed"}}
Failed == {k \in DOMAIN attempts : attempts[k].result = "failed"}

RunsOf(tasks, runs) == {r \in tasks \X (1..MaxRuns) : r[2] <= runs[r[1]]}

\* Every run of a task adds its counts.
Counted(tried, failed, runs) ==
  [processed |-> Cardinality(RunsOf(tried, runs)), skipped |-> Cardinality(RunsOf(failed, runs))]

\* Mutant: a tolerated ratio is refused.
X_TooManyFailures ==
  counts.skipped > 0 /\ counts.skipped * cfg.maxFailure[2] >= cfg.maxFailure[1] * counts.processed

\* failure_ratio > max_failure_ratio
TooManyFailures ==
  counts.skipped > 0 /\ counts.skipped * cfg.maxFailure[2] > cfg.maxFailure[1] * counts.processed

\* The rows of a statistics frame, or the candidates.
Frame == {k \in DOMAIN attempts : attempts[k].result = "scored"}

-----------------------------------------------------------------------------
Init ==
  /\ input \in Inputs
  /\ phase = "list"
  /\ names = {} /\ items = {}
  /\ frequency = << >> /\ tokenMap = << >>
  /\ attempts = << >>
  /\ counts = [processed |-> 0, skipped |-> 0]
  /\ writes = 0
  /\ corpus = NoCorpus
  /\ verdicts = << >>

\* list_tables_matching.  The job does not build from an empty list.
ListCorpus ==
  /\ phase = "list"
  /\ \E hidden \in SUBSET input.schemas :
       LET listed == UNION (input.schemas \ hidden)
       IN names' = listed /\ phase' = IF listed = {} THEN "extract" ELSE "columns"
  /\ UNCHANGED <<input, items, frequency, tokenMap, attempts, counts, writes, corpus, verdicts>>

\* ingest_columns, and build_token_stats if the error type is featurized by tokens.
IngestColumns ==
  /\ phase = "columns"
  /\ \E unreadable \in SUBSET names :
       LET columns == IngestedColumns(names, unreadable)
           needsTokens == et \in {"uniqueness", "functional_dependency"}
       IN /\ items' = columns
          /\ frequency' = IF needsTokens THEN TokenStats(columns) ELSE frequency
          /\ tokenMap' = frequency'
  /\ phase' = IF et = "functional_dependency" THEN "pairs" ELSE "count"
  /\ UNCHANGED <<input, names, attempts, counts, writes, corpus, verdicts>>

IngestPairs ==
  /\ phase = "pairs"
  /\ \E unreadable \in SUBSET names : items' = IngestedPairs(names, unreadable)
  /\ phase' = "count"
  /\ UNCHANGED <<input, names, frequency, tokenMap, attempts, counts, writes, corpus, verdicts>>

\* The tasks score their items and add up what happened, perhaps more than once.
RunTasks(side) ==
  LET result == [k \in {i.id : i \in items} |->
                   Attempt(side, et, CHOOSE i \in items : i.id = k, tokenMap, cfg)]
  IN /\ attempts' = result
     /\ \E runs \in [DOMAIN result -> 1..MaxRuns] : counts' = Counted(Tried', Failed', runs)

\* The count in write, the count in detect.
CountFrame ==
  /\ phase = "count"
  /\ RunTasks("build")
  /\ writes' = 1
  /\ phase' = "check"
  /\ UNCHANGED <<input, names, items, frequency, tokenMap, corpus, verdicts>>

\* tracker.check, then the frame replaces the partition.
CheckFrame ==
  /\ phase = "check"
  /\ phase' = IF TooManyFailures THEN "refused" ELSE "write"
  /\ UNCHANGED <<input, names, items, frequency, tokenMap, attempts, counts, writes, corpus, verdicts>>

Publish ==
  /\ corpus' = [k \in Frame |-> [bucket |-> attempts[k].bucket, before |-> attempts[k].before,
                                 after |-> attempts[k].after]]
  /\ phase' = "extract"
  /\ UNCHANGED <<input, names, items, frequency, tokenMap, attempts, counts, verdicts>>

WriteFrame == phase = "write" /\ Publish /\ UNCHANGED writes

\* The refused frame is written once more: its tracker is gone, nothing is checked.
WriteAgain == phase = "refused" /\ writes' = writes + 1 /\ Publish

GiveUp ==
  /\ phase = "refused"
  /\ phase' = "extract"
  /\ UNCHANGED <<input, names, items, frequency, tokenMap, attempts, counts, writes, corpus, verdicts>>

\* extract_candidates: the token map is loaded, the targets are ingested as the corpus was.
ExtractCandidates ==
  /\ phase = "extract"
  /\ tokenMap' = LoadTokenMap(frequency)
  /\ \E unreadable \in SUBSET input.targets :
       items' = IF et = "functional_dependency" THEN IngestedPairs(input.targets, unreadable)
                                                ELSE IngestedColumns(input.targets, unreadable)
  /\ phase' = "countCandidates"
  /\ UNCHANGED <<input, names, frequency, attempts, counts, writes, corpus, verdicts>>

CountCandidates ==
  /\ phase = "countCandidates"
  /\ RunTasks("detect")
  /\ phase' = "checkCandidates"
  /\ UNCHANGED <<input, names, items, frequency, tokenMap, writes, corpus, verdicts>>

\* An extraction without candidates ends with an empty result.
CheckCandidates ==
  /\ phase = "checkCandidates"
  /\ phase' = IF TooManyFailures THEN "failed" ELSE IF Frame = {} THEN "done" ELSE "score"
  /\ UNCHANGED <<input, names, items, frequency, tokenMap, attempts, counts, writes, corpus, verdicts>>

BatchScore ==
  /\ phase = "score"
  /\ corpus # NoCorpus
  /\ verdicts' = [k \in Frame |-> Verdict(corpus, et, attempts[k], cfg)]
  /\ phase' = "done"
  /\ UNCHANGED <<input, names, items, frequency, tokenMap, attempts, counts, writes, corpus>>

CorpusNotFound ==
  /\ phase = "score"
  /\ corpus = NoCorpus
  /\ phase' = "failed"
  /\ UNCHANGED <<input, names, items, frequency, tokenMap, attempts, counts, writes, corpus, verdicts>>

Next ==
  \/ ListCorpus \/ IngestColumns \/ IngestPairs
  \/ CountFrame \/ CheckFrame \/ WriteFrame \/ WriteAgain \/ GiveUp
  \/ ExtractCandidates \/ CountCandidates \/ CheckCandidates \/ BatchScore \/ CorpusNotFound

Spec == Init /\ [][Next]_vars
-----------------------------------------------------------------------------
\* Properties.

\* Every variable has its type; what is compared with the corpus are integers, and finitely
\* many of them.
ScanTypeOK ==
  /\ input \in Inputs
  /\ phase \in {"list", "columns", "pairs", "count", "check", "write", "refused", "extract",
                "countCandidates", "checkCandidates", "score", "done", "failed"}
  /\ names \subseteq UNION input.schemas
  /\ \A i \in items : i.rows \in Nat /\ Len(i.values) <= i.rows /\ Len(i.values) <= MaxValues
  /\ IsFiniteSet(DOMAIN frequency) /\ \A t \in DOMAIN frequency : t \in Int /\ frequency[t] \in Nat
  /\ DOMAIN tokenMap \subseteq DOMAIN frequency
  /\ IsFiniteSet(DOMAIN attempts)
  /\ \A k \in Frame : attempts[k].before \in Int /\ attempts[k].after \in Int
  /\ counts.processed \in Nat /\ counts.skipped \in 0..counts.processed
  /\ writes \in 0..2
  /\ corpus = NoCorpus \/ /\ IsFiniteSet(DOMAIN corpus)
                          /\ \A k \in DOMAIN corpus : corpus[k].before \in Int /\ corpus[k].after \in Int
  /\ \A k \in DOMAIN verdicts : verdicts[k].numerator \in Nat /\ verdicts[k].denominator \in Nat

\* The gate decides on attempts, which recomputation multiplies, not on items.  Whatever
\* was recomputed: it lets nothing through of which more than MaxRuns times the tolerated
\* share failed, refuses nothing of which less than a MaxRuns-th of it failed, and at its
\* two ends, 0 and 1, it is exact.  What it refused is published only by a second write.
GateWithinRetries ==
  LET max == cfg.maxFailure
      failed == Cardinality(Failed)
      tried == Cardinality(Tried)
  IN /\ phase \in {"write", "score"} \/ (phase = "extract" /\ writes = 1 /\ corpus # NoCorpus) =>
          /\ failed * max[2] <= MaxRuns * max[1] * tried
          /\ max[1] = 0 => failed = 0
     /\ phase = "refused" =>
          /\ MaxRuns * failed * max[2] > max[1] * tried
          /\ max[1] < max[2]
     /\ phase = "extract" /\ corpus # NoCorpus /\ MaxRuns * max[1] * tried < failed * max[2] => writes = 2

\* Builder and detectors ingest, featurize and perturb alike: a scanned item that the corpus
\* contains finds its own observation in its bucket, on the side of the numerator.  This
\* needs the whole token table to fit into the detector's map, as it does into the builder's.
OwnObservationFound ==
  corpus # NoCorpus /\ Cardinality(DOMAIN frequency) <= MaxTokens =>
    \A k \in DOMAIN verdicts \cap DOMAIN corpus :
      k \in Numerator(corpus, et, attempts[k]) /\ verdicts[k].numerator >= 1

\* Definition 3 ranks by the ratio, so the ratio must order candidates of one bucket: one
\* that starts lower and ends higher (in the direction of its metric) is at least as
\* surprising.  This is about metrics that were measured: of one that is undefined
\* afterwards perturbation.py:33 wants the opposite, and the code does not deliver it.
RatioMonotone ==
  LET s == cfg.smoothing
      Above(k) == verdicts[k].numerator * s[2] + s[1]
      Below(k) == verdicts[k].denominator * s[2] + s[1]
  IN \A k, l \in DOMAIN verdicts :
       /\ attempts[k].after # High
       /\ attempts[k].bucket = attempts[l].bucket
       /\ AtMost(et, attempts[k].before, attempts[l].before)
       /\ AtMost(et, attempts[l].after, attempts[k].after)
       => Above(k) * Below(l) <= Above(l) * Below(k)

\* "Assume clean absent evidence" (store.py:124): no candidate of a bucket without corpus is
\* significant; a significant one has a denominator that outweighs the smoothing; the ratio
\* exceeds one only where the perturbation moved the metric the wrong way.
SignificanceNeedsSupport ==
  LET s == cfg.smoothing
      a == cfg.alpha
  IN \A k \in DOMAIN verdicts :
       LET v == verdicts[k]
       IN /\ v.significant => /\ v.support > 0
                              /\ s[1] * (a[2] - a[1]) <= a[1] * s[2] * v.denominator
          /\ AtMost(et, attempts[k].before, attempts[k].after) => v.numerator <= v.denominator

ValuesOf(k) == (CHOOSE i \in items : i.id = k).values

\* What is left of an item's values when the flagged positions are dropped.
Rest(k) == Without(ValuesOf(k), attempts[k].dropped)

\* Dropping duplicates loses no value and removes all of them unless the budget is spent:
\* the share epsilon of all values, though config.py:78 speaks of one value or row.
RepairsUniqueness(k, values) ==
  /\ ToSet(Rest(k)) = ToSet(values)
  /\ \/ Len(Rest(k)) = Cardinality(ToSet(values))
     \/ Cardinality(attempts[k].dropped) = Budget(Len(values), cfg.epsilon)
  /\ attempts[k].before <= attempts[k].after

Holds(rows) == \A i, j \in DOMAIN rows : rows[i][1] = rows[j][1] => rows[i] = rows[j]

\* Dropping minority rows loses no left-hand side, establishes the dependency unless the
\* budget is spent, and if it does, no smaller set of rows would have.
RepairsDependency(k, rows) ==
  LET dropped == attempts[k].dropped
  IN /\ {r[1] : r \in ToSet(Rest(k))} = {r[1] : r \in ToSet(rows)}
     /\ Holds(Rest(k)) \/ Cardinality(dropped) = Budget(Len(rows), cfg.epsilon)
     /\ Holds(Rest(k)) =>
          \A other \in SUBSET DOMAIN rows : Holds(Without(rows, other)) => Cardinality(dropped) <= Cardinality(other)
     /\ attempts[k].before <= attempts[k].after

\* The one value dropped is an extreme number of the column, at its own position.
RepairsOutlier(k, values) ==
  \E p \in DOMAIN values :
    /\ attempts[k].dropped = {p} /\ values[p].number # NoNumber
    /\ \/ \A i \in DOMAIN values : values[i].number # NoNumber => values[i].number <= values[p].number
       \/ \A i \in DOMAIN values : values[i].number # NoNumber => values[p].number <= values[i].number

\* The word dropped is gone and has another word at the distance reported, which no pair of
\* words undercuts if one of them is one edit apart and no block was thinned, or if all
\* pairs were compared; in the last case the distance only grows.
RepairsSpelling(k, values) ==
  LET words == {v.text : v \in ToSet(values)}
      left == {v.text : v \in ToSet(Rest(k))}
      distances == {Levenshtein(u, w) : u, w \in words} \ {0}
      exhaustive == Cardinality(words) <= cfg.blockSize
      thinned == \E key \in UNION {BlockingKeys(w) : w \in words} :
                   Cardinality({w \in words : key \in BlockingKeys(w)}) > cfg.blockSize
  IN /\ \E w \in left : \E u \in words \ left : words = left \cup {u} /\ Levenshtein(u, w) = attempts[k].before
     /\ exhaustive \/ (1 \in distances /\ ~thinned) => attempts[k].before = Min(distances)
     /\ exhaustive => attempts[k].before <= attempts[k].after

\* What is flagged is an error in the sense of its type and dropping it leaves the rest
\* intact: repeats of values and minority rows up to the budget of perturbation.py:51, one
\* outlier, one misspelled word; and words one edit apart are always compared, so that only
\* columns without such words fail.
FlaggedIsRepaired ==
  phase \in {"check", "checkCandidates"} =>
    /\ \A k \in Failed : \A v, w \in ToSet(ValuesOf(k)) : Levenshtein(v.text, w.text) # 1
    /\ \A k \in Frame :
         LET values == ValuesOf(k)
         IN CASE et = "uniqueness" -> RepairsUniqueness(k, values)
              [] et = "functional_dependency" -> RepairsDependency(k, values)
              [] et = "numeric_outlier" -> RepairsOutlier(k, values)
              [] et = "spelling" -> RepairsSpelling(k, values)

=============================================================================
