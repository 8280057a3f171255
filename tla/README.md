# A verification development for open-detect

TLA+ modules of the error-detection library in `src/src/open_detect/`, TLC
configurations that check them on small instances, and TLAPS proofs of what
holds for every instance. Paths below are relative to
`src/src/open_detect/algorithms/` unless they say otherwise; `UD` stands for
`uni_detect`.

## 1. The system

open-detect finds errors in tables. One registry hands out three algorithms
that share an interface and nothing else.

| Component | State it keeps | Operations | Talks to |
|---|---|---|---|
| Registry (`registry.py`, `__init__.py`) | name -> class factory, a once-flag, one re-entrant lock | register, look up, list, discover plugins | Python's import system and its per-module locks |
| Uni-Detect, offline (`UD/pipeline.py`, `UD/corpus/builder.py`, `UD/corpus/build_metadata.py`) | two Delta tables: token statistics, and corpus statistics with one partition and one fingerprint property per error type; the locals of a running call | `build_corpus_statistics` | Spark and the catalog; other jobs through the tables |
| Uni-Detect, online (`UD/detectors/`, `UD/corpus/store.py`, `UD/jobs/run_detection.py`) | the locals of a job, a lazy frame, the appended detections table | `detect`, count / show / write | reads both tables |
| Ingestion and catalog (`UD/corpus/ingestion.py`, `UD/catalog.py`) | none | columns, column pairs, token statistics of a list of tables | Spark |
| Scoring (`UD/perturbation.py`, `UD/metrics/`, `UD/featurization.py`, `UD/strategies.py`, `batch_score` in `UD/corpus/store.py`) | none | metric before and after a perturbation, bucket, smoothed ratio | called by builder and detectors |
| Failure accounting (`UD/failures.py`) | counts in a Spark accumulator | attempt, flush, check | executors and driver |
| Raha (`raha/`) | the locals of one `detect` call: clusters, labels, drawn rows | `detect`: cluster, draw, label, propagate, train, predict | the labeler: heuristic, ground truth or a callback |
| Auto-Validate (`auto_validate/`) | configuration and the pattern index | `build_index`, `infer_pattern`, `detect`, `check_drift` | - |
| Jobs, notebooks, schedule (`UD/jobs/`, `src/notebooks/`, `src/databricks.yml`) | none | the order of calls | everything of Uni-Detect |
| Shims, logging, benchmarks, documentation, packaging | none | - | - |

What is hard about it, and what makes each part correct:

* **Offline build.** Commit and fingerprint are two Delta commits; the token
  table is shared by two error types; a call can fail or be killed at every
  Spark statement and nothing is undone; two calls can overlap (a notebook
  beside the scheduled job). Correct means: a recorded fingerprint describes
  the data it stands beside; a call touches only its own partitions; what it
  has finished stays; a complete build that comes to its end repairs what failures
  left.
* **Online detection.** What was verified is evaluated later, up to three
  times. Correct means: a corpus built with another configuration is never
  scored silently; candidates and corpus were featurized alike; a refusal has a
  reason; a job comes back.
* **Scan of one error type.** Builder and detectors ingest, featurize and perturb
  in parallel code paths that must not drift apart; metrics live on boundaries
  (budgets, ties, medians, missing values, a sentinel); failures are counted by
  tasks that Spark may run again. Correct means: an item both sides see falls
  into its own bucket and beside its own observation; what is flagged is an error
  and its removal repairs the item; the ratio ranks consistently and a verdict
  has support; the gate errs by no more than the recounting explains.
* **Raha.** An interactive loop with a budget, positions that become index
  labels and positions again, labels that can be partial, fallbacks where there
  is nothing to learn from. Correct means: the budget is spent and not exceeded;
  a label belongs to the row it was given for, is final and prevails; equal
  features give equal verdicts; no fallback invents a class.
* **Auto-Validate.** Four optimization problems over an index that was computed
  by enumeration while verdicts are computed by matching, and one list type with
  three readings. Correct means: the index is the corpus's; tolerances are kept
  to the last value; the dynamic program is optimal; verdicts, drift counts and
  patterns agree.
* **Registry.** A flag that is set before the work it announces, imports under a
  lock. Correct means: nobody sees a half-filled registry; no claimed name is
  taken; built-ins stay cheap; calls return.

`PROJECT.json` lists every hazard at its line, with the properties aimed at it
or the reason why there is none yet.

## 2. Modules

| Module | What it is | Code |
|---|---|---|
| `PublishedCorpus` | what the statistics table promises a reader: error types are published one at a time, data and fingerprint together, and only a build that fails parts the two | contract of `UD/pipeline.py:79`, `UD/corpus/build_metadata.py` |
| `CorpusBuild` | calls of `build_corpus_statistics`, a step per Spark statement that touches shared state | `UD/pipeline.py`, `UD/corpus/builder.py`, `UD/corpus/build_metadata.py` |
| `Detection` | extends `CorpusBuild` with detection jobs beside the builds | `UD/detectors/base.py`, `UD/corpus/store.py`, `UD/jobs/run_detection.py` |
| `Metrics` | the metric functions, and what each of them singles out for removal | `UD/metrics/` |
| `Scoring` | perturbation, bucket and verdict of one column or pair | `UD/perturbation.py`, `UD/featurization.py`, `UD/strategies.py`, the `_score` functions of `UD/corpus/builder.py` and `UD/detectors/`, `batch_score` |
| `Scan` | one error type from the values of the tables to the verdicts, with ingestion and the failure gate | `UD/catalog.py`, `UD/corpus/ingestion.py`, `UD/corpus/builder.py`, `UD/failures.py`, `UD/corpus/store.py`, `UD/detectors/base.py` |
| `RahaFeatures` | the four strategy families and feature vectors as operators | `raha/strategies.py`, `raha/features.py` |
| `Raha` | one `detect` call as rounds of cluster / sample / label, then propagate and assemble | `raha/detector.py`, `clustering.py`, `labeling.py`, `classifier.py` |
| `AutoValidatePatterns` | tokens, generalizations, P(v), matching | `auto_validate/hierarchy.py`, `patterns.py` |
| `AutoValidate` | index scan, FMDV / -H / -V / -VH, judging, drift | `auto_validate/index.py`, `fmdv.py`, `fmdv_v.py`, `detector.py`, `drift.py` |
| `Registry` | threads that look up, list, register and import | `registry.py` |
| `CorpusBuildProofs`, `DetectionProofs`, `ScanProofs`, `RahaProofs`, `AutoValidateProofs`, `RegistryProofs` | theorems and their proofs | - |
| `OrderLemmas` | finite sets and their orders: induction, least members, the k-th member, recursive functions, bounds on unions | - |
| `MetricsProofs` | what the operators of `Metrics` and `Scoring` return, for every column | - |
| `MCCorpusBuild`, `MCDetection`, `MCScan`, `MCRaha`, `MCAutoValidate`, `MCRegistry` | instances for TLC | - |

`CorpusBuild` and `Detection` are about two or more callers and treat statistics
as opaque; `Scan` is about what those statistics are, with one caller.

Operators called `X_Something` directly before an operator `X` are variants of
`X` with a plausible mistake. Nothing uses them; replacing `X` by one must break
the property `PROJECT.json` pairs it with.

### State and actions against the code

`CorpusBuild`. `tokenTable`, `stats`, `props` and `tableExists` are the two
Delta tables and their catalog entry. A partition is the triple of what tells
two builds apart: configuration, corpus that was read, token table it was
featurized with. `plan` and `next` are the loop over error types, `columns` and
`tokenMap` the locals `columns_df` and `token_map`. `Start` ... `Finish` follow
`build_corpus_statistics` in order; `Score`, `CheckTable`, `Commit`,
`RecordFingerprint` are `builder.build_*` and `builder.write`. `Abort` is an
exception, the failure gate or the death of the driver, at any point.
`unrecorded` is a history variable. A writer that saw no table overwrites the
whole table; whether the overwrite keeps its properties depends on Delta's
version, and both are allowed.

`Detection`. A job is a record of its locals. `LoadTokens`, `Extract`,
`FindTable`, `Verify`, `Resolve` are one turn of the comprehension over error
types; `Count`, `Show`, `Write` the three evaluations of the lazy result. Each
evaluation reads, per error type, either the version resolved in `detect` or the
latest: which one depends on the Delta release. Target tables do not change
during a detection. `BakedIn` is the part of a configuration that a corpus is built
with; `Verify` accepts a corpus that differs in the rest (the smoothing) with a
warning.

`Scan`. `phase` walks through `list_tables_matching`, `ingest_columns`,
`build_token_stats`, `ingest_column_pairs`, `builder.write` (`CountFrame`,
`CheckFrame`, `WriteFrame`), then `extract_candidates` (`ExtractCandidates`,
`CountCandidates`, `CheckCandidates`) and `batch_score` (`BatchScore`,
`CorpusNotFound`). The faults are those of the environment: a schema that cannot
be listed (`hidden`), a table that cannot be read (`unreadable`), a Spark task
that runs up to `MaxRuns` times before its counts are read (`RunTasks`).
`attempts` is what the tasks return, `counts` the accumulator. `WriteAgain` is a
caller that retries `write` with the frame that was refused. A refused or
impossible build is followed by a detection against what is there: no corpus.
Items are columns or ordered pairs of columns. Fractions and scores are integers
over `Scale`, rounded down; a text is a sequence of integers, upper case the
negative; the edit distance (rapidfuzz) and the digest that selects pairs are
constants. `Attempt` has the builder's and the detectors' way through `_score` in
one operator with a `side`, where they differ.

`Raha`. One action per statement of the loop. The dendrogram is any family of
cuts that refine each other, respect equal features and have at most k clusters;
the softmax draw is any unlabelled row (all have positive probability); a fitted
classifier is any function of the features. `about` records which row a labeler
really looked at. A callback can raise, and so can a ground truth whose clean table
is shorter. A table without rows or columns, for which `detect` returns at once, is
not an instance.

`AutoValidatePatterns`. A pattern is a string in the code and the sequence of parts
that `_parse` reads off that string here. `Products` are the generalizations of a
value token by token, as `iter_patterns` spells them; `Parsed` is what becomes of one
when it is read back. The two differ where a class without a length (`<digit>`,
`<num>`) stands before a literal that begins with "+", which is read as the length.
`PatternsOf` is therefore P(v) as the matcher and the index see it.

`AutoValidate`. An inferred pattern is always a sequence of signature groups,
each a sequence of segments; the code unwraps lists of length one, and `Outcome`
and `Conforms` read the nesting as the two places in the code do. FMDV is FMDV-H
that tolerates nothing, which is how `Solve` has both. `Groups` keeps the signature
groups by the row each was opened by, which is the order of the dictionary in the
code; `Segmentations` is its array `dp`, `Cheapest` the comparison that fills it.
Fractions are integers over `Scale`. `StartBuild`, `ScanColumn`, `BuildRaises`, `FinishBuild` are
`build_index`; `Infer`, `Judge` are `detect` for one column; `CheckDrift` counts
what Fisher's test is then applied to.

`Registry`. A thread is in one call at a time. `owner` is the RLock, `module`
the import lock and import state of each plugin module. `EnterDiscovery` sets
the flag; `SkipPlugin`, `LoadPlugin`, `RunModule` / `UseModule`,
`RegisterItself`, `EndModule` are the loop over entry points, the import being
external to the repository. What a plugin's body registers (`<<"body", i>>`) and what
discovery registers for its entry point (`<<"plugin", i>>`) are two values, so that
the write of `registry.py:119`, which does not ask again, can be seen to replace one
by the other.

## 3. Runs

| Run | Instance | Shows |
|---|---|---|
| `build_and_detect` | one build job and one detection that never overlap, two error types, configurations that differ in nothing, in the smoothing or in what is baked in, two corpora, complete and partial plans, one fault anywhere | the invariants `TypeOK`, `DetectTypeOK`, `RecordedMatchesData`, `FinishedTypesPublished`, `RecordedNeverSilentlyScored`, `SameTokens`; `OnlyOwnPartition`, `RefusedOnlyForMismatch`; the tables implement `PublishedCorpus`; `CompleteBuildRepairs` and `DetectionEnds` under fairness |
| `create_race` | two first builds at once | finds `OnlyOwnPartition` violated |
| `partial_build_tokens` | complete and single-type builds, serial | finds `TokensCoherent` violated |
| `detect_beside_builds` | a detection of one type beside two builds of other types, on a table without fingerprints, one fault | `WritesWhatItCounted` without serialization |
| `torn_corpus_scored` | as `build_and_detect`, two configurations, one corpus | finds `NeverSilentlyScored` violated |
| `scan` | small catalogs aimed at each error type, three budgets, three failure ratios, every pair of words of up to six letters that are one edit apart, unreadable tables, recomputed tasks | the six properties of `Scan` |
| `raha_detect` | three rows, two columns, four tables, budgets below and above the table, both resolutions, heuristic, ground truth and callback, a sorted index | all nine properties of `Raha` |
| `raha_duplicate_index` | an index with a repeated label, ground truth | finds `LabelsBelongToTheirRow` violated |
| `validate_columns` | five corpora and one whose scan raises, four variants, loose and strict thresholds, two token limits, seven columns | the seven properties of `AutoValidate` |
| `segments_as_disjunction` | fmdv_v with a token limit that forces a cut | finds `OwnGroupAccepted` violated |
| `nested_list_raises` | fmdv_vh, the default variant, with the same limit | finds `InferredIsReadable` violated |
| `registry_threads` | two threads of two calls, three plugins | the five properties of `Registry` |

### Bounds, and why they are enough

* Builds: the interference is between two calls, or between a call and the one
  before it. `build_and_detect` has an error type built from column pairs that
  depends on the token table and one that does neither; the runs with overlapping
  builds have a third. One fault tears one partition, the next complete build
  repairs it. Loop positions and locals are reset when a call returns, so the state
  space is finite without a bound on calls.
* Faults in `build_and_detect`: a partition whose builder died between its commit and
  its `ALTER TABLE` (`unrecorded`) is excepted in `RecordedMatchesData`,
  `RecordedNeverSilentlyScored` and `RefusedOnlyForMismatch`; what goes wrong with
  such a partition is `torn_corpus_scored`. `SameTokens` is claimed until a build
  fails: one that does can leave a new token table beside old partitions. In
  `detect_beside_builds` no build names the scanned type: `WritesWhatItCounted` is a
  promise about rebuilds of other types only.
* `scan`: blocks of two words and at most two pairs per table, so that columns
  are cut (`SampleFactor` = 3 makes six values), blocks are thinned and pairs
  left out; `MaxTokens` = 8 is exceeded by some catalogs and not by others;
  budgets of one row, half and all of a column; failure ratios 0, 1/3 and 1;
  `MaxRuns` = 2. Buckets with support 0 to 3 occur, the sentinel occurs in every
  error type in which it can, the ratio exceeds one somewhere. Words of up to six
  letters reach every length bucket on both sides of its shift, one that depends
  on the length alone. `Scale` = 420 divides by every length up to seven.
  `CHECK_DEADLOCK FALSE`: a scan ends.
* Raha: three rows are the least with a cluster of two beside one, a tie between
  two labels, and a row nobody labels; budget 5 exceeds the table.
* Auto-Validate: five tokens are two numbers of different length, a word, a dash and
  a plus, which reach every generalization and a "+" that is read as a length (the
  proofs also cover a symbol of which a rest is left behind the "+"); columns have up
  to three values, so the tolerance of 2/5 rounds; columns with one and with several signatures, a
  null, a blank and an outlier occur. `Scale` = 36 divides every mean that arises.
* Registry: two threads are what two locks can cross with; one plugin registers
  itself under its own name, one wants a built-in's name, one raises after it
  registered another. `CHECK_DEADLOCK FALSE`: threads run out of calls, and the
  crossed locks below are a real stop.

### Fairness

* Builds and detections: a Spark statement that is running returns (weak fairness of
  a running job's steps). Nothing obliges anyone to start a job: the schedules of
  `src/databricks.yml:58-61` and `90-93` are shipped with `pause_status: PAUSED`. So
  `CompleteBuildRepairs` speaks of a complete build that has begun, `DetectionEnds`
  of a detection that has. Failing is never fair.
* Scan: safety only; that a call comes back is checked in `Detection`.
* Raha: `detect` is one call that goes on; a labeler that is asked answers or
  raises.
* Registry: a thread inside a call is scheduled, and a lock that is free is
  given to a thread that waits (weak fairness per thread). The lock is not taken
  to be first-come-first-served: each thread has few calls, so nobody is starved.

## 4. Where the code and its documentation disagree

* `UD/pipeline.py:79` calls a build idempotent per error type; two first builds
  that overlap can wipe each other's partitions, because the existence check and
  the write are two calls (`create_race`).
* `src/ARCHITECTURE.md:173` calls rebuilding one type independent of the others;
  a build of one token-dependent type replaces the token table of the other
  (`partial_build_tokens`).
* `UD/config.py:166` promises that a corpus is never silently scored with another
  configuration; after a death between commit and `ALTER TABLE` the stale
  fingerprint vouches for new data (`torn_corpus_scored`).
* Raha's labelers index by position, but the detector goes through the index
  label, which need not be unique (`raha_duplicate_index`).
* `auto_validate/detector.py:200` reads a pattern list as alternatives, one per
  signature group; `_segment_dp` returns consecutive segments in such a list, and
  a column that was cut is flagged entirely (`segments_as_disjunction`).
* The same line, and `src/ARCHITECTURE.md:439`, promise a disjunction over groups for
  whatever `fmdv_vh` infers; with several groups of which one was cut it infers a
  list inside a list, and `detect` ends with a TypeError (`nested_list_raises`).

Seen while modelling, part of the model, without a run of their own:
`auto_validate/index.py:170` counts the values v with p in P(v) and calls that
matching, as does `hierarchy.py:250`; for the value "9+", whose P(v) has `<num>+` and
`<digit>+` by putting "+" behind a class, `matches` says no, since it reads the "+" as
a length (`IndexMeansCorpus` claims the agreement only without such values or for
patterns with fixed lengths, and the unrestricted statement fails on the corpora of that
run); `<num>+`, which `hierarchy.py:48` lists among the nodes, is generated in no
other way; `fmdv_v` keeps
only the best group, which `fmdv_v.py:24` does not say; a blank cell is dropped
from inference and yet flagged; discovery can wait forever for a module that
another thread imports and whose body registers an algorithm (`Crossed`, to
which `CallsReturn` reduces every call that does not return). Of `Scan`:

* `UD/perturbation.py:32-35` calls the sentinel "maximally not-suspicious" for
  the increasing direction. In `batch_score` it gives the smallest numerator and
  the largest denominator, so such a candidate is at least as surprising as any
  other that starts where it starts: the opposite. `RatioMonotone` is therefore
  stated of candidates whose metric is defined after the perturbation.
* `UD/config.py:76-81` reads epsilon as "drop at most one offending value/row" for
  uniqueness. `UD/perturbation.py:51-57` drops up to ceil(epsilon * n) repeats, of as
  many values. `Budget` and `RepairsUniqueness` follow the code; for outliers and
  spelling the comment is right (one value, with all its occurrences for spelling).
* `UD/metrics/spelling.py:14-16` says that a distance of one is found exactly. It
  is, unless the block the two words share is thinned; hence the condition in
  `RepairsSpelling`. The same file calls the result reproducible; which of
  several closest pairs is found depends on the order of a set of string keys,
  which Python randomizes (`MinPairwise` fixes one).
* `UD/algorithm.py:71-75` reports the position of a value in the ordered, null-free,
  limited sample of `UD/corpus/ingestion.py:134` as the row of a cell.
* The builder scores a column as numeric if four fifths of it are, a detector if
  it has five numbers (`ScoreNumericOutlier`); `UD/corpus/builder.py:333` says that
  the online detectors are mirrored.
* `UD/failures.py` relies on callers that cache; `UD/detectors/base.py:134` gives
  the candidates up before the lazy result is evaluated.
* `UD/corpus/builder.py:240-241` leaves the existing table untouched if too many
  items failed; the tracker is popped first, and a second `write` of the same
  frame checks nothing (`WriteAgain`; `GateWithinRetries` says that it takes one).
* `UD/strategies.py:49` expects the largest deviation to shrink and the closest
  distance to grow. The former need not, and so `FlaggedIsRepaired` does not say
  it of outliers; the latter does only if all pairs are compared.
* The detector truncates the token map (`UD/corpus/store.py:80`), the builder does
  not; hence the condition on `MaxTokens` in `OwnObservationFound`.

## 5. Proofs

All theorems hold for every value of the constants that meets the named
assumptions. TLC evaluates those assumptions on every run.

**`CorpusBuildProofs`.** `LocalInv` (types, loop position, what a call is about
to commit) is inductive in every deployment and gives `TypeCorrect`. What follows
assumes `Serial`, and lets calls fail anywhere: `SerialInv` adds that one call runs
(`OneCall`), that nothing is stored in an absent table (`AbsentInv`) and that what the
caller saw of the table is still so (`CommitInv`); `RecordedMatchesData` is inductive
only with these, since a commit without `replaceWhere` is harmless exactly if there was
nothing to overwrite. This gives `RecordedIsRight` and `Isolation`.
`FinishedStaysPublished` needs in addition that finished types carry this call's locals
and the token table of now. `Refinement`: each step maps to `Publish`, `Fail` or a
stutter of `PublishedCorpus`; the mapping lets the fingerprint appear at the commit,
which closes the window before `ALTER TABLE` unless the call dies in it, and that is a
`Fail`.

**`DetectionProofs`.** A detection only reads, so builds behave beside it as they
do alone: `DetectSpec` implies `[][Next]_vars` over the tables, and the
invariants of `CorpusBuildProofs` lift. `DetectInv` types the jobs' locals in
every deployment (`DetectTypeCorrect`). For serial deployments, `JobsInv` says that
while a detection runs every frame it resolved is the statistics of now, and
`FingerprintInv` that a recorded fingerprint has data beside it; with
`RecordedMatchesData` it is theirs, outside `unrecorded`. This gives
`NothingSilentlyScored` and `RefusalsAreDue`. `OneTokenTable` needs
`CoveringRequests` (a build names all token-dependent error types or none);
`TokensInv` says that the partitions carry the tokens of now except those a
running build will still come to (`Due`), as long as no build has failed.
`OtherBuildsDoNotDisturb` needs neither: `ApartInv` holds under any overlap and any
faults if the table is there (`Legacy`) and no build names a scanned type
(`ApartRequests`). What these assumptions and exceptions leave out is what the findings
exhibit: `torn_corpus_scored` has a fault in the window, `partial_build_tokens` a build
that does not cover, `create_race` an absent table.

**`OrderLemmas` and `MetricsProofs`.** Sorting, medians, "the first n" and "what is
left" are all said with one operator, `KthIn`: the k-th member of a set in an order.
`KthExists` (finite induction) and `KthRank` say that it is there and how many come
before it; from that `WithoutKeeps`, `FirstFewSize`, `KthSmallestMember` and the
typing of every metric (`AttemptObservation`), for any sequence of values. Then what
a perturbation drops: `UniquenessRepaired` (a first occurrence is never dropped, so
no value is lost; the drop is all repeats or exactly the budget),
`DependencyRepaired` (every group keeps its majority; no other way to establish the
dependency takes fewer rows, `MinoritySmallest`, by an injection of the minority
into whatever was dropped instead), `OutlierDropped` (the number farthest from any
point is the largest or the smallest). For words: `EditSharesKey` (an insertion, a
deletion or a replacement leaves the two characters at one end alone, and shifts the
length by at most one bucket), `ThinnedBlock` (a thinned block keeps at least two
members), hence `ClosestWords` and `SpellingRepaired`.

**`ScanProofs`.** `TypesInv` = `ScanTypeOK` /\ `ItemsInv` (items are finitely many and
made of the cells of the input) /\ `WritesInv`; the second half is what types the
values the tasks are given. `TypesCorrect` follows. `GateBounded` needs `CountsInv`
(each counter lies between the number of items and `MaxRuns` times that) and
`DecidedInv` (what the gate decided about them). `FlaggedRepaired` needs
`ExaminedInv` (attempts are scores of the items that are still there) and the lemmas
above, one case per error type. `VerdictInv` says that a verdict is what `Verdict`
makes of the corpus and of the attempts that are there, `ScoredInv` and `CorpusInv`
that attempts and corpus are what `Attempt` made of items of both sides.
`CountsMonotone` (supersets have larger cardinalities) gives `RankingSound`, for metrics that were measured;
`SignificanceBound` (arithmetic of the smoothed ratio) gives `SupportNeeded`.
`OwnObservation` follows the same item through both sides: `SidesAgree` (`Attempt`
of builder and detector agree on bucket and metrics if the token maps agree),
`WholeMapLoaded` (a token table that fits is loaded whole), `UniqueIds` (one item
per id). All six invariants the run checks are proved. What they assume is
`ValidInput`: tables are sequences of columns of one length, configurations are
those `UniDetectConfig` accepts, and of the edit distance that it is symmetric, 0
for equal texts only, 1 only for texts one edit apart, and smaller than the sentinel
of `UD/perturbation.py:36` (a word of a billion letters would break the last).

**`RahaProofs`.** `DetectInv` = `RoundInv` (labels, clusters and budget count in
step) /\ `LabelInv` (labels are kept for drawn rows only) /\ `ClusterInv` (equal
features share clusters) /\ `ResultInv` (results are what propagation and the
classifier make of labels and clusters). From it, with `OutputInv` for the drawn
row and the results, `RahaTypeCorrect`; from it alone `BudgetIsSpent`,
`LabelsAreFinal`, `ResolutionsCompared`, `UserLabelsPrevail`, `FeaturesDecide`,
`VerdictsAreEvidenced`. `UniqueIndexLabels` has the converse of the finding: with
an injective index every label belongs to its row. The counting in majority votes
is the hard part of `VerdictsAreEvidenced`.

**`AutoValidateProofs`.** `MatchesIsMembership`: the matcher and the enumeration
agree on a value below the token limit and a pattern read back from a string of some
P(w), if the lengths in the pattern are fixed, or if neither value has a token that
begins with "+"; without that the statement is false. All seven invariants the run
`validate_columns` checks follow from five inductive ones. `IndexInv`: entries of an
index, and the sums of a running build, are bounded. `DetectInv`: an inferred pattern
belongs to the column that is there, what fmdv or fmdv_h inferred matches enough of
its values, and verdicts are those of that pattern. `DriftInv`: a count other than
zero is of the column that was judged. `JudgeInv`: the types of what is inferred (at
least one segment per group, several groups from fmdv_vh only) and of the counts.
`BuildInv`: what has been
added up is what the columns read so far mean, and what was published is the meaning
of a whole corpus.

* `ToleranceIsKept`: a preferred feasible pattern exists (`BestExists`, by
  well-foundedness of the naturals), it matches the required number of values
  (`SolveEnough`), and rounding up that number keeps the share
  (`ToleranceArithmetic`).
* `DriftCountsWhatWasFlagged`: a pattern that is one string is read alike by
  `_value_matches` and `_conforms` (`UncutOutcome`).
* `AVTypesCorrect`: every solved segment, every entry of the
  dynamic program, the best group and all groups in order are typed; from there to
  `JudgeInv`.
* `FreedomIsFree`: what is feasible for fmdv is feasible with tolerance, and the
  whole width is one of the ways to cut.
* `SegmentationIsOptimal`: by strong induction on the number of tokens, entry j of
  the dynamic program is a lower bound of the cost of every admissible set of cuts
  before j, and is reached by one. The induction is over a set of numbers, so it
  needs no operator parameter (`StrongInduction`); that the array satisfies its
  recursion is `Recursion`.
* `CutSegmentsConform`: a value that each segment pattern matches on its slice is
  matched by their concatenation (again by strong induction); the rows a tolerant
  cut loses are in the union of the rows each segment loses, which is no larger than
  the sum (`UnionBound`).
* `IndexIsTheCorpus`: the patterns of the index are the enumerated ones (`FoundIsMatched`,
  `EnumeratedIs`); one column adds to the histogram of a pattern what matching its
  values counts, where `MatchesIsMembership` applies; sums over a corpus grow by their
  last term. It
  uses `ScaleAssumption`, that `Scale` divides by every number of values that
  occurs times every number of columns: rounding of a mean of rounded impurities is
  not claimed.

**`RegistryProofs`.** `LockInv`: discovering or answering a lookup is the same as
holding the lock. `FoundInv`: once the flag is set, an algorithm is registered or
its plugin is still on the list of the thread that discovers. So whoever gets the
lock and finds the flag set misses nothing (`NothingIsMissed`). `FreeInv` (the
name of the plugin being imported is free, or taken by that plugin's own body) gives
`ClaimsAreKept`: discovery asks for a name, imports and then writes without asking
again, and the one registration it can overwrite is the body's own. `TypeIsRight` and `BuiltinsAreQuiet`
come with them.

**Left to TLC.** Liveness (`CompleteBuildRepairs`, `DetectionEnds`, `DetectReturns`,
`CallsReturn`), and the counterexamples of the six runs that find a violation.
Every other property of a passing run is a theorem; where this section names
assumptions on the deployment (`Serial`, `CoveringRequests`, `Legacy`, `ApartRequests`) the theorem has them as hypotheses.

## 6. What is not modelled

* In `CorpusBuild` and `Detection`, what statistics are: a corpus is one opaque
  value, the failure gate a choice between going on and `Abort`. What they are is
  `Scan`, which in turn has one caller.
* Floating point: scores are rounded rationals. Which columns a logarithm makes
  less skewed is a constant of `Scan` (`LogShaped`); random seeds and Fisher's
  p-value do not occur.
* Tokenization: a value is given with its tokens, its number and its type. A text
  is one word in `Scan`. In the code one side tokenizes before it lowers
  (`UD/featurization.py:63-64`) and the other after (`UD/corpus/ingestion.py:222`),
  which differs for some non-ASCII letters.
* Evidence, its redaction, the ids of candidates. `batch_score` counts a candidate
  once per occurrence of its id; its documentation asks for unique ids, and a
  detection that is given one table twice does not have them. Targets are a set.
* The characters of patterns: a token with a character that is alphanumeric and
  neither digit nor letter (a vulgar fraction), and a text that spells a node
  (`<num>`), "<" or "{". The order of patterns and the cap of 2048 per value in
  `auto_validate/patterns.py`: to reach the cap TLC would enumerate thousands of
  patterns per value.
* Job arguments and exit codes, logging, shims, value types of `base.py`,
  benchmarks, documentation: no state.

## 7. Plan

Done, in this order: the offline build with its abstract specification, detection
beside it, Raha, Auto-Validate, the registry, the scan of one error type; proofs
for each.

Next:

1. Characters of tokens, if a bounded alphabet can reach the two divergences of
   parsing that the hazards still name.
2. Runs that exhibit the sentinel of `UD/perturbation.py:32` and the budget of
   `UD/config.py:78` against their comments; today only the properties' hypotheses and
   section 4 say so.
3. The labelling strategies and value types that the map does not cover yet.
