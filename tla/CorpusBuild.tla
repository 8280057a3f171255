------------------------------ MODULE CorpusBuild ------------------------------
(***************************************************************************)
(* The offline half of Uni-Detect: calls of                                *)
(* UniDetect.build_corpus_statistics, each running in a job or a notebook  *)
(* of its own, that write two shared Delta tables.                         *)
(*                                                                         *)
(*   - the token table, overwritten as a whole by every call that builds a *)
(*     token-dependent error type;                                         *)
(*   - the corpus-statistics table, one partition per error type, together *)
(*     with one table property per error type that records the             *)
(*     configuration the partition was built with (its fingerprint).       *)
(*                                                                         *)
(* A partition's rows are abstracted to what tells two builds apart: the   *)
(* configuration, the corpus that was read and the token statistics that   *)
(* featurized it.  A statement of the code that reaches Spark is a step of *)
(* its own, because another job can act between two of them and because    *)
(* each of them can raise.                                                 *)
(***************************************************************************)
EXTENDS Naturals, Sequences

CONSTANTS
  Builders,        \* calls of build_corpus_statistics that can be in progress
  ErrorTypes,      \* the members of ErrorType
  AllErrorTypes,   \* tuple(ErrorType), the default plan
  TokenTypes,      \* _TOKEN_DEPENDENT_TYPES
  PairTypes,       \* the types built from column pairs (FUNCTIONAL_DEPENDENCY)
  Configs,         \* fingerprints: build_fingerprint of the configurations in use
  Corpora,         \* what reading the corpus tables can return
  Requests,        \* Requests[b]: the error_types arguments b is called with
  Serial,          \* TRUE when the deployment never lets two calls overlap
  Legacy,          \* TRUE when the table predates fingerprints
  MaxFaults,       \* bound on exceptions and kills in one behaviour
  NoStats, NoTokens, NoFingerprint

\* Features of a partition that later steps and readers depend on.
Partition == [cfg: Configs, corpus: Corpora, tokens: Corpora \cup {NoTokens}]

ASSUME TypesAssumption ==
  /\ TokenTypes \subseteq ErrorTypes
  /\ PairTypes \subseteq TokenTypes
  /\ AllErrorTypes \in Seq(ErrorTypes) \ {<<>>}
  /\ \A et \in ErrorTypes : \E i \in DOMAIN AllErrorTypes : AllErrorTypes[i] = et

ASSUME RequestsAssumption ==
  \A b \in Builders : Requests[b] \subseteq Seq(ErrorTypes)

ASSUME DeploymentAssumption ==
  Serial \in BOOLEAN /\ Legacy \in BOOLEAN /\ MaxFaults \in Nat

ASSUME AbsentAssumption ==
  NoStats \notin Partition /\ NoTokens \notin Corpora /\ NoFingerprint \notin Configs

VARIABLES
  tokenTable,   \* contents of the token table (NoTokens while it is absent)
  tableExists,  \* the corpus-statistics table is in the catalog
  stats,        \* its partitions, by error type
  props,        \* its fingerprint properties, by error type
  pc,           \* where each call is in build_corpus_statistics
  cfg,          \* self.config of each call
  plan,         \* error_types of each call
  next,         \* loop position in plan
  columns,      \* columns_df, cached
  tokenMap,     \* token_map
  pending,      \* the stats frame materialized by builder.write
  existed,      \* table_already_exists
  unrecorded,   \* history: partitions committed, fingerprint not yet set
  faults        \* exceptions and kills so far

tableVars == <<tokenTable, tableExists, stats, props, unrecorded>>
callVars  == <<cfg, plan, next, columns, tokenMap, pending, existed>>
vars      == <<tableVars, callVars, pc, faults>>

Idle       == "idle"
Ingesting  == "ingest"
WritingTok == "writeTokens"
ReadingTok == "readTokens"
Scoring    == "score"
Checking   == "tableExists"
Committing == "saveAsTable"
Recording  == "setProperties"

Active    == {Ingesting, WritingTok, ReadingTok, Scoring, Checking, Committing, Recording}
Quiescent == \A b \in Builders : pc[b] = Idle

\* The error type a call's loop is at.
Current(b) == plan[b][next[b]]
MoreTypes(b) == next[b] <= Len(plan[b])

NeedsTokens(b) == \E i \in DOMAIN plan[b] : plan[b][i] \in TokenTypes

-----------------------------------------------------------------------------
LegacyTables ==
  /\ tableExists = TRUE
  /\ \E c \in Configs, k \in Corpora :
       /\ tokenTable = k
       /\ stats = [et \in ErrorTypes |->
                     [cfg |-> c, corpus |-> k,
                      tokens |-> IF et \in TokenTypes THEN k ELSE NoTokens]]
  /\ unrecorded = ErrorTypes

FreshTables ==
  /\ tableExists = FALSE
  /\ tokenTable = NoTokens
  /\ stats = [et \in ErrorTypes |-> NoStats]
  /\ unrecorded = {}

Init ==
  /\ IF Legacy THEN LegacyTables ELSE FreshTables
  /\ props = [et \in ErrorTypes |-> NoFingerprint]
  /\ pc = [b \in Builders |-> Idle]
  /\ cfg = [b \in Builders |-> NoFingerprint]
  /\ plan = [b \in Builders |-> <<>>]
  /\ next = [b \in Builders |-> 1]
  /\ columns = [b \in Builders |-> NoTokens]
  /\ tokenMap = [b \in Builders |-> NoTokens]
  /\ pending = [b \in Builders |-> NoStats]
  /\ existed = [b \in Builders |-> FALSE]
  /\ faults = 0

Goto(b, label) == pc' = [pc EXCEPT ![b] = label]

-----------------------------------------------------------------------------
(* build_corpus_statistics(table_names, error_types): an empty or missing  *)
(* selection means every error type.                                       *)
Start(b, request) ==
  /\ pc[b] = Idle
  /\ Serial => Quiescent
  /\ \E c \in Configs : cfg' = [cfg EXCEPT ![b] = c]
  /\ plan' = [plan EXCEPT ![b] = IF request = <<>> THEN AllErrorTypes ELSE request]
  /\ next' = [next EXCEPT ![b] = 1]
  /\ Goto(b, Ingesting)
  /\ UNCHANGED <<tableVars, columns, tokenMap, pending, existed, faults>>

\* ingest_columns(...).cache() and the count that materializes it.
Ingest(b) ==
  /\ pc[b] = Ingesting
  /\ \E k \in Corpora : columns' = [columns EXCEPT ![b] = k]
  /\ Goto(b, IF NeedsTokens(b) THEN WritingTok ELSE Scoring)
  /\ UNCHANGED <<tableVars, cfg, plan, next, tokenMap, pending, existed, faults>>

\* token_stats.write...saveAsTable(token_stats_fqn): the whole table.
WriteTokens(b) ==
  /\ pc[b] = WritingTok
  /\ tokenTable' = columns[b]
  /\ Goto(b, ReadingTok)
  /\ UNCHANGED <<tableExists, stats, props, unrecorded, callVars, faults>>

\* Mutant: the token map is never collected.
ReadTokens_Empty(b) ==
  /\ pc[b] = ReadingTok
  /\ Goto(b, Scoring)
  /\ UNCHANGED <<tableVars, callVars, faults>>

\* token_map = {... for row in spark.table(token_stats_fqn).collect()}
ReadTokens(b) ==
  /\ pc[b] = ReadingTok
  /\ tokenMap' = [tokenMap EXCEPT ![b] = tokenTable]
  /\ Goto(b, Scoring)
  /\ UNCHANGED <<tableVars, cfg, plan, next, columns, pending, existed, faults>>

\* Mutant: the FD statistics are built without reading the column pairs.
Score_NoPairs(b) ==
  /\ pc[b] = Scoring
  /\ MoreTypes(b)
  /\ pending' = [pending EXCEPT ![b] =
       [cfg |-> cfg[b],
        corpus |-> IF Current(b) \in PairTypes THEN NoTokens ELSE columns[b],
        tokens |-> IF Current(b) \in TokenTypes THEN tokenMap[b] ELSE NoTokens]]
  /\ Goto(b, Checking)
  /\ UNCHANGED <<tableVars, cfg, plan, next, columns, tokenMap, existed, faults>>

(* builder.build_*_stats and the first half of builder.write: the frame is *)
(* computed and cached and its failure ratio is within the limit.  Column  *)
(* pairs are read from the source tables again.                            *)
Score(b) ==
  /\ pc[b] = Scoring
  /\ MoreTypes(b)
  /\ \E k \in Corpora :
       /\ Current(b) \notin PairTypes => k = columns[b]
       /\ pending' = [pending EXCEPT ![b] =
            [cfg |-> cfg[b], corpus |-> k,
             tokens |-> IF Current(b) \in TokenTypes THEN tokenMap[b] ELSE NoTokens]]
  /\ Goto(b, Checking)
  /\ UNCHANGED <<tableVars, cfg, plan, next, columns, tokenMap, existed, faults>>

CheckTable(b) ==
  /\ pc[b] = Checking
  /\ existed' = [existed EXCEPT ![b] = tableExists]
  /\ Goto(b, Committing)
  /\ UNCHANGED <<tableVars, cfg, plan, next, columns, tokenMap, pending, faults>>

\* Mutant: replaceWhere is dropped, every write overwrites the table.
Commit_PlainOverwrite(b) ==
  /\ pc[b] = Committing
  /\ stats' = [et \in ErrorTypes |-> IF et = Current(b) THEN pending[b] ELSE NoStats]
  /\ unrecorded' = {Current(b)}
  /\ tableExists' = TRUE
  /\ Goto(b, Recording)
  /\ UNCHANGED <<tokenTable, props, callVars, faults>>

(* writer.saveAsTable(fqn).  With replaceWhere the commit replaces the     *)
(* partition it names.  A writer that saw no table overwrites whatever is  *)
(* there by now, every partition included; whether Delta then keeps the    *)
(* table's properties depends on its version, so both outcomes are taken.  *)
Commit(b) ==
  /\ pc[b] = Committing
  /\ IF existed[b]
       THEN /\ stats' = [stats EXCEPT ![Current(b)] = pending[b]]
            /\ unrecorded' = unrecorded \cup {Current(b)}
            /\ UNCHANGED props
       ELSE /\ stats' = [et \in ErrorTypes |->
                           IF et = Current(b) THEN pending[b] ELSE NoStats]
            /\ unrecorded' = {Current(b)}
            /\ \/ UNCHANGED props
               \/ props' = [et \in ErrorTypes |-> NoFingerprint]
  /\ tableExists' = TRUE
  /\ Goto(b, Recording)
  /\ UNCHANGED <<tokenTable, callVars, faults>>

\* Mutant: the properties are only set on the table's first write.
RecordFingerprint_OnCreate(b) ==
  /\ pc[b] = Recording
  /\ props' = IF existed[b] THEN props ELSE [props EXCEPT ![Current(b)] = cfg[b]]
  /\ unrecorded' = unrecorded \ {Current(b)}
  /\ next' = [next EXCEPT ![b] = @ + 1]
  /\ pending' = [pending EXCEPT ![b] = NoStats]
  /\ existed' = [existed EXCEPT ![b] = FALSE]
  /\ Goto(b, Scoring)
  /\ UNCHANGED <<tokenTable, tableExists, stats, cfg, plan, columns, tokenMap, faults>>

\* write_build_config: ALTER TABLE ... SET TBLPROPERTIES, then the next type.
RecordFingerprint(b) ==
  /\ pc[b] = Recording
  /\ props' = [props EXCEPT ![Current(b)] = cfg[b]]
  /\ unrecorded' = unrecorded \ {Current(b)}
  /\ next' = [next EXCEPT ![b] = @ + 1]
  /\ pending' = [pending EXCEPT ![b] = NoStats]
  /\ existed' = [existed EXCEPT ![b] = FALSE]
  /\ Goto(b, Scoring)
  /\ UNCHANGED <<tokenTable, tableExists, stats, cfg, plan, columns, tokenMap, faults>>

\* The call's locals are gone; cfg is meaningless until the next call.
Return(b) ==
  /\ Goto(b, Idle)
  /\ cfg' = [cfg EXCEPT ![b] = NoFingerprint]
  /\ plan' = [plan EXCEPT ![b] = <<>>]
  /\ next' = [next EXCEPT ![b] = 1]
  /\ columns' = [columns EXCEPT ![b] = NoTokens]
  /\ tokenMap' = [tokenMap EXCEPT ![b] = NoTokens]
  /\ pending' = [pending EXCEPT ![b] = NoStats]
  /\ existed' = [existed EXCEPT ![b] = FALSE]
  /\ UNCHANGED tableVars

Finish(b) ==
  /\ pc[b] = Scoring
  /\ ~ MoreTypes(b)
  /\ Return(b)
  /\ UNCHANGED faults

(* DataQualityError from tracker.check(), any exception of a Spark call,   *)
(* or the end of the driver: the tables stay as they are, and nothing the  *)
(* call did is undone.                                                     *)
Abort(b) ==
  /\ pc[b] \in Active
  /\ faults < MaxFaults
  /\ faults' = faults + 1
  /\ Return(b)

\* The steps of a call that is running: all but being called and failing.
Proceed(b) ==
  \/ Ingest(b) \/ WriteTokens(b) \/ ReadTokens(b)
  \/ Score(b) \/ CheckTable(b) \/ Commit(b) \/ RecordFingerprint(b)
  \/ Finish(b)

Next ==
  \E b \in Builders :
    \/ \E request \in Requests[b] : Start(b, request)
    \/ Proceed(b)
    \/ Abort(b)

Spec == Init /\ [][Next]_vars

-----------------------------------------------------------------------------
(* Properties.                                                             *)

\* Every table and every local of a call holds a value the code can produce.
TypeOK ==
  /\ tokenTable \in Corpora \cup {NoTokens}
  /\ tableExists \in BOOLEAN
  /\ stats \in [ErrorTypes -> Partition \cup {NoStats}]
  /\ props \in [ErrorTypes -> Configs \cup {NoFingerprint}]
  /\ pc \in [Builders -> Active \cup {Idle}]
  /\ cfg \in [Builders -> Configs \cup {NoFingerprint}]
  /\ plan \in [Builders -> Seq(ErrorTypes)]
  /\ next \in [Builders -> Nat \ {0}]
  /\ columns \in [Builders -> Corpora \cup {NoTokens}]
  /\ tokenMap \in [Builders -> Corpora \cup {NoTokens}]
  /\ pending \in [Builders -> Partition \cup {NoStats}]
  /\ existed \in [Builders -> BOOLEAN]
  /\ unrecorded \subseteq ErrorTypes
  /\ faults \in 0 .. MaxFaults

(* The recorded fingerprint is the configuration the stored statistics     *)
(* were built with, for every partition whose last commit was followed by  *)
(* its ALTER TABLE, whatever failed elsewhere.                             *)
RecordedMatchesData ==
  \A et \in ErrorTypes :
    stats[et] # NoStats /\ et \notin unrecorded => props[et] = stats[et].cfg

(* While a call runs, the types its loop has finished stay as this call    *)
(* published them: its configuration and fingerprint, its own reading of   *)
(* the corpus, and the token table that is in the catalog now.             *)
FinishedTypesPublished ==
  \A b \in Builders : \A i \in DOMAIN plan[b] :
    i < next[b] =>
      LET et == plan[b][i] IN
        /\ stats[et] # NoStats
        /\ stats[et].cfg = cfg[b] /\ props[et] = cfg[b]
        /\ et \notin PairTypes => stats[et].corpus = columns[b]
        /\ et \in TokenTypes => stats[et].tokens = tokenTable

(* "Each call only overwrites the error_type partitions it touches": a     *)
(* partition or a fingerprint changes only in a step of a call whose loop  *)
(* is at that error type.                                                  *)
OnlyOwnPartition ==
  [][\A et \in ErrorTypes :
       stats'[et] # stats[et] \/ props'[et] # props[et]
         => \E b \in Builders : pc[b] \in {Committing, Recording} /\ Current(b) = et]_vars

(* Detection featurizes its candidates with the token table, so between    *)
(* calls every token-dependent partition has to have been featurized with  *)
(* the table that is there.                                                *)
TokensCoherent ==
  Quiescent => \A et \in TokenTypes :
    stats[et] # NoStats => stats[et].tokens = tokenTable

(* All of it at once, for every error type: what a complete build leaves.  *)
Coherent ==
  /\ Quiescent
  /\ TokensCoherent
  /\ \A et \in ErrorTypes : stats[et] # NoStats /\ props[et] = stats[et].cfg

(* Failed and partial builds do no lasting damage: whatever they left      *)
(* behind, a default build that has begun ends with coherent tables unless *)
(* it fails itself.  Nothing is promised of tables nobody rebuilds.        *)
CompleteBuildRepairs ==
  \A b \in Builders : \A f \in 0 .. MaxFaults :
    pc[b] = Ingesting /\ plan[b] = AllErrorTypes /\ faults = f ~> Coherent \/ faults > f

\* A running call has committed et and not yet set its property.
InWindow(et) == \E b \in Builders : pc[b] = Recording /\ Current(b) = et

(* A reader that ignores the time between a commit and its ALTER TABLE     *)
(* sees partitions appear together with their fingerprints, one error type *)
(* at a time, and data part from its fingerprint only where a call fails.  *)
Catalogue ==
  [et \in ErrorTypes |->
     [data |-> stats[et],
      fingerprint |-> IF InWindow(et) THEN stats[et].cfg ELSE props[et]]]

Published == INSTANCE PublishedCorpus WITH corpus <- Catalogue, failures <- faults

PublishesAtomically == Published!Spec

=============================================================================
