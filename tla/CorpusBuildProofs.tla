--------------------------- MODULE CorpusBuildProofs ---------------------------
(***************************************************************************)
(* Theorems about CorpusBuild, for every set of calls, error types,        *)
(* configurations and corpora.                                             *)
(***************************************************************************)
EXTENDS CorpusBuild, TLAPS

\* From the table check to the ALTER TABLE a call is at a type of its plan.
LoopInv ==
  \A b \in Builders :
    pc[b] \in {Checking, Committing, Recording} => next[b] \in 1 .. Len(plan[b])

\* What a running call is about to commit is of its own configuration.
CallInv ==
  \A b \in Builders :
    /\ pc[b] # Idle => cfg[b] \in Configs
    /\ pc[b] \in {Checking, Committing, Recording} =>
         pending[b] \in Partition /\ pending[b].cfg = cfg[b]

LocalInv == TypeOK /\ LoopInv /\ CallInv

LEMMA LocalInit == Init => LocalInv
  <1> SUFFICES ASSUME Init PROVE LocalInv
    OBVIOUS
  <1> USE DEF Init, Idle
  <1>1. /\ tokenTable \in Corpora \cup {NoTokens} /\ tableExists \in BOOLEAN
        /\ stats \in [ErrorTypes -> Partition \cup {NoStats}]
        /\ unrecorded \subseteq ErrorTypes
    <2>1. CASE Legacy
      <3>1. LegacyTables
        BY <2>1
      <3>2. PICK c \in Configs, k \in Corpora :
              /\ tokenTable = k
              /\ stats = [et \in ErrorTypes |->
                            [cfg |-> c, corpus |-> k,
                             tokens |-> IF et \in TokenTypes THEN k ELSE NoTokens]]
        BY <3>1 DEF LegacyTables
      <3> QED
        BY <3>1, <3>2 DEF LegacyTables, Partition
    <2>2. CASE ~ Legacy
      BY <2>2 DEF FreshTables
    <2> QED
      BY <2>1, <2>2
  <1>2. TypeOK
    BY <1>1, DeploymentAssumption DEF TypeOK
  <1>3. LoopInv
    BY DEF LoopInv, Checking, Committing, Recording
  <1>4. CallInv
    BY DEF CallInv, Checking, Committing, Recording
  <1> QED
    BY <1>2, <1>3, <1>4 DEF LocalInv

LEMMA LocalStep == LocalInv /\ [Next]_vars => LocalInv'
  <1> SUFFICES ASSUME LocalInv, [Next]_vars PROVE LocalInv'
    OBVIOUS
  <1> USE DEF LocalInv, TypeOK, LoopInv, CallInv, Goto, Current, MoreTypes, tableVars, callVars,
              Active, Idle, Ingesting, WritingTok, ReadingTok, Scoring, Checking,
              Committing, Recording
  <1>1. ASSUME NEW b \in Builders, NEW request \in Requests[b], Start(b, request)
        PROVE  LocalInv'
    <2>1. request \in Seq(ErrorTypes) /\ AllErrorTypes \in Seq(ErrorTypes)
      BY RequestsAssumption, TypesAssumption
    <2> QED
      BY <1>1, <2>1 DEF Start
  <1>2. ASSUME NEW b \in Builders, Ingest(b) PROVE LocalInv'
    BY <1>2 DEF Ingest
  <1>3. ASSUME NEW b \in Builders, WriteTokens(b) PROVE LocalInv'
    BY <1>3 DEF WriteTokens
  <1>4. ASSUME NEW b \in Builders, ReadTokens(b) PROVE LocalInv'
    BY <1>4 DEF ReadTokens
  <1>5. ASSUME NEW b \in Builders, Score(b) PROVE LocalInv'
    BY <1>5 DEF Score, Partition
  <1>6. ASSUME NEW b \in Builders, CheckTable(b) PROVE LocalInv'
    BY <1>6 DEF CheckTable
  <1>7. ASSUME NEW b \in Builders, Commit(b) PROVE LocalInv'
    <2>1. Current(b) \in ErrorTypes /\ pending[b] \in Partition
      BY <1>7 DEF Commit
    <2>2. stats' \in [ErrorTypes -> Partition \cup {NoStats}]
      BY <1>7, <2>1 DEF Commit
    <2>3. /\ unrecorded' \subseteq ErrorTypes
          /\ props' \in [ErrorTypes -> Configs \cup {NoFingerprint}]
      BY <1>7, <2>1 DEF Commit
    <2> QED
      BY <1>7, <2>2, <2>3 DEF Commit
  <1>8. ASSUME NEW b \in Builders, RecordFingerprint(b) PROVE LocalInv'
    BY <1>8 DEF RecordFingerprint
  <1>9. ASSUME NEW b \in Builders, Finish(b) PROVE LocalInv'
    BY <1>9 DEF Finish, Return
  <1>10. ASSUME NEW b \in Builders, Abort(b) PROVE LocalInv'
    BY <1>10, DeploymentAssumption DEF Abort, Return
  <1>11. CASE UNCHANGED vars
    BY <1>11 DEF vars
  <1> QED
    BY <1>1, <1>2, <1>3, <1>4, <1>5, <1>6, <1>7, <1>8, <1>9, <1>10, <1>11 DEF Next, Proceed

\* The type invariant, in every deployment.
THEOREM TypeCorrect == Spec => []TypeOK
  <1>1. LocalInv => TypeOK
    BY DEF LocalInv
  <1> QED
    BY LocalInit, LocalStep, <1>1, PTL DEF Spec

THEOREM LocalCorrect == Spec => []LocalInv
  BY LocalInit, LocalStep, PTL DEF Spec

-----------------------------------------------------------------------------
(* Deployments that let one call run at a time.  The tables are then what  *)
(* the running call last saw and wrote, which is what OneCall and          *)
(* CommitInv say; the rest follows from it.                                *)

OneCall == \A a, b \in Builders : pc[a] # Idle /\ pc[b] # Idle => a = b

\* Nothing is stored before the table exists.
AbsentInv ==
  ~ tableExists => \A et \in ErrorTypes : stats[et] = NoStats /\ props[et] = NoFingerprint

CommitInv ==
  \A b \in Builders :
    /\ pc[b] = Committing => existed[b] = tableExists
    /\ pc[b] = Recording =>
         /\ tableExists
         /\ stats[Current(b)] = pending[b]
         /\ Current(b) \in unrecorded

SerialInv == OneCall /\ AbsentInv /\ CommitInv /\ RecordedMatchesData

LEMMA SerialInit == Init => SerialInv
  <1> SUFFICES ASSUME Init PROVE SerialInv
    OBVIOUS
  <1> USE DEF Init, Idle, Committing, Recording
  <1>1. OneCall /\ CommitInv
    BY DEF OneCall, CommitInv
  <1>2. AbsentInv
    BY DEF AbsentInv, LegacyTables, FreshTables
  <1>3. RecordedMatchesData
    BY DEF RecordedMatchesData, LegacyTables, FreshTables
  <1> QED
    BY <1>1, <1>2, <1>3 DEF SerialInv

LEMMA SerialStep ==
  ASSUME Serial, LocalInv, SerialInv, [Next]_vars
  PROVE  SerialInv'
  <1> USE DEF SerialInv, OneCall, AbsentInv, CommitInv, RecordedMatchesData,
              LocalInv, TypeOK, LoopInv, CallInv, Goto, Current, MoreTypes, tableVars, callVars,
              Active, Idle, Ingesting, WritingTok, ReadingTok, Scoring, Checking,
              Committing, Recording
  <1>1. ASSUME NEW b \in Builders, NEW request \in Requests[b], Start(b, request)
        PROVE  SerialInv'
    BY <1>1 DEF Start, Quiescent
  <1>2. ASSUME NEW b \in Builders, Ingest(b) PROVE SerialInv'
    BY <1>2 DEF Ingest
  <1>3. ASSUME NEW b \in Builders, WriteTokens(b) PROVE SerialInv'
    BY <1>3 DEF WriteTokens
  <1>4. ASSUME NEW b \in Builders, ReadTokens(b) PROVE SerialInv'
    BY <1>4 DEF ReadTokens
  <1>5. ASSUME NEW b \in Builders, Score(b) PROVE SerialInv'
    BY <1>5 DEF Score
  <1>6. ASSUME NEW b \in Builders, CheckTable(b) PROVE SerialInv'
    BY <1>6 DEF CheckTable
  <1>7. ASSUME NEW b \in Builders, Commit(b) PROVE SerialInv'
    <2>1. /\ \A a \in Builders : pc[a] # Idle => a = b
          /\ existed[b] = tableExists
          /\ Current(b) \in ErrorTypes
          /\ pending[b] \in Partition
          /\ pending[b] # NoStats
      BY <1>7, AbsentAssumption DEF Commit
    <2>2. /\ tableExists'
          /\ \A et \in ErrorTypes :
               /\ et = Current(b) => stats'[et] = pending[b]
               /\ et # Current(b) => stats'[et] = stats[et]
          /\ existed[b] => props' = props
          /\ Current(b) \in unrecorded'
          /\ existed[b] => unrecorded' = unrecorded \cup {Current(b)}
      BY <1>7, <2>1 DEF Commit
    <2>3. OneCall'
      BY <1>7 DEF Commit
    <2>4. CommitInv'
      BY <1>7, <2>1, <2>2 DEF Commit
    <2>5. RecordedMatchesData'
      <3>1. CASE existed[b]
        BY <2>2, <3>1
      <3>2. CASE ~ existed[b]
        BY <2>1, <2>2, <3>2
      <3> QED
        BY <3>1, <3>2
    <2> QED
      BY <2>2, <2>3, <2>4, <2>5
  <1>8. ASSUME NEW b \in Builders, RecordFingerprint(b) PROVE SerialInv'
    BY <1>8 DEF RecordFingerprint
  <1>9. ASSUME NEW b \in Builders, Finish(b) PROVE SerialInv'
    BY <1>9 DEF Finish, Return
  <1>10. ASSUME NEW b \in Builders, Abort(b) PROVE SerialInv'
    BY <1>10 DEF Abort, Return
  <1>11. CASE UNCHANGED vars
    BY <1>11 DEF vars
  <1> QED
    BY <1>1, <1>2, <1>3, <1>4, <1>5, <1>6, <1>7, <1>8, <1>9, <1>10, <1>11 DEF Next, Proceed

LEMMA SerialCorrect == ASSUME Serial PROVE Spec => [](LocalInv /\ SerialInv)
  <1>1. Init => LocalInv /\ SerialInv
    BY LocalInit, SerialInit
  <1>2. LocalInv /\ SerialInv /\ [Next]_vars => (LocalInv /\ SerialInv)'
    BY LocalStep, SerialStep
  <1> QED
    BY <1>1, <1>2, PTL DEF Spec

(* One call at a time, calls that may fail anywhere: the fingerprint of a  *)
(* partition whose commit was followed by its ALTER TABLE is right.        *)
THEOREM RecordedIsRight == ASSUME Serial PROVE Spec => []RecordedMatchesData
  <1>1. LocalInv /\ SerialInv => RecordedMatchesData
    BY DEF SerialInv
  <1> QED
    BY SerialCorrect, <1>1, PTL

-----------------------------------------------------------------------------
(* Isolation: an action property of the same invariant.                    *)

LEMMA IsolatedStep ==
  ASSUME Serial, LocalInv, SerialInv, [Next]_vars,
         NEW et \in ErrorTypes, stats'[et] # stats[et] \/ props'[et] # props[et]
  PROVE  \E b \in Builders : pc[b] \in {Committing, Recording} /\ Current(b) = et
  <1> USE DEF Goto, Current, MoreTypes, tableVars, callVars, Active, Idle, Ingesting,
              WritingTok, ReadingTok, Scoring, Checking, Committing, Recording
  <1>1. PICK b \in Builders : Commit(b) \/ RecordFingerprint(b)
    BY DEF Next, Proceed, Start, Ingest, WriteTokens, ReadTokens, Score, CheckTable, Finish,
           Abort, Return, vars
  <1>2. CASE Commit(b)
    <2>1. existed[b] = tableExists
      BY <1>2 DEF Commit, SerialInv, CommitInv
    <2>2. CASE existed[b]
      BY <1>2, <2>2 DEF Commit, LocalInv, TypeOK
    <2>3. CASE ~ existed[b]
      <3>1. /\ stats[et] = NoStats /\ props[et] = NoFingerprint
            /\ props'[et] = NoFingerprint
        BY <1>2, <2>1, <2>3 DEF Commit, SerialInv, AbsentInv
      <3>2. et # Current(b) => stats'[et] = NoStats
        BY <1>2, <2>3 DEF Commit
      <3> QED
        BY <1>2, <3>1, <3>2 DEF Commit
    <2> QED
      BY <2>2, <2>3
  <1>3. CASE RecordFingerprint(b)
    BY <1>3 DEF RecordFingerprint, LocalInv, TypeOK
  <1> QED
    BY <1>1, <1>2, <1>3

(* One call at a time: a partition and its fingerprint only change in a    *)
(* call whose loop is at that error type.                                  *)
THEOREM Isolation == ASSUME Serial PROVE Spec => OnlyOwnPartition
  <1> DEFINE Own == \A et \in ErrorTypes :
               stats'[et] # stats[et] \/ props'[et] # props[et]
                 => \E b \in Builders :
                      pc[b] \in {Committing, Recording} /\ Current(b) = et
  <1>1. LocalInv /\ SerialInv /\ [Next]_vars => [Own]_vars
    BY IsolatedStep
  <1> QED
    BY SerialCorrect, <1>1, PTL DEF Spec, OnlyOwnPartition

-----------------------------------------------------------------------------
(* What a running call has finished is still there, as it computed it.     *)

ProgressInv ==
  \A b \in Builders :
    /\ pc[b] = Idle => plan[b] = <<>>
    /\ pc[b] \in {Ingesting, WritingTok, ReadingTok} => next[b] = 1
    /\ pc[b] \in {Scoring, Checking, Committing, Recording} /\ NeedsTokens(b) =>
         tokenMap[b] = tokenTable
    /\ pc[b] \in {Checking, Committing, Recording} =>
         /\ Current(b) \in TokenTypes => pending[b].tokens = tokenTable
         /\ Current(b) \notin PairTypes => pending[b].corpus = columns[b]

PublishedInv == ProgressInv /\ FinishedTypesPublished

LEMMA PublishedInvInit == Init => PublishedInv
  BY DEF Init, PublishedInv, ProgressInv, FinishedTypesPublished, NeedsTokens, Idle, Ingesting,
         WritingTok, ReadingTok, Scoring, Checking, Committing, Recording

\* The only call that is running is b: what the others finished is void.
LEMMA OthersFinished ==
  ASSUME SerialInv, ProgressInv, NEW b \in Builders, pc[b] # Idle,
         NEW a \in Builders, a # b
  PROVE  pc[a] = Idle /\ plan[a] = <<>>
  BY DEF SerialInv, OneCall, ProgressInv

LEMMA PublishedInvStep ==
  ASSUME Serial, LocalInv, SerialInv, PublishedInv, [Next]_vars
  PROVE  PublishedInv'
  <1> USE DEF Goto, Current, MoreTypes, NeedsTokens, tableVars, callVars, Active, Idle, Ingesting,
              WritingTok, ReadingTok, Scoring, Checking, Committing, Recording
  <1> USE DEF PublishedInv, ProgressInv, FinishedTypesPublished, LocalInv, TypeOK, LoopInv, CallInv
  <1>1. ASSUME NEW b \in Builders, NEW request \in Requests[b], Start(b, request)
        PROVE  PublishedInv'
    <2>1. /\ \A a \in Builders : pc[a] = Idle /\ plan[a] = <<>>
          /\ pc' = [pc EXCEPT ![b] = Ingesting]
          /\ next' = [next EXCEPT ![b] = 1]
          /\ \A a \in Builders : a # b => plan'[a] = plan[a]
          /\ plan'[b] \in Seq(ErrorTypes)
      BY <1>1, RequestsAssumption, TypesAssumption DEF Start, Quiescent
    <2>2. ProgressInv'
      BY <2>1
    <2>3. \A a \in Builders : \A i \in DOMAIN plan'[a] : ~ (i < next'[a])
      BY <2>1
    <2> QED
      BY <2>2, <2>3
  <1>2. ASSUME NEW b \in Builders, Ingest(b) PROVE PublishedInv'
    <2>1. \A a \in Builders : a # b => pc[a] = Idle /\ plan[a] = <<>>
      BY <1>2, OthersFinished DEF Ingest
    <2> QED
      BY <1>2, <2>1 DEF Ingest
  <1>3. ASSUME NEW b \in Builders, WriteTokens(b) PROVE PublishedInv'
    <2>1. \A a \in Builders : a # b => pc[a] = Idle /\ plan[a] = <<>>
      BY <1>3, OthersFinished DEF WriteTokens
    <2> QED
      BY <1>3, <2>1 DEF WriteTokens
  <1>4. ASSUME NEW b \in Builders, ReadTokens(b) PROVE PublishedInv'
    <2>1. \A a \in Builders : a # b => pc[a] = Idle /\ plan[a] = <<>>
      BY <1>4, OthersFinished DEF ReadTokens
    <2> QED
      BY <1>4, <2>1 DEF ReadTokens
  <1>5. ASSUME NEW b \in Builders, Score(b) PROVE PublishedInv'
    <2>1. \A a \in Builders : a # b => pc[a] = Idle /\ plan[a] = <<>>
      BY <1>5, OthersFinished DEF Score
    <2> QED
      BY <1>5, <2>1 DEF Score
  <1>6. ASSUME NEW b \in Builders, CheckTable(b) PROVE PublishedInv'
    <2>1. \A a \in Builders : a # b => pc[a] = Idle /\ plan[a] = <<>>
      BY <1>6, OthersFinished DEF CheckTable
    <2> QED
      BY <1>6, <2>1 DEF CheckTable
  <1>7. ASSUME NEW b \in Builders, Commit(b) PROVE PublishedInv'
    <2>1. \A a \in Builders : a # b => pc[a] = Idle /\ plan[a] = <<>>
      BY <1>7, OthersFinished DEF Commit
    <2>2. /\ existed[b] = tableExists
          /\ Current(b) \in ErrorTypes
          /\ pending[b] \in Partition /\ pending[b].cfg = cfg[b] /\ pending[b] # NoStats
      BY <1>7, AbsentAssumption DEF Commit, SerialInv, CommitInv
    <2>3. /\ pc' = [pc EXCEPT ![b] = Recording]
          /\ UNCHANGED <<tokenTable, callVars>>
          /\ existed[b] => props' = props
          /\ \A et \in ErrorTypes :
               /\ et = Current(b) => stats'[et] = pending[b]
               /\ et # Current(b) /\ existed[b] => stats'[et] = stats[et]
      BY <1>7, <2>2 DEF Commit
    <2>4. ProgressInv'
      BY <1>7, <2>3 DEF Commit
    <2>5. ASSUME NEW i \in DOMAIN plan[b], i < next[b]
          PROVE  /\ plan[b][i] \in ErrorTypes
                 /\ stats[plan[b][i]] # NoStats
                 /\ existed[b]
      BY <2>2, <2>5 DEF SerialInv, AbsentInv
    <2>6. FinishedTypesPublished'
      <3> SUFFICES ASSUME NEW i \in DOMAIN plan[b], i < next[b]
                   PROVE  LET et == plan[b][i] IN
                            /\ stats'[et] # NoStats
                            /\ stats'[et].cfg = cfg[b] /\ props'[et] = cfg[b]
                            /\ et \notin PairTypes => stats'[et].corpus = columns[b]
                            /\ et \in TokenTypes => stats'[et].tokens = tokenTable
        BY <2>1, <2>3
      <3>1. CASE plan[b][i] = Current(b)
        <4>1. pending[b] = stats'[plan[b][i]] /\ props'[plan[b][i]] = props[plan[b][i]]
          BY <2>2, <2>3, <2>5, <3>1
        <4>2. props[plan[b][i]] = cfg[b]
          OBVIOUS
        <4>3. /\ Current(b) \in TokenTypes => pending[b].tokens = tokenTable
              /\ Current(b) \notin PairTypes => pending[b].corpus = columns[b]
          BY <1>7 DEF Commit
        <4> QED
          BY <2>2, <3>1, <4>1, <4>2, <4>3
      <3>2. CASE plan[b][i] # Current(b)
        <4>1. stats'[plan[b][i]] = stats[plan[b][i]] /\ props'[plan[b][i]] = props[plan[b][i]]
          BY <2>3, <2>5, <3>2
        <4>2. /\ stats[plan[b][i]] # NoStats
              /\ stats[plan[b][i]].cfg = cfg[b] /\ props[plan[b][i]] = cfg[b]
              /\ plan[b][i] \notin PairTypes => stats[plan[b][i]].corpus = columns[b]
              /\ plan[b][i] \in TokenTypes => stats[plan[b][i]].tokens = tokenTable
          OBVIOUS
        <4> QED
          BY <4>1, <4>2
      <3> QED
        BY <3>1, <3>2
    <2> QED
      BY <2>4, <2>6
  <1>8. ASSUME NEW b \in Builders, RecordFingerprint(b) PROVE PublishedInv'
    <2>1. \A a \in Builders : a # b => pc[a] = Idle /\ plan[a] = <<>>
      BY <1>8, OthersFinished DEF RecordFingerprint
    <2>2. /\ stats[Current(b)] = pending[b]
          /\ Current(b) \in ErrorTypes
          /\ pending[b] \in Partition /\ pending[b].cfg = cfg[b] /\ pending[b] # NoStats
      BY <1>8, AbsentAssumption DEF RecordFingerprint, SerialInv, CommitInv
    <2>3. ProgressInv'
      BY <1>8, <2>1 DEF RecordFingerprint
    <2>4. FinishedTypesPublished'
      <3>1. ASSUME NEW i \in DOMAIN plan[b], i < next'[b]
            PROVE  i < next[b] \/ i = next[b]
        BY <1>8, <3>1 DEF RecordFingerprint
      <3> QED
        BY <1>8, <2>1, <2>2, <3>1 DEF RecordFingerprint
    <2> QED
      BY <2>3, <2>4
  <1>9. ASSUME NEW b \in Builders, Finish(b) PROVE PublishedInv'
    <2>1. \A a \in Builders : a # b => pc[a] = Idle /\ plan[a] = <<>>
      BY <1>9, OthersFinished DEF Finish
    <2> QED
      BY <1>9, <2>1 DEF Finish, Return
  <1>10. ASSUME NEW b \in Builders, Abort(b) PROVE PublishedInv'
    <2>1. \A a \in Builders : a # b => pc[a] = Idle /\ plan[a] = <<>>
      BY <1>10, OthersFinished DEF Abort
    <2> QED
      BY <1>10, <2>1 DEF Abort, Return
  <1>11. CASE UNCHANGED vars
    BY <1>11 DEF vars
  <1> QED
    BY <1>1, <1>2, <1>3, <1>4, <1>5, <1>6, <1>7, <1>8, <1>9, <1>10, <1>11 DEF Next, Proceed

(* One call at a time, calls that may fail anywhere: the error types a     *)
(* running call has finished keep its configuration, its fingerprint, its  *)
(* corpus and the token table of the moment.                               *)
THEOREM FinishedStaysPublished == ASSUME Serial PROVE Spec => []FinishedTypesPublished
  <1>1. PublishedInv => FinishedTypesPublished
    BY DEF PublishedInv
  <1>2. LocalInv /\ SerialInv /\ PublishedInv /\ [Next]_vars => PublishedInv'
    BY PublishedInvStep
  <1> QED
    BY SerialCorrect, PublishedInvInit, <1>1, <1>2, PTL DEF Spec

-----------------------------------------------------------------------------
(* Serial calls implement PublishedCorpus: the commit is the step in which *)
(* a reader of the catalogue sees data and fingerprint appear, a failure   *)
(* can uncover the old fingerprint of the type that was being written, and *)
(* every other step is invisible.                                          *)

LEMMA PublishedInit == Init => Published!Init
  <1> SUFFICES ASSUME Init PROVE Published!Init
    OBVIOUS
  <1>1. stats \in [ErrorTypes -> Partition \cup {NoStats}]
    BY LocalInit DEF LocalInv, TypeOK
  <1>2. \A et \in ErrorTypes : ~ InWindow(et)
    BY DEF Init, InWindow, Idle, Recording
  <1> QED
    BY <1>1, <1>2 DEF Published!Init, Catalogue, Init

\* A call that fails between commit and ALTER TABLE leaves the old fingerprint.
LEMMA PublishedFails ==
  ASSUME LocalInv, SerialInv, NEW b \in Builders, Abort(b) PROVE Published!Next
  <1> USE DEF Goto, Current, tableVars, Active, Idle, Ingesting, WritingTok, ReadingTok, Scoring,
              Checking, Committing, Recording
  <1>1. /\ \A a \in Builders : pc[a] # Idle => a = b
        /\ pc' = [pc EXCEPT ![b] = Idle]
        /\ stats' = stats /\ props' = props /\ faults' = faults + 1
        /\ props \in [ErrorTypes -> Configs \cup {NoFingerprint}]
        /\ pc \in [Builders -> Active \cup {Idle}]
        /\ pc[b] = Recording => Current(b) \in ErrorTypes
    BY DEF Abort, Return, LocalInv, TypeOK, LoopInv, SerialInv, OneCall
  <1>2. PICK et \in ErrorTypes : pc[b] = Recording => et = Current(b)
    <2>1. AllErrorTypes \in Seq(ErrorTypes) /\ AllErrorTypes # <<>>
      BY TypesAssumption
    <2>2. AllErrorTypes[1] \in ErrorTypes
      BY <2>1
    <2> QED
      BY <1>1, <2>2
  <1>3. \A t \in ErrorTypes : ~ InWindow(t)'
    BY <1>1 DEF InWindow
  <1>4. \A t \in ErrorTypes : t # et => ~ InWindow(t)
    BY <1>1, <1>2 DEF InWindow
  <1>5. Catalogue' = [Catalogue EXCEPT ![et].fingerprint = props[et]]
    BY <1>1, <1>3, <1>4 DEF Catalogue
  <1>6. props[et] \in Configs \cup {NoFingerprint}
    BY <1>1
  <1> QED
    BY <1>1, <1>5, <1>6 DEF Published!Next, Published!Fail

LEMMA PublishedStep ==
  ASSUME Serial, LocalInv, SerialInv, [Next]_vars
  PROVE  [Published!Next]_<<Catalogue, faults>>
  <1> USE DEF Goto, Current, MoreTypes, tableVars, callVars, Active, Idle, Ingesting,
              WritingTok, ReadingTok, Scoring, Checking, Committing, Recording
  <1>1. ASSUME NEW b \in Builders, Commit(b) PROVE Published!Next
    <2>1. /\ \A a \in Builders : pc[a] # Idle => a = b
          /\ existed[b] = tableExists
          /\ Current(b) \in ErrorTypes
          /\ pending[b] \in Partition
      BY <1>1 DEF Commit, LocalInv, TypeOK, LoopInv, CallInv, SerialInv, OneCall, CommitInv
    <2>2. \A et \in ErrorTypes : ~ InWindow(et)
      BY <1>1, <2>1 DEF Commit, InWindow
    <2>3. /\ pc' = [pc EXCEPT ![b] = Recording] /\ plan' = plan /\ next' = next
          /\ pc \in [Builders -> Active \cup {Idle}]
      BY <1>1 DEF Commit, LocalInv, TypeOK
    <2>4. \A et \in ErrorTypes : InWindow(et)' <=> et = Current(b)
      BY <2>1, <2>3 DEF InWindow
    <2>5. \A et \in ErrorTypes :
            /\ et = Current(b) => stats'[et] = pending[b]
            /\ et # Current(b) => stats'[et] = stats[et] /\ props'[et] = props[et]
      <3>1. CASE existed[b]
        BY <1>1, <3>1 DEF Commit, LocalInv, TypeOK
      <3>2. CASE ~ existed[b]
        <4>1. \A et \in ErrorTypes : stats[et] = NoStats /\ props[et] = NoFingerprint
          BY <2>1, <3>2 DEF SerialInv, AbsentInv
        <4> QED
          BY <1>1, <3>2, <4>1 DEF Commit
      <3> QED
        BY <3>1, <3>2
    <2>6. Catalogue' =
            [Catalogue EXCEPT ![Current(b)] = [data |-> pending[b], fingerprint |-> pending[b].cfg]]
      BY <2>1, <2>2, <2>4, <2>5 DEF Catalogue
    <2> QED
      BY <1>1, <2>1, <2>6 DEF Published!Next, Published!Publish, Commit
  <1>2. ASSUME NEW b \in Builders, RecordFingerprint(b)
        PROVE  Catalogue' = Catalogue /\ faults' = faults
    <2>1. /\ \A a \in Builders : pc[a] # Idle => a = b
          /\ stats[Current(b)].cfg = cfg[b]
      BY <1>2 DEF RecordFingerprint, LocalInv, CallInv, SerialInv, OneCall, CommitInv
    <2>2. /\ pc[b] = Recording /\ pc' = [pc EXCEPT ![b] = Scoring]
          /\ stats' = stats
          /\ props' = [props EXCEPT ![Current(b)] = cfg[b]]
          /\ props \in [ErrorTypes -> Configs \cup {NoFingerprint}]
          /\ pc \in [Builders -> Active \cup {Idle}]
      BY <1>2 DEF RecordFingerprint, LocalInv, TypeOK
    <2>3. \A et \in ErrorTypes : InWindow(et) <=> et = Current(b)
      BY <2>1, <2>2 DEF InWindow
    <2>4. \A et \in ErrorTypes : ~ InWindow(et)'
      BY <2>1, <2>2 DEF InWindow
    <2> QED
      BY <1>2, <2>1, <2>2, <2>3, <2>4 DEF Catalogue, RecordFingerprint
  <1>3. ASSUME NEW b \in Builders,
               \/ \E request \in Requests[b] : Start(b, request)
               \/ Ingest(b) \/ WriteTokens(b) \/ ReadTokens(b) \/ Score(b) \/ CheckTable(b)
               \/ Finish(b)
        PROVE  Catalogue' = Catalogue /\ faults' = faults
    <2>1. /\ stats' = stats /\ props' = props /\ faults' = faults
          /\ pc \in [Builders -> Active \cup {Idle}]
          /\ pc[b] # Recording
          /\ \E label \in Active \cup {Idle} :
               label # Recording /\ pc' = [pc EXCEPT ![b] = label]
          /\ \A a \in Builders : a # b => plan'[a] = plan[a] /\ next'[a] = next[a]
      BY <1>3 DEF LocalInv, TypeOK, Start, Ingest, WriteTokens, ReadTokens, Score, CheckTable,
                  Finish, Return
    <2>2. \A et \in ErrorTypes : InWindow(et)' <=> InWindow(et)
      BY <2>1 DEF InWindow
    <2> QED
      BY <2>1, <2>2 DEF Catalogue
  <1>4. ASSUME NEW b \in Builders, Abort(b) PROVE Published!Next
    BY <1>4, PublishedFails
  <1>5. CASE UNCHANGED vars
    BY <1>5 DEF vars, Catalogue, InWindow
  <1> QED
    BY <1>1, <1>2, <1>3, <1>4, <1>5 DEF Next, Proceed

(* One call at a time, failing anywhere, publishes like PublishedCorpus.   *)
THEOREM Refinement ==
  ASSUME Serial
  PROVE  Spec => PublishesAtomically
  <1>1. LocalInv /\ SerialInv /\ [Next]_vars => [Published!Next]_<<Catalogue, faults>>
    BY PublishedStep
  <1> QED
    BY SerialCorrect, PublishedInit, <1>1, PTL DEF Spec, PublishesAtomically, Published!Spec

=============================================================================
