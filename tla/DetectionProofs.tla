---------------------------- MODULE DetectionProofs ----------------------------
(***************************************************************************)
(* Theorems about Detection, for every set of jobs, error types,           *)
(* configurations and corpora.  What CorpusBuildProofs shows of the builds *)
(* holds beside detections, since those only read the tables.              *)
(***************************************************************************)
EXTENDS Detection, CorpusBuildProofs

\* The turn of the comprehension over error types.
Turn == {LoadingTokens, Extracting, Finding, Verifying, Resolving}

JobInv ==
  \A d \in Detectors :
    /\ job[d].at = Idle => job[d] = NoJob
    /\ job[d].at # Idle => job[d].config \in Configs /\ job[d].scan \in Scans
    /\ job[d].at \in Turn => job[d].next \in DOMAIN job[d].scan

DetectInv == LocalInv /\ DetectTypeOK /\ JobInv

-----------------------------------------------------------------------------
(* Types.                                                                  *)

\* Detections only read what the builds write.
LEMMA BuildsBesideJobs == ASSUME [DetectNext]_allVars PROVE [Next]_vars
  <1>1. CASE BuildNext
    BY <1>1 DEF BuildNext, Next
  <1>2. CASE \E d \in Detectors : StartDetect(d) /\ UNCHANGED vars
    BY <1>2
  <1>3. CASE \E d \in Detectors : DetectProceed(d)
    BY <1>3 DEF DetectProceed
  <1>4. CASE \E d \in Detectors : AbortDetect(d)
    BY <1>4 DEF AbortDetect
  <1>5. CASE UNCHANGED allVars
    BY <1>5 DEF allVars
  <1> QED
    BY <1>1, <1>2, <1>3, <1>4, <1>5 DEF DetectNext

LEMMA LocalBesideJobs ==
  ASSUME LocalInv, [DetectNext]_allVars PROVE LocalInv'
  BY BuildsBesideJobs, LocalStep

LEMMA ExtendedFrames ==
  ASSUME NEW S, NEW T, NEW f \in PartialFunctions(S, T), NEW x \in S, NEW t \in T
  PROVE  [y \in DOMAIN f \cup {x} |-> IF y = x THEN t ELSE f[y]] \in PartialFunctions(S, T)
  <1>1. PICK D \in SUBSET S : f \in [D -> T]
    BY DEF PartialFunctions
  <1>2. [y \in D \cup {x} |-> IF y = x THEN t ELSE f[y]] \in [D \cup {x} -> T]
    BY <1>1
  <1>3. D \cup {x} \in SUBSET S /\ DOMAIN f = D
    BY <1>1
  <1> QED
    BY <1>2, <1>3 DEF PartialFunctions

LEMMA NoRowsTyped ==
  ASSUME NEW S, NEW T PROVE NoRows \in PartialFunctions(S, T)
  <1>1. NoRows \in [{} -> T]
    BY DEF NoRows
  <1> QED
    BY <1>1 DEF PartialFunctions

LEMMA NoJobTyped == NoJob \in Job
  BY NoRowsTyped DEF NoJob, Job, Idle

LEMMA EvaluationsTyped ==
  ASSUME LocalInv, DetectTypeOK, NEW d \in Detectors, NEW rows \in Evaluations(d)
  PROVE  /\ rows \in PartialFunctions(ErrorTypes, Partition \cup {NoStats})
         /\ DOMAIN rows = DOMAIN job[d].frames
         /\ \A et \in DOMAIN rows : rows[et] \in {stats[et], job[d].frames[et].resolved}
  <1>1. job[d].frames \in PartialFunctions(ErrorTypes, Frame)
    BY DEF DetectTypeOK, Job
  <1>2. PICK D \in SUBSET ErrorTypes : job[d].frames \in [D -> Frame]
    BY <1>1 DEF PartialFunctions
  <1>3. PICK again : rows = [et \in D |-> IF et \in again THEN stats[et]
                                          ELSE job[d].frames[et].resolved]
    BY <1>2 DEF Evaluations
  <1>4. \A et \in D : /\ stats[et] \in Partition \cup {NoStats}
                      /\ job[d].frames[et].resolved \in Partition \cup {NoStats}
    BY <1>2 DEF LocalInv, TypeOK, Frame
  <1>5. rows \in [D -> Partition \cup {NoStats}]
    BY <1>3, <1>4
  <1> QED
    BY <1>2, <1>3, <1>5 DEF PartialFunctions

LEMMA DetectInvInit == DetectInit => DetectInv
  <1> SUFFICES ASSUME DetectInit PROVE DetectInv
    OBVIOUS
  <1>1. \A d \in Detectors : job[d] = NoJob
    BY DEF DetectInit
  <1>2. job \in [Detectors -> Job]
    BY NoJobTyped DEF DetectInit
  <1>3. NoJob.at = Idle /\ Idle \notin Turn
    BY DEF NoJob, Turn, Idle, LoadingTokens, Extracting, Finding, Verifying, Resolving
  <1> QED
    BY <1>1, <1>2, <1>3, LocalInit DEF DetectInit, DetectInv, LocalInv, DetectTypeOK, JobInv

\* What has to be shown of a step of job d.
LEMMA OneJobMoves ==
  ASSUME DetectInv, LocalInv', NEW d \in Detectors, job' \in [Detectors -> Job],
         \A a \in Detectors : a # d => job'[a] = job[a],
         job'[d].at = Idle => job'[d] = NoJob,
         job'[d].at # Idle => job'[d].config \in Configs /\ job'[d].scan \in Scans,
         job'[d].at \in Turn => job'[d].next \in DOMAIN job'[d].scan
  PROVE  DetectInv'
  BY DEF DetectInv, DetectTypeOK, JobInv, LocalInv

LEMMA JobReturns ==
  ASSUME DetectInv, LocalInv', NEW d \in Detectors, DetectReturn(d) PROVE DetectInv'
  <1>1. NoJob.at = Idle /\ Idle \notin Turn
    BY DEF NoJob, Turn, Idle, LoadingTokens, Extracting, Finding, Verifying, Resolving
  <1>2. job' = [job EXCEPT ![d] = NoJob] /\ job \in [Detectors -> Job]
    BY DEF DetectReturn, DetectInv, DetectTypeOK
  <1>3. /\ job' \in [Detectors -> Job]
        /\ job'[d] = NoJob
        /\ \A a \in Detectors : a # d => job'[a] = job[a]
    BY <1>2, NoJobTyped
  <1> QED
    BY <1>1, <1>3, OneJobMoves

\* One field of one job at a time.
LEMMA FieldsTyped ==
  ASSUME NEW j \in [Detectors -> Job], NEW d \in Detectors
  PROVE  /\ \A x \in Turn \cup {Counting, Showing, Writing, Ending} :
              [j EXCEPT ![d].at = x] \in [Detectors -> Job]
         /\ \A x \in Nat \ {0} : [j EXCEPT ![d].next = x] \in [Detectors -> Job]
         /\ \A x \in Corpora \cup {NoTokens} : [j EXCEPT ![d].tokens = x] \in [Detectors -> Job]
         /\ \A x \in BOOLEAN : [j EXCEPT ![d].warned = x] \in [Detectors -> Job]
         /\ \A x \in PartialFunctions(ErrorTypes, Frame) :
              [j EXCEPT ![d].frames = x] \in [Detectors -> Job]
         /\ \A x \in PartialFunctions(ErrorTypes, Partition \cup {NoStats}) :
              [j EXCEPT ![d].counted = x] \in [Detectors -> Job]
         /\ \A x \in PartialFunctions(ErrorTypes, Partition \cup {NoStats}) :
              [j EXCEPT ![d].written = x] \in [Detectors -> Job]
  <1>1. \A x \in Turn \cup {Counting, Showing, Writing, Ending} :
          [j EXCEPT ![d].at = x] \in [Detectors -> Job]
    BY DEF Job, Turn
  <1>2. \A x \in Nat \ {0} : [j EXCEPT ![d].next = x] \in [Detectors -> Job]
    BY DEF Job
  <1>3. \A x \in Corpora \cup {NoTokens} : [j EXCEPT ![d].tokens = x] \in [Detectors -> Job]
    BY DEF Job
  <1>4. \A x \in BOOLEAN : [j EXCEPT ![d].warned = x] \in [Detectors -> Job]
    BY DEF Job
  <1>5. \A x \in PartialFunctions(ErrorTypes, Frame) :
          [j EXCEPT ![d].frames = x] \in [Detectors -> Job]
    BY DEF Job
  <1>6. \A x \in PartialFunctions(ErrorTypes, Partition \cup {NoStats}) :
          [j EXCEPT ![d].counted = x] \in [Detectors -> Job]
    BY DEF Job
  <1>7. \A x \in PartialFunctions(ErrorTypes, Partition \cup {NoStats}) :
          [j EXCEPT ![d].written = x] \in [Detectors -> Job]
    BY DEF Job
  <1> QED
    BY <1>1, <1>2, <1>3, <1>4, <1>5, <1>6, <1>7

LEMMA TypesMove ==
  ASSUME DetectInv, LocalInv', NEW d \in Detectors, job[d].at \in Turn,
         NEW frames \in PartialFunctions(ErrorTypes, Frame), NextType(d, frames)
  PROVE  DetectInv'
  <1> DEFINE at == IF job[d].next < Len(job[d].scan) THEN LoadingTokens ELSE Counting
             j1 == [job EXCEPT ![d].next = @ + 1]
             j2 == [j1 EXCEPT ![d].tokens = NoTokens]
             j3 == [j2 EXCEPT ![d].warned = FALSE]
             j4 == [j3 EXCEPT ![d].frames = frames]
             j5 == [j4 EXCEPT ![d].at = at]
  <1>1. job \in [Detectors -> Job]
    BY DEF DetectInv, DetectTypeOK
  <1>2. job' = j5
    BY DEF NextType
  <1>3. /\ job'[d].at = at
        /\ job'[d].config = job[d].config /\ job'[d].scan = job[d].scan
        /\ job'[d].next = job[d].next + 1
        /\ \A a \in Detectors : a # d => job'[a] = job[a]
    BY <1>1, <1>2 DEF Job
  <1>4. job' \in [Detectors -> Job]
    <2>1. j1 \in [Detectors -> Job]
      <3>1. job[d].next + 1 \in Nat \ {0}
        BY <1>1 DEF Job
      <3> QED
        BY <1>1, <3>1, FieldsTyped
    <2> HIDE DEF j1
    <2>2. j2 \in [Detectors -> Job]
      BY <2>1, FieldsTyped
    <2> HIDE DEF j2
    <2>3. j3 \in [Detectors -> Job]
      BY <2>2, FieldsTyped
    <2> HIDE DEF j3
    <2>4. j4 \in [Detectors -> Job]
      BY <2>3, FieldsTyped
    <2> HIDE DEF j4
    <2>5. at \in Turn \cup {Counting}
      BY DEF Turn
    <2>6. j5 \in [Detectors -> Job]
      BY <2>4, <2>5, FieldsTyped
    <2> HIDE DEF j5
    <2> QED
      BY <2>6, <1>2
  <1>5. job[d].at # Idle /\ at # Idle /\ (at \in Turn => job[d].next < Len(job[d].scan))
    BY DEF Turn, Idle, LoadingTokens, Extracting, Finding, Verifying, Resolving, Counting
  <1>6. /\ job[d].config \in Configs /\ job[d].scan \in Scans
        /\ job[d].next \in DOMAIN job[d].scan
    BY <1>5 DEF DetectInv, JobInv
  <1>7. job[d].scan \in Seq(ErrorTypes)
    BY <1>6, DetectorsAssumption
  <1>8. at \in Turn => job[d].next + 1 \in DOMAIN job[d].scan
    BY <1>5, <1>6, <1>7
  <1> HIDE DEF at, j5
  <1> QED
    BY <1>3, <1>4, <1>5, <1>6, <1>8, OneJobMoves

\* A step inside a turn or after the last one.
LEMMA JobAdvances ==
  ASSUME DetectInv, LocalInv', NEW d \in Detectors, job' \in [Detectors -> Job],
         \A a \in Detectors : a # d => job'[a] = job[a],
         job[d].at # Idle, job'[d].at # Idle, job'[d].at \in Turn => job[d].at \in Turn,
         job'[d].config = job[d].config, job'[d].scan = job[d].scan, job'[d].next = job[d].next
  PROVE  DetectInv'
  <1>1. /\ job[d].config \in Configs /\ job[d].scan \in Scans
        /\ job[d].at \in Turn => job[d].next \in DOMAIN job[d].scan
    BY DEF DetectInv, JobInv
  <1> QED
    BY <1>1, OneJobMoves

LEMMA LabelMoves ==
  ASSUME DetectInv, LocalInv', NEW d \in Detectors,
         NEW at \in Turn \cup {Counting, Showing, Writing, Ending}, job' = [job EXCEPT ![d].at = at],
         job[d].at # Idle, at \in Turn => job[d].at \in Turn
  PROVE  DetectInv'
  <1>1. job \in [Detectors -> Job]
    BY DEF DetectInv, DetectTypeOK
  <1>2. job' \in [Detectors -> Job]
    BY <1>1, FieldsTyped
  <1>3. /\ job'[d].at = at /\ job'[d].config = job[d].config
        /\ job'[d].scan = job[d].scan /\ job'[d].next = job[d].next
        /\ \A a \in Detectors : a # d => job'[a] = job[a]
    BY <1>1 DEF Job
  <1>4. at # Idle
    BY DEF Turn, Idle, LoadingTokens, Extracting, Finding, Verifying, Resolving, Counting, Showing,
           Writing, Ending
  <1> QED
    BY <1>2, <1>3, <1>4, JobAdvances

LEMMA JobStarts ==
  ASSUME DetectInv, LocalInv', NEW d \in Detectors, StartDetect(d) PROVE DetectInv'
  <1>1. PICK c \in Configs, l \in Leniency, types \in Scans :
          job' = [job EXCEPT ![d] = [NoJob EXCEPT !.at = LoadingTokens, !.config = c,
                                                  !.lenient = l, !.scan = types]]
    BY DEF StartDetect
  <1> DEFINE r1 == [NoJob EXCEPT !.at = LoadingTokens]
             r2 == [r1 EXCEPT !.config = c]
             r3 == [r2 EXCEPT !.lenient = l]
             r4 == [r3 EXCEPT !.scan = types]
  <1>2. job' = [job EXCEPT ![d] = r4] /\ job \in [Detectors -> Job]
    BY <1>1 DEF DetectInv, DetectTypeOK
  <1>3. r4.at = LoadingTokens /\ r4.config = c /\ r4.scan = types /\ r4.next = 1
    BY DEF NoJob
  <1>4. r4 \in Job
    <2>1. r1 \in Job
      BY NoJobTyped DEF Job
    <2> HIDE DEF r1
    <2>2. r2 \in Job
      BY <2>1 DEF Job
    <2> HIDE DEF r2
    <2>3. r3 \in Job
      BY <2>2, DetectorsAssumption DEF Job
    <2> HIDE DEF r3
    <2> QED
      BY <2>3 DEF Job
  <1> HIDE DEF r4
  <1>5. types \in Seq(ErrorTypes) /\ types # <<>>
    BY DetectorsAssumption
  <1>6. 1 \in DOMAIN types
    BY <1>5
  <1>7. /\ job' \in [Detectors -> Job] /\ job'[d] = r4
        /\ \A a \in Detectors : a # d => job'[a] = job[a]
    BY <1>2, <1>4
  <1>8. LoadingTokens # Idle
    BY DEF LoadingTokens, Idle
  <1> QED
    BY <1>3, <1>6, <1>7, <1>8, OneJobMoves

LEMMA JobProceeds ==
  ASSUME DetectInv, LocalInv', NEW d \in Detectors, DetectProceed(d) PROVE DetectInv'
  <1> USE DEF Idle, LoadingTokens, Extracting, Finding, Verifying, Resolving, Counting, Showing,
              Writing, Ending
  <1>1. job \in [Detectors -> Job]
    BY DEF DetectInv, DetectTypeOK
  <1>2. CASE LoadTokens(d)
    <2> DEFINE j1 == [job EXCEPT ![d].at = Extracting]
               tokens == IF Scanned(d) \in TokenTypes THEN tokenTable ELSE NoTokens
               j2 == [j1 EXCEPT ![d].tokens = tokens]
    <2>1. job' = j2 /\ job[d].at = LoadingTokens
      BY <1>2 DEF LoadTokens
    <2>2. tokens \in Corpora \cup {NoTokens}
      BY DEF DetectInv, LocalInv, TypeOK
    <2>3. j1 \in [Detectors -> Job]
      BY <1>1, FieldsTyped DEF Turn
    <2>4. /\ job'[d].at = Extracting /\ job'[d].config = job[d].config
          /\ job'[d].scan = job[d].scan /\ job'[d].next = job[d].next
          /\ \A a \in Detectors : a # d => job'[a] = job[a]
      BY <1>1, <2>1 DEF Job
    <2> HIDE DEF j1, tokens
    <2>5. j2 \in [Detectors -> Job]
      BY <2>2, <2>3, FieldsTyped
    <2> HIDE DEF j2
    <2> QED
      BY <2>1, <2>4, <2>5, JobAdvances DEF Turn
  <1>3. CASE Extract(d)
    BY <1>3, LabelMoves DEF Extract, Turn
  <1>4. CASE ExtractNothing(d)
    <2>1. job[d].frames \in PartialFunctions(ErrorTypes, Frame) /\ job[d].at \in Turn
      BY <1>1, <1>4 DEF Job, ExtractNothing, Turn
    <2> QED
      BY <1>4, <2>1, TypesMove DEF ExtractNothing
  <1>5. CASE FindTable(d)
    BY <1>5, LabelMoves DEF FindTable, Turn
  <1>6. CASE NoCorpus(d)
    BY <1>6, JobReturns DEF NoCorpus
  <1>7. CASE Verify(d)
    <2> DEFINE j1 == [job EXCEPT ![d].at = Resolving]
               warned == props[Scanned(d)] # job[d].config
               j2 == [j1 EXCEPT ![d].warned = warned]
    <2>1. job' = j2 /\ job[d].at = Verifying
      BY <1>7 DEF Verify
    <2>2. j1 \in [Detectors -> Job]
      BY <1>1, FieldsTyped DEF Turn
    <2>3. /\ job'[d].at = Resolving /\ job'[d].config = job[d].config
          /\ job'[d].scan = job[d].scan /\ job'[d].next = job[d].next
          /\ \A a \in Detectors : a # d => job'[a] = job[a]
      BY <1>1, <2>1 DEF Job
    <2>4. warned \in BOOLEAN
      OBVIOUS
    <2> HIDE DEF j1, warned
    <2>5. j2 \in [Detectors -> Job]
      BY <2>2, <2>4, FieldsTyped
    <2> HIDE DEF j2
    <2> QED
      BY <2>1, <2>3, <2>5, JobAdvances DEF Turn
  <1>8. CASE Reject(d)
    BY <1>8, JobReturns DEF Reject
  <1>9. CASE Resolve(d)
    <2> DEFINE et == Scanned(d)
               frame == [tokens |-> job[d].tokens, resolved |-> stats[et], warned |-> job[d].warned]
               frames == [t \in DOMAIN job[d].frames \cup {et} |->
                            IF t = et THEN frame ELSE job[d].frames[t]]
    <2>1. job[d].at = Resolving /\ NextType(d, frames)
      BY <1>9 DEF Resolve
    <2>2. job[d].scan \in Seq(ErrorTypes) /\ job[d].next \in DOMAIN job[d].scan
      BY <2>1, DetectorsAssumption DEF DetectInv, JobInv, Turn
    <2>3. et \in ErrorTypes
      BY <2>2 DEF Scanned
    <2>4. frame \in Frame
      BY <1>1, <2>3 DEF Frame, Job, DetectInv, LocalInv, TypeOK
    <2>5. job[d].frames \in PartialFunctions(ErrorTypes, Frame)
      BY <1>1 DEF Job
    <2> HIDE DEF frame, et
    <2>6. frames \in PartialFunctions(ErrorTypes, Frame)
      BY <2>3, <2>4, <2>5, ExtendedFrames
    <2> HIDE DEF frames
    <2> QED
      BY <2>1, <2>6, TypesMove DEF Turn
  <1>10. CASE Count(d)
    <2>1. PICK rows \in Evaluations(d) : job' = [job EXCEPT ![d].at = Showing, ![d].counted = rows]
      BY <1>10 DEF Count
    <2> DEFINE j1 == [job EXCEPT ![d].at = Showing]
               j2 == [j1 EXCEPT ![d].counted = rows]
    <2>2. job' = j2 /\ job[d].at = Counting
      BY <1>10, <2>1 DEF Count
    <2>3. j1 \in [Detectors -> Job]
      BY <1>1, FieldsTyped
    <2>4. /\ job'[d].at = Showing /\ job'[d].config = job[d].config
          /\ job'[d].scan = job[d].scan /\ job'[d].next = job[d].next
          /\ \A a \in Detectors : a # d => job'[a] = job[a]
      BY <1>1, <2>2 DEF Job
    <2>5. rows \in PartialFunctions(ErrorTypes, Partition \cup {NoStats})
      BY EvaluationsTyped DEF DetectInv
    <2> HIDE DEF j1
    <2>6. j2 \in [Detectors -> Job]
      BY <2>3, <2>5, FieldsTyped
    <2> HIDE DEF j2
    <2> QED
      BY <2>2, <2>4, <2>6, JobAdvances DEF Turn
  <1>11. CASE Show(d)
    <2>1. PICK after \in {Writing, Ending} : job' = [job EXCEPT ![d].at = after]
      BY <1>11 DEF Show
    <2> QED
      BY <1>11, <2>1, LabelMoves DEF Show, Turn
  <1>12. CASE Write(d)
    <2>1. PICK rows \in Evaluations(d) : job' = [job EXCEPT ![d].at = Ending, ![d].written = rows]
      BY <1>12 DEF Write
    <2> DEFINE j1 == [job EXCEPT ![d].at = Ending]
               j2 == [j1 EXCEPT ![d].written = rows]
    <2>2. job' = j2 /\ job[d].at = Writing
      BY <1>12, <2>1 DEF Write
    <2>3. j1 \in [Detectors -> Job]
      BY <1>1, FieldsTyped
    <2>4. /\ job'[d].at = Ending /\ job'[d].config = job[d].config
          /\ job'[d].scan = job[d].scan /\ job'[d].next = job[d].next
          /\ \A a \in Detectors : a # d => job'[a] = job[a]
      BY <1>1, <2>2 DEF Job
    <2>5. rows \in PartialFunctions(ErrorTypes, Partition \cup {NoStats})
      BY EvaluationsTyped DEF DetectInv
    <2> HIDE DEF j1
    <2>6. j2 \in [Detectors -> Job]
      BY <2>3, <2>5, FieldsTyped
    <2> HIDE DEF j2
    <2> QED
      BY <2>2, <2>4, <2>6, JobAdvances DEF Turn
  <1>13. CASE EndDetect(d)
    BY <1>13, JobReturns DEF EndDetect
  <1> QED
    BY <1>2, <1>3, <1>4, <1>5, <1>6, <1>7, <1>8, <1>9, <1>10, <1>11, <1>12, <1>13 DEF DetectProceed

LEMMA DetectInvStep == DetectInv /\ [DetectNext]_allVars => DetectInv'
  <1> SUFFICES ASSUME DetectInv, [DetectNext]_allVars PROVE DetectInv'
    OBVIOUS
  <1>1. LocalInv'
    BY LocalBesideJobs DEF DetectInv
  <1>2. CASE UNCHANGED job
    BY <1>1, <1>2 DEF DetectInv, DetectTypeOK, JobInv, LocalInv
  <1>3. ASSUME NEW d \in Detectors, StartDetect(d) PROVE DetectInv'
    BY <1>1, <1>3, JobStarts
  <1>4. ASSUME NEW d \in Detectors, DetectProceed(d) PROVE DetectInv'
    BY <1>1, <1>4, JobProceeds
  <1>5. ASSUME NEW d \in Detectors, AbortDetect(d) PROVE DetectInv'
    BY <1>1, <1>5, JobReturns DEF AbortDetect
  <1> QED
    BY <1>2, <1>3, <1>4, <1>5 DEF DetectNext, BuildNext, allVars

LEMMA DetectCorrect == DetectSpec => []DetectInv
  BY DetectInvInit, DetectInvStep, PTL DEF DetectSpec

(* In every deployment, tables and the locals of builds and detections     *)
(* hold what the code can produce.                                         *)
THEOREM DetectTypeCorrect == DetectSpec => []DetectTypeOK
  <1>1. DetectInv => DetectTypeOK
    BY DEF DetectInv
  <1> QED
    BY DetectCorrect, <1>1, PTL

-----------------------------------------------------------------------------
(* Deployments in which builds and detections do not overlap.  A detection *)
(* then sees one state of the tables from start to end (Exclusive,         *)
(* JobsInv), and in that state every fingerprint tells the truth but those *)
(* of partitions whose builder died (RecordedMatchesData), and no          *)
(* fingerprint is there without data (FingerprintInv).                     *)

Exclusive == DetectorsIdle \/ Quiescent

FingerprintInv == \A et \in ErrorTypes : props[et] # NoFingerprint => stats[et] # NoStats

\* A lazy frame is of the partition and the token table that are there.
SoundFrame(config, et, frame) ==
  /\ frame.resolved = stats[et]
  /\ frame.warned \/ props[et] = config
  /\ et \in TokenTypes => frame.tokens = tokenTable

\* What an evaluation has read is what is there.
SoundRows(frames, rows) ==
  \A et \in DOMAIN rows : et \in DOMAIN frames /\ rows[et] = stats[et]

\* The locals r of a job agree with the tables.
Sound(r) ==
  /\ r.at = Resolving => r.warned \/ props[r.scan[r.next]] = r.config
  /\ r.at \in {Extracting, Finding, Verifying, Resolving} /\ r.scan[r.next] \in TokenTypes =>
       r.tokens = tokenTable
  /\ \A et \in DOMAIN r.frames : SoundFrame(r.config, et, r.frames[et])
  /\ SoundRows(r.frames, r.counted) /\ SoundRows(r.frames, r.written)

JobsInv == \A d \in Detectors : Sound(job[d])

LEMMA PublishedCorrect ==
  ASSUME Serial PROVE Spec => [](LocalInv /\ SerialInv /\ PublishedInv)
  <1>1. LocalInv /\ SerialInv /\ PublishedInv /\ [Next]_vars => PublishedInv'
    BY PublishedInvStep
  <1> QED
    BY SerialCorrect, PublishedInvInit, <1>1, PTL DEF Spec

LEMMA BuildsCorrect ==
  ASSUME Serial
  PROVE  DetectSpec => [](DetectInv /\ LocalInv /\ SerialInv /\ PublishedInv)
  <1>1. DetectInit => Init
    BY DEF DetectInit
  <1>2. [DetectNext]_allVars => [Next]_vars
    BY BuildsBesideJobs
  <1>3. DetectSpec => Spec
    BY <1>1, <1>2, PTL DEF DetectSpec, Spec
  <1> QED
    BY DetectCorrect, PublishedCorrect, <1>3, PTL

LEMMA FingerprintInit == Init => FingerprintInv
  BY DEF Init, FingerprintInv

LEMMA FingerprintStep ==
  ASSUME LocalInv, SerialInv, FingerprintInv, [Next]_vars
  PROVE  FingerprintInv'
  <1> USE DEF Current, tableVars, callVars, Idle, Recording, Committing
  <1>1. ASSUME NEW b \in Builders, Commit(b) PROVE FingerprintInv'
    <2>1. /\ existed[b] = tableExists
          /\ pending[b] # NoStats
          /\ stats \in [ErrorTypes -> Partition \cup {NoStats}]
      BY <1>1, AbsentAssumption DEF Commit, LocalInv, TypeOK, CallInv, SerialInv, CommitInv
    <2>2. ASSUME NEW et \in ErrorTypes, props'[et] # NoFingerprint PROVE stats'[et] # NoStats
      <3>1. CASE existed[b]
        BY <1>1, <2>1, <2>2, <3>1 DEF Commit, FingerprintInv
      <3>2. CASE ~ existed[b]
        BY <1>1, <2>1, <2>2, <3>2 DEF Commit, SerialInv, AbsentInv
      <3> QED
        BY <3>1, <3>2
    <2> QED
      BY <2>2 DEF FingerprintInv
  <1>2. ASSUME NEW b \in Builders, RecordFingerprint(b) PROVE FingerprintInv'
    <2>1. /\ stats[Current(b)] # NoStats
          /\ stats' = stats
          /\ props' = [props EXCEPT ![Current(b)] = cfg[b]]
          /\ props \in [ErrorTypes -> Configs \cup {NoFingerprint}]
      BY <1>2, AbsentAssumption
         DEF RecordFingerprint, LocalInv, TypeOK, CallInv, SerialInv, CommitInv
    <2> QED
      BY <2>1 DEF FingerprintInv
  <1>3. ASSUME NEW b \in Builders,
               \/ \E request \in Requests[b] : Start(b, request)
               \/ Ingest(b) \/ WriteTokens(b) \/ ReadTokens(b) \/ Score(b) \/ CheckTable(b)
               \/ Finish(b) \/ Abort(b)
        PROVE  FingerprintInv'
    <2>1. stats' = stats /\ props' = props
      BY <1>3 DEF Start, Ingest, WriteTokens, ReadTokens, Score, CheckTable, Finish, Abort, Return
    <2> QED
      BY <2>1 DEF FingerprintInv
  <1>4. CASE UNCHANGED vars
    BY <1>4 DEF vars, FingerprintInv
  <1> QED
    BY <1>1, <1>2, <1>3, <1>4 DEF Next, Proceed

LEMMA ExclusiveStep ==
  ASSUME Serial, Exclusive, [DetectNext]_allVars PROVE Exclusive'
  <1>1. CASE BuildNext
    <2>1. PICK b \in Builders :
            \/ (Serial => DetectorsIdle) /\ \E request \in Requests[b] : Start(b, request)
            \/ Proceed(b)
            \/ Abort(b)
      BY <1>1 DEF BuildNext
    <2>2. Proceed(b) \/ Abort(b) => pc[b] # Idle
      BY DEF Proceed, Ingest, WriteTokens, ReadTokens, Score, CheckTable, Commit, RecordFingerprint,
             Finish, Abort, Active, Idle, Ingesting, WritingTok, ReadingTok, Scoring, Checking,
             Committing, Recording
    <2>3. DetectorsIdle
      BY <2>1, <2>2 DEF Exclusive, Quiescent
    <2> QED
      BY <1>1, <2>3 DEF BuildNext, Exclusive, DetectorsIdle
  <1>2. ASSUME NEW d \in Detectors, StartDetect(d), UNCHANGED vars PROVE Exclusive'
    BY <1>2 DEF StartDetect, Exclusive, Quiescent, vars
  <1>3. ASSUME NEW d \in Detectors, DetectProceed(d) PROVE Exclusive'
    <2>1. job[d].at # Idle
      BY <1>3 DEF DetectProceed, LoadTokens, Extract, ExtractNothing, FindTable, NoCorpus, Verify,
                  Reject, Resolve, Count, Show, Write, EndDetect, Idle, LoadingTokens, Extracting,
                  Finding, Verifying, Resolving, Counting, Showing, Writing, Ending
    <2>2. UNCHANGED vars
      BY <1>3 DEF DetectProceed
    <2> QED
      BY <2>1, <2>2 DEF Exclusive, DetectorsIdle, Quiescent, vars
  <1>4. ASSUME NEW d \in Detectors, AbortDetect(d) PROVE Exclusive'
    <2>1. job[d].at # Idle /\ UNCHANGED pc
      BY <1>4 DEF AbortDetect, vars
    <2> QED
      BY <2>1 DEF Exclusive, DetectorsIdle, Quiescent
  <1>5. CASE UNCHANGED allVars
    BY <1>5 DEF allVars, vars, Exclusive, DetectorsIdle, Quiescent
  <1> QED
    BY <1>1, <1>2, <1>3, <1>4, <1>5 DEF DetectNext

LEMMA NoJobSound == Sound(NoJob) /\ Sound(NoJob)'
  BY DEF Sound, SoundRows, NoJob, NoRows, Idle, Extracting, Finding, Verifying, Resolving

\* A step of job d, which leaves the tables as they are.
LEMMA OneJobSound ==
  ASSUME JobsInv, UNCHANGED vars, NEW d \in Detectors,
         \A a \in Detectors : a # d => job'[a] = job[a], Sound(job'[d])
  PROVE  JobsInv'
  <1>1. tokenTable' = tokenTable /\ props' = props /\ stats' = stats
    BY DEF vars, tableVars
  <1>2. \A a \in Detectors : Sound(job'[a])
    BY DEF JobsInv
  <1>3. JobsInv' <=> \A a \in Detectors : Sound(job'[a])
    BY <1>1 DEF JobsInv, Sound, SoundFrame, SoundRows
  <1> QED
    BY <1>2, <1>3

LEMMA JobReturnsSound ==
  ASSUME DetectInv, JobsInv, UNCHANGED vars, NEW d \in Detectors, DetectReturn(d) PROVE JobsInv'
  <1>1. job \in [Detectors -> Job]
    BY DEF DetectInv, DetectTypeOK
  <1>2. job'[d] = NoJob /\ \A a \in Detectors : a # d => job'[a] = job[a]
    BY <1>1 DEF DetectReturn
  <1> QED
    BY <1>2, NoJobSound, OneJobSound

LEMMA TypesMoveSound ==
  ASSUME DetectInv, JobsInv, UNCHANGED vars, NEW d \in Detectors, NEW frames, NextType(d, frames),
         \A et \in DOMAIN frames : SoundFrame(job[d].config, et, frames[et]),
         DOMAIN job[d].frames \subseteq DOMAIN frames
  PROVE  JobsInv'
  <1>1. job \in [Detectors -> Job] /\ Sound(job[d])
    BY DEF DetectInv, DetectTypeOK, JobsInv
  <1>2. /\ job'[d].at \in {LoadingTokens, Counting}
        /\ job'[d].config = job[d].config /\ job'[d].frames = frames
        /\ job'[d].counted = job[d].counted /\ job'[d].written = job[d].written
        /\ \A a \in Detectors : a # d => job'[a] = job[a]
    BY <1>1 DEF NextType, Job
  <1>3. SoundRows(frames, job[d].counted) /\ SoundRows(frames, job[d].written)
    BY <1>1 DEF Sound, SoundRows
  <1>4. Sound(job'[d])
    BY <1>2, <1>3 DEF Sound, LoadingTokens, Counting, Extracting, Finding, Verifying, Resolving
  <1> QED
    BY <1>2, <1>4, OneJobSound

LEMMA JobStartsSound ==
  ASSUME DetectInv, JobsInv, UNCHANGED vars, NEW d \in Detectors, StartDetect(d) PROVE JobsInv'
  <1>1. PICK c \in Configs, l \in Leniency, types \in Scans :
          job' = [job EXCEPT ![d] = [NoJob EXCEPT !.at = LoadingTokens, !.config = c,
                                                  !.lenient = l, !.scan = types]]
    BY DEF StartDetect
  <1>2. job \in [Detectors -> Job]
    BY DEF DetectInv, DetectTypeOK
  <1>3. /\ job'[d].at = LoadingTokens
        /\ job'[d].frames = NoRows /\ job'[d].counted = NoRows /\ job'[d].written = NoRows
        /\ \A a \in Detectors : a # d => job'[a] = job[a]
    BY <1>1, <1>2 DEF NoJob
  <1>4. Sound(job'[d])
    BY <1>3 DEF Sound, SoundRows, NoRows, LoadingTokens, Extracting, Finding, Verifying, Resolving
  <1> QED
    BY <1>3, <1>4, OneJobSound

\* With sound frames, an evaluation reads what is there, whichever version it takes.
LEMMA EvaluationsSound ==
  ASSUME DetectInv, JobsInv, NEW d \in Detectors, NEW rows \in Evaluations(d)
  PROVE  SoundRows(job[d].frames, rows)
  BY EvaluationsTyped DEF DetectInv, JobsInv, Sound, SoundFrame, SoundRows

LEMMA JobProceedsSound ==
  ASSUME DetectInv, JobsInv, NEW d \in Detectors, DetectProceed(d) PROVE JobsInv'
  <1> USE DEF Idle, LoadingTokens, Extracting, Finding, Verifying, Resolving, Counting, Showing,
              Writing, Ending
  <1>1. job \in [Detectors -> Job] /\ Sound(job[d]) /\ UNCHANGED vars
    BY DEF DetectInv, DetectTypeOK, JobsInv, DetectProceed
  <1>2. CASE LoadTokens(d)
    <2>1. /\ job'[d].at = Extracting /\ job'[d].config = job[d].config
          /\ job'[d].scan = job[d].scan /\ job'[d].next = job[d].next
          /\ job'[d].frames = job[d].frames
          /\ job'[d].counted = job[d].counted /\ job'[d].written = job[d].written
          /\ Scanned(d) \in TokenTypes => job'[d].tokens = tokenTable
          /\ \A a \in Detectors : a # d => job'[a] = job[a]
      BY <1>1, <1>2 DEF LoadTokens, Job
    <2>2. Sound(job'[d])
      BY <1>1, <2>1 DEF Sound, Scanned
    <2> QED
      BY <1>1, <2>1, <2>2, OneJobSound
  <1>3. CASE Extract(d) \/ FindTable(d) \/ Show(d)
    <2>1. /\ job'[d].at # Resolving
          /\ job'[d].at \in {Finding, Verifying} => job[d].at \in {Extracting, Finding}
          /\ job'[d].at # Extracting
          /\ job'[d].config = job[d].config /\ job'[d].tokens = job[d].tokens
          /\ job'[d].scan = job[d].scan /\ job'[d].next = job[d].next
          /\ job'[d].frames = job[d].frames
          /\ job'[d].counted = job[d].counted /\ job'[d].written = job[d].written
          /\ \A a \in Detectors : a # d => job'[a] = job[a]
      BY <1>1, <1>3 DEF Extract, FindTable, Show, Job
    <2>2. Sound(job'[d])
      BY <1>1, <2>1 DEF Sound
    <2> QED
      BY <1>1, <2>1, <2>2, OneJobSound
  <1>4. CASE ExtractNothing(d)
    BY <1>1, <1>4, TypesMoveSound DEF ExtractNothing, Sound
  <1>5. CASE NoCorpus(d) \/ Reject(d) \/ EndDetect(d)
    BY <1>1, <1>5, JobReturnsSound DEF NoCorpus, Reject, EndDetect
  <1>6. CASE Verify(d)
    <2>1. /\ job[d].at = Verifying /\ job'[d].at = Resolving
          /\ job'[d].warned = (props[Scanned(d)] # job[d].config)
          /\ job'[d].config = job[d].config /\ job'[d].tokens = job[d].tokens
          /\ job'[d].scan = job[d].scan /\ job'[d].next = job[d].next
          /\ job'[d].frames = job[d].frames
          /\ job'[d].counted = job[d].counted /\ job'[d].written = job[d].written
          /\ \A a \in Detectors : a # d => job'[a] = job[a]
      BY <1>1, <1>6 DEF Verify, Job
    <2>2. Sound(job'[d])
      BY <1>1, <2>1 DEF Sound, Scanned
    <2> QED
      BY <1>1, <2>1, <2>2, OneJobSound
  <1>7. CASE Resolve(d)
    <2> DEFINE et == Scanned(d)
               frame == [tokens |-> job[d].tokens, resolved |-> stats[et], warned |-> job[d].warned]
               frames == [t \in DOMAIN job[d].frames \cup {et} |->
                            IF t = et THEN frame ELSE job[d].frames[t]]
    <2>1. job[d].at = Resolving /\ NextType(d, frames)
      BY <1>7 DEF Resolve
    <2>2. SoundFrame(job[d].config, et, frame)
      BY <1>1, <2>1 DEF Sound, SoundFrame, Scanned
    <2> HIDE DEF frame, et
    <2>3. \A t \in DOMAIN frames : SoundFrame(job[d].config, t, frames[t])
      BY <1>1, <2>2 DEF Sound
    <2>4. DOMAIN job[d].frames \subseteq DOMAIN frames
      OBVIOUS
    <2> HIDE DEF frames
    <2> QED
      BY <1>1, <2>1, <2>3, <2>4, TypesMoveSound
  <1>8. CASE Count(d)
    <2>1. PICK rows \in Evaluations(d) : job' = [job EXCEPT ![d].at = Showing, ![d].counted = rows]
      BY <1>8 DEF Count
    <2>2. /\ job'[d].at = Showing /\ job'[d].config = job[d].config
          /\ job'[d].frames = job[d].frames
          /\ job'[d].counted = rows /\ job'[d].written = job[d].written
          /\ \A a \in Detectors : a # d => job'[a] = job[a]
      BY <1>1, <2>1 DEF Job
    <2>3. Sound(job'[d])
      BY <1>1, <2>2, EvaluationsSound DEF Sound
    <2> QED
      BY <1>1, <2>2, <2>3, OneJobSound
  <1>9. CASE Write(d)
    <2>1. PICK rows \in Evaluations(d) : job' = [job EXCEPT ![d].at = Ending, ![d].written = rows]
      BY <1>9 DEF Write
    <2>2. /\ job'[d].at = Ending /\ job'[d].config = job[d].config
          /\ job'[d].frames = job[d].frames
          /\ job'[d].counted = job[d].counted /\ job'[d].written = rows
          /\ \A a \in Detectors : a # d => job'[a] = job[a]
      BY <1>1, <2>1 DEF Job
    <2>3. Sound(job'[d])
      BY <1>1, <2>2, EvaluationsSound DEF Sound
    <2> QED
      BY <1>1, <2>2, <2>3, OneJobSound
  <1> QED
    BY <1>2, <1>3, <1>4, <1>5, <1>6, <1>7, <1>8, <1>9 DEF DetectProceed

LEMMA JobsInvStep ==
  ASSUME Serial, DetectInv, Exclusive, JobsInv, [DetectNext]_allVars
  PROVE  JobsInv'
  <1>1. CASE BuildNext
    <2>1. PICK b \in Builders :
            \/ (Serial => DetectorsIdle) /\ \E request \in Requests[b] : Start(b, request)
            \/ Proceed(b)
            \/ Abort(b)
      BY <1>1 DEF BuildNext
    <2>2. Proceed(b) \/ Abort(b) => pc[b] # Idle
      BY DEF Proceed, Ingest, WriteTokens, ReadTokens, Score, CheckTable, Commit, RecordFingerprint,
             Finish, Abort, Active, Idle, Ingesting, WritingTok, ReadingTok, Scoring, Checking,
             Committing, Recording
    <2>3. DetectorsIdle
      BY <2>1, <2>2 DEF Exclusive, Quiescent
    <2>4. \A d \in Detectors : job'[d] = NoJob
      BY <1>1, <2>3 DEF BuildNext, DetectorsIdle, DetectInv, JobInv
    <2> QED
      BY <2>4, NoJobSound DEF JobsInv
  <1>2. ASSUME NEW d \in Detectors, StartDetect(d), UNCHANGED vars PROVE JobsInv'
    BY <1>2, JobStartsSound
  <1>3. ASSUME NEW d \in Detectors, DetectProceed(d) PROVE JobsInv'
    BY <1>3, JobProceedsSound
  <1>4. ASSUME NEW d \in Detectors, AbortDetect(d) PROVE JobsInv'
    BY <1>4, JobReturnsSound DEF AbortDetect
  <1>5. CASE UNCHANGED allVars
    BY <1>5 DEF allVars, vars, tableVars, JobsInv, Sound, SoundFrame, SoundRows
  <1> QED
    BY <1>1, <1>2, <1>3, <1>4, <1>5 DEF DetectNext

SerialDetectInv == DetectInv /\ SerialInv /\ FingerprintInv /\ Exclusive /\ JobsInv

LEMMA SerialDetectCorrect ==
  ASSUME Serial PROVE DetectSpec => []SerialDetectInv
  <1>1. DetectInit => FingerprintInv /\ Exclusive /\ JobsInv
    <2> SUFFICES ASSUME DetectInit PROVE FingerprintInv /\ Exclusive /\ JobsInv
      OBVIOUS
    <2>1. \A d \in Detectors : job[d] = NoJob
      BY DEF DetectInit
    <2>2. Exclusive
      BY <2>1 DEF Exclusive, DetectorsIdle, NoJob
    <2>3. JobsInv
      BY <2>1, NoJobSound DEF JobsInv
    <2> QED
      BY <2>2, <2>3, FingerprintInit DEF DetectInit
  <1>2. DetectInv /\ SerialInv /\ FingerprintInv /\ [DetectNext]_allVars => FingerprintInv'
    <2> SUFFICES ASSUME DetectInv, SerialInv, FingerprintInv, [DetectNext]_allVars
                 PROVE  FingerprintInv'
      OBVIOUS
    <2>1. LocalInv /\ [Next]_vars
      BY BuildsBesideJobs DEF DetectInv
    <2> QED
      BY <2>1, FingerprintStep
  <1>3. Exclusive /\ [DetectNext]_allVars => Exclusive'
    BY ExclusiveStep
  <1>4. DetectInv /\ Exclusive /\ JobsInv /\ [DetectNext]_allVars => JobsInv'
    BY JobsInvStep
  <1>5. DetectInv /\ SerialInv /\ FingerprintInv /\ Exclusive /\ JobsInv => SerialDetectInv
    BY DEF SerialDetectInv
  <1> QED
    BY BuildsCorrect, <1>1, <1>2, <1>3, <1>4, <1>5, PTL DEF DetectSpec

\* A recorded fingerprint is the configuration of data that is there.
LEMMA FingerprintTrue ==
  ASSUME SerialDetectInv, NEW et \in ErrorTypes, props[et] # NoFingerprint, et \notin unrecorded
  PROVE  stats[et] # NoStats /\ stats[et].cfg = props[et]
  BY DEF SerialDetectInv, SerialInv, RecordedMatchesData, FingerprintInv

(* Builds and detections that do not overlap and may fail anywhere: what a *)
(* detection reads was built with its configuration, or there was a        *)
(* warning, or the partition's builder died between commit and ALTER TABLE *)
(* as in the counterexample of torn_corpus_scored.                         *)
THEOREM NothingSilentlyScored ==
  ASSUME Serial PROVE DetectSpec => []RecordedNeverSilentlyScored
  <1>1. SerialDetectInv => RecordedNeverSilentlyScored
    <2> SUFFICES ASSUME SerialDetectInv, NEW d \in Detectors,
                        NEW rows, rows = job[d].counted \/ rows = job[d].written,
                        NEW et \in DOMAIN rows, et \notin unrecorded
                 PROVE  Accepted(d, et, rows[et])
      BY DEF RecordedNeverSilentlyScored, ScoredAsBuilt
    <2>1. /\ job[d] \in Job /\ Sound(job[d])
          /\ job[d].at # Idle => job[d].config \in Configs
          /\ job[d].at = Idle => job[d] = NoJob
      BY DEF SerialDetectInv, DetectInv, DetectTypeOK, JobInv, JobsInv
    <2>2. /\ et \in DOMAIN job[d].frames /\ rows[et] = stats[et]
          /\ job[d].frames[et].warned \/ props[et] = job[d].config
      BY <2>1 DEF Sound, SoundRows, SoundFrame
    <2>3. job[d].at # Idle
      BY <2>1 DEF NoJob, NoRows
    <2>4. et \in ErrorTypes
      BY <2>1, <2>2 DEF Job, PartialFunctions
    <2>5. CASE job[d].frames[et].warned
      BY <2>5 DEF Accepted
    <2>6. CASE props[et] = job[d].config
      <3>1. props[et] # NoFingerprint
        BY <2>1, <2>3, <2>6, AbsentAssumption
      <3> QED
        BY <2>2, <2>3, <2>4, <2>6, <3>1, FingerprintTrue DEF Accepted
    <2> QED
      BY <2>2, <2>5, <2>6
  <1> QED
    BY SerialDetectCorrect, <1>1, PTL

(* In the same deployments a detection is refused only for a corpus that   *)
(* was built with another configuration, or whose builder died.            *)
THEOREM RefusalsAreDue ==
  ASSUME Serial PROVE DetectSpec => RefusedOnlyForMismatch
  <1> DEFINE Unfit(d, et) ==
               \/ et \in unrecorded
               \/ stats[et] # NoStats /\ BakedIn[stats[et].cfg] # BakedIn[job[d].config]
             Proper == \A d \in Detectors : Reject(d) => Unfit(d, Scanned(d))
  <1>1. SerialDetectInv => Proper
    <2> SUFFICES ASSUME SerialDetectInv, NEW d \in Detectors, Reject(d)
                 PROVE  Unfit(d, Scanned(d))
      OBVIOUS
    <2>1. /\ job[d].at = Verifying /\ job[d].at # Idle /\ job[d].at \in Turn
          /\ props[Scanned(d)] # NoFingerprint
          /\ BakedIn[props[Scanned(d)]] # BakedIn[job[d].config]
      BY DEF Reject, Compatible, Turn, Idle, Verifying
    <2>2. job[d].scan \in Seq(ErrorTypes) /\ job[d].next \in DOMAIN job[d].scan
      BY <2>1, DetectorsAssumption DEF SerialDetectInv, DetectInv, JobInv
    <2>3. Scanned(d) \in ErrorTypes
      BY <2>2 DEF Scanned
    <2> QED
      BY <2>1, <2>3, FingerprintTrue
  <1>2. SerialDetectInv /\ [DetectNext]_allVars => [Proper]_allVars
    BY <1>1
  <1> QED
    BY SerialDetectCorrect, <1>2, PTL DEF DetectSpec, RefusedOnlyForMismatch

-----------------------------------------------------------------------------
(* Builds that replace the token table replace all partitions that were    *)
(* featurized with it: complete builds, and builds of other types.  The    *)
(* counterexample of partial_build_tokens is a request of neither kind.    *)

\* If an error type of the plan uses the tokens, all that do are in it.
Covers(types) ==
  (\E i \in DOMAIN types : types[i] \in TokenTypes) =>
    \A et \in TokenTypes : \E i \in DOMAIN types : types[i] = et

CoveringRequests == \A b \in Builders : \A request \in Requests[b] : Covers(request)

\* A running call has replaced the token table and will come to et.
Due(et) ==
  \E b \in Builders :
    /\ pc[b] \in {ReadingTok, Scoring, Checking, Committing, Recording}
    /\ \E i \in DOMAIN plan[b] : plan[b][i] = et /\ next[b] <= i

TokensInv ==
  /\ \A b \in Builders : Covers(plan[b]) /\ (pc[b] = WritingTok => NeedsTokens(b))
  /\ \A et \in TokenTypes : stats[et] # NoStats => stats[et].tokens = tokenTable \/ Due(et)

LEMMA NothingCovers == Covers(<<>>)
  <1>1. DOMAIN <<>> = {}
    OBVIOUS
  <1> QED
    BY <1>1 DEF Covers

LEMMA TokensInit == Init => TokensInv
  <1> SUFFICES ASSUME Init PROVE TokensInv
    OBVIOUS
  <1>1. \A b \in Builders : Covers(plan[b]) /\ pc[b] # WritingTok
    BY NothingCovers DEF Init, Idle, WritingTok
  <1>2. \A et \in TokenTypes : stats[et] # NoStats => stats[et].tokens = tokenTable
    <2>1. CASE Legacy
      <3>1. PICK c \in Configs, k \in Corpora :
              /\ tokenTable = k
              /\ stats = [et \in ErrorTypes |->
                            [cfg |-> c, corpus |-> k,
                             tokens |-> IF et \in TokenTypes THEN k ELSE NoTokens]]
        BY <2>1 DEF Init, LegacyTables
      <3> QED
        BY <3>1, TypesAssumption
    <2>2. CASE ~ Legacy
      BY <2>2, TypesAssumption DEF Init, FreshTables
    <2> QED
      BY <2>1, <2>2
  <1> QED
    BY <1>1, <1>2 DEF TokensInv

LEMMA TokensStep ==
  ASSUME Serial, CoveringRequests, faults' = 0,
         LocalInv, SerialInv, PublishedInv, TokensInv, [Next]_vars
  PROVE  TokensInv'
  <1> USE DEF Goto, Current, MoreTypes, NeedsTokens, tableVars, callVars, Active, Idle, Ingesting,
              WritingTok, ReadingTok, Scoring, Checking, Committing, Recording
  <1>1. ASSUME NEW b \in Builders, NEW request \in Requests[b], Start(b, request)
        PROVE  TokensInv'
    <2>1. Covers(request) /\ Covers(AllErrorTypes)
      <3>1. \A et \in TokenTypes : \E i \in DOMAIN AllErrorTypes : AllErrorTypes[i] = et
        BY TypesAssumption
      <3> QED
        BY <3>1 DEF Covers, CoveringRequests
    <2>2. /\ pc' = [pc EXCEPT ![b] = Ingesting] /\ \A a \in Builders : pc[a] = Idle
          /\ plan' = [plan EXCEPT ![b] = IF request = <<>> THEN AllErrorTypes ELSE request]
          /\ UNCHANGED tableVars
      BY <1>1 DEF Start, Quiescent
    <2>3. \A et : ~ Due(et)
      BY <2>2 DEF Due
    <2>4. \A a \in Builders : Covers(plan'[a]) /\ pc'[a] # WritingTok
      BY <2>1, <2>2 DEF TokensInv, LocalInv, TypeOK
    <2> QED
      BY <2>2, <2>3, <2>4 DEF TokensInv, Covers
  <1>2. ASSUME NEW b \in Builders, Ingest(b) PROVE TokensInv'
    <2>1. /\ pc[b] = Ingesting
          /\ pc' = [pc EXCEPT ![b] = IF NeedsTokens(b) THEN WritingTok ELSE Scoring]
          /\ plan' = plan /\ next' = next /\ UNCHANGED tableVars
      BY <1>2 DEF Ingest
    <2>2. \A et : Due(et) => Due(et)'
      BY <2>1 DEF Due
    <2>3. \A a \in Builders : pc'[a] = WritingTok => NeedsTokens(a)
      <3>1. pc'[b] = WritingTok => NeedsTokens(b)
        BY <2>1 DEF LocalInv, TypeOK
      <3>2. \A a \in Builders : a # b => pc'[a] = pc[a]
        BY <2>1 DEF LocalInv, TypeOK
      <3> QED
        BY <3>1, <3>2 DEF TokensInv
    <2> QED
      BY <2>1, <2>2, <2>3 DEF TokensInv, Covers
  <1>3. ASSUME NEW b \in Builders, WriteTokens(b) PROVE TokensInv'
    <2>1. /\ pc[b] = WritingTok /\ pc' = [pc EXCEPT ![b] = ReadingTok]
          /\ plan' = plan /\ next' = next /\ stats' = stats
          /\ next[b] = 1
      BY <1>3 DEF WriteTokens, PublishedInv, ProgressInv
    <2>2. \A et \in TokenTypes : \E i \in DOMAIN plan[b] : plan[b][i] = et
      BY <2>1 DEF TokensInv, Covers
    <2>3. plan[b] \in Seq(ErrorTypes)
      BY DEF LocalInv, TypeOK
    <2>4. \A et \in TokenTypes : Due(et)'
      BY <2>1, <2>2, <2>3 DEF Due, LocalInv, TypeOK
    <2> QED
      BY <2>1, <2>4 DEF TokensInv, Covers, LocalInv, TypeOK
  <1>4. ASSUME NEW b \in Builders, ReadTokens(b) \/ Score(b) \/ CheckTable(b) PROVE TokensInv'
    <2>1. /\ pc[b] \in {ReadingTok, Scoring, Checking}
          /\ \E label \in {Scoring, Checking, Committing} : pc' = [pc EXCEPT ![b] = label]
          /\ plan' = plan /\ next' = next /\ UNCHANGED tableVars
      BY <1>4 DEF ReadTokens, Score, CheckTable
    <2>2. \A et : Due(et) => Due(et)'
      BY <2>1 DEF Due, LocalInv, TypeOK
    <2>3. \A a \in Builders : pc'[a] = WritingTok => pc[a] = WritingTok
      BY <2>1 DEF LocalInv, TypeOK
    <2> QED
      BY <2>1, <2>2, <2>3 DEF TokensInv, Covers
  <1>5. ASSUME NEW b \in Builders, Commit(b) PROVE TokensInv'
    <2>1. /\ pc[b] = Committing /\ pc' = [pc EXCEPT ![b] = Recording]
          /\ plan' = plan /\ next' = next /\ tokenTable' = tokenTable
          /\ Current(b) \in TokenTypes => pending[b].tokens = tokenTable
          /\ Current(b) \in ErrorTypes
      BY <1>5 DEF Commit, PublishedInv, ProgressInv, LocalInv, TypeOK, LoopInv
    <2>2. \A et : Due(et) => Due(et)'
      BY <2>1 DEF Due, LocalInv, TypeOK
    <2>3. ASSUME NEW et \in TokenTypes, stats'[et] # NoStats
          PROVE  stats'[et].tokens = tokenTable \/ Due(et)
      <3>1. CASE et = Current(b)
        <4>1. stats'[et] = pending[b]
          BY <1>5, <2>1, <3>1, TypesAssumption DEF Commit, LocalInv, TypeOK
        <4> QED
          BY <2>1, <3>1, <4>1
      <3>2. CASE et # Current(b)
        <4>1. stats'[et] = stats[et]
          BY <1>5, <2>3, <3>2, TypesAssumption DEF Commit, LocalInv, TypeOK
        <4> QED
          BY <2>3, <4>1 DEF TokensInv
      <3> QED
        BY <3>1, <3>2
    <2> QED
      BY <2>1, <2>2, <2>3 DEF TokensInv, Covers, LocalInv, TypeOK
  <1>6. ASSUME NEW b \in Builders, RecordFingerprint(b) PROVE TokensInv'
    <2>1. /\ pc[b] = Recording /\ pc' = [pc EXCEPT ![b] = Scoring]
          /\ plan' = plan /\ next' = [next EXCEPT ![b] = @ + 1]
          /\ tokenTable' = tokenTable /\ stats' = stats
          /\ stats[Current(b)] = pending[b]
          /\ Current(b) \in TokenTypes => pending[b].tokens = tokenTable
          /\ next[b] \in 1 .. Len(plan[b]) /\ plan[b] \in Seq(ErrorTypes)
          /\ pc \in [Builders -> Active \cup {Idle}] /\ next \in [Builders -> Nat \ {0}]
      BY <1>6 DEF RecordFingerprint, PublishedInv, ProgressInv, SerialInv, CommitInv,
                  LocalInv, TypeOK, LoopInv
    <2>2. ASSUME NEW et, et # Current(b), Due(et) PROVE Due(et)'
      <3>1. PICK a \in Builders :
              /\ pc[a] \in {ReadingTok, Scoring, Checking, Committing, Recording}
              /\ \E i \in DOMAIN plan[a] : plan[a][i] = et /\ next[a] <= i
        BY <2>2 DEF Due
      <3>2. PICK i \in DOMAIN plan[a] : plan[a][i] = et /\ next[a] <= i
        BY <3>1
      <3>3. i \in Nat
        BY DEF LocalInv, TypeOK
      <3>4. next'[a] <= i
        BY <2>1, <2>2, <3>2, <3>3
      <3>5. pc'[a] \in {ReadingTok, Scoring, Checking, Committing, Recording}
        BY <2>1, <3>1
      <3> QED
        BY <2>1, <3>2, <3>4, <3>5 DEF Due
    <2> QED
      BY <2>1, <2>2 DEF TokensInv, Covers
  <1>7. ASSUME NEW b \in Builders, Finish(b) PROVE TokensInv'
    <2>1. /\ \A a \in Builders : a # b => pc[a] = Idle
          /\ pc[b] = Scoring /\ next[b] > Len(plan[b])
          /\ plan[b] \in Seq(ErrorTypes) /\ next[b] \in Nat
          /\ pc' = [pc EXCEPT ![b] = Idle] /\ plan' = [plan EXCEPT ![b] = <<>>]
          /\ UNCHANGED tableVars
      BY <1>7 DEF Finish, Return, SerialInv, OneCall, LocalInv, TypeOK
    <2>2. \A et : ~ Due(et)
      BY <2>1 DEF Due
    <2>3. \A a \in Builders : Covers(plan'[a]) /\ pc'[a] # WritingTok
      <3>1. plan'[b] = <<>> /\ \A a \in Builders : a # b => plan'[a] = plan[a]
        BY <2>1 DEF LocalInv, TypeOK
      <3>2. \A a \in Builders : pc'[a] = Idle
        BY <2>1 DEF LocalInv, TypeOK
      <3> QED
        BY <3>1, <3>2, NothingCovers DEF TokensInv
    <2> QED
      BY <2>1, <2>2, <2>3 DEF TokensInv, Covers
  <1>8. \A b \in Builders : ~ Abort(b)
    BY DEF Abort, LocalInv, TypeOK
  <1>9. CASE UNCHANGED vars
    BY <1>9 DEF vars, TokensInv, Due, Covers
  <1> QED
    BY <1>1, <1>2, <1>3, <1>4, <1>5, <1>6, <1>7, <1>8, <1>9 DEF Next, Proceed

\* Failures are never forgotten.
LEMMA FaultsStay == ASSUME LocalInv, [Next]_vars, faults' = 0 PROVE faults = 0
  BY DEF LocalInv, TypeOK, Next, Start, Proceed, Ingest, WriteTokens, ReadTokens, Score, CheckTable,
         Commit, RecordFingerprint, Finish, Abort, vars

(* Builds and detections that do not overlap, builds that cover the        *)
(* token-dependent types: until a build fails, candidates and corpus are   *)
(* featurized with one token table.                                        *)
THEOREM OneTokenTable ==
  ASSUME Serial, CoveringRequests PROVE DetectSpec => []SameTokens
  <1>1. DetectInit => (faults = 0 => TokensInv)
    BY TokensInit DEF DetectInit
  <1>2. /\ DetectInv /\ LocalInv /\ SerialInv /\ PublishedInv /\ (faults = 0 => TokensInv)
        /\ [DetectNext]_allVars
        => (faults = 0 => TokensInv)'
    <2> SUFFICES ASSUME LocalInv, SerialInv, PublishedInv, faults = 0 => TokensInv,
                        [DetectNext]_allVars, faults' = 0
                 PROVE  TokensInv'
      OBVIOUS
    <2>1. [Next]_vars
      BY BuildsBesideJobs
    <2>2. TokensInv
      BY <2>1, FaultsStay
    <2> QED
      BY <2>1, <2>2, TokensStep
  <1>3. SerialDetectInv /\ (faults = 0 => TokensInv) => SameTokens
    <2> SUFFICES ASSUME SerialDetectInv, TokensInv, NEW d \in Detectors,
                        NEW et \in DOMAIN job[d].written \cap TokenTypes,
                        job[d].written[et] # NoStats
                 PROVE  job[d].written[et].tokens = job[d].frames[et].tokens
      BY DEF SameTokens
    <2>1. Sound(job[d]) /\ (job[d].at = Idle => job[d] = NoJob)
      BY DEF SerialDetectInv, DetectInv, JobInv, JobsInv
    <2>2. /\ job[d].written[et] = stats[et]
          /\ job[d].frames[et].tokens = tokenTable
      BY <2>1 DEF Sound, SoundRows, SoundFrame
    <2>3. job[d].at # Idle
      BY <2>1 DEF NoJob, NoRows
    <2>4. Quiescent
      BY <2>3 DEF SerialDetectInv, Exclusive, DetectorsIdle
    <2>5. ~ Due(et)
      BY <2>4 DEF Due, Quiescent, Idle, ReadingTok, Scoring, Checking, Committing, Recording
    <2> QED
      BY <2>2, <2>5 DEF TokensInv
  <1> QED
    BY BuildsCorrect, SerialDetectCorrect, <1>1, <1>2, <1>3, PTL DEF DetectSpec

-----------------------------------------------------------------------------
(* Deployments in which anything overlaps and may fail, but the table is   *)
(* there and no build names an error type that is scanned.                 *)

Apart(types) ==
  \A scan \in Scans : \A i \in DOMAIN types, j \in DOMAIN scan : types[i] # scan[j]

ApartRequests ==
  \A b \in Builders : \A request \in Requests[b] : request # <<>> /\ Apart(request)

\* What a build does is a replacement of partitions nobody scans.
BuildsApart ==
  /\ tableExists
  /\ \A b \in Builders : Apart(plan[b]) /\ (pc[b] = Committing => existed[b])

Settled(r) ==
  /\ \A et \in DOMAIN r.frames : /\ \E j \in DOMAIN r.scan : r.scan[j] = et
                                 /\ r.frames[et].resolved = stats[et]
  /\ SoundRows(r.frames, r.counted) /\ SoundRows(r.frames, r.written)
  /\ r.at \in {Showing, Writing, Ending} => DOMAIN r.counted = DOMAIN r.frames
  /\ r.at # Ending => r.written = NoRows

ApartInv == BuildsApart /\ \A d \in Detectors : Settled(job[d])

LEMMA NothingApart == Apart(<<>>)
  <1>1. DOMAIN <<>> = {}
    OBVIOUS
  <1> QED
    BY <1>1 DEF Apart

LEMMA NoJobSettled == Settled(NoJob) /\ Settled(NoJob)'
  BY DEF Settled, SoundRows, NoJob, NoRows, Idle, Showing, Writing, Ending

LEMMA ApartInit == ASSUME Legacy PROVE DetectInit => ApartInv
  <1> SUFFICES ASSUME DetectInit PROVE ApartInv
    OBVIOUS
  <1>1. tableExists
    BY DEF DetectInit, Init, LegacyTables
  <1>2. \A b \in Builders : Apart(plan[b]) /\ pc[b] # Committing
    BY NothingApart DEF DetectInit, Init, Idle, Committing
  <1>3. \A d \in Detectors : job[d] = NoJob
    BY DEF DetectInit
  <1> QED
    BY <1>1, <1>2, <1>3, NoJobSettled DEF ApartInv, BuildsApart

LEMMA BuildsApartStep ==
  ASSUME ApartRequests, LocalInv, BuildsApart, [Next]_vars
  PROVE  /\ BuildsApart'
         /\ \A et \in ErrorTypes :
              stats'[et] # stats[et] => \A scan \in Scans : \A j \in DOMAIN scan : scan[j] # et
  <1> USE DEF Goto, Current, MoreTypes, tableVars, callVars, Active, Idle, Ingesting,
              WritingTok, ReadingTok, Scoring, Checking, Committing, Recording
  <1> USE DEF BuildsApart, LocalInv, TypeOK
  <1>1. ASSUME NEW b \in Builders, NEW request \in Requests[b], Start(b, request)
        PROVE  BuildsApart' /\ stats' = stats
    <2>1. Apart(request) /\ request # <<>>
      BY DEF ApartRequests
    <2>2. /\ plan' = [plan EXCEPT ![b] = request] /\ pc' = [pc EXCEPT ![b] = Ingesting]
          /\ existed' = existed /\ UNCHANGED tableVars
      BY <1>1, <2>1 DEF Start
    <2>3. \A a \in Builders : Apart(plan'[a])
      BY <2>1, <2>2
    <2> QED
      BY <2>2, <2>3 DEF Apart
  <1>2. ASSUME NEW b \in Builders, Ingest(b) \/ WriteTokens(b) \/ ReadTokens(b) \/ Score(b)
        PROVE  BuildsApart' /\ stats' = stats
    <2>1. /\ plan' = plan /\ existed' = existed /\ stats' = stats /\ tableExists' = tableExists
          /\ \E label \in {WritingTok, ReadingTok, Scoring, Checking} : pc' = [pc EXCEPT ![b] = label]
      BY <1>2 DEF Ingest, WriteTokens, ReadTokens, Score
    <2>2. \A a \in Builders : pc'[a] = Committing => pc[a] = Committing
      BY <2>1
    <2> QED
      BY <2>1, <2>2 DEF Apart
  <1>3. ASSUME NEW b \in Builders, CheckTable(b) PROVE BuildsApart' /\ stats' = stats
    BY <1>3 DEF CheckTable, Apart
  <1>4. ASSUME NEW b \in Builders, Commit(b)
        PROVE  /\ BuildsApart'
               /\ \A et \in ErrorTypes :
                    stats'[et] # stats[et] => \A scan \in Scans : \A j \in DOMAIN scan : scan[j] # et
    <2>1. existed[b] /\ next[b] \in DOMAIN plan[b]
      BY <1>4 DEF Commit, LoopInv
    <2>2. \A scan \in Scans : \A j \in DOMAIN scan : scan[j] # Current(b)
      BY <2>1 DEF Apart
    <2>3. \A et \in ErrorTypes : stats'[et] # stats[et] => et = Current(b)
      BY <1>4, <2>1 DEF Commit
    <2>4. BuildsApart'
      BY <1>4 DEF Commit, Apart
    <2> QED
      BY <2>2, <2>3, <2>4
  <1>5. ASSUME NEW b \in Builders, RecordFingerprint(b) PROVE BuildsApart' /\ stats' = stats
    <2>1. /\ plan' = plan /\ stats' = stats /\ tableExists' = tableExists
          /\ existed' = [existed EXCEPT ![b] = FALSE] /\ pc' = [pc EXCEPT ![b] = Scoring]
      BY <1>5 DEF RecordFingerprint
    <2> QED
      BY <2>1 DEF Apart
  <1>6. ASSUME NEW b \in Builders, Finish(b) \/ Abort(b) PROVE BuildsApart' /\ stats' = stats
    <2>1. /\ plan' = [plan EXCEPT ![b] = <<>>] /\ stats' = stats /\ tableExists' = tableExists
          /\ existed' = [existed EXCEPT ![b] = FALSE] /\ pc' = [pc EXCEPT ![b] = Idle]
      BY <1>6 DEF Finish, Abort, Return
    <2>2. \A a \in Builders : Apart(plan'[a])
      BY <2>1, NothingApart
    <2> QED
      BY <2>1, <2>2 DEF Apart
  <1>7. CASE UNCHANGED vars
    BY <1>7 DEF vars, Apart
  <1> QED
    BY <1>1, <1>2, <1>3, <1>4, <1>5, <1>6, <1>7 DEF Next, Proceed

LEMMA JobProceedsSettled ==
  ASSUME DetectInv, NEW d \in Detectors, DetectProceed(d), Settled(job[d])
  PROVE  Settled(job'[d]) /\ \A a \in Detectors : a # d => job'[a] = job[a]
  <1> USE DEF Idle, LoadingTokens, Extracting, Finding, Verifying, Resolving, Counting, Showing,
              Writing, Ending
  <1>1. job \in [Detectors -> Job]
    BY DEF DetectInv, DetectTypeOK
  <1>2. CASE NoCorpus(d) \/ Reject(d) \/ EndDetect(d)
    <2>1. job'[d] = NoJob /\ \A a \in Detectors : a # d => job'[a] = job[a]
      BY <1>1, <1>2 DEF NoCorpus, Reject, EndDetect, DetectReturn
    <2> QED
      BY <2>1, NoJobSettled
  <1>3. CASE \/ LoadTokens(d) \/ Extract(d) \/ ExtractNothing(d) \/ FindTable(d) \/ Verify(d)
             \/ Show(d)
    <2>1. /\ job'[d].at \in {Showing, Writing, Ending} => job[d].at = Showing
          /\ job[d].at # Ending
          /\ job'[d].scan = job[d].scan /\ job'[d].frames = job[d].frames
          /\ job'[d].counted = job[d].counted /\ job'[d].written = job[d].written
          /\ \A a \in Detectors : a # d => job'[a] = job[a]
      BY <1>1, <1>3 DEF LoadTokens, Extract, ExtractNothing, NextType, FindTable, Verify, Show, Job
    <2> QED
      BY <2>1 DEF Settled
  <1>4. CASE Resolve(d)
    <2> DEFINE et == Scanned(d)
               frame == [tokens |-> job[d].tokens, resolved |-> stats[et], warned |-> job[d].warned]
               frames == [t \in DOMAIN job[d].frames \cup {et} |->
                            IF t = et THEN frame ELSE job[d].frames[t]]
    <2>1. job[d].at = Resolving /\ NextType(d, frames)
      BY <1>4 DEF Resolve
    <2>2. \E j \in DOMAIN job[d].scan : job[d].scan[j] = et
      <3>1. job[d].next \in DOMAIN job[d].scan
        BY <2>1 DEF DetectInv, JobInv, Turn
      <3> QED
        BY <3>1 DEF Scanned
    <2>3. frame.resolved = stats[et]
      OBVIOUS
    <2> HIDE DEF frame, et
    <2>4. \A t \in DOMAIN frames : /\ \E j \in DOMAIN job[d].scan : job[d].scan[j] = t
                                   /\ frames[t].resolved = stats[t]
      BY <2>2, <2>3 DEF Settled
    <2>5. DOMAIN job[d].frames \subseteq DOMAIN frames
      OBVIOUS
    <2> HIDE DEF frames
    <2>6. /\ job'[d].at \in {LoadingTokens, Counting}
          /\ job'[d].scan = job[d].scan /\ job'[d].frames = frames
          /\ job'[d].counted = job[d].counted /\ job'[d].written = job[d].written
          /\ \A a \in Detectors : a # d => job'[a] = job[a]
      BY <1>1, <2>1 DEF NextType, Job
    <2> QED
      BY <2>1, <2>4, <2>5, <2>6 DEF Settled, SoundRows
  <1>5. \A rows \in Evaluations(d) :
          SoundRows(job[d].frames, rows) /\ DOMAIN rows = DOMAIN job[d].frames
    BY EvaluationsTyped DEF DetectInv, Settled, SoundRows
  <1>6. CASE Count(d)
    <2>1. PICK rows \in Evaluations(d) : job' = [job EXCEPT ![d].at = Showing, ![d].counted = rows]
      BY <1>6 DEF Count
    <2>2. /\ job[d].at = Counting /\ job'[d].at = Showing
          /\ job'[d].scan = job[d].scan /\ job'[d].frames = job[d].frames
          /\ job'[d].counted = rows /\ job'[d].written = job[d].written
          /\ \A a \in Detectors : a # d => job'[a] = job[a]
      BY <1>1, <1>6, <2>1 DEF Count, Job
    <2> QED
      BY <1>5, <2>2 DEF Settled
  <1>7. CASE Write(d)
    <2>1. PICK rows \in Evaluations(d) : job' = [job EXCEPT ![d].at = Ending, ![d].written = rows]
      BY <1>7 DEF Write
    <2>2. /\ job[d].at = Writing /\ job'[d].at = Ending
          /\ job'[d].scan = job[d].scan /\ job'[d].frames = job[d].frames
          /\ job'[d].counted = job[d].counted /\ job'[d].written = rows
          /\ \A a \in Detectors : a # d => job'[a] = job[a]
      BY <1>1, <1>7, <2>1 DEF Write, Job
    <2> QED
      BY <1>5, <2>2 DEF Settled
  <1> QED
    BY <1>2, <1>3, <1>4, <1>6, <1>7 DEF DetectProceed

LEMMA ApartStep ==
  ASSUME ApartRequests, DetectInv, ApartInv, [DetectNext]_allVars PROVE ApartInv'
  <1>1. /\ BuildsApart'
        /\ \A et \in ErrorTypes :
             stats'[et] # stats[et] => \A scan \in Scans : \A j \in DOMAIN scan : scan[j] # et
    BY BuildsBesideJobs, BuildsApartStep DEF ApartInv, DetectInv
  <1>2. \A d \in Detectors : Settled(job[d]) /\ (job[d].at = Idle => job[d] = NoJob)
    BY DEF ApartInv, DetectInv, JobInv
  <1>3. ASSUME job' = job, NEW d \in Detectors PROVE Settled(job[d])'
    <2>1. CASE job[d].at = Idle
      BY <1>2, <1>3, <2>1, NoJobSettled
    <2>2. CASE job[d].at # Idle
      <3>1. job[d].scan \in Scans /\ job[d].frames \in PartialFunctions(ErrorTypes, Frame)
        BY <2>2 DEF DetectInv, DetectTypeOK, JobInv, Job
      <3>2. \A et \in DOMAIN job[d].frames : et \in ErrorTypes
        BY <3>1 DEF PartialFunctions
      <3>3. \A et \in DOMAIN job[d].frames : stats'[et] = stats[et]
        BY <1>1, <1>2, <3>1, <3>2 DEF Settled
      <3> QED
        BY <1>2, <1>3, <3>3 DEF Settled, SoundRows
    <2> QED
      BY <2>1, <2>2
  <1>4. ASSUME NEW d \in Detectors, stats' = stats, Settled(job'[d]),
               \A a \in Detectors : a # d => job'[a] = job[a]
        PROVE  \A a \in Detectors : Settled(job[a])'
    <2>1. \A a \in Detectors : Settled(job'[a])
      BY <1>2, <1>4
    <2> QED
      BY <1>4, <2>1 DEF Settled, SoundRows
  <1>5. ASSUME NEW d \in Detectors, StartDetect(d), UNCHANGED vars
        PROVE  \A a \in Detectors : Settled(job[a])'
    <2>1. PICK c \in Configs, l \in Leniency, types \in Scans :
            job' = [job EXCEPT ![d] = [NoJob EXCEPT !.at = LoadingTokens, !.config = c,
                                                    !.lenient = l, !.scan = types]]
      BY <1>5 DEF StartDetect
    <2>2. job \in [Detectors -> Job]
      BY DEF DetectInv, DetectTypeOK
    <2>3. /\ job'[d].at = LoadingTokens
          /\ job'[d].frames = NoRows /\ job'[d].counted = NoRows /\ job'[d].written = NoRows
          /\ \A a \in Detectors : a # d => job'[a] = job[a]
      BY <2>1, <2>2 DEF NoJob
    <2>4. Settled(job'[d])
      BY <2>3 DEF Settled, SoundRows, NoRows, LoadingTokens, Showing, Writing, Ending
    <2> QED
      BY <1>4, <1>5, <2>3, <2>4 DEF vars, tableVars
  <1>6. ASSUME NEW d \in Detectors, DetectProceed(d) PROVE \A a \in Detectors : Settled(job[a])'
    <2>1. stats' = stats
      BY <1>6 DEF DetectProceed, vars, tableVars
    <2> QED
      BY <1>2, <1>4, <1>6, <2>1, JobProceedsSettled
  <1>7. ASSUME NEW d \in Detectors, AbortDetect(d) PROVE \A a \in Detectors : Settled(job[a])'
    <2>1. job \in [Detectors -> Job] /\ stats' = stats
      BY <1>7 DEF DetectInv, DetectTypeOK, AbortDetect, vars, tableVars
    <2>2. job'[d] = NoJob /\ \A a \in Detectors : a # d => job'[a] = job[a]
      BY <1>7, <2>1 DEF AbortDetect, DetectReturn
    <2> QED
      BY <1>4, <2>1, <2>2, NoJobSettled
  <1>8. \A d \in Detectors : Settled(job[d])'
    BY <1>3, <1>5, <1>6, <1>7 DEF DetectNext, BuildNext, allVars
  <1> QED
    BY <1>1, <1>8 DEF ApartInv

(* On a table that is there, beside any builds of other error types, that  *)
(* may overlap with it and with each other and may fail: what a detection  *)
(* appends is computed from the statistics it has counted.                 *)
THEOREM OtherBuildsDoNotDisturb ==
  ASSUME Legacy, ApartRequests PROVE DetectSpec => []WritesWhatItCounted
  <1>1. DetectInv /\ ApartInv /\ [DetectNext]_allVars => ApartInv'
    BY ApartStep
  <1>2. ApartInv => WritesWhatItCounted
    <2> SUFFICES ASSUME ApartInv, NEW d \in Detectors, NEW et \in DOMAIN job[d].written
                 PROVE  job[d].written[et] = job[d].counted[et]
      BY DEF WritesWhatItCounted
    <2>1. Settled(job[d])
      BY DEF ApartInv
    <2>2. et \in DOMAIN job[d].counted
      BY <2>1 DEF Settled, SoundRows, NoRows
    <2> QED
      BY <2>1, <2>2 DEF Settled, SoundRows
  <1> QED
    BY DetectCorrect, ApartInit, <1>1, <1>2, PTL DEF DetectSpec

=============================================================================
