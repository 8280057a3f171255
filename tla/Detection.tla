------------------------------- MODULE Detection -------------------------------
(***************************************************************************)
(* The online half of Uni-Detect beside the offline one: detection jobs    *)
(* (jobs/run_detection.py, UniDetect.detect, BaseDetector.detect,          *)
(* CorpusStatsStore) that read the tables CorpusBuild writes.              *)
(*                                                                         *)
(* detect() verifies the corpus and returns a lazy frame; the job then     *)
(* evaluates it three times (count, show, write).  Each evaluation reads   *)
(* the statistics again.  Whether Delta answers it from the version that   *)
(* was resolved in detect() or from the latest one depends on its release, *)
(* so an evaluation reads either, by error type.                           *)
(*                                                                         *)
(* The scanned target tables are taken not to change during a detection.   *)
(***************************************************************************)
EXTENDS CorpusBuild

CONSTANTS
  Detectors,      \* detection jobs that can be in progress
  Scans,          \* error_types arguments they are called with
  BakedIn,        \* BakedIn[c] stands for the fields of c that shape the statistics
  Leniency        \* values of allow_corpus_config_mismatch in use

\* All fields of the fingerprint but _SCORING_TIME_FIELDS, the smoothing.
ASSUME BakedInAssumption == BakedIn \in [Configs -> Configs]

ASSUME DetectorsAssumption ==
  /\ Scans \subseteq Seq(ErrorTypes) \ {<<>>}
  /\ Leniency \subseteq BOOLEAN

VARIABLE job   \* the locals of each detection job, a record (see Job)

allVars == <<vars, job>>

LoadingTokens == "loadTokens"
Extracting    == "extract"
Finding       == "findTable"
Verifying     == "verify"
Resolving     == "resolve"
Counting      == "count"
Showing       == "show"
Writing       == "write"
Ending        == "end"

\* A lazy frame: the broadcast token map, the partition that was resolved
\* and whether verifying it logged a warning.
Frame == [tokens: Corpora \cup {NoTokens},
          resolved: Partition \cup {NoStats},
          warned: BOOLEAN]

PartialFunctions(S, T) == UNION {[D -> T] : D \in SUBSET S}

Job ==
  [at: {Idle, LoadingTokens, Extracting, Finding, Verifying, Resolving,
        Counting, Showing, Writing, Ending},
   config: Configs \cup {NoFingerprint},
   lenient: BOOLEAN,
   scan: Scans \cup {<<>>},
   next: Nat \ {0},
   tokens: Corpora \cup {NoTokens},
   warned: BOOLEAN,
   frames: PartialFunctions(ErrorTypes, Frame),
   counted: PartialFunctions(ErrorTypes, Partition \cup {NoStats}),
   written: PartialFunctions(ErrorTypes, Partition \cup {NoStats})]

NoRows == [et \in {} |-> NoStats]

NoJob ==
  [at |-> Idle, config |-> NoFingerprint, lenient |-> FALSE, scan |-> <<>>, next |-> 1,
   tokens |-> NoTokens, warned |-> FALSE,
   frames |-> NoRows, counted |-> NoRows, written |-> NoRows]

DetectorsIdle == \A d \in Detectors : job[d].at = Idle

\* The error type job d is detecting.
Scanned(d) == job[d].scan[job[d].next]

DetectInit == Init /\ job = [d \in Detectors |-> NoJob]

-----------------------------------------------------------------------------
StartDetect(d) ==
  /\ job[d].at = Idle
  /\ Serial => Quiescent
  /\ \E c \in Configs, l \in Leniency, types \in Scans :
       job' = [job EXCEPT ![d] = [NoJob EXCEPT !.at = LoadingTokens, !.config = c,
                                              !.lenient = l, !.scan = types]]

\* Mutant: the token map is not loaded.
LoadTokens_Empty(d) ==
  /\ job[d].at = LoadingTokens
  /\ job' = [job EXCEPT ![d].at = Extracting]

(* extract_candidates: the token-dependent detectors collect the token     *)
(* table first; an absent table is an empty map.                           *)
LoadTokens(d) ==
  /\ job[d].at = LoadingTokens
  /\ job' = [job EXCEPT ![d].at = Extracting,
                        ![d].tokens = IF Scanned(d) \in TokenTypes THEN tokenTable ELSE NoTokens]

\* candidates.cache().count() found some, within the failure ratio.
Extract(d) ==
  /\ job[d].at = Extracting
  /\ job' = [job EXCEPT ![d].at = Finding]

\* The list comprehension over error types goes on with these frames.
NextType(d, frames) ==
  job' = [job EXCEPT ![d].next = @ + 1, ![d].tokens = NoTokens, ![d].warned = FALSE,
                     ![d].frames = frames,
                     ![d].at = IF job[d].next < Len(job[d].scan) THEN LoadingTokens ELSE Counting]

\* n == 0: an empty frame, and neither the table nor its fingerprint is looked at.
ExtractNothing(d) ==
  /\ job[d].at = Extracting
  /\ NextType(d, job[d].frames)

DetectReturn(d) == job' = [job EXCEPT ![d] = NoJob]

\* CorpusStatsStore.load, up to the existence test.
FindTable(d) ==
  /\ job[d].at = Finding
  /\ tableExists
  /\ job' = [job EXCEPT ![d].at = Verifying]

\* Mutant: a missing corpus is waited for.
NoCorpus_Wait(d) ==
  /\ job[d].at = Finding
  /\ ~ tableExists
  /\ job' = [job EXCEPT ![d].at = Extracting]

\* CorpusNotFoundError.
NoCorpus(d) ==
  /\ job[d].at = Finding
  /\ ~ tableExists
  /\ DetectReturn(d)

\* A missing fingerprint, or one that differs in scoring-time fields only.
Compatible(persisted, config) ==
  persisted # NoFingerprint => BakedIn[persisted] = BakedIn[config]

\* Mutant: what is kept of the verification is the fingerprint, not the verdict.
Verify_KeepsFingerprint(d) ==
  /\ job[d].at = Verifying
  /\ Compatible(props[Scanned(d)], job[d].config) \/ job[d].lenient
  /\ job' = [job EXCEPT ![d].at = Resolving, ![d].warned = props[Scanned(d)]]

\* Mutant: one verification, of the first error type, stands for all.
Verify_FirstType(d) ==
  LET persisted == props[job[d].scan[1]] IN
    /\ job[d].at = Verifying
    /\ Compatible(persisted, job[d].config) \/ job[d].lenient
    /\ job' = [job EXCEPT ![d].at = Resolving, ![d].warned = persisted # job[d].config]

(* verify_build_config: a missing fingerprint, a difference in the         *)
(* smoothing and, with allow_corpus_config_mismatch, any difference is     *)
(* logged.                                                                 *)
Verify(d) ==
  /\ job[d].at = Verifying
  /\ Compatible(props[Scanned(d)], job[d].config) \/ job[d].lenient
  /\ job' = [job EXCEPT ![d].at = Resolving,
                        ![d].warned = props[Scanned(d)] # job[d].config]

\* Mutant: the scoring-time fields are compared like the others.
Reject_AnyDifference(d) ==
  /\ job[d].at = Verifying
  /\ props[Scanned(d)] \notin {NoFingerprint, job[d].config}
  /\ ~ job[d].lenient
  /\ DetectReturn(d)

\* verify_build_config raises ConfigurationError: nothing is scored.
Reject(d) ==
  /\ job[d].at = Verifying
  /\ ~ Compatible(props[Scanned(d)], job[d].config)
  /\ ~ job[d].lenient
  /\ DetectReturn(d)

(* spark.table(fqn).where(error_type = ...) and the rest of batch_score:   *)
(* the lazy result.  Its candidates are unpersisted on the way out.        *)
Resolve(d) ==
  /\ job[d].at = Resolving
  /\ LET et == Scanned(d)
         frame == [tokens |-> job[d].tokens, resolved |-> stats[et], warned |-> job[d].warned]
     IN NextType(d, [t \in DOMAIN job[d].frames \cup {et} |->
                       IF t = et THEN frame ELSE job[d].frames[t]])

\* What one evaluation of the union of the lazy frames can read.
Evaluations(d) ==
  LET frames == job[d].frames IN
  {[et \in DOMAIN frames |-> IF et \in again THEN stats[et] ELSE frames[et].resolved] :
     again \in SUBSET DOMAIN frames}

\* significant.count()
Count(d) ==
  /\ job[d].at = Counting
  /\ \E rows \in Evaluations(d) : job' = [job EXCEPT ![d].at = Showing, ![d].counted = rows]

\* detections.show(); without --write-results the job is done.
Show(d) ==
  /\ job[d].at = Showing
  /\ \E after \in {Writing, Ending} : job' = [job EXCEPT ![d].at = after]

\* write_detections(detections): one more evaluation, appended to the table.
Write(d) ==
  /\ job[d].at = Writing
  /\ \E rows \in Evaluations(d) : job' = [job EXCEPT ![d].at = Ending, ![d].written = rows]

EndDetect(d) == job[d].at = Ending /\ DetectReturn(d)

(* DataQualityError from the failure tracker, an exception of a Spark call *)
(* or the end of the driver.  A detection has nothing to undo, so its      *)
(* failures are not counted.                                               *)
AbortDetect(d) ==
  /\ job[d].at # Idle
  /\ DetectReturn(d)
  /\ UNCHANGED vars

DetectProceed(d) ==
  /\ \/ LoadTokens(d) \/ Extract(d) \/ ExtractNothing(d)
     \/ FindTable(d) \/ NoCorpus(d) \/ Verify(d) \/ Reject(d) \/ Resolve(d)
     \/ Count(d) \/ Show(d) \/ Write(d) \/ EndDetect(d)
  /\ UNCHANGED vars

BuildNext ==
  /\ \E b \in Builders :
       \/ (Serial => DetectorsIdle) /\ \E request \in Requests[b] : Start(b, request)
       \/ Proceed(b)
       \/ Abort(b)
  /\ UNCHANGED job

DetectNext ==
  \/ BuildNext
  \/ \E d \in Detectors :
       \/ StartDetect(d) /\ UNCHANGED vars
       \/ DetectProceed(d)
       \/ AbortDetect(d)

DetectSpec == DetectInit /\ [][DetectNext]_allVars

(* A Spark action that is in progress returns: weak fairness of a job that *)
(* runs.  Nothing obliges anyone to start or to fail: the schedules of     *)
(* databricks.yml are shipped paused.                                      *)
DetectFairSpec ==
  /\ DetectSpec
  /\ \A b \in Builders : WF_allVars(Proceed(b) /\ UNCHANGED job)
  /\ \A d \in Detectors : WF_allVars(DetectProceed(d))

-----------------------------------------------------------------------------
(* Properties.                                                             *)

\* The jobs' locals, and between jobs they are empty.
DetectTypeOK == TypeOK /\ job \in [Detectors -> Job]

\* The partition was built with the job's configuration, or its log says why not.
Accepted(d, et, partition) ==
  \/ partition = NoStats
  \/ partition.cfg = job[d].config
  \/ job[d].frames[et].warned

ScoredAsBuilt(types) ==
  \A d \in Detectors :
    /\ \A et \in DOMAIN job[d].counted \cap types : Accepted(d, et, job[d].counted[et])
    /\ \A et \in DOMAIN job[d].written \cap types : Accepted(d, et, job[d].written[et])

(* "So a corpus is never silently scored with a different epsilon or       *)
(* bucket layout than it was built with": whatever an evaluation reads was *)
(* built with the configuration of the job, unless verification logged a   *)
(* warning for that error type.                                            *)
NeverSilentlyScored == ScoredAsBuilt(ErrorTypes)

(* What the code keeps of that promise: it holds for every error type but  *)
(* one whose last builder died between its commit and its ALTER TABLE,     *)
(* whatever failed before and after.                                       *)
RecordedNeverSilentlyScored == ScoredAsBuilt(ErrorTypes \ unrecorded)

(* A detection is refused only for a corpus that really was built with     *)
(* another configuration, or whose builder died in that window.            *)
RefusedOnlyForMismatch ==
  [][\A d \in Detectors : Reject(d) =>
       LET et == Scanned(d) IN
         \/ et \in unrecorded
         \/ stats[et] # NoStats /\ BakedIn[stats[et].cfg] # BakedIn[job[d].config]]_allVars

(* A rebuild of other error types does not disturb a detection: the rows   *)
(* it appends to the detections table are computed from the statistics     *)
(* its logged count was computed from.                                     *)
WritesWhatItCounted ==
  \A d \in Detectors :
    \A et \in DOMAIN job[d].written : job[d].written[et] = job[d].counted[et]

(* Candidates and corpus columns fall into the same feature buckets only   *)
(* if one token table featurized both: as long as no build has failed (one *)
(* that does can leave a new token table and old partitions).              *)
SameTokens ==
  faults = 0 => \A d \in Detectors : \A et \in DOMAIN job[d].written \cap TokenTypes :
    job[d].written[et] # NoStats => job[d].written[et].tokens = job[d].frames[et].tokens

\* A detection that was started comes back.
DetectionEnds == \A d \in Detectors : job[d].at # Idle ~> job[d].at = Idle

=============================================================================
