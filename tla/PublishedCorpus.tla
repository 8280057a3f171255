---------------------------- MODULE PublishedCorpus ----------------------------
(***************************************************************************)
(* What the corpus-statistics table promises its readers: error types are  *)
(* published one at a time and independently of each other, and the data   *)
(* of a type and the fingerprint of the configuration it was built with    *)
(* appear together.  A build that fails can leave one type's data under a  *)
(* fingerprint of other data; nothing else parts the two.                  *)
(***************************************************************************)
EXTENDS Naturals

CONSTANTS ErrorTypes, Partition, Configs, NoStats, NoFingerprint

VARIABLES
  corpus,     \* by error type: the data and the recorded fingerprint
  failures    \* builds that have failed

\* Nothing is recorded before the first build, or in a table older than that.
Init ==
  /\ corpus \in [ErrorTypes -> [data: Partition \cup {NoStats}, fingerprint: {NoFingerprint}]]
  /\ failures = 0

Publish(et, partition) ==
  /\ corpus' = [corpus EXCEPT ![et] = [data |-> partition, fingerprint |-> partition.cfg]]
  /\ UNCHANGED failures

Fail(et, fingerprint) ==
  /\ failures' = failures + 1
  /\ corpus' = [corpus EXCEPT ![et].fingerprint = fingerprint]

Next ==
  \E et \in ErrorTypes :
    \/ \E partition \in Partition : Publish(et, partition)
    \/ \E fingerprint \in Configs \cup {NoFingerprint} : Fail(et, fingerprint)

Spec == Init /\ [][Next]_<<corpus, failures>>

=============================================================================
