----------------------------- MODULE MCCorpusBuild -----------------------------
(* Small instances of CorpusBuild: a uniqueness, an FD and a spelling type. *)
EXTENDS CorpusBuild

CONSTANTS job, notebook, uniqueness, fd, spelling

AllTypes == <<uniqueness, fd, spelling>>

\* The scheduled job builds everything; the notebook also single types.
ScheduledAndPartial ==
  [b \in Builders |-> IF b = job THEN {<<>>}
                      ELSE {<<uniqueness>>, <<spelling, fd>>}]

Scheduled == [b \in Builders |-> {<<>>}]

\* Calls that never name the same error type.
Disjoint ==
  [b \in Builders |-> IF b = job THEN {<<uniqueness, fd>>} ELSE {<<spelling>>}]

=============================================================================
