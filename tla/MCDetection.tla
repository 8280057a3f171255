------------------------------ MODULE MCDetection ------------------------------
(* Small instances of Detection: token-dependent and plain error types.    *)
EXTENDS Detection

CONSTANTS build, notebook, uniqueness, fd, spelling

TwoTypes == <<fd, spelling>>
ThreeTypes == <<uniqueness, fd, spelling>>

CONSTANTS c1, c2, c3

\* c3 is c1 with another laplace_smoothing.
Baked == [c \in Configs |-> IF c = c3 THEN c1 ELSE c]

\* Complete builds, and rebuilds of single types, one of which uses the tokens.
Covering == [b \in Builders |-> {<<>>, <<spelling>>, <<fd>>}]

\* Two callers that never name the same error type, nor the scanned one.
Disjoint == [b \in Builders |-> IF b = build THEN {<<uniqueness>>} ELSE {<<fd>>}]

SpellingOnly == {<<spelling>>}
BothTypes == {<<fd, spelling>>}

=============================================================================
