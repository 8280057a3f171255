-------------------------------- MODULE MCRaha --------------------------------
(* Tables of three rows for Raha: a name and a year column, two spellings  *)
(* of a name, and years of which one can be missing.                       *)
EXTENDS Raha, TLC

CONSTANTS name, year, paris, pari, y1, y2, missing

Characters == (paris :> {1, 2, 3}) @@ (pari :> {1, 2}) @@ (y1 :> {7}) @@ (y2 :> {8}) @@ (missing :> {3, 9})
Numbers == (paris :> NotNumeric) @@ (pari :> NotNumeric) @@ (y1 :> 10) @@ (y2 :> 20) @@ (missing :> NotNumeric)

\* One name or two; years that agree, differ or are missing.
Names == {<<paris, paris, paris>>, <<paris, paris, pari>>}
Years == {<<y1, y1, y2>>, <<y1, y2, missing>>}

SmallTables ==
  {[col \in Columns |-> [r \in Rows |-> IF col = name THEN ns[r + 1] ELSE ys[r + 1]]] :
     ns \in Names, ys \in Years}

Thresholds == {<<1, 2>>}
OneDeviation == {<<1, 1>>}

\* df.index of a sorted table, and of a concatenated one.
SortedIndex == (0 :> 1) @@ (1 :> 2) @@ (2 :> 0)
Duplicated == [r \in Rows |-> IF r = 2 THEN 0 ELSE r]

=============================================================================
