--------------------------------- MODULE Raha ---------------------------------
(***************************************************************************)
(* RahaDetector.detect (Algorithm 1): cut every column into clusters of    *)
(* similar feature vectors, draw a tuple, ask the labeler about it, again  *)
(* with one cluster more until the budget is spent; then spread the labels *)
(* through the clusters, train one classifier per column and give every    *)
(* cell of the table its verdict.                                          *)
(*                                                                         *)
(* Clustering, drawing and the trained model are nondeterministic, within  *)
(* what scipy, the softmax rule and scikit-learn can return.  A table      *)
(* without rows or columns, for which detect returns at once, is left out. *)
(***************************************************************************)
EXTENDS RahaFeatures

CONSTANTS
  Index,       \* df.index: the row label at each position
  Tables,      \* the tables detect is called with
  Budgets,     \* config.labeling_budget
  Resolutions, \* config.conflict_resolution
  Labelers,    \* kinds of labeler: "heuristic", "groundTruth", "callable"
  NoRow, NoCells

ASSUME RahaAssumption ==
  /\ Rows \subseteq Nat /\ NoRow \notin Rows
  /\ DOMAIN Index = Rows
  /\ Tables \subseteq [Columns -> [Rows -> Values]]
  /\ Budgets \subseteq Nat \ {0}
  /\ Resolutions \subseteq {"majority", "homogeneity"}
  /\ Labelers \subseteq {"heuristic", "groundTruth", "callable"}

VARIABLES
  features,    \* column_features
  resolution,  \* config.conflict_resolution
  labeler,     \* active_labeler
  budget,      \* min(config.labeling_budget, n)
  pc,
  k,           \* clusters the next cut may have
  clusters,    \* cluster_ids_by_column: the cluster around each position
  position,    \* the tuple drawn last
  labels,      \* per_column_labels
  labeled,     \* labeled_rows
  about,       \* history: the row the labeler looked at for each position
  trained,     \* the propagated labels each classifier is trained on
  cells        \* AlgorithmResult.cells

config == <<features, resolution, labeler, budget>>
vars == <<config, pc, k, clusters, position, labels, labeled, about, trained, cells>>

Clustering == "cluster"
Sampling   == "sample"
Labeling   == "label"
Assembling == "assemble"
Done       == "done"
Failed     == "failed"

\* Mutant: min(..., n) is dropped.
MinOf_First(m, n) == m

MinOf(m, n) == IF m < n THEN m ELSE n

\* Partial functions, as Python dicts.
Dicts(S, T) == UNION {[D -> T] : D \in SUBSET S}

Init ==
  /\ \E table \in Tables : features = BuildAllFeatures(table)
  /\ resolution \in Resolutions
  /\ labeler \in Labelers
  /\ \E b \in Budgets : budget = MinOf(b, N)
  /\ pc = Clustering
  /\ k = 2
  /\ clusters = [col \in Columns |-> [r \in Rows |-> Rows]]
  /\ position = NoRow
  /\ labels = [col \in Columns |-> <<>>]
  /\ labeled = {}
  /\ about = <<>>
  /\ trained = [col \in Columns |-> <<>>]
  /\ cells = NoCells

-----------------------------------------------------------------------------
(* Clustering and sampling.                                                *)

\* Every way to cut the rows, as the cluster around each row.
Cuts == {[r \in Rows |-> {s \in Rows : id[s] = id[r]}] : id \in [Rows -> Rows]}

\* Mutant: rows with the same features can end up in different clusters.
ClusterColumn_Arbitrary(col) ==
  {cut \in Cuts : Cardinality({cut[r] : r \in Rows}) <= k}

(* fcluster(linkage(...), k, "maxclust"): at most k clusters; rows with    *)
(* equal features are at distance 0 and stay together; a larger k cuts the *)
(* same dendrogram further down.                                           *)
ClusterColumn(col) ==
  {cut \in Cuts :
     /\ Cardinality({cut[r] : r \in Rows}) <= k
     /\ \A r, s \in Rows : features[col].matrix[r] = features[col].matrix[s] => s \in cut[r]
     /\ \A r \in Rows : cut[r] \subseteq clusters[col][r]}

\* Mutant: while len(labeled_rows) <= budget.
Cluster_OneMore ==
  /\ pc = Clustering
  /\ Cardinality(labeled) <= budget
  /\ clusters' \in {cut \in [Columns -> Cuts] : \A col \in Columns : cut[col] \in ClusterColumn(col)}
  /\ pc' = Sampling
  /\ UNCHANGED <<config, k, position, labels, labeled, about, trained, cells>>

\* The top of the loop: while len(labeled_rows) < budget.
Cluster ==
  /\ pc = Clustering
  /\ Cardinality(labeled) < budget
  /\ clusters' \in {cut \in [Columns -> Cuts] : \A col \in Columns : cut[col] \in ClusterColumn(col)}
  /\ pc' = Sampling
  /\ UNCHANGED <<config, k, position, labels, labeled, about, trained, cells>>

\* Mutant: rows that already have a label are drawn again.
SampleTuple_All == Rows

\* Equation (3) gives every row that has no label yet a positive probability.
SampleTuple == Rows \ labeled

Sample ==
  /\ pc = Sampling
  /\ position' \in SampleTuple
  /\ pc' = Labeling
  /\ UNCHANGED <<config, k, clusters, labels, labeled, about, trained, cells>>

-----------------------------------------------------------------------------
(* Labeling.                                                               *)

\* Mutant: the position is passed where the row label is expected.
ResolvePosition_AsLabel(p) == {r \in Rows : Index[r] = p}

\* The rows df.index[p] can be resolved to; a labeler of ours takes the first.
ResolvePosition(p) == {r \in Rows : Index[r] = Index[p]}
First(S) == {r \in S : \A s \in S : r <= s}

\* HeuristicLabeler: the majority of the column's strategies flag the cell.
Vote(col, r) ==
  LET names == features[col].names
  IN names # {} /\ 2 * Cardinality(features[col].matrix[r]) >= Cardinality(names)

(* What label_tuple returns about row r: the heuristic and a ground truth  *)
(* answer for every column, a callback for the columns it pleases.         *)
Answers(r) ==
  CASE labeler = "heuristic"   -> {[col \in Columns |-> Vote(col, r)]}
    [] labeler = "groundTruth" -> [Columns -> BOOLEAN]
    [] labeler = "callable"    -> Dicts(Columns, BOOLEAN)

\* The row a labeler that is only given the label of p looks at.
LooksAt(p) ==
  IF labeler = "callable" THEN ResolvePosition(p) ELSE First(ResolvePosition(p))

\* Mutant: an answer that leaves a column out is dropped and another row drawn.
LabelTuple_Discards ==
  /\ pc = Labeling
  /\ \E r \in LooksAt(position) : \E answer \in Answers(r) :
       IF DOMAIN answer = Columns
         THEN /\ labels' = [col \in Columns |->
                   [p \in DOMAIN labels[col] \cup {position} |->
                      IF p = position THEN answer[col] ELSE labels[col][p]]]
              /\ about' = [p \in DOMAIN about \cup {position} |->
                             IF p = position THEN r ELSE about[p]]
              /\ labeled' = labeled \cup {position}
              /\ k' = k + 1
         ELSE UNCHANGED <<labels, about, labeled, k>>
  /\ pc' = Clustering
  /\ UNCHANGED <<config, clusters, position, trained, cells>>

LabelTuple ==
  /\ pc = Labeling
  /\ \E r \in LooksAt(position) : \E answer \in Answers(r) :
       /\ labels' = [col \in Columns |->
            IF col \in DOMAIN answer
              THEN [p \in DOMAIN labels[col] \cup {position} |->
                      IF p = position THEN answer[col] ELSE labels[col][p]]
              ELSE labels[col]]
       /\ about' = [p \in DOMAIN about \cup {position} |->
                      IF p = position THEN r ELSE about[p]]
  /\ labeled' = labeled \cup {position}
  /\ k' = k + 1
  /\ pc' = Clustering
  /\ UNCHANGED <<config, clusters, position, trained, cells>>

\* The callback raises, or answers for a column the table does not have; the clean table of
\* a ground truth may end before the row.
LabelerRaises ==
  /\ pc = Labeling
  /\ labeler \in {"callable", "groundTruth"}
  /\ pc' = Failed
  /\ UNCHANGED <<config, k, clusters, position, labels, labeled, about, trained, cells>>

-----------------------------------------------------------------------------
(* Propagation, training and prediction.                                   *)

\* The labelled rows of a cluster, by their label.
Votes(cluster, known, label) == {r \in cluster \cap DOMAIN known : known[r] = label}

\* A cluster with labels spreads one; homogeneity leaves contradictions alone.
Spreads(cluster, known, rule) ==
  LET dirty == Votes(cluster, known, TRUE)
      clean == Votes(cluster, known, FALSE)
  IN dirty \cup clean # {} /\ (rule = "homogeneity" => dirty = {} \/ clean = {})

\* Mutant: the majority vote is counted the wrong way round.
SpreadsDirty_Swapped(cluster, known, rule) ==
  LET dirty == Votes(cluster, known, TRUE)
      clean == Votes(cluster, known, FALSE)
  IN IF rule = "homogeneity" THEN dirty # {} ELSE Cardinality(dirty) <= Cardinality(clean)

\* The label it spreads: the majority's, a tie being dirty.
SpreadsDirty(cluster, known, rule) ==
  LET dirty == Votes(cluster, known, TRUE)
      clean == Votes(cluster, known, FALSE)
  IN IF rule = "homogeneity" THEN dirty # {} ELSE Cardinality(dirty) >= Cardinality(clean)

\* Mutant: propagated.update(labeled_cells) is missing.
PropagateLabels_NoUpdate(cut, known, rule) ==
  [r \in {s \in Rows : Spreads(cut[s], known, rule)} |-> SpreadsDirty(cut[r], known, rule)]

\* propagate_labels: the user's labels replace the propagated ones.
PropagateLabels(cut, known, rule) ==
  [r \in {s \in Rows : Spreads(cut[s], known, rule)} \cup DOMAIN known |->
     IF r \in DOMAIN known THEN known[r] ELSE SpreadsDirty(cut[r], known, rule)]

\* Mutant: the classifier is fitted whatever the labels are.
TrainAndPredict_AlwaysFit(columnFeatures, known) ==
  {verdict \in [Rows -> BOOLEAN] : \A r, s \in Rows :
     columnFeatures.matrix[r] = columnFeatures.matrix[s] => verdict[r] = verdict[s]}

(* train_and_predict: clean without labels, the majority of the labels if  *)
(* there is nothing to learn from, and otherwise what a classifier makes   *)
(* of the features alone.                                                  *)
TrainAndPredict(columnFeatures, known) ==
  LET dirty == {r \in DOMAIN known : known[r]} IN
  IF DOMAIN known = {} THEN {[r \in Rows |-> FALSE]}
  ELSE IF columnFeatures.names = {} \/ dirty \in {{}, DOMAIN known}
  THEN {[r \in Rows |-> 2 * Cardinality(dirty) >= Cardinality(DOMAIN known)]}
  ELSE {verdict \in [Rows -> BOOLEAN] : \A r, s \in Rows :
          columnFeatures.matrix[r] = columnFeatures.matrix[s] => verdict[r] = verdict[s]}

\* The verdict about a cell and where it comes from.
CellResult(given, known, predictions, r) ==
  IF r \in DOMAIN given THEN [source |-> "user_label", isError |-> given[r]]
  ELSE IF r \in DOMAIN known THEN [source |-> "propagated", isError |-> known[r]]
  ELSE [source |-> "classifier", isError |-> predictions[r]]

\* The end of the loop; train and predict column by column.
Propagate ==
  /\ pc = Clustering
  /\ Cardinality(labeled) >= budget
  /\ trained' = [col \in Columns |-> PropagateLabels(clusters[col], labels[col], resolution)]
  /\ pc' = Assembling
  /\ UNCHANGED <<config, k, clusters, position, labels, labeled, about, cells>>

Assemble ==
  /\ pc = Assembling
  /\ \E predictions \in [Columns -> [Rows -> BOOLEAN]] :
       /\ \A col \in Columns : predictions[col] \in TrainAndPredict(features[col], trained[col])
       /\ cells' = [col \in Columns |-> [r \in Rows |->
                      CellResult(labels[col], trained[col], predictions[col], r)]]
  /\ pc' = Done
  /\ UNCHANGED <<config, k, clusters, position, labels, labeled, about, trained>>

Proceed == Cluster \/ Sample \/ LabelTuple \/ LabelerRaises \/ Propagate \/ Assemble

Terminated == pc \in {Done, Failed} /\ UNCHANGED vars

Next == Proceed \/ Terminated

Spec == Init /\ [][Next]_vars

\* detect is one call: it goes on, and a labeler that is asked answers.
FairSpec == Spec /\ WF_vars(Proceed)

-----------------------------------------------------------------------------
(* Properties.                                                             *)

Verdict == [source: {"user_label", "propagated", "classifier"}, isError: BOOLEAN]

\* Every variable of detect holds a value the code can produce.
RahaTypeOK ==
  /\ resolution \in Resolutions /\ labeler \in Labelers
  /\ budget \in 1 .. N
  /\ pc \in {Clustering, Sampling, Labeling, Assembling, Done, Failed}
  /\ k \in Nat
  /\ clusters \in [Columns -> [Rows -> SUBSET Rows]]
  /\ position \in Rows \cup {NoRow}
  /\ labels \in [Columns -> Dicts(Rows, BOOLEAN)]
  /\ labeled \subseteq Rows
  /\ about \in Dicts(Rows, Rows)
  /\ trained \in [Columns -> Dicts(Rows, BOOLEAN)]
  /\ cells \in [Columns -> [Rows -> Verdict]] \cup {NoCells}

(* The labeler is asked about as many tuples as the budget or the table    *)
(* allows, no more and no fewer, and the labels are spread through at most *)
(* one cluster more than that.                                             *)
BudgetSpent ==
  /\ Cardinality(labeled) <= budget
  /\ pc \in {Assembling, Done} =>
       /\ Cardinality(labeled) = budget
       /\ \A col \in Columns : Cardinality({clusters[col][r] : r \in Rows}) <= budget + 1

(* A labeler "indexes by position": the label kept for a position is what  *)
(* the labeler said about that very row.                                   *)
LabelsBelongToTheirRow == \A p \in DOMAIN about : about[p] = p

\* What the labeler has said once is never asked or changed again.
LabelsStick ==
  [][/\ \A col \in Columns : \A p \in DOMAIN labels[col] :
          p \in DOMAIN labels'[col] /\ labels'[col][p] = labels[col][p]
     /\ \A p \in DOMAIN about : p \in DOMAIN about' /\ about'[p] = about[p]]_vars

(* "User labels always take precedence": in what a classifier is trained   *)
(* on as well as in the verdict.                                           *)
UserLabelsKept ==
  \A col \in Columns : \A p \in DOMAIN labels[col] :
    /\ pc \in {Assembling, Done} => p \in DOMAIN trained[col] /\ trained[col][p] = labels[col][p]
    /\ pc = Done => cells[col][p].isError = labels[col][p]

(* The two conflict resolutions differ on contradicting clusters only:     *)
(* whatever homogeneity spreads, the majority spreads too, and alike.      *)
ResolutionsAgree ==
  \A col \in Columns :
    LET strict  == PropagateLabels(clusters[col], labels[col], "homogeneity")
        lenient == PropagateLabels(clusters[col], labels[col], "majority")
    IN \A r \in DOMAIN strict : r \in DOMAIN lenient /\ strict[r] = lenient[r]

(* Two cells of a column on which the same strategies fired get the same   *)
(* verdict, unless the labeler was asked about one of them.                *)
SameFeaturesSameVerdict ==
  pc = Done => \A col \in Columns : \A r, s \in Rows \ DOMAIN labels[col] :
    features[col].matrix[r] = features[col].matrix[s] => cells[col][r] = cells[col][s]

(* A cell is only called dirty in a column in which the labeler found a    *)
(* dirty cell, and clean, in a column it has looked at, only if it found a *)
(* clean one: no fallback invents a class.                                 *)
VerdictsNeedEvidence ==
  pc = Done => \A col \in Columns : \A r \in Rows :
    \/ \E p \in DOMAIN labels[col] : labels[col][p] = cells[col][r].isError
    \/ DOMAIN labels[col] = {} /\ ~ cells[col][r].isError

\* detect comes back, with a result or with the labeler's exception.
DetectReturns == <>(pc \in {Done, Failed})

=============================================================================
