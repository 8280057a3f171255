------------------------------ MODULE RahaProofs ------------------------------
(***************************************************************************)
(* Theorems about RahaDetector.detect, for every table, index, budget and  *)
(* labeler.                                                                *)
(***************************************************************************)
EXTENDS Raha, TLAPS, FiniteSetTheorems

Pcs == {Clustering, Sampling, Labeling, Assembling, Done, Failed}

Labels == Dicts(Rows, BOOLEAN)

\* The loop: how many labels and clusters there are at each point of a round.
RoundInv ==
  /\ pc \in Pcs
  /\ resolution \in Resolutions /\ labeler \in Labelers
  /\ budget \in 1 .. N
  /\ labeled \subseteq Rows
  /\ k = Cardinality(labeled) + 2
  /\ Cardinality(labeled) <= budget
  /\ pc \in {Sampling, Labeling} => Cardinality(labeled) < budget
  /\ pc \in {Assembling, Done} => Cardinality(labeled) = budget
  /\ pc = Labeling => position \in Rows \ labeled
  /\ clusters \in [Columns -> [Rows -> SUBSET Rows]]
  /\ \A col \in Columns : Cardinality({clusters[col][r] : r \in Rows}) <=
       IF pc \in {Sampling, Labeling, Failed} THEN k ELSE k - 1

\* The labels: only for drawn rows, and only answers.
LabelInv ==
  /\ labels \in [Columns -> Labels]
  /\ \A col \in Columns : DOMAIN labels[col] \subseteq labeled
  /\ about \in Dicts(Rows, Rows)
  /\ DOMAIN about = labeled

\* Rows with the same features share their clusters.
ClusterInv ==
  \A col \in Columns : \A r, s \in Rows :
    features[col].matrix[r] = features[col].matrix[s] => clusters[col][r] = clusters[col][s]

\* What was propagated and predicted from the labels and the last clusters.
ResultInv ==
  /\ pc \in {Assembling, Done} =>
       trained = [col \in Columns |-> PropagateLabels(clusters[col], labels[col], resolution)]
  /\ pc = Done => \A col \in Columns : \E predictions \in TrainAndPredict(features[col], trained[col]) :
       cells[col] = [r \in Rows |-> CellResult(labels[col], trained[col], predictions, r)]

DetectInv == RoundInv /\ LabelInv /\ ClusterInv /\ ResultInv

LEMMA RowsFinite ==
  /\ N \in Nat \ {0}
  /\ \A S \in SUBSET Rows : IsFiniteSet(S) /\ Cardinality(S) \in Nat
  <1>1. IsFiniteSet(Rows) /\ Rows # {}
    BY TableAssumption
  <1>2. N \in Nat /\ N # 0
    BY <1>1, FS_CardinalityType, FS_EmptySet DEF N
  <1>3. \A S \in SUBSET Rows : IsFiniteSet(S)
    BY <1>1, FS_Subset
  <1> QED
    BY <1>2, <1>3, FS_CardinalityType

LEMMA DetectInit == Init => DetectInv
  <1> SUFFICES ASSUME Init PROVE DetectInv
    OBVIOUS
  <1> USE DEF Init, Clustering, Sampling, Labeling, Assembling, Done, Failed
  <1>1. Cardinality({}) = 0
    BY FS_EmptySet
  <1>2. budget \in 1 .. N
    BY RowsFinite, RahaAssumption DEF MinOf
  <1>3. ASSUME NEW col \in Columns
        PROVE  Cardinality({clusters[col][r] : r \in Rows}) = 1
    <2>1. {clusters[col][r] : r \in Rows} = {Rows}
      BY TableAssumption
    <2> QED
      BY <2>1, FS_Singleton
  <1>4. RoundInv
    BY <1>1, <1>2, <1>3 DEF RoundInv, Pcs
  <1>5. <<>> \in Labels /\ <<>> \in Dicts(Rows, Rows) /\ DOMAIN <<>> = {}
    <2>1. <<>> \in [{} -> BOOLEAN] /\ <<>> \in [{} -> Rows] /\ DOMAIN <<>> = {}
      OBVIOUS
    <2> QED
      BY <2>1 DEF Labels, Dicts
  <1>6. LabelInv
    BY <1>5 DEF LabelInv
  <1>7. ClusterInv /\ ResultInv
    BY DEF ClusterInv, ResultInv
  <1> QED
    BY <1>4, <1>6, <1>7 DEF DetectInv

LEMMA ClusterStep == DetectInv /\ Cluster => DetectInv'
  <1> SUFFICES ASSUME DetectInv, Cluster PROVE DetectInv'
    OBVIOUS
  <1> USE DEF Clustering, Sampling, Labeling, Assembling, Done, Failed
  <1>1. /\ clusters' \in [Columns -> Cuts]
        /\ \A col \in Columns : clusters'[col] \in ClusterColumn(col)
    BY DEF Cluster
  <1>2. clusters' \in [Columns -> [Rows -> SUBSET Rows]]
    BY <1>1 DEF Cuts
  <1>3. \A col \in Columns : Cardinality({clusters'[col][r] : r \in Rows}) <= k
    BY <1>1 DEF ClusterColumn
  <1>4. RoundInv'
    BY <1>2, <1>3 DEF DetectInv, RoundInv, Cluster, config, Pcs
  <1>5. ASSUME NEW col \in Columns, NEW r \in Rows, NEW s \in Rows,
               features[col].matrix[r] = features[col].matrix[s]
        PROVE  clusters'[col][r] = clusters'[col][s]
    <2>1. s \in clusters'[col][r]
      BY <1>1, <1>5 DEF ClusterColumn
    <2>2. PICK id \in [Rows -> Rows] :
            clusters'[col] = [t \in Rows |-> {u \in Rows : id[u] = id[t]}]
      BY <1>1 DEF Cuts
    <2> QED
      BY <2>1, <2>2
  <1>6. ClusterInv'
    BY <1>5 DEF ClusterInv, Cluster, config
  <1>7. LabelInv' /\ ResultInv'
    BY DEF DetectInv, LabelInv, ResultInv, Cluster
  <1> QED
    BY <1>4, <1>6, <1>7 DEF DetectInv

LEMMA SampleStep == DetectInv /\ Sample => DetectInv'
  <1> SUFFICES ASSUME DetectInv, Sample PROVE DetectInv'
    OBVIOUS
  <1> USE DEF Clustering, Sampling, Labeling, Assembling, Done, Failed, Sample, config
  <1>1. RoundInv'
    BY DEF DetectInv, RoundInv, SampleTuple, Pcs
  <1>2. LabelInv' /\ ClusterInv'
    BY DEF DetectInv, LabelInv, ClusterInv
  <1>3. ResultInv'
    BY DEF ResultInv
  <1> QED
    BY <1>1, <1>2, <1>3 DEF DetectInv

LEMMA LabelStep == DetectInv /\ LabelTuple => DetectInv'
  <1> SUFFICES ASSUME DetectInv, LabelTuple PROVE DetectInv'
    OBVIOUS
  <1> USE DEF Clustering, Sampling, Labeling, Assembling, Done, Failed
  <1>1. /\ pc = Labeling /\ pc' = Clustering /\ k' = k + 1
        /\ labeled' = labeled \cup {position}
        /\ UNCHANGED <<config, clusters>>
    BY DEF LabelTuple
  <1>2. position \in Rows /\ position \notin labeled /\ labeled \subseteq Rows
    BY <1>1 DEF DetectInv, RoundInv
  <1>3. Cardinality(labeled') = Cardinality(labeled) + 1 /\ Cardinality(labeled) \in Nat
    BY <1>1, <1>2, RowsFinite, FS_AddElement
  <1>4. RoundInv'
    BY <1>1, <1>2, <1>3, RowsFinite DEF DetectInv, RoundInv, Pcs, config
  <1>5. PICK r \in LooksAt(position) : \E answer \in Answers(r) :
          /\ labels' = [col \in Columns |->
               IF col \in DOMAIN answer
                 THEN [p \in DOMAIN labels[col] \cup {position} |->
                         IF p = position THEN answer[col] ELSE labels[col][p]]
                 ELSE labels[col]]
          /\ about' = [p \in DOMAIN about \cup {position} |->
                         IF p = position THEN r ELSE about[p]]
    BY DEF LabelTuple
  <1>6. r \in Rows
    BY DEF LooksAt, First, ResolvePosition
  <1>7. PICK answer \in Answers(r) :
          labels' = [col \in Columns |->
            IF col \in DOMAIN answer
              THEN [p \in DOMAIN labels[col] \cup {position} |->
                      IF p = position THEN answer[col] ELSE labels[col][p]]
              ELSE labels[col]]
    BY <1>5
  <1>8. \A col \in DOMAIN answer : answer[col] \in BOOLEAN
    <2>1. labeler \in {"heuristic", "groundTruth", "callable"}
      BY RahaAssumption DEF DetectInv, RoundInv
    <2>2. CASE labeler = "heuristic"
      <3>1. \A col \in Columns : Vote(col, r) \in BOOLEAN
        BY DEF Vote
      <3>2. answer = [col \in Columns |-> Vote(col, r)]
        BY <2>2 DEF Answers
      <3> QED
        BY <3>1, <3>2
    <2>3. CASE labeler = "groundTruth"
      BY <2>3 DEF Answers
    <2>4. CASE labeler = "callable"
      <3>1. PICK D \in SUBSET Columns : answer \in [D -> BOOLEAN]
        BY <2>4 DEF Answers, Dicts
      <3> QED
        BY <3>1
    <2> QED
      BY <2>1, <2>2, <2>3, <2>4
  <1>9. ASSUME NEW col \in Columns
        PROVE  labels'[col] \in Labels /\ DOMAIN labels'[col] \subseteq labeled'
    <2>1. PICK D \in SUBSET Rows : labels[col] \in [D -> BOOLEAN]
      BY DEF DetectInv, LabelInv, Labels, Dicts
    <2>2. D \subseteq labeled
      BY <2>1 DEF DetectInv, LabelInv
    <2>3. CASE col \in DOMAIN answer
      <3>1. labels'[col] \in [D \cup {position} -> BOOLEAN]
        BY <1>7, <1>8, <2>1, <2>3
      <3> QED
        BY <3>1, <2>2, <1>1, <1>2 DEF Labels, Dicts
    <2>4. CASE col \notin DOMAIN answer
      BY <1>7, <2>1, <2>2, <2>4, <1>1 DEF Labels, Dicts
    <2> QED
      BY <2>3, <2>4
  <1>10. about' \in Dicts(Rows, Rows) /\ DOMAIN about' = labeled'
    <2>1. PICK D \in SUBSET Rows : about \in [D -> Rows]
      BY DEF DetectInv, LabelInv, Dicts
    <2>2. D = labeled
      BY <2>1 DEF DetectInv, LabelInv
    <2>3. about' \in [D \cup {position} -> Rows]
      BY <1>5, <1>6, <2>1
    <2> QED
      BY <2>2, <2>3, <1>1, <1>2 DEF Dicts
  <1>11. LabelInv'
    BY <1>7, <1>9, <1>10 DEF LabelInv
  <1>12. ClusterInv' /\ ResultInv'
    BY <1>1 DEF DetectInv, ClusterInv, ResultInv, config
  <1> QED
    BY <1>4, <1>11, <1>12 DEF DetectInv

LEMMA AbortStep == DetectInv /\ LabelerRaises => DetectInv'
  <1> USE DEF Clustering, Sampling, Labeling, Assembling, Done, Failed, LabelerRaises, config
  <1>1. DetectInv /\ LabelerRaises => RoundInv'
    BY DEF DetectInv, RoundInv, Pcs
  <1>2. DetectInv /\ LabelerRaises => LabelInv' /\ ClusterInv' /\ ResultInv'
    BY DEF DetectInv, LabelInv, ClusterInv, ResultInv
  <1> QED
    BY <1>1, <1>2 DEF DetectInv

LEMMA PropagateStep == DetectInv /\ Propagate => DetectInv'
  <1> SUFFICES ASSUME DetectInv, Propagate PROVE DetectInv'
    OBVIOUS
  <1> USE DEF Clustering, Sampling, Labeling, Assembling, Done, Failed, config
  <1>1. Cardinality(labeled) \in Nat
    BY RowsFinite DEF DetectInv, RoundInv
  <1>2. RoundInv'
    BY <1>1, RowsFinite DEF DetectInv, RoundInv, Propagate, Pcs
  <1>3. LabelInv' /\ ClusterInv'
    BY DEF DetectInv, LabelInv, ClusterInv, Propagate
  <1>4. trained' = [col \in Columns |-> PropagateLabels(clusters'[col], labels'[col], resolution')]
    BY DEF Propagate
  <1>5. ResultInv'
    BY <1>4 DEF ResultInv, Propagate
  <1> QED
    BY <1>2, <1>3, <1>5 DEF DetectInv

LEMMA AssembleStep == DetectInv /\ Assemble => DetectInv'
  <1> SUFFICES ASSUME DetectInv, Assemble PROVE DetectInv'
    OBVIOUS
  <1> USE DEF Clustering, Sampling, Labeling, Assembling, Done, Failed, config
  <1>1. RoundInv'
    BY DEF DetectInv, RoundInv, Assemble, Pcs
  <1>2. LabelInv' /\ ClusterInv'
    BY DEF DetectInv, LabelInv, ClusterInv, Assemble
  <1>3. PICK predictions \in [Columns -> [Rows -> BOOLEAN]] :
          /\ \A col \in Columns : predictions[col] \in TrainAndPredict(features[col], trained[col])
          /\ cells' = [col \in Columns |-> [r \in Rows |->
                         CellResult(labels[col], trained[col], predictions[col], r)]]
    BY DEF Assemble
  <1>4. UNCHANGED <<features, labels, trained, clusters, resolution>> /\ pc = Assembling
    BY DEF Assemble
  <1>5. trained' = [col \in Columns |-> PropagateLabels(clusters'[col], labels'[col], resolution')]
    BY <1>4 DEF DetectInv, ResultInv
  <1>6. ASSUME NEW col \in Columns
        PROVE  \E f \in TrainAndPredict(features'[col], trained'[col]) :
                 cells'[col] = [r \in Rows |-> CellResult(labels'[col], trained'[col], f, r)]
    BY <1>3, <1>4
  <1>7. ResultInv'
    BY <1>5, <1>6 DEF ResultInv
  <1> QED
    BY <1>1, <1>2, <1>7 DEF DetectInv

LEMMA DetectStep == DetectInv /\ [Next]_vars => DetectInv'
  <1> SUFFICES ASSUME DetectInv, [Next]_vars PROVE DetectInv'
    OBVIOUS
  <1>1. CASE UNCHANGED vars
    <2> USE <1>1 DEF vars, config
    <2>1. RoundInv' /\ LabelInv' /\ ClusterInv'
      BY DEF DetectInv, RoundInv, LabelInv, ClusterInv
    <2>2. ResultInv'
      BY DEF DetectInv, ResultInv
    <2> QED
      BY <2>1, <2>2 DEF DetectInv
  <1>2. CASE Proceed
    BY <1>2, ClusterStep, SampleStep, LabelStep, AbortStep, PropagateStep, AssembleStep DEF Proceed
  <1> QED
    BY <1>1, <1>2 DEF Next, Terminated

LEMMA DetectInvariant == Spec => []DetectInv
  BY DetectInit, DetectStep, PTL DEF Spec

-----------------------------------------------------------------------------
\* What detect keeps beside the loop: the drawn row and the results.
OutputInv ==
  /\ position \in Rows \cup {NoRow}
  /\ trained \in [Columns -> Labels]
  /\ cells \in [Columns -> [Rows -> Verdict]] \cup {NoCells}

\* Propagation labels rows of the table.
LEMMA PropagateType ==
  ASSUME NEW cut \in [Rows -> SUBSET Rows], NEW known \in Labels, NEW rule
  PROVE  PropagateLabels(cut, known, rule) \in Labels
  <1>1. PICK D \in SUBSET Rows : known \in [D -> BOOLEAN]
    BY DEF Labels, Dicts
  <1>2. \A r \in Rows : SpreadsDirty(cut[r], known, rule) \in BOOLEAN
    <2> SUFFICES ASSUME NEW r \in Rows PROVE SpreadsDirty(cut[r], known, rule) \in BOOLEAN
      OBVIOUS
    <2> DEFINE dirty == Votes(cut[r], known, TRUE)
               clean == Votes(cut[r], known, FALSE)
    <2>1. dirty \in SUBSET Rows /\ clean \in SUBSET Rows
      BY DEF Votes
    <2>2. Cardinality(dirty) \in Nat /\ Cardinality(clean) \in Nat
      BY <2>1, RowsFinite
    <2>3. CASE rule = "homogeneity"
      <3>1. SpreadsDirty(cut[r], known, rule) = (dirty # {})
        BY <2>3 DEF SpreadsDirty
      <3> QED
        BY <3>1
    <2>4. CASE rule # "homogeneity"
      <3>1. SpreadsDirty(cut[r], known, rule) = (Cardinality(dirty) >= Cardinality(clean))
        BY <2>4 DEF SpreadsDirty
      <3>2. (Cardinality(dirty) >= Cardinality(clean)) \in BOOLEAN
        BY <2>2
      <3> QED
        BY <3>1, <3>2
    <2> QED
      BY <2>3, <2>4
  <1> DEFINE S == {s \in Rows : Spreads(cut[s], known, rule)} \cup DOMAIN known
  <1>3. S \in SUBSET Rows
    BY <1>1
  <1>4. PropagateLabels(cut, known, rule) \in [S -> BOOLEAN]
    BY <1>1, <1>2, <1>3 DEF PropagateLabels
  <1> QED
    BY <1>3, <1>4 DEF Labels, Dicts

LEMMA CellType ==
  ASSUME NEW given \in Labels, NEW known \in Labels, NEW predictions \in [Rows -> BOOLEAN],
         NEW r \in Rows
  PROVE  CellResult(given, known, predictions, r) \in Verdict
  <1>1. \A f \in Labels : r \in DOMAIN f => f[r] \in BOOLEAN
    BY DEF Labels, Dicts
  <1> QED
    BY <1>1 DEF CellResult, Verdict

(* Every variable of detect holds a value the code can produce, for every  *)
(* table, index, budget and labeler.                                       *)
THEOREM RahaTypeCorrect == Spec => []RahaTypeOK
  <1>1. Init => OutputInv
    <2> SUFFICES ASSUME Init PROVE OutputInv
      OBVIOUS
    <2>1. <<>> \in Labels
      BY DetectInit DEF Init, DetectInv, LabelInv, Labels, Dicts
    <2> QED
      BY <2>1 DEF Init, OutputInv
  <1>2. DetectInv /\ OutputInv /\ [Next]_vars => OutputInv'
    <2> SUFFICES ASSUME DetectInv, OutputInv, [Next]_vars PROVE OutputInv'
      OBVIOUS
    <2>1. CASE Sample
      BY <2>1 DEF Sample, SampleTuple, OutputInv
    <2>2. CASE Propagate
      <3>1. \A col \in Columns : PropagateLabels(clusters[col], labels[col], resolution) \in Labels
        BY PropagateType DEF DetectInv, RoundInv, LabelInv
      <3> QED
        BY <2>2, <3>1 DEF Propagate, OutputInv
    <2>3. CASE Assemble
      <3>1. PICK predictions \in [Columns -> [Rows -> BOOLEAN]] :
              cells' = [col \in Columns |-> [r \in Rows |->
                          CellResult(labels[col], trained[col], predictions[col], r)]]
        BY <2>3 DEF Assemble
      <3>2. \A col \in Columns : \A r \in Rows :
              CellResult(labels[col], trained[col], predictions[col], r) \in Verdict
        BY CellType DEF DetectInv, LabelInv, OutputInv
      <3>3. cells' \in [Columns -> [Rows -> Verdict]]
        BY <3>1, <3>2
      <3> QED
        BY <2>3, <3>3 DEF Assemble, OutputInv
    <2>4. CASE UNCHANGED <<position, trained, cells>>
      BY <2>4 DEF OutputInv
    <2> QED
      BY <2>1, <2>2, <2>3, <2>4 DEF Next, Proceed, Cluster, LabelTuple, LabelerRaises,
                                   Terminated, vars
  <1>3. DetectInv /\ OutputInv => RahaTypeOK
    <2>1. DetectInv => k \in Nat
      BY RowsFinite DEF DetectInv, RoundInv
    <2> QED
      BY <2>1 DEF DetectInv, RoundInv, LabelInv, OutputInv, Pcs, Labels, RahaTypeOK
  <1> QED
    BY DetectInvariant, <1>1, <1>2, <1>3, PTL DEF Spec

-----------------------------------------------------------------------------
(* The labeler is asked about min(labeling_budget, n) tuples exactly, and  *)
(* the last cut has at most one cluster more than that.                    *)
THEOREM BudgetIsSpent == Spec => []BudgetSpent
  <1>1. DetectInv => BudgetSpent
    <2> SUFFICES ASSUME DetectInv PROVE BudgetSpent
      OBVIOUS
    <2>1. Cardinality(labeled) \in Nat /\ k = Cardinality(labeled) + 2
      BY RowsFinite DEF DetectInv, RoundInv
    <2> QED
      BY <2>1 DEF DetectInv, RoundInv, BudgetSpent, Clustering, Sampling, Labeling, Assembling,
                  Done, Failed
  <1> QED
    BY <1>1, DetectInvariant, PTL

(* Once a label is given it is never asked for or changed again: no row is *)
(* drawn twice.                                                            *)
THEOREM LabelsAreFinal == Spec => LabelsStick
  <1> DEFINE Stick ==
        /\ \A col \in Columns : \A p \in DOMAIN labels[col] :
             p \in DOMAIN labels'[col] /\ labels'[col][p] = labels[col][p]
        /\ \A p \in DOMAIN about : p \in DOMAIN about' /\ about'[p] = about[p]
  <1>1. DetectInv /\ [Next]_vars => [Stick]_vars
    <2> SUFFICES ASSUME DetectInv, Next PROVE Stick \/ UNCHANGED vars
      OBVIOUS
    <2>1. CASE LabelTuple
      <3>1. position \notin DOMAIN about /\ \A col \in Columns : position \notin DOMAIN labels[col]
        BY <2>1 DEF LabelTuple, DetectInv, RoundInv, LabelInv
      <3>2. PICK r \in LooksAt(position) : \E answer \in Answers(r) :
              /\ labels' = [col \in Columns |->
                   IF col \in DOMAIN answer
                     THEN [p \in DOMAIN labels[col] \cup {position} |->
                             IF p = position THEN answer[col] ELSE labels[col][p]]
                     ELSE labels[col]]
              /\ about' = [p \in DOMAIN about \cup {position} |->
                             IF p = position THEN r ELSE about[p]]
        BY <2>1 DEF LabelTuple
      <3> QED
        BY <3>1, <3>2
    <2>2. CASE ~ LabelTuple
      <3>1. UNCHANGED <<labels, about>>
        BY <2>2 DEF Next, Proceed, Cluster, Sample, LabelerRaises, Propagate, Assemble,
                    Terminated, vars
      <3> QED
        BY <3>1
    <2> QED
      BY <2>1, <2>2
  <1> QED
    BY <1>1, DetectInvariant, PTL DEF Spec, LabelsStick

(* Without duplicates in df.index the labels are about the rows they are   *)
(* kept for, whichever of the rows with that label the labeler looks at.   *)
THEOREM UniqueIndexLabels ==
  ASSUME \A r, s \in Rows : Index[r] = Index[s] => r = s
  PROVE  Spec => []LabelsBelongToTheirRow
  <1>1. Init => LabelsBelongToTheirRow
    BY DEF Init, LabelsBelongToTheirRow
  <1>2. DetectInv /\ LabelsBelongToTheirRow /\ [Next]_vars => LabelsBelongToTheirRow'
    <2> SUFFICES ASSUME DetectInv, LabelsBelongToTheirRow, [Next]_vars
                 PROVE  LabelsBelongToTheirRow'
      OBVIOUS
    <2>1. CASE LabelTuple
      <3>1. position \in Rows
        BY <2>1 DEF LabelTuple, DetectInv, RoundInv
      <3>2. PICK r \in LooksAt(position) :
              about' = [p \in DOMAIN about \cup {position} |->
                          IF p = position THEN r ELSE about[p]]
        BY <2>1 DEF LabelTuple
      <3>3. r = position
        BY <3>1 DEF LooksAt, First, ResolvePosition
      <3> QED
        BY <3>2, <3>3 DEF LabelsBelongToTheirRow
    <2>2. CASE ~ LabelTuple
      <3>1. UNCHANGED about
        BY <2>2 DEF Next, Proceed, Cluster, Sample, LabelerRaises, Propagate, Assemble,
                    Terminated, vars
      <3> QED
        BY <3>1 DEF LabelsBelongToTheirRow
    <2> QED
      BY <2>1, <2>2
  <1> QED
    BY <1>1, <1>2, DetectInvariant, PTL DEF Spec

-----------------------------------------------------------------------------
(* Propagation.                                                            *)

LEMMA SpreadsIsBoolean ==
  ASSUME NEW cluster, NEW known, NEW rule
  PROVE  SpreadsDirty(cluster, known, rule) \in BOOLEAN
  <1> DEFINE D == Votes(cluster, known, TRUE)
             C == Votes(cluster, known, FALSE)
  <1>1. (D # {}) \in BOOLEAN /\ (Cardinality(D) >= Cardinality(C)) \in BOOLEAN
    OBVIOUS
  <1>2. CASE rule = "homogeneity"
    BY <1>1, <1>2, Zenon DEF SpreadsDirty
  <1>3. CASE rule # "homogeneity"
    BY <1>1, <1>3, Zenon DEF SpreadsDirty
  <1> QED
    BY <1>2, <1>3

\* What homogeneity makes of a cluster, the majority makes of it too.
LEMMA MajorityOfAgreement ==
  ASSUME NEW cluster \in SUBSET Rows, NEW known \in Labels,
         Spreads(cluster, known, "homogeneity")
  PROVE  /\ Spreads(cluster, known, "majority")
         /\ SpreadsDirty(cluster, known, "majority") <=> SpreadsDirty(cluster, known, "homogeneity")
  <1> DEFINE D == Votes(cluster, known, TRUE)
             C == Votes(cluster, known, FALSE)
  <1>1. /\ IsFiniteSet(D) /\ Cardinality(D) \in Nat
        /\ IsFiniteSet(C) /\ Cardinality(C) \in Nat
    <2>1. D \in SUBSET Rows /\ C \in SUBSET Rows
      BY DEF Votes
    <2> QED
      BY <2>1, RowsFinite
  <1>2. /\ D = {} <=> Cardinality(D) = 0
        /\ C = {} <=> Cardinality(C) = 0
    BY <1>1, FS_EmptySet
  <1>3. D \cup C # {} /\ (D = {} \/ C = {})
    BY DEF Spreads
  <1>4. SpreadsDirty(cluster, known, "homogeneity") <=> D # {}
    BY DEF SpreadsDirty
  <1>5. SpreadsDirty(cluster, known, "majority") <=> Cardinality(D) >= Cardinality(C)
    BY DEF SpreadsDirty
  <1>6. D # {} <=> Cardinality(D) >= Cardinality(C)
    <2> HIDE DEF D, C
    <2>1. CASE D = {}
      <3>1. C # {}
        BY <1>3, <2>1
      <3> QED
        BY <1>1, <1>2, <2>1, <3>1
    <2>2. CASE D # {}
      <3>1. C = {}
        BY <1>3, <2>2
      <3> QED
        BY <1>1, <1>2, <2>2, <3>1
    <2> QED
      BY <2>1, <2>2
  <1> QED
    BY <1>3, <1>4, <1>5, <1>6 DEF Spreads

(* Whatever homogeneity spreads, the majority spreads too, and alike: the  *)
(* choice of the conflict resolution only matters for contradictions.      *)
THEOREM ResolutionsCompared == Spec => []ResolutionsAgree
  <1>1. DetectInv => ResolutionsAgree
    <2> SUFFICES ASSUME DetectInv, NEW col \in Columns,
                        NEW r \in DOMAIN PropagateLabels(clusters[col], labels[col], "homogeneity")
                 PROVE  /\ r \in DOMAIN PropagateLabels(clusters[col], labels[col], "majority")
                        /\ PropagateLabels(clusters[col], labels[col], "homogeneity")[r]
                             = PropagateLabels(clusters[col], labels[col], "majority")[r]
      BY DEF ResolutionsAgree
    <2>1. labels[col] \in Labels /\ clusters[col] \in [Rows -> SUBSET Rows]
      BY DEF DetectInv, RoundInv, LabelInv
    <2>2. CASE r \in DOMAIN labels[col]
      BY <2>2 DEF PropagateLabels
    <2>3. CASE r \notin DOMAIN labels[col]
      <3>1. r \in Rows /\ Spreads(clusters[col][r], labels[col], "homogeneity")
        BY <2>3 DEF PropagateLabels
      <3>2. /\ Spreads(clusters[col][r], labels[col], "majority")
            /\ SpreadsDirty(clusters[col][r], labels[col], "majority")
                 = SpreadsDirty(clusters[col][r], labels[col], "homogeneity")
        <4>1. clusters[col][r] \in SUBSET Rows
          BY <2>1, <3>1
        <4>2. \A rule : SpreadsDirty(clusters[col][r], labels[col], rule) \in BOOLEAN
          BY SpreadsIsBoolean
        <4> QED
          BY <2>1, <3>1, <4>1, <4>2, MajorityOfAgreement
      <3> QED
        BY <2>3, <3>1, <3>2 DEF PropagateLabels
    <2> QED
      BY <2>2, <2>3
  <1> QED
    BY <1>1, DetectInvariant, PTL

\* A user's label is what the classifier is trained on and what is reported.
THEOREM UserLabelsPrevail == Spec => []UserLabelsKept
  <1>1. DetectInv => UserLabelsKept
    <2> SUFFICES ASSUME DetectInv, NEW col \in Columns, NEW p \in DOMAIN labels[col]
                 PROVE  /\ pc \in {Assembling, Done} =>
                             p \in DOMAIN trained[col] /\ trained[col][p] = labels[col][p]
                        /\ pc = Done => cells[col][p].isError = labels[col][p]
      BY DEF UserLabelsKept
    <2>1. p \in Rows
      BY DEF DetectInv, RoundInv, LabelInv
    <2>2. pc \in {Assembling, Done} =>
            trained[col] = PropagateLabels(clusters[col], labels[col], resolution)
      BY DEF DetectInv, ResultInv
    <2>3. ASSUME pc = Done PROVE cells[col][p].isError = labels[col][p]
      <3>1. PICK predictions \in TrainAndPredict(features[col], trained[col]) :
              cells[col] = [r \in Rows |-> CellResult(labels[col], trained[col], predictions, r)]
        BY <2>3 DEF DetectInv, ResultInv
      <3> QED
        BY <2>1, <3>1 DEF CellResult
    <2> QED
      BY <2>1, <2>2, <2>3 DEF PropagateLabels
  <1> QED
    BY <1>1, DetectInvariant, PTL

(* Cells of a column on which the same strategies fired get the same       *)
(* verdict from the same source, unless the labeler was asked about one.   *)
THEOREM FeaturesDecide == Spec => []SameFeaturesSameVerdict
  <1>1. DetectInv => SameFeaturesSameVerdict
    <2> SUFFICES ASSUME DetectInv, pc = Done, NEW col \in Columns,
                        NEW r \in Rows \ DOMAIN labels[col], NEW s \in Rows \ DOMAIN labels[col],
                        features[col].matrix[r] = features[col].matrix[s]
                 PROVE  cells[col][r] = cells[col][s]
      BY DEF SameFeaturesSameVerdict
    <2>1. clusters[col][r] = clusters[col][s]
      BY DEF DetectInv, ClusterInv
    <2>2. trained[col] = PropagateLabels(clusters[col], labels[col], resolution)
      BY DEF DetectInv, ResultInv
    <2>3. PICK predictions \in TrainAndPredict(features[col], trained[col]) :
            cells[col] = [x \in Rows |-> CellResult(labels[col], trained[col], predictions, x)]
      BY DEF DetectInv, ResultInv
    <2>4. predictions[r] = predictions[s]
      <3> DEFINE dirty == {x \in DOMAIN trained[col] : trained[col][x]}
                 majority == 2 * Cardinality(dirty) >= Cardinality(DOMAIN trained[col])
      <3>1. \/ predictions = [x \in Rows |-> FALSE]
            \/ predictions = [x \in Rows |-> majority]
            \/ \A x, y \in Rows : features[col].matrix[x] = features[col].matrix[y]
                                   => predictions[x] = predictions[y]
        BY <2>3 DEF TrainAndPredict
      <3> HIDE DEF majority
      <3> QED
        BY <3>1
    <2>5. /\ r \in DOMAIN trained[col] <=> s \in DOMAIN trained[col]
          /\ r \in DOMAIN trained[col] => trained[col][r] = trained[col][s]
      BY <2>1, <2>2 DEF PropagateLabels
    <2> QED
      BY <2>3, <2>4, <2>5 DEF CellResult
  <1> QED
    BY <1>1, DetectInvariant, PTL

-----------------------------------------------------------------------------
(* Where verdicts come from.                                               *)

\* A cluster spreads a label only if one of its rows was given that label.
LEMMA SpreadNeedsVote ==
  ASSUME NEW cluster \in SUBSET Rows, NEW known \in Labels, NEW rule,
         Spreads(cluster, known, rule)
  PROVE  /\ SpreadsDirty(cluster, known, rule) => Votes(cluster, known, TRUE) # {}
         /\ ~ SpreadsDirty(cluster, known, rule) => Votes(cluster, known, FALSE) # {}
  <1> DEFINE D == Votes(cluster, known, TRUE)
             C == Votes(cluster, known, FALSE)
  <1>1. /\ IsFiniteSet(D) /\ Cardinality(D) \in Nat
        /\ IsFiniteSet(C) /\ Cardinality(C) \in Nat
    <2>1. D \in SUBSET Rows /\ C \in SUBSET Rows
      BY DEF Votes
    <2> QED
      BY <2>1, RowsFinite
  <1>2. /\ D = {} <=> Cardinality(D) = 0
        /\ C = {} <=> Cardinality(C) = 0
    BY <1>1, FS_EmptySet
  <1>3. D # {} \/ C # {}
    BY DEF Spreads
  <1>4. CASE rule = "homogeneity"
    BY <1>3, <1>4 DEF SpreadsDirty
  <1>5. CASE rule # "homogeneity"
    <2>1. SpreadsDirty(cluster, known, rule) <=> Cardinality(D) >= Cardinality(C)
      BY <1>5 DEF SpreadsDirty
    <2> HIDE DEF D, C
    <2>2. /\ Cardinality(D) >= Cardinality(C) => D # {}
          /\ ~ (Cardinality(D) >= Cardinality(C)) => C # {}
      BY <1>1, <1>2, <1>3
    <2> QED
      BY <2>1, <2>2 DEF D, C
  <1> QED
    BY <1>4, <1>5

\* Every label a classifier is trained on was given to some cell of the column.
LEMMA TrainedNeedsLabel ==
  ASSUME NEW cut \in [Rows -> SUBSET Rows], NEW known \in Labels, NEW rule,
         NEW r \in DOMAIN PropagateLabels(cut, known, rule)
  PROVE  /\ PropagateLabels(cut, known, rule)[r] \in BOOLEAN
         /\ \E p \in DOMAIN known : known[p] = PropagateLabels(cut, known, rule)[r]
  <1> DEFINE label == PropagateLabels(cut, known, rule)[r]
  <1>1. PICK D \in SUBSET Rows : known \in [D -> BOOLEAN]
    BY DEF Labels, Dicts
  <1>2. CASE r \in DOMAIN known
    BY <1>1, <1>2 DEF PropagateLabels
  <1>3. CASE r \notin DOMAIN known
    <2>1. r \in Rows /\ Spreads(cut[r], known, rule)
      BY <1>3 DEF PropagateLabels
    <2>2. label = SpreadsDirty(cut[r], known, rule)
      BY <1>3, <2>1 DEF PropagateLabels
    <2>3. CASE SpreadsDirty(cut[r], known, rule)
      <3>1. PICK p \in Votes(cut[r], known, TRUE) : TRUE
        BY <2>1, <2>3, SpreadNeedsVote
      <3> QED
        BY <2>2, <2>3, <3>1 DEF Votes
    <2>4. CASE ~ SpreadsDirty(cut[r], known, rule)
      <3>1. PICK p \in Votes(cut[r], known, FALSE) : TRUE
        BY <2>1, <2>4, SpreadNeedsVote
      <3>2. SpreadsDirty(cut[r], known, rule) = FALSE
        BY <2>4, SpreadsIsBoolean
      <3> QED
        BY <2>2, <3>1, <3>2 DEF Votes
    <2> QED
      BY <2>3, <2>4
  <1> QED
    BY <1>2, <1>3

\* A prediction falls in a class of the labels it was trained on.
LEMMA PredictionNeedsLabel ==
  ASSUME NEW cf, NEW known, DOMAIN known \in SUBSET Rows, DOMAIN known # {},
         \A p \in DOMAIN known : known[p] \in BOOLEAN,
         NEW predictions \in TrainAndPredict(cf, known), NEW r \in Rows
  PROVE  \E p \in DOMAIN known : known[p] = predictions[r]
  <1> DEFINE dirty == {p \in DOMAIN known : known[p]}
             majority == 2 * Cardinality(dirty) >= Cardinality(DOMAIN known)
  <1>1. CASE cf.names = {} \/ dirty \in {{}, DOMAIN known}
    <2>1. predictions = [x \in Rows |-> majority]
      BY <1>1 DEF TrainAndPredict
    <2>2. /\ Cardinality(dirty) \in Nat /\ Cardinality(DOMAIN known) \in Nat
          /\ dirty = {} => Cardinality(dirty) = 0
          /\ Cardinality(DOMAIN known) # 0
      <3>1. /\ dirty \in SUBSET Rows /\ IsFiniteSet(DOMAIN known)
            /\ Cardinality(dirty) \in Nat /\ Cardinality(DOMAIN known) \in Nat
        BY RowsFinite
      <3> QED
        BY <3>1, FS_EmptySet
    <2>3. CASE majority
      <3>1. dirty # {}
        <4> HIDE DEF dirty
        <4> QED
          BY <2>2, <2>3
      <3> QED
        BY <2>1, <2>3, <3>1
    <2>4. CASE ~ majority
      <3>1. dirty # DOMAIN known
        <4> HIDE DEF dirty
        <4> QED
          BY <2>2, <2>4
      <3>2. PICK p \in DOMAIN known : known[p] = FALSE
        BY <3>1
      <3>3. predictions[r] = FALSE
        <4>1. majority = FALSE
          <5>1. majority \in BOOLEAN
            OBVIOUS
          <5> QED
            BY <2>4, <5>1, Zenon
        <4> QED
          BY <2>1, <4>1, Zenon
      <3> QED
        BY <3>2, <3>3
    <2> QED
      BY <2>3, <2>4
  <1>2. CASE ~ (cf.names = {} \/ dirty \in {{}, DOMAIN known})
    <2>1. predictions \in [Rows -> BOOLEAN]
      BY <1>2 DEF TrainAndPredict
    <2>2. (\E p \in DOMAIN known : known[p] = TRUE) /\ (\E p \in DOMAIN known : known[p] = FALSE)
      BY <1>2
    <2> QED
      BY <2>1, <2>2
  <1> QED
    BY <1>1, <1>2

(* A cell is only called dirty in a column in which the labeler found a    *)
(* dirty cell, and clean, in a column it has looked at, only if it found a *)
(* clean one.                                                              *)
THEOREM VerdictsAreEvidenced == Spec => []VerdictsNeedEvidence
  <1>1. DetectInv => VerdictsNeedEvidence
    <2> SUFFICES ASSUME DetectInv, pc = Done, NEW col \in Columns, NEW r \in Rows
                 PROVE  \/ \E p \in DOMAIN labels[col] : labels[col][p] = cells[col][r].isError
                        \/ DOMAIN labels[col] = {} /\ ~ cells[col][r].isError
      BY DEF VerdictsNeedEvidence
    <2> DEFINE known == labels[col]
    <2>1. known \in Labels /\ clusters[col] \in [Rows -> SUBSET Rows]
      BY DEF DetectInv, RoundInv, LabelInv
    <2>2. DOMAIN known \in SUBSET Rows
      BY <2>1 DEF Labels, Dicts
    <2>3. trained[col] = PropagateLabels(clusters[col], known, resolution)
      BY DEF DetectInv, ResultInv
    <2>4. PICK predictions \in TrainAndPredict(features[col], trained[col]) :
            cells[col] = [x \in Rows |-> CellResult(known, trained[col], predictions, x)]
      BY DEF DetectInv, ResultInv
    <2>5. \A x \in DOMAIN trained[col] :
            /\ trained[col][x] \in BOOLEAN
            /\ \E p \in DOMAIN known : known[p] = trained[col][x]
      BY <2>1, <2>3, TrainedNeedsLabel
    <2>6. CASE r \in DOMAIN known
      BY <2>4, <2>6 DEF CellResult
    <2>7. CASE r \notin DOMAIN known /\ r \in DOMAIN trained[col]
      BY <2>4, <2>5, <2>7 DEF CellResult
    <2>8. CASE r \notin DOMAIN known /\ r \notin DOMAIN trained[col]
      <3>1. cells[col][r].isError = predictions[r]
        BY <2>4, <2>8 DEF CellResult
      <3>2. CASE DOMAIN trained[col] = {}
        <4>1. predictions[r] = FALSE
          BY <2>4, <3>2 DEF TrainAndPredict
        <4>2. DOMAIN known = {}
          BY <2>3, <3>2 DEF PropagateLabels
        <4> QED
          BY <3>1, <4>1, <4>2
      <3>3. CASE DOMAIN trained[col] # {}
        <4>1. DOMAIN trained[col] \in SUBSET Rows
          BY <2>2, <2>3 DEF PropagateLabels
        <4>2. PICK q \in DOMAIN trained[col] : trained[col][q] = predictions[r]
          BY <2>4, <2>5, <3>3, <4>1, PredictionNeedsLabel
        <4> QED
          BY <2>5, <3>1, <4>2
      <3> QED
        BY <3>2, <3>3
    <2> QED
      BY <2>6, <2>7, <2>8
  <1> QED
    BY <1>1, DetectInvariant, PTL

=============================================================================
