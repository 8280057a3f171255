SPECIFICATION Spec
CONSTANTS
  name = name
  year = year
  paris = paris
  pari = pari
  y1 = y1
  y2 = y2
  missing = missing
  Rows = {0, 1, 2}
  Columns = {name, year}
  Values = {paris, pari, y1, y2, missing}
  CharsOf <- Characters
  NumberOf <- Numbers
  NotNumeric = NotNumeric
  TfThresholds <- Thresholds
  DistThresholds <- OneDeviation
  MaxPatternCharacters = 2
  Tables <- SmallTables
  NoRow = NoRow
  NoCells = NoCells
  Index <- Duplicated
  Budgets = {2, 5}
  Resolutions = {"majority", "homogeneity"}
  Labelers = {"groundTruth"}
INVARIANTS
  LabelsBelongToTheirRow
