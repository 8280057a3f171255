SPECIFICATION DetectFairSpec
CONSTANTS
  build = build
  notebook = notebook
  fd = fd
  uniqueness = uniqueness
  spelling = spelling
  c1 = c1
  c2 = c2
  c3 = c3
  PairTypes = {fd}
  NoStats = NoStats
  NoTokens = NoTokens
  NoFingerprint = NoFingerprint
  Detectors = {d1}
  BakedIn <- Baked
  ErrorTypes = {fd, spelling}
  AllErrorTypes <- TwoTypes
  TokenTypes = {fd}
  Builders = {build}
  Scans <- BothTypes
  Configs = {c1, c2, c3}
  Corpora = {k1, k2}
  Requests <- Covering
  Serial = TRUE
  Legacy = FALSE
  MaxFaults = 1
  Leniency = {TRUE, FALSE}
INVARIANTS
  TypeOK
  DetectTypeOK
  RecordedMatchesData
  FinishedTypesPublished
  RecordedNeverSilentlyScored
  SameTokens
PROPERTIES
  OnlyOwnPartition
  PublishesAtomically
  CompleteBuildRepairs
  RefusedOnlyForMismatch
  DetectionEnds
