SPECIFICATION Spec
CONSTANTS
  Scale = 420
  InverseFloor = 100
  Levenshtein <- EditDistance
  High = 1000000
  NoNumber = NoNumber
  SampleSize = 4
  LogShaped <- SmallLogShaped
  Inputs <- SmallInputs
  Missing = Missing
  SampleFactor = 3
  MaxTokens = 8
  MaxRuns = 2
  Digest <- SmallDigest
  NoCorpus = NoCorpus
  WordLength = 6
INVARIANTS
  ScanTypeOK
  GateWithinRetries
  OwnObservationFound
  RatioMonotone
  SignificanceNeedsSupport
  FlaggedIsRepaired
CHECK_DEADLOCK FALSE
