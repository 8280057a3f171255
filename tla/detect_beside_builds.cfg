SPECIFICATION DetectSpec
CONSTANTS
  build = build
  notebook = notebook
  fd = fd
  uniqueness = uniqueness
  spelling = spelling
  c1 = c1
  c2 = c2
  c3 = c3
  PairTypes = {fd}
  NoStats = NoStats
  NoTokens = NoTokens
  NoFingerprint = NoFingerprint
  Detectors = {d1}
  BakedIn <- Baked
  ErrorTypes = {uniqueness, fd, spelling}
  AllErrorTypes <- ThreeTypes
  TokenTypes = {uniqueness, fd}
  Builders = {build, notebook}
  Scans <- SpellingOnly
  Configs = {c1, c2}
  Corpora = {k1}
  Requests <- Disjoint
  Serial = FALSE
  Legacy = TRUE
  MaxFaults = 1
  Leniency = {FALSE}
INVARIANTS
  WritesWhatItCounted
