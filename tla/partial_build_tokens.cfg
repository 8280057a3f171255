SPECIFICATION Spec
CONSTANTS
  job = job
  notebook = notebook
  uniqueness = uniqueness
  fd = fd
  spelling = spelling
  ErrorTypes = {uniqueness, fd, spelling}
  AllErrorTypes <- AllTypes
  TokenTypes = {uniqueness, fd}
  PairTypes = {fd}
  NoStats = NoStats
  NoTokens = NoTokens
  NoFingerprint = NoFingerprint
  Builders = {job, notebook}
  Configs = {c1, c2}
  Corpora = {k1, k2}
  Requests <- ScheduledAndPartial
  Serial = TRUE
  Legacy = FALSE
  MaxFaults = 0
INVARIANTS
  TokensCoherent
