SPECIFICATION Spec
CONSTANTS
  five = five
  fifteen = fifteen
  jan = jan
  dash = dash
  plus = plus
  AfterPlus <- BehindPlus
  NoText = NoText
  Tokens <- SmallTokens
  Plus = Plus
  Null = Null
  BadEntry = BadEntry
  Corpora <- SmallCorpora
  Columns <- Scanned
  Scale = 36
  NoIndex = NoIndex
  Configs <- Defaults
INVARIANTS
  InferredIsReadable
