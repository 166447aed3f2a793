CONSTANTS
  Byte <- MCByte
  HashOf <- MCHashOf
  Segments <- MCSegments
  Dicts <- MCDicts
  Refusals <- MCRefusals
  windowSize = 8
  minMatchLength = 2
  maxMatchLength = 5
  maxFlateBlockTokens = 3
  maxHashOffset = 16
  chain = 2
  nice = 4
  lazy = 4
  SkipStep = 2
  BulkSize = 3
  MaxII = 7
  MaxBytes = 28
  MaxResets = 1
SPECIFICATION Spec
INVARIANTS TypeOK TokensDecode StoredIsBlock FlushTakesAll
PROPERTY LoopsAdvance
