CONSTANTS
  Short = {a1, a2}
  Long = {b1}
  Levels = {1, 2, 3, 4, 5, 6}
  Hash <- MCHash
  MaxOff = 6
  MaxStore = 13
  AllocHistory = 19
  HistSize = 19
  InputMargin = 4
  MinMatch = 4
  Skip = 1
  MaxBack = 1
  maxMatchLength = 6
  MaxInt32 = 46
  Blocks = {5, 13}
SYMMETRY Symmetry
SPECIFICATION SpecLevels
INVARIANTS MatchInHistory NoOverflow BlockTiled
