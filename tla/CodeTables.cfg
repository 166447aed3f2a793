CONSTANTS
  ChunkBits = 9
  Blocks <- MCBlocks
SPECIFICATION SpecTables
INVARIANTS OutputBehind CompleteCodes CostMinimal HeaderSizeExact LengthsReadBack SymbolsReadBack
