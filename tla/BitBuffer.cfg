CONSTANTS
  FlushSize = 7
  BufLen = 14
  CodeLens = {1, 15}
  LenExtra = {0, 5}
  OffExtra = {0, 13}
  Fields = {3, 16}
SPECIFICATION SpecBits
INVARIANTS BitsInPlace StoresInBuffer
