CONSTANTS
  Byte = {0, 1}
  W = 4
  Dictionaries <- MCDictionaries
  MaxLength = 6
  MaxStream = 8
SPECIFICATION FairSpec
INVARIANTS TypeOK WindowIntact
PROPERTIES RefinesLZ77 CopyEnds
