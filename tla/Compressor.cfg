CONSTANTS
  Literals = {"a"}
  Offsets = {0, 1}
  Shapes = {"s1", "s2"}
  Levels = {"store", "huff", "fast"}
  BlockSize = 3
  MinEncode = 2
  MinMatch = 2
  StoredSize = 1
  HuffSize = 3
  Writes = {1, 3}
  DictSizes = {3}
  Rooms <- MCRooms
  MaxBytes = 6
  MaxResets = 1
SPECIFICATION Spec
INVARIANTS DecoderFollows OwedEndOfBlock HeaderCacheExact NothingLost SuccessDelivers
PROPERTY LoopTakesInput
