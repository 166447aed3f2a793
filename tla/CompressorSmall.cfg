CONSTANTS
  Literals = {"a"}
  Offsets = {0, 1}
  Shapes = {"s1", "s2"}
  Levels = {"fast"}
  BlockSize = 2
  MinEncode = 3
  MinMatch = 2
  StoredSize = 4
  HuffSize = 6
  Writes = {1, 2}
  DictSizes = {}
  Rooms <- MCRooms
  MaxBytes = 6
  MaxResets = 1
SPECIFICATION Spec
INVARIANT CloseDelivers
