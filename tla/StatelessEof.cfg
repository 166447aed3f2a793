CONSTANTS
  Literals = {"a"}
  Offsets = {0, 1}
  Shapes = {"s1", "s2"}
  MaxBlock = 5
  MaxDict = 2
  MinEncode = 2
  Inputs = {0, 1, 5, 8}
  DictSizes = {0, 2, 3}
  Rooms <- MCSound
  MaxCalls = 1
SPECIFICATION Spec
INVARIANT EofEndsStream
