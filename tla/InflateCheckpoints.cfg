CONSTANTS
  W = 3
  Inputs <- MCInputs
  Modes = {"syncFlush"}
  Buffers = {2}
  Reusable = {}
  MaxReuse = 0
SPECIFICATION Spec
INVARIANT CheckpointsResumable
