CONSTANTS
  Levels <- MCLevels
  Writes = {1, 2}
  Buffers = {1, 4}
  Rooms <- MCRooms
  MaxBytes = 3
  MaxStreams = 2
SPECIFICATION Spec
INVARIANTS ClosedStreamReads EofMeansVerified NoNilDestination
