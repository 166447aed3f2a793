CONSTANTS
  W = 3
  Inputs <- MCInputs
  Reusable <- MCReusable
  Modes = {"syncFlush", "partialFlush"}
  Buffers = {1, 2}
  MaxReuse = 1
SPECIFICATION FairSpec
INVARIANTS DeliveredInOrder OutcomeCorrect RoomToWrite FlushPointVisible NoCopyCarriedOver CheckpointsExact
PROPERTIES CallReturns ReachesEnd
