CONSTANTS
  Producers = {p1, p2}
  Worker = worker
  Destroyer = destroyer
  Nobody = nobody
  Levels <- MCLevels
  SinkLevel <- MCSinkLevel
  SinkMayFail = TRUE
  MaxBatch = 2
  MaxSent = 2
SPECIFICATION FairSpec
PROPERTIES DestructionReturns ImplementsLossyQueue
