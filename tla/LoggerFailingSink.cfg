CONSTANTS
  Producers = {p1, p2}
  Worker = worker
  Destroyer = destroyer
  Nobody = nobody
  Levels <- MCLevels
  SinkLevel <- MCSinkLevel
  SinkMayFail = TRUE
  MaxBatch = 2
  MaxSent = 3
SPECIFICATION Spec
SYMMETRY ProducerSymmetry
INVARIANTS TypeOK MutualExclusion NoLostWakeup ProducerOrder Conservation Durability LossOnlyAtTheEnd
