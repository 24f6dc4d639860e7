CONSTANTS
  c1 = c1
  c2 = c2
  Connections = {c1, c2}
  Loggers = 2
  SinkLevel <- MCSinkLevel
  LevelsOf <- MCLevelsOf
  MaxBatch = 2
  MaxErrors = 1
SPECIFICATION FairSpec
INVARIANT SinkHoldsWhatWasSent
PROPERTIES SinksCatchUp ImplementsQueues
