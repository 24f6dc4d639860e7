CONSTANTS
  Threads = {t1, t2}
  c1 = c1
  c2 = c2
  Connections = {c1, c2}
  NoConnection = none
  Acceptors = 2
  Address <- ToBoth
  Loggers = 2
  ThreadsMayFail = TRUE
  MaxChunks = 2
  MaxErrors = 1
SPECIFICATION FairSpec
INVARIANTS TypeOK NeverStopsListening AcceptsAccumulate OneReadPerSession AllOrNothing NoUseAfterDestruction
PROPERTIES EveryConnectionIsServed ShutdownReturns
