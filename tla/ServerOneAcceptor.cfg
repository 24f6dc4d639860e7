CONSTANTS
  Threads = {t1, t2}
  c1 = c1
  c2 = c2
  Connections = {c1, c2}
  NoConnection = none
  Acceptors = 1
  Address <- ToOne
  Loggers = 2
  ThreadsMayFail = TRUE
  MaxChunks = 2
  MaxErrors = 1
SPECIFICATION FairSpec
INVARIANT OneAcceptorIsNotShared
PROPERTIES ImplementsFifoBroadcast EveryBatchIsPushed
