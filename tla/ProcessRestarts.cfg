SPECIFICATION FairSpec
CONSTANTS
  Processes = {p1, p2}
  None = None
  Commands <- AllCommands
  MaxRuns = 2
  MaxDisturbances = 2
INVARIANTS TypeOK ExitCodeTellsWhy LatestIsReachable StartsDoNotAllFail
PROPERTY EveryRunSettles
