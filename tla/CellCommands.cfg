SPECIFICATION FairSpec
CONSTANTS
  Caller = Caller
  MaxStops = 1
  MaxJobs = 2
  MaxConns = 1
  MaxAlarms = 0
  Server = Server
  NoGoal = NoGoal
  Poses = {"inspect"}
  MaxViews = 1
  Jogs = 1
  MaxQueue = 1
  MaxLate = 0
  ExecThreads = 3
  IgnoreSafety = FALSE
PROPERTY RefusedOnlyByUnwinding
PROPERTY CommandConcludes
PROPERTY AwaitedStopSparesInspections
CHECK_DEADLOCK FALSE
