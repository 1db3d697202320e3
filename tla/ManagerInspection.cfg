CONSTANTS
  c1 = c1
  c2 = c2
  g1 = g1
  g2 = g2
  Callers = {c1}
  Goals = {g1}
  Server = Server
  NoGoal = NoGoal
  Poses = {"inspect"}
  MaxViews = 2
  Jogs = 1
  MaxQueue = 2
  MaxLate = 1
  ExecThreads = 3
  IgnoreSafety = FALSE
SPECIFICATION Spec
INVARIANTS
  TypeOK
  ReachedMeansThere
  ResultCountsSamples
  CancelBoundsSamples
  AbortLeavesRobotStill
PROPERTIES
  SampleAsLabelled
