CONSTANTS
  c1 = c1
  c2 = c2
  g1 = g1
  g2 = g2
  Callers = {c1, c2}
  Goals = {g1}
  Server = Server
  NoGoal = NoGoal
  Poses = {"inspect"}
  MaxViews = 1
  Jogs = 1
  MaxQueue = 1
  MaxLate = 0
  ExecThreads = 3
  IgnoreSafety = FALSE
SPECIFICATION FairSpec
INVARIANTS
  MotionExclusive
  ExecutorServes
PROPERTIES
  SlotImplemented
  SlotComesFree
  CancelAnswered
