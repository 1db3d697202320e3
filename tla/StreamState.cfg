SPECIFICATION FairSpec
CONSTANTS
  Workers = {w1, w2}
  Timer = Timer
  IO = IO
  Alarms = {"e_stop"}
  Stopping = {"e_stop"}
  Links = {}
  MaxMsgs = 3
  MaxConns = 1
  MaxJobs = 1
  MaxSteps = 1
INVARIANT TypeOK
INVARIANT EventPerEdge
PROPERTY EdgeStopsJob
PROPERTY StateConverges
CHECK_DEADLOCK FALSE
