SPECIFICATION Spec
CONSTANTS
  Workers = {w1, w2}
  Timer = Timer
  IO = IO
  Alarms = {"e_stop"}
  Stopping = {"e_stop"}
  Links = {"sct"}
  MaxMsgs = 3
  MaxConns = 1
  MaxJobs = 1
  MaxSteps = 0
INVARIANT EventOnce
CHECK_DEADLOCK FALSE
