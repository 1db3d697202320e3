SPECIFICATION FairSpec
CONSTANTS
  MaxJobs = 2
  MaxConns = 2
  MaxAlarms = 0
PROPERTY DeadmanAlwaysStops
CHECK_DEADLOCK FALSE
