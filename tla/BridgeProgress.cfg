SPECIFICATION FairSpec
CONSTANTS
  MaxJobs = 2
  MaxConns = 2
  MaxAlarms = 0
PROPERTY ResultDelivered
PROPERTY DeadmanStops
CHECK_DEADLOCK FALSE
