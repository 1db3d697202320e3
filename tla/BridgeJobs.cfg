SPECIFICATION Spec
CONSTANTS
  MaxJobs = 2
  MaxConns = 2
  MaxAlarms = 2
INVARIANT TypeOK
INVARIANT JobCoherent
INVARIANT CancelNotLost
INVARIANT OneAtManager
CHECK_DEADLOCK FALSE
