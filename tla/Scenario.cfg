SPECIFICATION FairSpec
CONSTANTS
  Full = 60
  Tol = 2
  MaxViews = 4
  Sweeps = {60, 45}
  MaxOrbit = 8
INVARIANT TypeOK
INVARIANT OrbitEven
INVARIANT QueueFollowsRun
INVARIANT AlarmEndsRun
PROPERTY RunEnds
CHECK_DEADLOCK FALSE
