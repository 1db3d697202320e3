SPECIFICATION FairSpec
CONSTANTS
  Labels = {"mc_a"}
  MaxRuns = 3
  MaxViews = 2
  MaxPending = 2
  Depth = 2
INVARIANT TypeOK
INVARIANT PairsMatch
PROPERTY SampleHasImage
PROPERTY DatasetCompletes
CHECK_DEADLOCK FALSE
