SPECIFICATION FairSpec
CONSTANTS
  MaxPeers = 1
  MaxClients = 1
  MaxBytes = 8
  Breaks = {2, 3, 5}
  Chunk = 2
  MaxLine = 2
  PipeSize = 1
  Room = 2
  MaxMsgs = 1
PROPERTY LineReachesHandler
PROPERTY LeaverDropped
PROPERTY OutputDrains
PROPERTY StopEnds
CHECK_DEADLOCK FALSE
