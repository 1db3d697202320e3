SPECIFICATION Spec
CONSTANTS
  MaxPeers = 2
  MaxClients = 1
  MaxBytes = 5
  Breaks = {2, 3, 5}
  Chunk = 2
  MaxLine = 2
  PipeSize = 1
  Room = 2
  MaxMsgs = 1
INVARIANT TypeOK
INVARIANT NoLostWakeup
PROPERTY LineAfterLine
CHECK_DEADLOCK FALSE
