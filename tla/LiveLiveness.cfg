SPECIFICATION FairSpec
CONSTANTS
  Flows <- MCEncrypted
  Encrypted <- MCEncrypted
  MaxPackets = 3
  MaxRecords = 2
  MaxWindows = 1
  Buffer = 1
  MaxBatch = 1
PROPERTIES LoopIsFair
CHECK_DEADLOCK FALSE
