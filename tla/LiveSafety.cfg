SPECIFICATION Spec
CONSTANTS
  Flows <- MCFlows
  Encrypted <- MCEncrypted
  MaxPackets = 4
  MaxRecords = 2
  MaxWindows = 1
  Buffer = 1
  MaxBatch = 2
INVARIANTS TypeOK PacketsAccounted WindowsAccounted AssessmentIsComplete
CHECK_DEADLOCK FALSE
