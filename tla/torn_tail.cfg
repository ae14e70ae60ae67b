SPECIFICATION Spec
CONSTANTS
  Session = {s1}
  s1 = s1
  CheckpointInterval = 2
  RetentionTail = 3
  SyncInterval = 2
  MaxIndex = 3
  MaxRuns = 2
  TornWrites = TRUE
  PowerLoss = FALSE
  LogFails = FALSE
  DatabaseFails = FALSE
INVARIANTS LogStaysReadable
CHECK_DEADLOCK FALSE
