SPECIFICATION Spec
CONSTANTS
  Session = {s1}
  s1 = s1
  CheckpointInterval = 2
  RetentionTail = 3
  SyncInterval = 2
  MaxIndex = 5
  MaxRuns = 2
  TornWrites = TRUE
  PowerLoss = TRUE
  LogFails = TRUE
  DatabaseFails = TRUE
INVARIANTS TypeOK RestoreFollowsLive OnlyReadableLogsCompacted JoinsCanEnd
CHECK_DEADLOCK FALSE
