SPECIFICATION Spec
CONSTANTS
  Session = {s1}
  s1 = s1
  CheckpointInterval = 2
  RetentionTail = 3
  SyncInterval = 2
  MaxIndex = 6
  MaxRuns = 2
  TornWrites = FALSE
  PowerLoss = FALSE
  LogFails = FALSE
  DatabaseFails = TRUE
INVARIANTS CommittedFactsPresent
CHECK_DEADLOCK FALSE
