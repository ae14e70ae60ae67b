SPECIFICATION FairSpec
CONSTANTS
  Session = {s1}
  s1 = s1
  CheckpointInterval = 2
  RetentionTail = 3
  SyncInterval = 2
  MaxIndex = 5
  MaxRuns = 2
  TornWrites = FALSE
  PowerLoss = FALSE
  LogFails = FALSE
  DatabaseFails = FALSE
INVARIANTS RestoreIsPrefix TailRetained RowsAreDurable DropDrains
PROPERTIES ImplementsHistory EventsBecomeDurable CheckpointsCatchUp DropEnds
CHECK_DEADLOCK FALSE
