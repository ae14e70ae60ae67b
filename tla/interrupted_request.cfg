SPECIFICATION Spec
CONSTANTS
  home = home
  work = work
  x = x
  v = v
  w = w
  NoPath = NoPath
  Unset = Unset
  NoCommand = NoCommand
  Directory = {home, work}
  Name = {x}
  Value = {v, w}
  Capabilities <- CwdPersistent
  Command <- DirectoryCommands
  Report <- DirectoryReports
  ClientDelta <- NoDeltas
  Kills = TRUE
  MaxSequence = 3
  MaxEvents = 5
INVARIANTS
  PreparationSucceeds
CHECK_DEADLOCK FALSE
