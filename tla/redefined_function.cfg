SPECIFICATION Spec
CONSTANTS
  home = home
  work = work
  x = x
  v = v
  w = w
  NoPath = NoPath
  Unset = Unset
  NoCommand = NoCommand
  Directory = {home, work}
  Name = {x}
  Value = {v, w}
  Capabilities <- RequestOnly
  Command <- FunctionCommands
  Report <- DirectoryReports
  ClientDelta <- NoDeltas
  Kills = FALSE
  MaxSequence = 2
  MaxEvents = 4
INVARIANTS
  ChecksCommit
CHECK_DEADLOCK FALSE
