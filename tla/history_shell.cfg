SPECIFICATION Spec
CONSTANTS
  home = home
  work = work
  x = x
  v = v
  w = w
  NoPath = NoPath
  Unset = Unset
  NoCommand = NoCommand
  Directory = {home, work}
  Name = {x}
  Value = {v, w}
  Capabilities <- PersistentShell
  Command <- ShellCommands
  Report <- ShellReports
  ClientDelta <- ClientDeltas
  Kills = TRUE
  MaxSequence = 3
  MaxEvents = 4
INVARIANTS
  TypeOK
  RestoredIsLive
  BeliefFollowsReport
  ChecksAreNumbered
  FactsAreExplained
CHECK_DEADLOCK FALSE
