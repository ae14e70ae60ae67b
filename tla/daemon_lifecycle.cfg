SPECIFICATION MCSpec
CONSTANTS
  h1 = h1
  h2 = h2
  Hook = {h1, h2}
  Daemon = {1, 2, 3}
  Build = {1, 2}
  ConfigFile = {1}
  ConfigPath <- MCConfigPath
  Setting = {1,2}
  Default = 1
  Broken = Broken
  None = None
  MaxFaults = 1
INVARIANTS TypeOK NoDaemonIsLost DaemonsDoNotOverlap ServingIsReachable
PROPERTIES HooksEnd
CHECK_DEADLOCK FALSE
