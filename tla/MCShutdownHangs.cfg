CONSTANTS
  r1 = r1
  r2 = r2
  CodeMod <- MCCodeMod
  QueueSize = 2
  MaxPresses = 1
  MaxPackets = 1
  MaxRestarts = 1
  MaxCuts = 0
  Remotes <- MCOneRemote
SPECIFICATION FairSpec
PROPERTIES
  ShutdownCompletes
CHECK_DEADLOCK FALSE
