CONSTANTS
  r1 = r1
  r2 = r2
  CodeMod <- MCCodeMod
  QueueSize = 2
  MaxPresses = 2
  MaxPackets = 2
  MaxRestarts = 1
  MaxCuts = 1
  Remotes <- MCRemotes
SPECIFICATION FairSpec
INVARIANTS
  CommandsInOrder
  ShutdownFlushes
  RollingCodesIncrease
PROPERTIES
  NoSpentCodeAgain
  AcceptedIsSent
  ShutdownReturnsUnlessHeard
CHECK_DEADLOCK FALSE
