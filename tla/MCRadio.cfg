CONSTANTS
  Remotes <- MCRemotes
  QueueSize = 2
  CodeMod <- MCCodeMod
  MaxPresses = 2
  MaxPackets = 2
  MaxRestarts = 1
  MaxCuts = 1
  Others <- MCOthers
  Button = 4
  Repeat = 1
  Stack = 160
  NoByte = 0
SPECIFICATION RadioSpec
INVARIANTS
  OnAirAsCommanded
  DecodedWereHeard
  ReceiveFindsPacket
  DeafOnlyThroughWindow
PROPERTIES
  ImplementsCommandQueue
CHECK_DEADLOCK FALSE
