CONSTANTS
  Topics <- MCDevices
  Remotes <- MCRemotes
  Blinds <- MCBlinds
  PrimaryOf <- MCPrimaryOf
  None = None
  MaxPayload = 2
  Word <- MCWord
  Leftover <- MCLeftover
  MaxLength = 3
  MaxMessages = 2
  MaxDrops = 1
  MaxLosses = 1
  HasTopic = FALSE
  MaxChanges = 1
SPECIFICATION Spec
INVARIANTS
  TypeOK
  DeliveredBufferIsWhole
PROPERTIES
  CrashesOnlyOnUnexpected
CHECK_DEADLOCK FALSE
