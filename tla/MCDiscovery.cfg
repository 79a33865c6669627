CONSTANTS
  Topics <- MCDevices
  Remotes <- MCRemotes
  Blinds <- MCBlinds
  PrimaryOf <- MCPrimaryOf
  None = None
  MaxPayload = 2
  Word <- MCWord
  Leftover = {0}
  MaxLength = 3
  MaxMessages = 0
  MaxDrops = 2
  MaxLosses = 2
  HasTopic = TRUE
  MaxChanges = 3
SPECIFICATION FairSpec
INVARIANTS
  UnflaggedIsPublished
PROPERTIES
  WaitingIsPublished
  Reconnects
CHECK_DEADLOCK FALSE
