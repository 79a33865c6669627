CONSTANTS
  c1 = c1
  c2 = c2
  None = None
  Commands <- MCCommands
  RingSize = 3
  Quiet = 2
  RepeatMod <- MCRepeatMod
  MaxClock = 5
  AirTime = 3
  MaxHeard = 3
SPECIFICATION FairSpec
INVARIANTS
  OldestIsQuietest
  EveryPacketAccountedFor
PROPERTIES
  ImplementsFifo
  BufferDrains
