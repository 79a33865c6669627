CONSTANTS
  Full = 8
  UpStep = 1
  DownStep = 2
  FirstTick = 1
  TickEvery = 2
  RetryAfter = 3
  MqttEnabled = TRUE
  Off = Off
  BootFavourites = {2, 6}
  MaxLate = 1
  MaxPresses = 3
  MaxHeard = 1
SPECIFICATION FairSpec
INVARIANTS
  MovingBlindTicks
  FullRunAgrees
  GoToPositionArrives
PROPERTIES
  MotionEnds
CHECK_DEADLOCK FALSE
