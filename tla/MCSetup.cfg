CONSTANTS
  home = home
  secret = secret
  device = device
  Ssids <- MCSsids
  Brokers <- MCBrokers
  Passwords <- MCPasswords
  DeviceData <- MCDeviceData
  Empty = Empty
  Mask = Mask
  Missing = Missing
  Damaged = Damaged
  MaxRequests = 2
  MaxCuts = 2
SPECIFICATION FairSpec
INVARIANTS
  ResetsWithCause
  DeadWithCause
  SettingsPresent
  InForceOrRestarting
PROPERTIES
  StopRestarts
CHECK_DEADLOCK FALSE
