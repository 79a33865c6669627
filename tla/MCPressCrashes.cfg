CONSTANTS
  BaseRemoteId <- MCBaseRemoteId
  IdMod <- MCIdMod
  Importable <- MCImportable
  RomWord = 7
  MaxOwn = 2
  MaxBlinds = 2
  MaxCuts = 0
SPECIFICATION Spec
INVARIANT
  PressFindsBlinds
