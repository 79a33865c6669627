CONSTANTS
  i1 = i1
  i2 = i2
  d1 = d1
  d2 = d2
  Ids <- MCIds
  Data <- MCData
  Missing = Missing
  Damaged = Damaged
  BlockFree = BlockFree
  BlockEmpty = BlockEmpty
  Torn = Torn
  Sectors = 3
  PerSector = 2
  MaxCuts = 2
SPECIFICATION Spec
INVARIANTS
  NeverProgramsTwice
  RefusedOnlyWhenCrowded
PROPERTIES
  ImplementsRecordStore
