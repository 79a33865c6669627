CONSTANTS
  c1 = c1
  c2 = c2
  n1 = n1
  n2 = n2
  Clients <- MCClients
  Ssids <- MCSsids
  RemoteIds <- MCRemoteIds
  Primary <- MCPrimary
  DetectedLimit = 2
  MaxScans = 3
  MaxRequests = 3
SPECIFICATION Spec
SYMMETRY MCSymmetry
INVARIANTS
  SsidsFromOneScan
  ListSeesTable
  WifiListWhole
CHECK_DEADLOCK FALSE
