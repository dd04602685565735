CONSTANTS
  Expand <- MCExpand
  Typed <- MCTyped
  Fields = {0, 3390}
  Scans = {1, 2}
  Saves = {1}
  Workers = 2
  Buffer = 1
  Every = 2
  MaxRows = 1
  MaxActs = 1
SPECIFICATION FairSpec
INVARIANT WindowInList PortRespected
PROPERTY ListMatchesScan ScanSettles
