CONSTANTS
  NThreads = 1
  TotalSize = 4
  PartSize = 2
  MaxFaults = 2
  MaxCrashes = 0
SPECIFICATION Spec
INVARIANT SuccessMeansComplete
CHECK_DEADLOCK FALSE
