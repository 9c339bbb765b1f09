CONSTANTS
  NThreads = 2
  TotalSize = 4
  PartSize = 2
  MaxFaults = 0
  MaxCrashes = 1
SPECIFICATION Spec
INVARIANT StatusKeepsEveryPart
CHECK_DEADLOCK FALSE
