CONSTANTS
  NThreads = 2
  TotalSize = 4
  PartSize = 2
  MaxFaults = 1
  MaxCrashes = 0
SPECIFICATION FairSpec
PROPERTY PartIsReleased
CHECK_DEADLOCK FALSE
