CONSTANTS
  NThreads = 2
  TotalSize = 3
  PartSize = 2
  MaxFaults = 1
  MaxCrashes = 1
  MaxCommands = 3
  MaxChanges = 1
SPECIFICATION ClientFairSpec
INVARIANTS
  ClientTypeOK
  StatusFileIffUnfinished
  BelievedIfSame
PROPERTIES
  SuccessHonest
  ToldToQuit
CHECK_DEADLOCK FALSE
