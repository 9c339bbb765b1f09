CONSTANTS
  NThreads = 2
  TotalSize = 5
  PartSize = 2
  MaxFaults = 2
  MaxCrashes = 1
SPECIFICATION Spec
INVARIANTS
  TypeOK
  ExclusiveParts
  UsingIffHeld
  IdsInRange
  ProgressNeverAhead
  EveryPartCovered
  CleanSessionCompletes
CHECK_DEADLOCK FALSE
