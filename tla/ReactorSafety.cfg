CONSTANTS
  Conns = {c1, c2}
  ServerThreads = {t1, t2}
  ServerSocket = srv
  None = none
  Requests <- AllRequests
  FileSize = 3
  SendSpace = 1
  MaxEvents = 2
  MaxFaults = 1
SYMMETRY Symmetry
SPECIFICATION Spec
INVARIANTS
  TypeOK
  OneHandler
  NoDanglingEvent
  BufferOfHandler
  LiveIsWatched
  WorkIsTakenUp
  TransferConserved
  WritingHasFile
  HandlerNeverStarved
CHECK_DEADLOCK FALSE
