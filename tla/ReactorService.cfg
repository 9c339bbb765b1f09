CONSTANTS
  Conns = {c1, c2}
  ServerThreads = {t1, t2}
  ServerSocket = srv
  None = none
  Requests <- ClientRequests
  FileSize = 1
  SendSpace = 1
  MaxEvents = 3
  MaxFaults = 0
SPECIFICATION FairSpec
INVARIANTS
  RequestNotLost
PROPERTIES
  RequestsAnswered
  ConnectionsAccepted
  SessionsReclaimed
