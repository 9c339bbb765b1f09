CONSTANTS
  HeaderLen = 2
  RequestLens = {2, 4}
  ReplyLen = 3
  DataLens = {1, 4}
  ReadUnit = 3
  BufferLen = 5
  SendSpace = 5
  Splits = {"up", "down"}
  MaxRequests = 2
  MaxFaults = 1
SPECIFICATION FairSpec
INVARIANTS
  TypeOK
  RequestsFramed
  
  NothingLeftOver
  RepliesWhole
PROPERTY PartArrives
