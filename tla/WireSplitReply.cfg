CONSTANTS
  HeaderLen = 2
  RequestLens = {2, 4}
  ReplyLen = 3
  DataLens = {1, 4}
  ReadUnit = 3
  BufferLen = 5
  SendSpace = 5
  Splits = {"down"}
  MaxRequests = 2
  MaxFaults = 1
SPECIFICATION Spec
INVARIANT DataInPlace
CHECK_DEADLOCK FALSE
