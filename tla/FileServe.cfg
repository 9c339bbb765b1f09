CONSTANTS
  Users = {"serve"}
  Block = 3
  FileSizes = {0, 1, 2, 3, 4, 6, 7}
  Records = {1, 2, 3, 4, 7}
  NumParts = 2
  PartLen = 6
  MaxSeeks = 3
SPECIFICATION Spec
INVARIANT FilesServed
CHECK_DEADLOCK FALSE
