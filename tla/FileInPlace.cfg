CONSTANTS
  Users = {"serve", "new status", "old status", "download"}
  Block = 4
  FileSizes = {0, 1, 3, 4, 5, 8, 10}
  Records = {1, 3, 4, 6, 7, 8}
  NumParts = 2
  PartLen = 8
  MaxSeeks = 4
SPECIFICATION Spec
INVARIANTS
  TypeOK
  LargeFilesServed
  NewStatusInPlace
  StatusReadBack
  StatusGrowthBounded
  PartsInPlace
CHECK_DEADLOCK FALSE
