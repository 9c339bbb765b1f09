CONSTANTS
  NThreads = 3
  TotalSize = 5
  PartSize = 2
  MaxFaults = 0
  MaxCrashes = 0
SPECIFICATION FairSpec
INVARIANTS
  SuccessMeansComplete
PROPERTIES
  DownloadEnds
  ImplementsResumableDownload
