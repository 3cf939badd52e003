SPECIFICATION FairSpec
CONSTANTS
  MaxVersion = 3
  NumChunks = 1
  FsCapacity = 1
  SlotCapacity = 1
  UnlinkFaults = FALSE
  TargetRollback = TRUE
PROPERTY Converges
