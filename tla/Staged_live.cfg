SPECIFICATION FairSpec
CONSTANTS
  MaxVersion = 3
  NumChunks = 2
  FsCapacity = 4
  SlotCapacity = 3
  UnlinkFaults = TRUE
  TargetRollback = FALSE
PROPERTY Converges
