SPECIFICATION Spec
CONSTANTS
  MaxVersion = 3
  NumChunks = 2
  FsCapacity = 4
  SlotCapacity = 3
  UnlinkFaults = FALSE
  TargetRollback = TRUE
INVARIANTS TypeOK FallbackIntact StagedExactly OpenedFileIsImage ReportedNotOnTrial
PROPERTIES ABSpec OnlyForward
