SPECIFICATION FairSpec
CONSTANTS
  ChunkSize = 4
  MaxChunks = 4
  Capacity = 14
  SyncFaults = FALSE
INVARIANTS TypeOK InOrder NoHandleLeak SuccessIsDurable
PROPERTIES ImplementsChunks Returns
