SPECIFICATION Spec
CONSTANTS
  MaxVersion = 3
  NumChunks = 3
INVARIANTS TypeOK FallbackIntact StagedExactly ReportedNotOnTrial
PROPERTY ABSpec
