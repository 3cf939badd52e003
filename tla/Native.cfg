SPECIFICATION FairSpec
CONSTANTS
  Ports = {p1, p2}
  MaxVersion = 3
  NumChunks = 2
INVARIANTS TypeOK OwnAnswer NoSocketLeak ToldFirst
PROPERTY Converges
\* A failed initialization stops the device.
CHECK_DEADLOCK FALSE
