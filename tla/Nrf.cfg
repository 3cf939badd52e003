SPECIFICATION FairSpec
CONSTANTS
  MaxVersion = 2
  NumChunks = 2
  LinkFaults = TRUE
  ConnectFaults = TRUE
  EagerPress = TRUE
INVARIANT UpdateInSession
PROPERTY Converges
\* A failed initialization or assertion stops the board.
CHECK_DEADLOCK FALSE
