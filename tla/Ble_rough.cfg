SPECIFICATION FairSpec
CONSTANTS
  LateAnswers = FALSE
  LinkFaults = TRUE
  ConnectFaults = TRUE
  EagerPress = TRUE
  MaxLate = 2
INVARIANTS TypeOK RefsBalanced RightAnswer
PROPERTY Recovers
\* A failed assertion of the host stops the board.
CHECK_DEADLOCK FALSE
