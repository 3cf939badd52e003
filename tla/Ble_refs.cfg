SPECIFICATION Spec
CONSTANTS
  LateAnswers = FALSE
  LinkFaults = FALSE
  ConnectFaults = TRUE
  EagerPress = FALSE
  MaxLate = 2
INVARIANT RefsOwned
