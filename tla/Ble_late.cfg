SPECIFICATION FairSpec
CONSTANTS
  LateAnswers = TRUE
  LinkFaults = FALSE
  ConnectFaults = FALSE
  EagerPress = FALSE
  MaxLate = 2
PROPERTY Recovers
