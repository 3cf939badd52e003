SPECIFICATION GentleSpec
CONSTANTS
  LateAnswers = TRUE
  LinkFaults = TRUE
  ConnectFaults = TRUE
  EagerPress = TRUE
  MaxLate = 2
INVARIANTS ReadyMeansSubscribed WriteHasHandle
PROPERTY OneLinkPerSession
