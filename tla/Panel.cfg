SPECIFICATION FairPanel
CONSTANT ActiveLow = TRUE
INVARIANTS TypeOK NoPressForgotten
PROPERTIES PressOnce Answers
