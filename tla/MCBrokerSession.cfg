SPECIFICATION SessionSpec
CONSTANTS
    MaxTokens = 3
    MaxDay = 2
INVARIANTS SessionTypeOK
PROPERTIES SessionLossExplained SessionNotOverwritten RateSurvives SessionRestored
CHECK_DEADLOCK FALSE
