SPECIFICATION SessionSpec
CONSTANTS
    MaxTokens = 3
    MaxDay = 2
PROPERTY RefreshKeepsSession
CHECK_DEADLOCK FALSE
