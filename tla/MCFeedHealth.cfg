SPECIFICATION FairSpec
CONSTANTS
  Artifacts <- MCArtifacts
  Legs <- MCLegs
  CashLegs <- MCCashLegs
  Tokens <- MCTokens
  Owners <- MCOwners
  LegsOf <- MCLegsOf
  StaleAfter = 1
  ArtifactStaleAfter = 2
  StaleExit = 4
  Confirm = 3
  ReconnectAfter = 1
  ReconnectLimit = 2
  Hour = 5
  CapturePreOpen = FALSE
INVARIANTS
  ReconnectBudgetKept
PROPERTIES
  RestartIsOwed
  OutageEscalates
