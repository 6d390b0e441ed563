SPECIFICATION Spec
CONSTANTS
  Interval = 2
  MaxCatchup = 2
  OpenAt = 3
  CloseAt = 12
  StaleAfter = 3
  SuppressStale = TRUE
  MaxTime = 14
  MaxBoots = 3
INVARIANTS
  TypeOK
  SecondsAccounted
  CountedOnce
  NoFrozenFrame
PROPERTIES
  FramesAdvance
