SPECIFICATION FairSpec
CONSTANTS
  Artifacts = 2
  MaxSecond = 2
  MaxBoots = 3
  MaxFailures = 1
  MaxForged = 1
INVARIANTS
  WellFormed
  CleanStop
  AckedAreRecovered
PROPERTIES
  AcceptedFramesSettle
  ImplementsLog
