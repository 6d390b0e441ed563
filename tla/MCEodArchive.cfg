SPECIFICATION FairSpec
CONSTANTS
  nifty = nifty
  stocks = stocks
  Files <- MCFiles
  Absent = Absent
  MaxFrames = 3
  MaxTrouble = 3
INVARIANTS
  NothingLost
PROPERTIES
  RemovalIsSafe
  RawEventuallyArchived
