SPECIFICATION Spec
CONSTANTS
  nifty = nifty
  stocks = stocks
  Files <- MCFiles
  Absent = Absent
  MaxFrames = 2
  MaxTrouble = 0
INVARIANT ArchivedFramesSurvive
