SPECIFICATION FairSpec
CONSTANTS
  MaxDay = 3
  Holidays <- MCHolidays
  MaxTrouble = 4
INVARIANTS
  CaptureApartFromSweep
  MaintenanceIsQuiet
PROPERTIES
  EodRuns
  CaptureRuns
