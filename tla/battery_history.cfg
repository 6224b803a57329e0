SPECIFICATION PowerSpec
CONSTANTS
  MaxSamples = 2
  Reports <- MCReports
  Voltages = {5}
  Levels = {2, 4, 7}
  MaxUptime = 2
INVARIANTS
  ReadingsAreReports
  GraphIsLog
