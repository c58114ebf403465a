SPECIFICATION Spec
CONSTANTS
  Procs = {p1, p2}
  KEEP_BACKUPS = 2
  Stamps <- MCStamps
  ClockReadings <- MCClockReadings
  SteadyClock = FALSE
  MaxSaves = 4
SYMMETRY Symmetry
CHECK_DEADLOCK FALSE
PROPERTY SavedIsThere
