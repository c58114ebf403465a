CONSTANTS
  Keys <- MCKeys2
  Travels <- MCTravels
  Advanced = {0}
  MaxIndex = 3
  MaxRecords = 4
  NoSignalBase = 2
  None = None
  InitialBoards <- Boards2
  Commands <- Commands2
  MaxRuns = 1
  MaxEdits = 1
SPECIFICATION FairSpec
INVARIANTS
  LostEditIsNoted
PROPERTIES
  OverwrittenIsBackedUp
  CommandEnds
CHECK_DEADLOCK FALSE
