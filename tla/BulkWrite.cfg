CONSTANTS
  Keys <- MCKeys
  Travels <- MCTravels
  Advanced = {0, 1}
  MaxIndex = 2
  MaxRecords = 5
  NoSignalBase = 2
  None = None
  Profiles = {1, 2}
  Plain = 0
  InitialProfiles <- MCInitial
  Files <- MCFiles
  BulkCommands <- MCCommands
  MaxCommands = 3
SPECIFICATION Spec
INVARIANTS
  OneKeyIsSplit
  VerifiedIsTrue
PROPERTIES
  RestoreHitsItsProfile
  RollBackWorks
CHECK_DEADLOCK FALSE
