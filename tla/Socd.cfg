CONSTANTS
  Keys <- MCKeys
  Touches = {0, 1, 3}
  InitialBoards <- MCBoards
  SocdCommands <- MCCommands
  MaxCommands = 4
  None = None
SPECIFICATION Spec
INVARIANTS
  ListIsTrue
  NoFalseAlarm
  VerifiedIsTrue
  RestoreHeals
PROPERTIES
  OtherPairsLive
CHECK_DEADLOCK FALSE
