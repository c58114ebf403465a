CONSTANTS
  Keys <- MCKeys3
  Travels <- MCTravels
  Advanced = {0}
  MaxIndex = 3
  MaxRecords = 8
  NoSignalBase = 2
  None = None
  InitialBoards <- Boards3
  Commands <- Commands3
  MaxRuns = 1
  MaxEdits = 0
SPECIFICATION Spec
INVARIANTS
  TypeOK
  NeverWritesGlobalNibble
  KeysMoveWhole
  MembershipComesLast
  VerifiedKeepsPromise
  AnnouncementsComeTrue
  PromptsAreTrue
PROPERTIES
  WritesAreConsented
CHECK_DEADLOCK FALSE
