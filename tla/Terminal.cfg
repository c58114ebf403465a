SPECIFICATION Spec
CONSTANTS
  Sizes <- MCSizes
  Boards <- MCBoards
  Typed <- MCTyped
  MaxTyped = 3
  MaxWaiting = 2
  MaxEdges = 2
  PAGE = 2
  Universes <- MCUniverses
  None = None
CHECK_DEADLOCK FALSE
INVARIANTS PickedIsShown ShellRestored FrameIsCurrent
PROPERTY FrameIsWhole
