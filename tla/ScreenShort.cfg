SPECIFICATION Spec
CONSTANTS
  Sizes <- MCShort
  Boards <- MCKeyed
  Typed <- MCTyped
  MaxTyped = 1
  MaxWaiting = 2
  MaxEdges = 2
  PAGE = 2
  Universes <- MCUniverses
  None = None
CHECK_DEADLOCK FALSE
INVARIANT MatrixOrRefusal
