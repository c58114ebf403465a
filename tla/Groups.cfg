SPECIFICATION GroupsSpec
CONSTANTS
  Editors = {p1, p2}
  Commands <- MCCommands
  PlainNames <- MCPlainNames
  InitialJson <- MCJson
  InitialToml <- MCToml
  MaxCommands = 3
  None = None
  Table <- MCTable
  Builtin <- MCBuiltin
  HexWords <- MCHexWords
  NoUsage = NoUsage
  MaxUsage = 7
  Texts <- MCTexts
  Boards <- MCBoards
SYMMETRY Symmetry
CHECK_DEADLOCK FALSE
INVARIANTS OthersSurvive SelectorsMeanWhatTheySay GroupsReadBack
PROPERTY GroupsAreAtomic
