SPECIFICATION Spec
CONSTANTS
  Requests <- MCRequests
  Cmd <- MCCmd
  OrderCmd = 0
  Echoed <- MCKeys
  Fixed <- MCFixed
  Prologues <- MCPrologues
  RowPairs <- MCRowPairs
  KeysIn <- MCKeysIn
  NoiseKinds = {"unrelated", "order"}
  None = None
  MAX_READS = 2
  TOTAL_TIMEOUT = 1
  MaxWire = 1
  MaxEdges = 2
  MaxVersion = 1
  MaxRuns = 2
CHECK_DEADLOCK FALSE
INVARIANTS KeyValuesAreTrue NotesTellTheLast
PROPERTY ReadsAreReliable
