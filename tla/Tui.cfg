SPECIFICATION FairSpec
CONSTANTS
  Requests <- MCRequests
  Cmd <- MCCmd
  OrderCmd = 0
  Echoed <- MCEchoed
  Fixed <- MCFixed
  Script <- MCScript
  NoiseKinds = {"unrelated", "order"}
  None = None
  MAX_READS = 3
  TOTAL_TIMEOUT = 2
  MaxWire = 1
  MaxEdges = 3
  MaxVersion = 1
CHECK_DEADLOCK FALSE
INVARIANTS EdgesInOrder ModelIsCurrent StaleIsNoted ScreenIsTrue
PROPERTIES RereadEnds BannerComesDown
