SPECIFICATION FairSpec
CONSTANTS
  Conns = {c1, c2}
  NoConn = NoConn
  PieceCounts = {1}
  PieceSize = 2
  Capacity = 1
  MaxRequests = 2
  Quits = FALSE
  Faults = {"shut"}
  Debug = FALSE
CHECK_DEADLOCK FALSE
PROPERTIES
  RequestsRead
  RepliesFlushed
  EofCloses
