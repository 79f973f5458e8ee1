SPECIFICATION Spec
CONSTANTS
  Conns = {c1}
  NoConn = NoConn
  PieceCounts = {1, 2}
  PieceSize = 2
  Capacity = 3
  MaxRequests = 2
  Quits = TRUE
  Faults = {"shut"}
  Debug = FALSE
CHECK_DEADLOCK FALSE
INVARIANTS
  ClosingInHandlerIsSafe
