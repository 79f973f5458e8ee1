SPECIFICATION Spec
CONSTANTS
  Conns = {c1, c2}
  NoConn = NoConn
  PieceCounts = {1, 2}
  PieceSize = 2
  Capacity = 3
  MaxRequests = 2
  Quits = TRUE
  Faults = {"shut", "reset"}
  Debug = FALSE
SYMMETRY Symmetry
CHECK_DEADLOCK FALSE
INVARIANTS
  TypeOK
  HandlersMatchEpoll
  LoopCallsSucceed
  ArmedExactlyWhenWaiting
  NeverDeaf
  NoLostWakeup
  NoReplyLost
  RepliesInOrder
  CloseAfterFlush
  RepliesLostOnlyByClose
  DownOnlyByClient
PROPERTIES
  ClosedStaysQuiet
