SPECIFICATION FairSpec
CONSTANTS
  Clients = {c1, c2, c3}
  NoClient = NoClient
  Failures = TRUE
CHECK_DEADLOCK FALSE
INVARIANTS
  TypeOK
  AcceptPending
  NoLostConnect
  ServedInOrder
  DownOnlyByFailure
PROPERTIES
  EveryClientServed
