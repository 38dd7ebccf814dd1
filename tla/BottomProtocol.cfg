SPECIFICATION FairSpec
CONSTANTS
  a = a
  b = b
  None = None
  Peer <- MCPeer
  Caller = a
  OpenLists <- MCOpenLists
  MayLose = TRUE
  MayFail = TRUE
INVARIANTS
  TypeOK
  ComparisonNeverFails
  RunningIsComplete
PROPERTIES
  ImplementsAgreement
  BothOrNone
