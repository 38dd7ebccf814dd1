SPECIFICATION Spec
CONSTANTS
  a = a
  b = b
  None = None
  Peer <- MCPeer
  Caller = a
  OpenLists <- MCOpenLists
  MayLose = FALSE
  MayFail = FALSE
INVARIANT
  ClosedIsDestroyed
