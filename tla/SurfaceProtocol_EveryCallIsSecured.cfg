SPECIFICATION FairSpec
CONSTANTS
  alice = alice
  bob = bob
  None = None
  Peer <- MCPeer
  Caller <- CalledAgain
  MaxCalls = 2
  Unheard = FALSE
  Orderly = TRUE
PROPERTIES EveryCallIsSecured
CHECK_DEADLOCK FALSE
