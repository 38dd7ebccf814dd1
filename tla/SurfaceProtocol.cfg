SPECIFICATION FairSpec
CONSTANTS
  alice = alice
  bob = bob
  None = None
  Peer <- MCPeer
  Caller <- CalledBack
  MaxCalls = 3
  Unheard = TRUE
  Orderly = FALSE
INVARIANTS TypeOK OnlyConfirmedKeys SameKey HeardWithKey
PROPERTIES FirstCallIsSecured
CHECK_DEADLOCK FALSE
