CONSTANTS
  Threads = {}
  Connection <- OneConnection
  Arriving <- NoConnections
  LocalHost = "localhost"
  SessionId <- TwoSessions
  Key = {k1}
  WeakKey = {}
  NoKey = NoKey
  Offered <- NoOffers
  Policies <- NoPolicies
  MaxCount = 0
  MayFail = FALSE
  ExpandFlags <- OnlyExpandable
  Width = 2
SPECIFICATION EngineSpec
INVARIANT NoConnectExWhileRunning
