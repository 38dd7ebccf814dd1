CONSTANTS
  Threads = {t1}
  Connection <- OneConnection
  Arriving <- NoConnections
  LocalHost = "localhost"
  SessionId <- TwoSessions
  Key = {k1}
  WeakKey = {}
  NoKey = NoKey
  Offered <- NoOffers
  Policies <- OnePolicy
  MaxCount = 0
  MayFail = FALSE
  ExpandFlags <- OnlyExpandable
  Width = 2
SPECIFICATION FairEngineSpec
INVARIANTS EngineTypeOK RunningIsKnown IncomingIsExclusive ConnectExIsBlocked
PROPERTIES UsesTrafficHandler ClockStopsEventually
