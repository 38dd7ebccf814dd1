CONSTANTS
  Threads = {t1}
  Connection <- MCConnection
  Arriving <- MCPeer
  LocalHost = "localhost"
  SessionId <- TwoSessions
  Key <- MCKey
  WeakKey <- MCWeakKey
  NoKey = NoKey
  k1 = k1
  k2 = k2
  weak = weak
  Offered <- TwoOffers
  Policies <- TightNoMore
  MaxCount = 0
  MayFail = TRUE
SPECIFICATION Spec
INVARIANTS TypeOK ForeignIsDropped VeryLooseBlocksNothing KeyOfOwner
PROPERTY ExpansionStaysWithPeer
