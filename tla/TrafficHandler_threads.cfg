CONSTANTS
  Threads = {t1, t2}
  Connection <- MCPeer
  Arriving <- MCPeer
  LocalHost = "localhost"
  SessionId <- OneSession
  Key <- MCKey
  WeakKey <- MCWeakKey
  NoKey = NoKey
  k1 = k1
  k2 = k2
  weak = weak
  Offered <- OneOffer
  Policies <- TightOrNot
  MaxCount = 0
  MayFail = FALSE
SYMMETRY Symmetry
SPECIFICATION Spec
INVARIANTS TightNeverPlain OwnedNeverPlain OwnedIncomingIsDecrypted EstablishedFlows
