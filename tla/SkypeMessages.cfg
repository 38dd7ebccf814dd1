SPECIFICATION FairSpec
CONSTANTS
  s1 = s1
  s2 = s2
  Sender <- MCSender
  Sent <- MCSent
  MaxUndeployed = 2
  MaxCalls = 2
INVARIANTS TypeOK InOnePlace InOrder NothingLeftBehind
PROPERTIES EventsAreHandled
CHECK_DEADLOCK FALSE
