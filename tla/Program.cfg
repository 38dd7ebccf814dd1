SPECIFICATION FairSpec
CONSTANTS
  alice = alice
  bob = bob
  aliceKey = aliceKey
  bobKey = bobKey
  None = None
  Partner <- Partners
  Fingerprint <- Keys
  OwnerOf <- KeyOwner
  CallsDuringSetUp = FALSE
  NumberOfApis = 2
  Builds <- Libraries
  MaxRuns = 2
INVARIANTS ProgramTypeOK StoredWereConfirmed ReadyHasKey HookedHasHandler ReadyIsHooked
PROPERTIES KeyIsKept SetUpEnds
CHECK_DEADLOCK FALSE
