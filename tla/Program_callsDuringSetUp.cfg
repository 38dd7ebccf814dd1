SPECIFICATION Spec
CONSTANTS
  alice = alice
  bob = bob
  aliceKey = aliceKey
  bobKey = bobKey
  None = None
  Partner <- Partners
  Fingerprint <- Keys
  OwnerOf <- KeyOwner
  CallsDuringSetUp = TRUE
  NumberOfApis = 1
  Builds <- Libraries
  MaxRuns = 1
INVARIANTS StoredWereConfirmed
CHECK_DEADLOCK FALSE
