SPECIFICATION Spec
CONSTANTS
  alice = alice
  bob = bob
  dan = dan
  issuer = issuer
  Accounts <- AccountsMC
  Funded <- FundedMC
  Tools <- TestTools
  Kind <- TestKind
  Source <- TestSource
  Dest <- TestDest
  Double <- TestDouble
  maxAttempts = 2
  MaxRuns = 2
INVARIANT
  ExpectedFailureReal
CHECK_DEADLOCK FALSE
