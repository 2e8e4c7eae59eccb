SPECIFICATION Spec
CONSTANTS
  alice = alice
  bob = bob
  dan = dan
  issuer = issuer
  Accounts <- AccountsMC
  Funded <- FundedMC
  Tools <- ToolsMC
  Kind <- KindMC
  Source <- SourceMC
  Dest <- DestMC
  Double <- DoubleMC
  maxAttempts = 2
  MaxRuns = 4
INVARIANTS
  TypeOK
  SuccessApplied
  PaidAtMostRuns
  FundTold
CHECK_DEADLOCK FALSE
