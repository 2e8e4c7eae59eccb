SPECIFICATION FairSystem
CONSTANTS
  e1 = e1
  e2 = e2
  Workers = {w1, w2}
  Endpoints <- TwoEndpoints
  Rolled <- Alternate
  MaxLedger = 2
  MaxFailures = 1
  Client = e1
  Cursors = {0, 3}
  Limit = 2
  Before <- BeforeMC
INVARIANTS
  TypeOK
  AsksOnlyForClosed
  PagesExact
PROPERTIES
  EveryBlockFetched
  PagesEnd
CHECK_DEADLOCK FALSE
