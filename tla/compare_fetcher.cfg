SPECIFICATION FairSpec
CONSTANTS
  transfer = transfer
  call = call
  Fee = Fee
  Log = Log
  Public = Public
  Test = Test
  Private = Private
  Unset = Unset
  BundleSize = 2
  MaxBlock = 3
  StoreFirsts = {1, 3}
  Hashes <- HashesMC
  Heads = {1, 2}
  Lists <- ListsMC
  Empty = Empty
  NoEvents = NoEvents
  RpcBodies <- RpcBodiesMC
  StoredBodies <- StoredBodiesMC
INVARIANTS
  TypeOK
  VerdictSound
  VerdictComplete
  NotFoundTruthful
  NetworkRespected
PROPERTY
  Ends
CHECK_DEADLOCK FALSE
