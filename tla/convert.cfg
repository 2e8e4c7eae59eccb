SPECIFICATION Spec
CONSTANTS
  transfer = transfer
  call = call
  Fee = Fee
  Log = Log
  Odd = Odd
  genesis = genesis
  first = first
  second = second
  Public = Public
  Test = Test
  Private = Private
  Unset = Unset
  Bad = Bad
  Network = Public
  Hashes <- HashesMC
  Event <- EventMC
  Opaque <- OpaqueMC
  Nil = Nil
  Ids <- IdsMC
  Noise = {1, 2}
  Chains <- ChainsMC
  Options <- OptionsMC
  MaxTries = 2
INVARIANTS
  TypeOK
  BlocksAgree
  BlocksComplete
  ChainLinks
  LaunchAgrees
CHECK_DEADLOCK FALSE
