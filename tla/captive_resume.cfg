SPECIFICATION FairSpec
CONSTANTS
  Launches <- Resume
  MaxSeq = 4
  PipeCap = 2
  PodMayDie = FALSE
  MaxHead = 4
  MaxFaults = 3
  Absent = Absent
  Torn = Torn
INVARIANTS
  ReplaysOnlyLastBlock
  ReplaysPaidByUncleanEnds
PROPERTIES
  StreamPromise
  TornIsFinal
  EveryLedgerDelivered
