SPECIFICATION FairSpec
CONSTANTS
  Launches <- Supervised
  MaxSeq = 5
  PipeCap = 2
  PodMayDie = TRUE
  MaxHead = 4
  MaxFaults = 3
  Absent = Absent
  Torn = Torn
PROPERTIES
  StreamPromise
  EveryLedgerDelivered
CHECK_DEADLOCK FALSE
