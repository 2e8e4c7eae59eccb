SPECIFICATION Spec
CONSTANTS
  Launches <- Mixed
  MaxSeq = 5
  PipeCap = 2
  PodMayDie = TRUE
  MaxHead = 4
  MaxFaults = 2
  Absent = Absent
  Torn = Torn
INVARIANTS
  TypeOK
  NoLedgerSkipped
  CursorNamesFiredBlock
  CursorCaughtUp
  LifeIsConsecutive
CHECK_DEADLOCK FALSE
