SPECIFICATION Spec
CONSTANTS
  BundleSize = 2
  MaxBlock = 2
  RefBlocks <- Reference
  CurBlocks <- Current
  Options <- Flags
  Absent = Absent
INVARIANTS
  TypeOK
  VerdictCorrect
  SummaryExact
  StopsAtFirst
CHECK_DEADLOCK FALSE
