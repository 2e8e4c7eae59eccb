SPECIFICATION Spec
CONSTANTS
  BundleSize = 2
  MaxBlock = 1
  RefBlocks <- Plainly
  CurBlocks <- OtherLib
  Options <- Plain
  Absent = Absent
INVARIANTS
  ReportsAnyDifference
CHECK_DEADLOCK FALSE
