SPECIFICATION FairSpec
CONSTANTS
  r1 = r1
  r2 = r2
  Runs = {r1, r2}
  BundleSize = 2
  MaxBlock = 5
  Assignments <- Parallel
  Kinds = {"broken", "foreign"}
  MaxFaults = 1
  Absent = Absent
INVARIANTS
  TypeOK
  BundlesWhole
  RangeCopied
PROPERTY
  RunsEnd
CHECK_DEADLOCK FALSE
