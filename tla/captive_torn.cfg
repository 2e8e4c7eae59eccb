SPECIFICATION FairSpec
CONSTANTS
  Launches <- Resume
  MaxSeq = 5
  PipeCap = 2
  PodMayDie = FALSE
  MaxHead = 4
  MaxFaults = 1
  Absent = Absent
  Torn = Torn
PROPERTY
  RestartsResume
CHECK_DEADLOCK FALSE
