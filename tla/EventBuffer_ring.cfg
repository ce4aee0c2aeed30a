SPECIFICATION Spec
CONSTANTS
  Size = 32
  SampleType = {"READ", "BRANCH_STACK"}
  ReadFormat = {"GROUP", "ID", "TOTAL_TIME_ENABLED"}
  Counters = 2
  MaxBranches = 1
  MaxRecords = 5
  OtherRecords = {"throttle"}
INVARIANTS Intact Accounted
PROPERTIES Drained QueueSpec
CHECK_DEADLOCK FALSE
