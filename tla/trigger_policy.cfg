SPECIFICATION FairSpec
CONSTANTS
  MinSamples = 4
  MaxConcurrent = 3
  MinTrigger = 0
  ScheduleBlocks = 0
  DatasetSize = 6
  UintSize = 16
  Ids = {a1, a2, a3}
  MaxHeight = 2
  MaxFaults = 1
INVARIANTS
  TaskWithinLimit
  QueueWithinLimit
  RequestsFit
PROPERTY
  AlwaysRefilled
CHECK_DEADLOCK FALSE
