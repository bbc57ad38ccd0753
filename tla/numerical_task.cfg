SPECIFICATION FairSpec
CONSTANTS
  CircBufferLen = 3
  MaxUint32 = 7
  MaxAge = 2
  Statuses = {"Ok", "Node", "Relay"}
  MaxNow = 5
  MaxInserts = 5
PROPERTIES
  CycleKeepsOneStaleAtMost
  MetricsCoverWindow
  StaleDropped
  ImplementsWindow
CHECK_DEADLOCK FALSE
