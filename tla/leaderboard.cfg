SPECIFICATION Spec
CONSTANTS
  n1 = n1
  n2 = n2
  n3 = n3
  Nodes = {n1, n2, n3}
  Addressings <- TwoAddresses
  Metrics <- ThreeMetrics
  Subtasks <- TwoSubtasks
  Enough = 1
  Rowings <- OneOfAny
  Mean <- MeanOf
  ErrorRate <- ErrorRateOf
INVARIANT PartialShown
INVARIANT TotalsOfShown
INVARIANT LeftOutExplained
\* A request ends when it is answered.
CHECK_DEADLOCK FALSE
