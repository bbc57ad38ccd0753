SPECIFICATION FairSpec
CONSTANTS
  p1 = p1
  p2 = p2
  p3 = p3
  i1 = i1
  i2 = i2
  t1 = t1
  Prompts = {p1, p2, p3}
  Instances = {i1, i2}
  Tasks = {t1}
  InstanceOf <- WideInstanceOf
  TaskOf <- WideTaskOf
  Sessions = {s1}
  MaxFaults = 1
INVARIANTS
  DoneUpwards
  SettledUnlessSkewed
PROPERTY
  EventuallyEvaluated
