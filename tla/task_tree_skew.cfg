SPECIFICATION Spec
CONSTANTS
  p1 = p1
  p2 = p2
  p3 = p3
  i1 = i1
  i2 = i2
  t1 = t1
  Prompts = {p1, p2}
  Instances = {i1, i2}
  Tasks = {t1}
  InstanceOf <- NarrowInstanceOf
  TaskOf <- WideTaskOf
  Sessions = {s1}
  MaxFaults = 0
INVARIANT
  DoneWhenAllAnswered
