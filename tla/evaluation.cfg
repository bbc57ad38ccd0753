SPECIFICATION Spec
CONSTANTS
  t1 = t1
  t2 = t2
  h1 = h1
  Tasks = {t1, t2}
  Hashes = {h1}
  Cases <- PairCases
  MaxFaults = 1
  MaxExpiries = 1
  MaxResults = 2
INVARIANTS MarkedWithResult AnalysisUsesAnswer LeftoversOnlyAfterExpiry FailureExplained
PROPERTIES TaskLifeSpec EventuallyAnalyzed
