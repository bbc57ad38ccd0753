SPECIFICATION FairSpec
CONSTANTS
  t1 = t1
  t2 = t2
  t3 = t3
  Tasks = {t1, t2, t3}
  ResultOf <- MixedResults
  Height <- Heights
  MaxFaults = 2
INVARIANTS
  NothingOrphaned
  CountedOnce
  AnalyzedIsStored
  HeightOfAResult
PROPERTY
  EventuallyAnalyzed
