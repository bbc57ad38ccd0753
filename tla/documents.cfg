SPECIFICATION Spec
CONSTANTS
  Splits <- ThreeSplits
  Sizes <- SmallSizes
  EvalSplit = "test"
  ShotSplits <- ShotsOf
  Prompts = 2
  Quantities <- SmallQuantities
  Blacklists <- SmallBlacklists
  Responses <- ResponseLists
  Rotates = TRUE
  Attempts = 2
INVARIANT TransferComplete
INVARIANT RangesExact
INVARIANT PromptsOfTheirDocument
INVARIANT ScoredAgainstTheirDocument
INVARIANT DocumentsAccounted
INVARIANT DroppedExplained
\* A task ends when it is stored, dropped or refused.
CHECK_DEADLOCK FALSE
