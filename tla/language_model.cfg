SPECIFICATION Spec
CONSTANTS
  DefaultMaxLength = 4
  DefaultGenTokens = 2
  Limits <- SmallLimits
  Batches <- SmallBatches
  Arguments <- SmallArguments
  Hashes <- SmallHashes
  Stored <- KnownHashes
  TimeoutConfigs <- SmallTimeouts
  Ttft <- Quadratic
  Tpot = 1
  Queue = 2
  Symbols <- ThreeSymbols
  Texts <- SmallTexts
  Eos <- EosText
INVARIANT PromptsFit
INVARIANT AnswerScored
INVARIANT AnswerCutAtStop
\* A task ends when it is evaluated or failed.
CHECK_DEADLOCK FALSE
