SPECIFICATION SignatureSpec
CONSTANTS
  CircBufferLen = 3
  MaxUint32 = 7
  MaxAge = 2
  Statuses = {"Ok", "Evaluation"}
  MaxNow = 6
  MaxInserts = 6
INVARIANT
  SignatureIsNewest
CHECK_DEADLOCK FALSE
