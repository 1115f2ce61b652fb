CONSTANTS
  MinEvidence = 2
  NaN = NaN
  Candidates <- PoisonedLists

SPECIFICATION ScanSpec

INVARIANT PoisonDecidesNothing

CHECK_DEADLOCK FALSE
