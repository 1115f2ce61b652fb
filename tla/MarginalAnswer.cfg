CONSTANTS
  MinEvidence = 2
  NaN = NaN
  Candidates <- Lists
  left = left
  right = right
  other = other
  Positions <- SomePositions
  Worlds <- SomeWorlds
  Reward = {0, 1}
  MaxWorkers = 2
  Iterations = 3
  MaxGathered = 3
  Unit = 36
  NoAnswer = NoAnswer

SPECIFICATION MarginalSpec

INVARIANTS
  FirstMaximum
  AnswerIsReported
  PooledStrategyIsTheMean
  PoolOfOneIsItsSearcher

CHECK_DEADLOCK FALSE
