CONSTANTS
  Stream <- Streams
  DrawWidth = 6
  MaxGene = 5
  Elites = 1
  Entrants = 2
  MutationRate = 3
  SeedSpace = 4
  MaxDecisions = 3
  ZeroSum = TRUE
  Setup <- Setups
  OddFactor = 3
  Worker = {w1, w2}
  MaxCrashes = 1
  Idle = Idle
  Returned = Returned

SPECIFICATION Spec

INVARIANTS
  EachGameCountsOnce
  AnswerIsTheRuns
  SameGenesSameScore

PROPERTIES
  ResumedRunIsTheRun
  RunEnds

CHECK_DEADLOCK FALSE
