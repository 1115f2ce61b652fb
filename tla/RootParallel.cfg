CONSTANTS
  Choice = {a, b}
  Reward = {0, 1}
  MinEvidence = 2
  NaN = NaN
  None = None
  MaxThreads = 2
  Target = 3
  TimeLimited = TRUE
  Retained <- RetainedRoots
  Scale = 60

SPECIFICATION Spec
SYMMETRY Symmetry

INVARIANTS
  NothingStaysArmed
  MergedAnswerLeads
  PoolOfOneIsItsSearcher
  MergedReasonIsHonest

CHECK_DEADLOCK FALSE
