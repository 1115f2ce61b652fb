CONSTANTS
  Choice = {a, b, c}
  Mean = {0, 1}
  MinEvidence = 3
  NaN = NaN
  None = None
  Target = 6
  EarlyTermination = TRUE
  PollPeriod = 2
  TimeLimited = FALSE
  Cancellable = FALSE
  MaxReused = 6
  MaxIterations = 7

SPECIFICATION CounterfactualSpec
SYMMETRY Symmetry

INVARIANTS
  TypeOK
  AnswerIsLegal
  AnswerLeads
  MaskIsCurrent
  BudgetIsExact
  ProvenAnswerStandsAlone
  ProvenStands

CHECK_DEADLOCK FALSE
