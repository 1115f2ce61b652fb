CONSTANTS
  Choice = {a, b}
  Mean = {0}
  MinEvidence = 2
  NaN = NaN
  None = None
  Target = 0
  EarlyTermination = TRUE
  PollPeriod = 3
  TimeLimited = TRUE
  Cancellable = TRUE
  MaxReused = 0
  MaxIterations = 4

SPECIFICATION TimedSpec

INVARIANT StopsPromptly
PROPERTY Termination

CHECK_DEADLOCK FALSE
