CONSTANTS
  MinEvidence = 2
  NaN = NaN
  Player = {1, 2}
  Move = {"left", "right", "down"}
  View <- Concealed
  Deck = {"open", "tight", "short"}
  Turn <- Alternate
  Offered <- Offers
  Ends <- Length
  MaxMoves = 3
  Outcome <- Won
  Payoff <- Rewards
  Floor <- Nothing
  Target = 3
  MaxSearches = 3
  MeanScale = 60
  None = None

SPECIFICATION Spec

INVARIANT ArmedTreesDescribePosition

CHECK_DEADLOCK FALSE
