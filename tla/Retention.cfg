CONSTANTS
  Move = {a, b}
  MaxMoves = 3
  None = None

SPECIFICATION Spec
SYMMETRY Symmetry

INVARIANTS
  ArmedDescribesPosition
  SearchesItsOwnPosition
  RootTellsItsRound

CHECK_DEADLOCK FALSE
