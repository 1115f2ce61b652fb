CONSTANTS
  First = {a, b}
  Second = {x}
  Arity = 2
  ChoicesOf <- TwoPlayers
  KeyCapacity = 2
  Policy = {"Duct"}
  Revisit = {"MayChange"}
  MaxVisits = 3
  MaxPanics = 1

SPECIFICATION Spec

INVARIANTS
  StampIsTheLegalityTest

CHECK_DEADLOCK FALSE
