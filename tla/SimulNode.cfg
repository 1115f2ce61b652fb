CONSTANTS
  First = {a, b}
  Second = {x, y}
  Arity = 2
  ChoicesOf <- TwoPlayers
  KeyCapacity = 2
  Policy = {"Duct", "RegretMatching"}
  Revisit = {"MayChange", "SameAtRoot", "SameEverywhere"}
  MaxVisits = 4
  MaxPanics = 1

SYMMETRY Interchangeable

SPECIFICATION Spec

INVARIANTS
  KeysNameTheirArms
  StampsAreTheOffer
  ArmsSumTheirChildren
  ArmCountsAgree

CHECK_DEADLOCK FALSE
