CONSTANTS
  Position = {1, 2, 3, 4, 5, 6}
  Choice = {"l", "r", "m"}
  Move <- Leads
  PlayerAt <- Acts
  Keyless = {5}
  Start = 1
  ChoicesFixed <- Answers
  MaxStamp = 3
  MaxIterations = 5
  MaxSearches = 2
  None = None

SPECIFICATION Spec

INVARIANTS
  StampsAreThePath
  LinksLeadWhereChoicesDo
  TableIsExact
  RootAloneHasNoParent
  VisitedLinksHaveEvidence
  KnownChoicesAreTheChoices

CHECK_DEADLOCK FALSE
