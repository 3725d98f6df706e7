SPECIFICATION FairSpec
CONSTANTS
  Sessions = {s1, s2}
  Stock = {"a", "b"}
  Docs <- MCDocs
  Doc <- MCDoc
  MaxLines = 3
  MaxMoves = 3
INVARIANTS
  OnlyRacesLoseMoves
  ValueInStep
  NeverNegative
  AverageWithinCosts
PROPERTIES
  RequestsEnd
CHECK_DEADLOCK FALSE
