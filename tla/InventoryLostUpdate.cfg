SPECIFICATION Spec
CONSTANTS
  Sessions = {s1, s2}
  Stock = {"a", "b"}
  Docs <- MCDocs
  Doc <- MCDoc
  MaxLines = 3
  MaxMoves = 4
INVARIANT QuantityInStep
CHECK_DEADLOCK FALSE
