CONSTANTS
  Sessions = {s1, s2}
  Companies <- MCCompanies
  Home <- MCHome
  Rates <- MCRates
  Trades <- MCTrades
  Trade <- MCTrade
  Runs = {r1}
SPECIFICATION Spec
INVARIANTS
  EliminationsAreBooked
  
CHECK_DEADLOCK FALSE
