CONSTANTS
  Sessions = {s1}
  Companies <- MCCompanies
  Home <- MCCompanies
  Rates <- NoRates
  Trades <- OneTrade
  Trade <- OneTradeData
  Runs = {r1}
SPECIFICATION Spec
INVARIANT EliminatesToZero
CHECK_DEADLOCK FALSE
