CONSTANTS
  Chart <- MCChart
  AccountType <- MCAccountType
  ControlType <- MCControlType
  Depreciation = "depreciation"
  Starter <- MCStarter
  Categories = {"none", "OPEX"}
  Postings <- MCPostings
  Periods <- MCPeriods
  Year <- MCYear
  Budgets <- MCBudgets
  Edited = {"revenue", "accumulated", "depreciation"}
  MaxEntries = 2
SPECIFICATION ReportsSpec
INVARIANTS
  SheetOffset
  DashboardOffset
  GeneralLedgerGap
  VarianceAddsUp
CHECK_DEADLOCK FALSE
