CONSTANTS
  Sessions = {s1, s2}
  Employees = {"ann", "ben"}
  Structures <- MCStructures
  Structure <- MCStructure
  Runs = {march, again}
  PeriodEnd <- MCPeriodEnd
  Journals <- MCJournals
  MaxPostings = 2
  MaxUndone = 1
  MaxManual = 3
SPECIFICATION Spec
SYMMETRY Alike
INVARIANTS
  PayslipsUpToDate
  BookedOncePerRun
  LedgerMatchesPayslips
CHECK_DEADLOCK FALSE
