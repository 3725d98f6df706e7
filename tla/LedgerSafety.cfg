SPECIFICATION Spec
CONSTANTS
  cash = cash
  revenue = revenue
  s1 = s1
  s2 = s2
  p1 = p1
  p2 = p2
  NoPeriod = NoPeriod
  Sessions <- MCSessions
  Accounts <- MCAccounts
  Periods <- MCTwoPeriods
  Requests <- MCRequests
  MaxEntries = 3
  Unit = 2
  Tolerance = 2
SYMMETRY MCSymmetry
CHECK_DEADLOCK TRUE
INVARIANTS
  GLMatchesLedger
  ReversalExact
  NumbersInCommitOrder
  TrialBalanceDrift
PROPERTIES
  LedgerImmutable
  ClosedPeriodSealed
  ImplementsBook
