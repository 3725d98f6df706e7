SPECIFICATION SubledgerSpec
CONSTANTS
  Handlers = {s1, s2}
  Docs <- MCDocs
  Books <- MCBooks
  TaxRates <- MCTaxRates
  Journals <- MCJournals
  MaxPostings = 3
  MaxManual = 1
INVARIANTS
  ControlTiesOut
  TaxWithinHalfCent
  RepeatsAreRaces
  PaidBeyondByRepeats
CHECK_DEADLOCK FALSE
