CONSTANTS
  Sessions = {s1, s2}
  Lines <- MCLines
  Amount <- MCAmount
  Invoices <- MCInvoices
  Total <- MCTotal
  Mentions <- MCMentions
  HandMade <- MCHandMade
  MaxPayments = 2
SPECIFICATION Spec
SYMMETRY Alike
INVARIANTS
  ReconciledIsBooked
  OnlyRacesAndFailuresDuplicate
  BookedIsSettled
  OverpaidByStaleSuggestions
CHECK_DEADLOCK FALSE
