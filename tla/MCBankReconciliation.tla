------------------------ MODULE MCBankReconciliation ------------------------
(* A line that matches by amount, one that only names the customer and is    *)
(* suggested against the same invoice, and one of money out.  When the first *)
(* is booked early, the second fits nothing.  A receipt entered by hand leaves*)
(* what the second line is for.                                              *)
EXTENDS BankReconciliation, TLC

MCLines == {"full", "part", "out"}
MCAmount == [full |-> 5, part |-> 2, out |-> -3]
MCInvoices == {"sale", "sale2", "purchase"}
MCTotal == [sale |-> 5, sale2 |-> 5, purchase |-> -3]
MCMentions == [full |-> {"sale"}, part |-> {"sale"}, out |-> {}]
MCHandMade == {[invoice |-> "sale", amount |-> 3]}

Alike == Permutations(Sessions)
=============================================================================
