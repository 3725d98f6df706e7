------------------------------ MODULE MCLedger ------------------------------
(***************************************************************************)
(* Ledger for TLC: two accounts, half cents, and three requests.  The      *)
(* first balances to the unit and is stored two cents off, four half cents *)
(* against two cents; the second is a cent and a half off, which both      *)
(* checks refuse; the third is a posting rule's, with negative amounts.    *)
(***************************************************************************)
EXTENDS Ledger, TLC

CONSTANTS cash, revenue, s1, s2, p1, p2

Debit(n) == [account |-> cash, side |-> "dr", amount |-> n]
Credit(n) == [account |-> revenue, side |-> "cr", amount |-> n]

MCAccounts == {cash, revenue}
MCSessions == {s1, s2}
MCTwoPeriods == {p1, p2}
MCRequests == {<<Debit(1), Debit(1), Debit(1), Debit(1), Credit(4)>>,
               <<Debit(6), Credit(3)>>,
               <<Debit(-3), Credit(-1)>>}
MCSymmetry == Permutations(MCSessions) \cup Permutations(MCTwoPeriods)
=============================================================================
