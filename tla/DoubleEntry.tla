---------------------------- MODULE DoubleEntry ----------------------------
(***************************************************************************)
(* Double-entry lines.  A request for a journal entry is a sequence of     *)
(* rows, whose amounts may have more decimals than the columns that store  *)
(* them; they are counted here in units, a number of which make a cent.    *)
(* What is stored (journal_entry_lines, Decimal(18,2)) is rounded row by   *)
(* row, after the balance check.  Of the stored rows, their number and     *)
(* their totals per account and side are kept: neither the balances nor    *)
(* the reports tell two rows of one account and side apart.  The           *)
(* dimensions of a row (branch, department, cost and profit centre) only   *)
(* make more accounts.                                                     *)
(***************************************************************************)
EXTENDS Integers, Sequences, FiniteSets, FiniteSetsExt

CONSTANTS
  Accounts,   \* chart_of_accounts of the company
  Unit,       \* units to the cent
  Tolerance   \* BALANCE_TOLERANCE, in units

ASSUME DoubleEntryAssumption ==
  /\ IsFiniteSet(Accounts)
  /\ Unit \in Nat \ {0}
  /\ Tolerance \in Nat

Sides == {"dr", "cr"}
Columns == Accounts \X Sides
Totals == [Columns -> Int]
NoTotals == [c \in Columns |-> 0]

\* The stored rows of an entry: totals in cents, and how many rows they come from.
Lines == [total : Totals, rows : Nat]
NoLines == [total |-> NoTotals, rows |-> 0]

\* A row as it is asked for; a posting rule's amount may be negative.
Row == [account : Accounts, side : Sides, amount : Int]

Other(side) == IF side = "dr" THEN "cr" ELSE "dr"
Signed(side, n) == IF side = "dr" THEN n ELSE -n

\* What a Decimal(18,2) column makes of an amount: half away from zero.
Cents(n) == IF n >= 0 THEN (2 * n + Unit) \div (2 * Unit)
            ELSE -((Unit - 2 * n) \div (2 * Unit))

\* Both balance checks of the code add up the amounts as they are asked for and
\* reject only a difference above the tolerance.  (They add doubles: a difference
\* of exactly the tolerance may be refused too.)
Accepts(q) ==
  LET off == SumFunctionOnSet([i \in 1..Len(q) |-> Signed(q[i].side, q[i].amount)], 1..Len(q))
  IN  -Tolerance <= off /\ off <= Tolerance

\* What row i of a request stores in column c.
StoredIn(q, i, c) ==
  IF q[i].account = c[1] /\ q[i].side = c[2] THEN Cents(q[i].amount) ELSE 0

\* The rows a request stores.
Stored(q) ==
  [total |-> [c \in Columns |->
                SumFunctionOnSet([i \in 1..Len(q) |-> StoredIn(q, i, c)], 1..Len(q))],
   rows |-> Len(q)]

\* Mutant of Mirror: a reversal that repeats the entry.
MutantRepeated(l) == l

\* The lines of a reversal: debits and credits swapped.
Mirror(l) == [total |-> [c \in Columns |-> l.total[<<c[1], Other(c[2])>>]],
              rows |-> l.rows]

\* updateGlBalance for every stored row: an atomic INSERT ... ON CONFLICT DO
\* UPDATE that increments the stored totals.
Increment(balance, l) == [c \in Columns |-> balance[c] + l.total[c]]

SideTotal(t, side) == SumFunctionOnSet([a \in Accounts |-> t[<<a, side>>]], Accounts)
Imbalance(t) == SideTotal(t, "dr") - SideTotal(t, "cr")
=============================================================================
