--------------------------- MODULE FiscalCalendar ---------------------------
(***************************************************************************)
(* Fiscal years and their twelve monthly periods.  A date is a day number; *)
(* the days a period holds follow from its year and month, so a year       *)
(* stands for its row and the rows of its periods.                         *)
(***************************************************************************)
EXTENDS Integers, Sequences, FiniteSets, FiniteSetsExt

CONSTANTS
  First,   \* the year in which companies are created
  MaxYears \* bound: fiscal years of a company, those being inserted included

ASSUME CalendarAssumption == First \in Nat \ {0} /\ MaxYears \in Nat

Months == 0..11

(***************************************************************************)
(* Date.UTC(year, month, day): months count from 0, and a month or a day   *)
(* out of range runs over into the years and months around it.             *)
(***************************************************************************)
Leap(y) == (y % 4 = 0 /\ y % 100 # 0) \/ y % 400 = 0
Length(y, m) ==
  CASE m = 1 -> IF Leap(y) THEN 29 ELSE 28
    [] m \in {3, 5, 8, 10} -> 30
    [] OTHER -> 31
NewYear(y) == 365 * (y - 1) + (y - 1) \div 4 - (y - 1) \div 100 + (y - 1) \div 400
MonthStart(y, m) ==
  NewYear(y) + SumFunctionOnSet([k \in 0..(m - 1) |-> Length(y, k)], 0..(m - 1))
UTC(y, m, d) == MonthStart(y + m \div 12, m % 12) + d - 1

\* The days of a period: startDate to endDate.
Period(y, m) == UTC(y, m, 1) .. UTC(y, m + 1, 0)

\* The years whose periods are one period for each of their days and none for
\* others: postEvent, post and reverse take any period that holds the date.
TiledYears ==
  {y \in First .. (First + MaxYears) :
     LET days == NewYear(y) .. (NewYear(y + 1) - 1) IN
     /\ UNION {Period(y, m) : m \in Months} = days
     /\ SumFunctionOnSet([m \in Months |-> Cardinality(Period(y, m))], Months)
          = Cardinality(days)}

\* Mutant of NextYear: the latest year again.
MutantSameYear(rows) == IF rows = <<>> THEN First ELSE Max({rows[i] : i \in DOMAIN rows})

\* createNextFiscalYear: the year after the latest there is, or the current one
NextYear(rows) == IF rows = <<>> THEN First ELSE Max({rows[i] : i \in DOMAIN rows}) + 1

Copies(rows, y) == Cardinality({i \in DOMAIN rows : rows[i] = y})
=============================================================================
