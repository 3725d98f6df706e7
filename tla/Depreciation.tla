---------------------------- MODULE Depreciation ----------------------------
(***************************************************************************)
(* Fixed assets: the straight-line schedule made when an asset is entered, *)
(* and the depreciation run that posts every schedule row still pending up *)
(* to a month, for the whole company.                                      *)
(*                                                                         *)
(* runDepreciation is one READ COMMITTED transaction: it reads the pending *)
(* rows, then books one journal entry per row in the order of the months,  *)
(* checking the row's accounting period each time, and marks the rows.     *)
(* The first booking takes the lock on the journal's number sequence and   *)
(* keeps it to the end, so two runs book one after the other; the second   *)
(* still works on the list it read.  One closed period undoes the run.     *)
(***************************************************************************)
EXTENDS Integers, FiniteSets, FiniteSetsExt

CONSTANTS
  DepreciationRuns,  \* depreciation runs that may be under way at the same time
  Assets,    \* fixed assets the users may enter
  Asset,     \* their depreciable amount in cents, life and first month
  LastMonth, \* bound: the months that have an accounting period
  Closing    \* bound: the months that are closed and reopened

ASSUME DepreciationAssumption ==
  /\ IsFiniteSet(DepreciationRuns)
  /\ LastMonth \in Nat /\ Closing \subseteq 1..LastMonth
  /\ Asset \in [Assets -> [amount : Int, life : Nat \ {0}, first : Nat \ {0}]]
  /\ \A a \in Assets : Asset[a].first + Asset[a].life - 1 <= LastMonth

Months == 1..LastMonth

-----------------------------------------------------------------------------
(***************************************************************************)
(* The schedule of a depreciable amount over a number of months.           *)
(***************************************************************************)

\* round2 of n / d, in cents: Math.round takes halves up.
Round(n, d) == (2 * n + d) \div (2 * d)

Monthly(amount, life) == Round(amount, life)

\* Mutant of Installment: the last month is like the others.
MutantAllEqual(amount, life, i) == Monthly(amount, life)

\* Every month takes the rounded amount, the last one what is left.
Installment(amount, life, i) ==
  IF i = life THEN amount - (life - 1) * Monthly(amount, life)
  ELSE Monthly(amount, life)

-----------------------------------------------------------------------------
VARIABLES
  entered,  \* the assets that have been created
  pending,  \* schedule rows <<asset, period number>> with status pending
  closed,   \* months whose accounting period is not open
  booked,   \* journal entries of each schedule row
  reserve,  \* accumulated depreciation of each asset in the ledger
  job      \* the runs: their list, what is booked, the number lock

depreciationVars == <<entered, pending, closed, booked, reserve, job>>

Rows == {r \in Assets \X Months : r[2] <= Asset[r[1]].life}
MonthOf(row) == Asset[row[1]].first + row[2] - 1
AmountOf(row) == Installment(Asset[row[1]].amount, Asset[row[1]].life, row[2])

NoJob == [pc |-> "idle", list |-> {}, done |-> {}, locked |-> FALSE]

-----------------------------------------------------------------------------
InitDepreciation ==
  /\ entered = {}
  /\ pending = {}
  /\ closed = {}
  /\ booked = [r \in Rows |-> 0]
  /\ reserve = [a \in Assets |-> 0]
  /\ job = [s \in DepreciationRuns |-> NoJob]

\* create, with the whole schedule
EnterAsset(a) ==
  /\ a \notin entered
  /\ entered' = entered \cup {a}
  /\ pending' = pending \cup {r \in Rows : r[1] = a}
  /\ UNCHANGED <<closed, booked, reserve, job>>

\* FiscalPeriodsService.setPeriodStatus
SetPeriod(m) ==
  /\ closed' = IF m \in closed THEN closed \ {m} ELSE closed \cup {m}
  /\ UNCHANGED <<entered, pending, booked, reserve, job>>

\* runDepreciation: the list of pending rows up to the cutoff
BeginRun(s, cutoff) ==
  LET due == {r \in pending : MonthOf(r) <= cutoff} IN
  /\ job[s] = NoJob
  /\ due # {}
  /\ job' = [job EXCEPT ![s] = [NoJob EXCEPT !.pc = "check", !.list = due]]
  /\ UNCHANGED <<entered, pending, closed, booked, reserve>>

\* Mutant of CheckRow: a row of a closed month is skipped, the run goes on.
MutantSkipsClosed(s) ==
  /\ job[s].pc = "check"
  /\ \E r \in job[s].list :
       /\ \A q \in job[s].list : MonthOf(r) <= MonthOf(q)
       /\ job' = [job EXCEPT ![s] =
            IF MonthOf(r) \in closed
            THEN [@ EXCEPT !.list = @ \ {r}, !.pc = IF job[s].list = {r} THEN "commit" ELSE "check"]
            ELSE [@ EXCEPT !.pc = "book", !.list = @ \ {r}, !.done = @ \cup {r}]]
  /\ UNCHANGED <<entered, pending, closed, booked, reserve>>

\* The engine's period check for a next row of the list, by month.
CheckRow(s) ==
  /\ job[s].pc = "check"
  /\ \E r \in job[s].list :
       /\ \A q \in job[s].list : MonthOf(r) <= MonthOf(q)
       /\ job' = [job EXCEPT ![s] =
            IF MonthOf(r) \in closed THEN NoJob
            ELSE [job[s] EXCEPT !.pc = "book", !.list = @ \ {r}, !.done = @ \cup {r}]]
  /\ UNCHANGED <<entered, pending, closed, booked, reserve>>

\* Mutant of NumberFree: the number is taken in a transaction of its own, which waits
\* for the one that holds the sequence, its run's own included.
MutantOwnTransaction(s) == \A t \in DepreciationRuns : ~job[t].locked
NumberFree(s) == \A t \in DepreciationRuns \ {s} : ~job[t].locked

\* The row's journal entry, once no other run holds the number sequence; the
\* run keeps it from its first row to its end.
BookRow(s) ==
  /\ job[s].pc = "book"
  /\ NumberFree(s)
  /\ job' = [job EXCEPT ![s].locked = TRUE, ![s].pc = IF job[s].list = {} THEN "commit" ELSE "check"]
  /\ UNCHANGED <<entered, pending, closed, booked, reserve>>

\* Mutant of Commit: the rows stay pending.
MutantStaysPending(s) ==
  /\ job[s].pc = "commit"
  /\ booked' = [r \in Rows |-> booked[r] + IF r \in job[s].done THEN 1 ELSE 0]
  /\ job' = [job EXCEPT ![s] = NoJob]
  /\ UNCHANGED <<entered, pending, closed, reserve>>

Commit(s) ==
  /\ job[s].pc = "commit"
  /\ pending' = pending \ job[s].done
  /\ booked' = [r \in Rows |-> booked[r] + IF r \in job[s].done THEN 1 ELSE 0]
  /\ reserve' = [a \in Assets |-> reserve[a] + SumFunctionOnSet(
       [i \in Months |-> IF <<a, i>> \in job[s].done THEN AmountOf(<<a, i>>) ELSE 0],
       Months)]
  /\ job' = [job EXCEPT ![s] = NoJob]
  /\ UNCHANGED <<entered, closed>>

AbortJob(s) ==
  /\ job[s] # NoJob
  /\ job' = [job EXCEPT ![s] = NoJob]
  /\ UNCHANGED <<entered, pending, closed, booked, reserve>>

NextDepreciation ==
  \/ \E a \in Assets : EnterAsset(a)
  \/ \E m \in Closing : SetPeriod(m)
  \/ \E s \in DepreciationRuns :
       \/ \E cutoff \in Months : BeginRun(s, cutoff)
       \/ CheckRow(s)
       \/ BookRow(s)
       \/ Commit(s)
       \/ AbortJob(s)

DepreciationSpec == InitDepreciation /\ [][NextDepreciation]_depreciationVars

\* A request goes on by itself, and PostgreSQL grants the lock of the sequence in the
\* order in which it was asked for, so that a run is not passed over for ever; that
\* anything is entered, opened, closed, started or fails is not assumed.
Fairness ==
  \A s \in DepreciationRuns : WF_depreciationVars(CheckRow(s)) /\ SF_depreciationVars(BookRow(s)) /\ WF_depreciationVars(Commit(s))

FairSpec == DepreciationSpec /\ Fairness

-----------------------------------------------------------------------------
(***************************************************************************)
(* Properties.                                                             *)
(***************************************************************************)
BookedMonths(a) == {i \in 1..Asset[a].life : booked[<<a, i>>] > 0}

\* Nothing is skipped: however the runs, their cutoffs and closed periods
\* interleave, the booked months of an asset are its first ones, and exactly
\* those that are no longer pending.
BookedWithoutGaps ==
  \A a \in entered :
    /\ \A i \in BookedMonths(a), j \in 1..Asset[a].life : j < i => j \in BookedMonths(a)
    /\ \A i \in 1..Asset[a].life : i \in BookedMonths(a) <=> <<a, i>> \notin pending

\* A row is booked again only by runs that had read it as pending: at most once
\* for each session.
RepeatsAreRaces == \A r \in Rows : booked[r] <= Cardinality(DepreciationRuns)

\* When the schedule is used up the reserve is the depreciable amount to the
\* cent, and once more what racing runs booked twice: the asset has come exactly
\* to its residual value, though no month's amount is exact.
FullyDepreciated ==
  \A a \in entered : (\A r \in pending : r[1] # a) =>
    reserve[a] = Asset[a].amount
      + SumFunctionOnSet([i \in Months |-> IF <<a, i>> \in Rows
                                THEN (booked[<<a, i>>] - 1) * AmountOf(<<a, i>>) ELSE 0],
              Months)

\* Every run comes to its end, although it keeps the one sequence row that all
\* postings need from its first row to its last and periods close under it.
RunsEnd == \A s \in DepreciationRuns : job[s] # NoJob ~> job[s] = NoJob

(***************************************************************************)
(* The inductive invariant behind the proofs of DepreciationProofs.        *)
(***************************************************************************)
DepreciationTypeOK ==
  /\ entered \subseteq Assets /\ pending \subseteq Rows
  /\ booked \in [Rows -> Nat] /\ reserve \in [Assets -> Int]
  /\ job \in [DepreciationRuns -> [pc : {"idle", "check", "book", "commit"},
                            list : SUBSET Rows, done : SUBSET Rows, locked : BOOLEAN]]

\* Row q is an earlier month of row r's asset.
Before(q, r) == q[1] = r[1] /\ q[2] < r[2]

\* The rows are those of the entered assets; the booked ones are those that are
\* not pending, and the first ones.
RowsOK ==
  /\ \A r \in Rows : r \in pending \/ booked[r] > 0 => r[1] \in entered
  /\ \A r \in Rows : r[1] \in entered => (booked[r] > 0 <=> r \notin pending)
  /\ \A q, r \in Rows :
       Before(q, r) /\ r[1] \in entered /\ r \notin pending => q \notin pending

\* The list a run has read; it leaves out no earlier month that is pending, and
\* is booked completely when the run commits.
Read(s) == job[s].list \cup job[s].done
RunOK(s) ==
  /\ \A r \in Read(s) : r[1] \in entered
  /\ \A r \in Read(s), q \in Rows : Before(q, r) => q \in Read(s) \/ q \notin pending
  /\ job[s].pc = "commit" => job[s].list = {}

\* A row has been booked once for each session at most, those left out that
\* may still book it.
Readers(r) == {s \in DepreciationRuns : r \in Read(s)}
RepeatsOK == \A r \in Rows : booked[r] + Cardinality(Readers(r)) <= Cardinality(DepreciationRuns)

\* The reserve is what the entries have put into it.
Charges(a) == [i \in Months |-> IF <<a, i>> \in Rows
                                THEN booked[<<a, i>>] * AmountOf(<<a, i>>) ELSE 0]
ReserveOK == \A a \in Assets : reserve[a] = SumFunctionOnSet(Charges(a), Months)

DepreciationInv ==
  /\ DepreciationTypeOK /\ RowsOK /\ RepeatsOK /\ ReserveOK
  /\ \A s \in DepreciationRuns : RunOK(s)
=============================================================================
