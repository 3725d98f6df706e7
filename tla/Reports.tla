------------------------------ MODULE Reports -------------------------------
(***************************************************************************)
(* Financial reports: the balance sheet, read from gl_account_balances in  *)
(* two statements of one READ COMMITTED transaction, the MIS dashboard,    *)
(* read in three transactions, and the general ledger, read from the       *)
(* journal entry lines, while entries are posted and reversed and accounts *)
(* are put in other MIS categories; and the report of a budget against the *)
(* balances of its fiscal year.  Reports do not disturb each other, so one *)
(* at a time is under way.                                                 *)
(*                                                                         *)
(* A balance is debit - credit.  How an entry comes to be posted is module *)
(* Ledger's; here posting is the one step in which it becomes visible, and *)
(* as there the lines of an entry need not add up to exactly zero.         *)
(***************************************************************************)
EXTENDS Integers, Sequences, FiniteSets, FiniteSetsExt

CONSTANTS
  Chart,       \* the chart of accounts
  AccountType, \* asset, liability, equity, income or expense
  ControlType, \* their control_type or "none", which nothing changes
  Depreciation,\* the account of code 6100
  Starter,     \* their mis_category when the company was created
  Categories,  \* the categories an update may give them
  Postings,    \* what may be posted: the balance each account gets
  Periods,     \* accounting periods, in the order of their end dates
  Year,        \* the fiscal year of each of them
  Budgets,     \* the budgets users may enter: a fiscal year and lines, each with an
               \* account and an amount (the month and cost centre count for nothing here)
  Edited,      \* bound: the accounts whose category is updated
  MaxEntries   \* bound: journal entries posted

ProfitAndLoss == {"REVENUE", "COGS", "OPEX"}

ASSUME ReportsAssumption ==
  /\ AccountType \in [Chart -> {"asset", "liability", "equity", "income", "expense"}]
  /\ Depreciation \in Chart /\ AccountType[Depreciation] = "expense"
  /\ IsFiniteSet(Chart) /\ IsFiniteSet(Periods)
  /\ Periods \subseteq Nat /\ Edited \subseteq Chart /\ DOMAIN Year = Periods
  /\ \A b \in Budgets : b.lines \in Seq([account : Chart, amount : Int])
  /\ Postings \subseteq [Chart -> Int]

VARIABLES
  entries,  \* the posted journal entries: lines, period and status
  gl,       \* gl_account_balances of each period
  category, \* mis_category of each account
  budgets,  \* the budgets entered
  report,   \* the last report, or the one being computed
  between   \* history: what was posted in its range since its first read

reportsVars == <<entries, gl, category, budgets, report, between>>

NoReport == [step |-> "none"]
InProgress == report.step \in {"profit", "controls", "depreciation"}

Sum(balances, over) == SumFunctionOnSet(balances, over)

(***************************************************************************)
(* SELECT SUM(...) FROM gl_account_balances: what the periods within the   *)
(* dates hold of each account; from is 0 where only the end is asked for.  *)
(***************************************************************************)
Within(p, from, to) == from <= p /\ p <= to
Dated(from, to) == {p \in Periods : Within(p, from, to)}
BalanceOf(ps) == [a \in Chart |-> SumFunction([p \in ps |-> gl[p][a]])]
Held(from, to) == BalanceOf(Dated(from, to))

\* For the properties: what the entries of the periods are out of balance by, each of
\* them by what the check of its unrounded amounts lets through.
Imbalance(ps) ==
  SumFunction([i \in DOMAIN entries |->
    IF entries[i].period \in ps THEN Sum(entries[i].lines, Chart) ELSE 0])

OfType(types) == {a \in Chart : AccountType[a] \in types}
InProfit == {a \in Chart : category[a] \in ProfitAndLoss}

\* Mutant of NetProfit: operating expenses are left out.
MutantGross(from, to) == -Sum(Held(from, to), {a \in InProfit : category[a] # "OPEX"})

\* profitAndLossTotals: credit - debit of revenue less debit - credit of the rest
NetProfit(from, to) == -Sum(Held(from, to), InProfit)

\* What a profit and loss has too little or too much of for accounts whose
\* category is not what their type says.
Misfiled(from, to) ==
  Sum(Held(from, to), InProfit \ OfType({"income", "expense"}))
  - Sum(Held(from, to), OfType({"income", "expense"}) \ InProfit)

\* Mutant of GeneralLedger: the lines of reversed entries count too.
MutantAllEntries(p, a) ==
  SumFunction([i \in {j \in DOMAIN entries : entries[j].period = p} |-> entries[i].lines[a]])

\* generalLedger: the lines of an account in posted entries
Listed(p, state) == {i \in DOMAIN entries : entries[i].period = p /\ entries[i].status = state}
GeneralLedger(p, a) == SumFunction([i \in Listed(p, "posted") |-> entries[i].lines[a]])

-----------------------------------------------------------------------------
ReportsInit ==
  /\ entries = <<>>
  /\ gl = [p \in Periods |-> [a \in Chart |-> 0]]
  /\ category = Starter
  /\ budgets = {}
  /\ report = NoReport
  /\ between = [a \in Chart |-> 0]

Book(p, lines) ==
  /\ Len(entries) < MaxEntries
  /\ gl' = [gl EXCEPT ![p] = [a \in Chart |-> @[a] + lines[a]]]
  /\ between' = IF InProgress /\ Within(p, report.from, report.to)
                THEN [a \in Chart |-> between[a] + lines[a]] ELSE between
  /\ UNCHANGED <<category, budgets, report>>

Post(p, lines) ==
  /\ Book(p, lines)
  /\ entries' = Append(entries, [lines |-> lines, period |-> p, status |-> "posted"])

\* AccountingEngineService.reverse, on a date of period p
Reverse(i, p) ==
  LET mirror == [a \in Chart |-> -entries[i].lines[a]] IN
  /\ entries[i].status = "posted"
  /\ Book(p, mirror)
  /\ entries' = Append([entries EXCEPT ![i].status = "reversed"],
                       [lines |-> mirror, period |-> p, status |-> "posted"])

\* ChartOfAccountsService.update
Categorise(a, c) ==
  /\ category' = [category EXCEPT ![a] = c]
  /\ UNCHANGED <<entries, gl, budgets, report, between>>

\* The first read of a report, and a later one.
Begin(r) ==
  /\ ~InProgress
  /\ report' = r
  /\ between' = [a \in Chart |-> 0]
  /\ UNCHANGED <<entries, gl, category, budgets>>
Go(step, r) ==
  /\ report.step = step
  /\ report' = r
  /\ UNCHANGED <<entries, gl, category, budgets, between>>

\* balanceSheet, the first statement: by account type
ReadAccounts(date) ==
  LET held == Held(0, date) IN
  Begin([step |-> "profit", from |-> 0, to |-> date,
         assets |-> Sum(held, OfType({"asset"})),
         liabilities |-> -Sum(held, OfType({"liability"})),
         equity |-> -Sum(held, OfType({"equity"})),
         imbalance |-> Imbalance(Dated(0, date))])

\* balanceSheet, the second statement: by category
ReadProfit ==
  Go("profit", [step |-> "sheet", totalAssets |-> report.assets,
                totalLiabilities |-> report.liabilities,
                totalEquity |-> report.equity + NetProfit(0, report.to),
                misfiled |-> Misfiled(0, report.to), imbalance |-> report.imbalance])

\* dashboard, the first transaction: profitAndLoss of the dates asked for; for
\* the properties, what it misses, and the part of it that is depreciation
ReadProfitAndLoss(from, to) ==
  Begin([step |-> "controls", from |-> from, to |-> to, netProfit |-> NetProfit(from, to),
         misfiled |-> Misfiled(from, to),
         deducted |-> Sum(Held(from, to), InProfit \cap {Depreciation}),
         depreciation |-> Held(from, to)[Depreciation]])

\* debit - credit up to the end of the dates, whatever their start
OfControl(type) == Sum(Held(0, report.to), {a \in Chart : ControlType[a] = type})
Working == {"BANK", "AR", "INVENTORY", "AP"}

\* What is tied up in other accounts than these, less what income and expense
\* accounts that a user has tagged like one of them hold.
Elsewhere(held) ==
  Sum(held, {a \in OfType({"asset", "liability", "equity"}) : ControlType[a] \notin Working})
  - Sum(held, {a \in OfType({"income", "expense"}) : ControlType[a] \in Working})

\* dashboard, the second one: controlBalances and the working capital; for the
\* properties, what is tied up elsewhere and what was booked since the first
ReadControls ==
  Go("controls", [step |-> "depreciation", from |-> report.from, to |-> report.to,
    profit |-> report,
    workingCapital |-> OfControl("BANK") + OfControl("AR") + OfControl("INVENTORY")
                       - -OfControl("AP"),
    elsewhere |-> Elsewhere(Held(0, report.to)),
    imbalance |-> Imbalance(Dated(0, report.to)),
    since |-> Sum(between, OfType({"income", "expense"}))])

\* Mutant of AddedBack: all depreciation, up to the end of the dates.
MutantAllDepreciation == Held(0, report.to)[Depreciation]

\* dashboard, the third one: accountCodeBalance, added back to the profit
AddedBack == Held(report.from, report.to)[Depreciation]
ReadDepreciation ==
  Go("depreciation", [step |-> "dashboard", capital |-> report,
                      ebitda |-> report.profit.netProfit + AddedBack])

\* BudgetsService.create
EnterBudget(b) ==
  /\ budgets' = budgets \cup {b}
  /\ UNCHANGED <<entries, gl, category, report, between>>

Budgeted(b, a) ==
  SumFunction([i \in {j \in DOMAIN b.lines : b.lines[j].account = a} |-> b.lines[i].amount])
OfYear(year) == {p \in Periods : Year[p] = year}
Actual(b, a) == BalanceOf(OfYear(b.year))[a]

\* Mutant of Compared: only the accounts that have a budget are compared.
MutantBudgetedOnly(b) == {b.lines[i].account : i \in DOMAIN b.lines}

\* The accounts of a report: those with a line of the budget and those with a balance
\* (one whose balances are all zero makes no difference).
Compared(b) == {b.lines[i].account : i \in DOMAIN b.lines} \cup {a \in Chart : Actual(b, a) # 0}

\* varianceReport: budgets do not change, so its reads are one
VarianceReport(b) ==
  /\ b \in budgets
  /\ Begin([step |-> "variance", budget |-> b,
            rows |-> [a \in Compared(b) |-> Actual(b, a) - Budgeted(b, a)],
            imbalance |-> Imbalance(OfYear(b.year))])

ReportsNext ==
  \/ \E p \in Periods, lines \in Postings : Post(p, lines)
  \/ \E i \in DOMAIN entries, p \in Periods : Reverse(i, p)
  \/ \E a \in Edited, c \in Categories : Categorise(a, c)
  \/ \E date \in Periods : ReadAccounts(date)
  \/ ReadProfit
  \/ \E from \in Periods, to \in Periods : from <= to /\ ReadProfitAndLoss(from, to)
  \/ ReadControls
  \/ ReadDepreciation
  \/ \E b \in Budgets : EnterBudget(b) \/ VarianceReport(b)

ReportsSpec == ReportsInit /\ [][ReportsNext]_reportsVars

-----------------------------------------------------------------------------
(***************************************************************************)
(* Properties.                                                             *)
(***************************************************************************)
\* A balance sheet is off by exactly three things: the income and expenses posted
\* between its two statements, the balances of accounts whose category is not what
\* their type says, and what the entries it found at its first statement are out of
\* balance by themselves.  Where none of them happens it balances.
SheetOffset ==
  report.step = "sheet" =>
    report.totalAssets - (report.totalLiabilities + report.totalEquity)
      = Sum(between, OfType({"income", "expense"})) + report.misfiled + report.imbalance

\* The ebitda of a dashboard is the net profit before the depreciation deducted
\* from it, off by exactly the depreciation booked into its dates after its
\* first read and the depreciation it adds back but never deducted.
EbitdaOffset ==
  report.step = "dashboard" =>
    LET p == report.capital.profit IN
    report.ebitda = (p.netProfit + p.deducted) + between[Depreciation]
                    + (p.depreciation - p.deducted)

\* The working capital of a dashboard over all dates is its net profit less what
\* is tied up in other accounts, off by exactly what was booked between its first
\* two reads, what its profit and loss misses and what the entries are out of
\* balance by.
CapitalIs(c) ==
  (\A p \in Periods : c.from <= p) =>
    c.workingCapital
      = c.profit.netProfit - c.elsewhere - c.since + c.profit.misfiled + c.imbalance
WorkingCapitalOffset == report.step = "dashboard" => CapitalIs(report.capital)

\* A dashboard is off in these two figures by exactly what was posted between its
\* transactions, what is filed under a wrong category and, in the second one, what
\* the entries are out of balance by.
DashboardOffset == EbitdaOffset /\ WorkingCapitalOffset

\* The variances of a report, favourable and not, add up to the budget that was not
\* spent, but for what the entries of the fiscal year are out of balance by: whatever
\* was posted and reversed in it or into it from another year, no account that moved
\* is left out.
VarianceAddsUp ==
  report.step = "variance" =>
    LET b == report.budget IN
    Sum(report.rows, DOMAIN report.rows)
      = report.imbalance - SumFunction([i \in DOMAIN b.lines |-> b.lines[i].amount])

\* What the general ledger lacks of the balance of an account in a period are
\* the entries reversed since, whose mirror entries it goes on listing.
GeneralLedgerGap ==
  \A p \in Periods, a \in Chart :
    gl[p][a] - GeneralLedger(p, a)
      = SumFunction([i \in Listed(p, "reversed") |-> entries[i].lines[a]])

-----------------------------------------------------------------------------
(***************************************************************************)
(* The inductive invariant.                                                *)
(***************************************************************************)
Entry == [lines : [Chart -> Int], period : Periods, status : {"posted", "reversed"}]
ReportsTypeOK ==
  /\ entries \in Seq(Entry)
  /\ gl \in [Periods -> [Chart -> Int]]
  /\ budgets \subseteq Budgets
  /\ between \in [Chart -> Int]

\* The balances of any periods are out of balance by what their entries are.
BooksBalance == \A ps \in SUBSET Periods : Sum(BalanceOf(ps), Chart) = Imbalance(ps)

\* A balance is the sum of the lines of all entries of its period.
InPeriod(p, a) ==
  [i \in DOMAIN entries |-> IF entries[i].period = p THEN entries[i].lines[a] ELSE 0]
BalancesAreOfEntries == \A p \in Periods, a \in Chart : gl[p][a] = SumFunction(InPeriod(p, a))

\* Between its two statements a balance sheet lacks the income and expenses as
\* they were at the first one.
SheetUnderWay ==
  report.step = "profit" =>
    /\ report.from = 0 /\ report.to \in Nat
    /\ report.assets \in Int /\ report.liabilities \in Int /\ report.equity \in Int
    /\ report.imbalance \in Int
    /\ report.assets - (report.liabilities + report.equity)
         = report.imbalance + Sum(between, OfType({"income", "expense"}))
           - Sum(Held(0, report.to), OfType({"income", "expense"}))

\* The profit and loss of a dashboard, from the moment it was read.
ProfitIs(r) ==
  /\ r.netProfit \in Int /\ r.misfiled \in Int /\ r.deducted \in Int /\ r.depreciation \in Int
  /\ r.depreciation = Held(report.from, report.to)[Depreciation] - between[Depreciation]
DatesKnown == report.from \in Nat /\ report.to \in Nat
ControlsToRead ==
  report.step = "controls" =>
    /\ DatesKnown /\ ProfitIs(report)
    /\ report.netProfit + report.misfiled
         = Sum(between, OfType({"income", "expense"}))
           - Sum(Held(report.from, report.to), OfType({"income", "expense"}))

\* The same once the working capital has been read, too.
DepreciationToRead ==
  report.step = "depreciation" =>
    DatesKnown /\ ProfitIs(report.profit) /\ CapitalIs(report)

ReportsInv ==
  /\ ReportsTypeOK /\ BooksBalance /\ BalancesAreOfEntries
  /\ SheetUnderWay /\ ControlsToRead /\ DepreciationToRead
  /\ SheetOffset /\ DashboardOffset /\ VarianceAddsUp
=============================================================================
