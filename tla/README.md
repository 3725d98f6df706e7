# OmniERP: a TLA+ development of the accounting back end

OmniERP is a multi-tenant accounting and ERP back end: NestJS services over
Prisma and PostgreSQL (`src/backend`), with an architecture document and phase
notes beside it (`src/docs`, `src/backend/README.md`). These modules specify the
parts of it where several requests meet on shared tables, model-check them on
small instances, and prove every safety property of them, the ledger's
refinement of its abstract specification included, for every instance.

    tlc -config LedgerSafety.cfg MCLedger.tla      # check a model
    tlapm LedgerProofs.tla                         # check the proofs

## 1. The system

### How a request runs

Every handler runs in one `TenantPrismaService.run` transaction
(`common/prisma/tenant-prisma.service.ts:44`), which is an interactive Prisma
transaction at PostgreSQL's default level, READ COMMITTED. That fixes how all
modules cut the code into steps:

* each SELECT sees what is committed when it runs, so two reads of one handler
  may see different states, and what was read may be replaced before the write;
* writes become visible to others together, at the commit;
* an UPDATE, an upsert and `SELECT ... FOR UPDATE` lock their rows until the
  transaction ends, wait for another holder, and then act on the row's *latest*
  version; triggers run on that version too;
* a transaction can end without effect at any point before its commit: an
  exception, a constraint, the transaction timeout, a deadlock victim, a crash.

In the modules a *session* is one such handler under way. Its record holds the
locals the code holds (what it has read), so a stale read is a stale read in the
model. Handlers whose interleaving cannot be told apart from one step are one
action. `Abort` is the rollback.

### Components

| Component | State | Operations | What makes it correct | Module |
|---|---|---|---|---|
| Accounting engine, journal entries | `journal_entries`, lines, `gl_account_balances` | `postEvent`, `create`, `submit`, `approve`, `post`, `reverse` | balances are the sum of the booked entries; a booked entry is never edited; one reversal per entry, its mirror | `Ledger`, `AbstractLedger`, `DoubleEntry` |
| Numbering | `document_number_sequences` | `next` | numbers distinct and gapless although the first is taken without a lock | `Ledger` |
| Periods, fiscal years | `fiscal_years`, `accounting_periods` | `setPeriodStatus`, `createNextFiscalYear` | a closed period is sealed; every day has its period | `Ledger`; `Tenancy` with `FiscalCalendar` |
| Sales, purchasing | quotations, orders, requests, invoices, receipts, payments, notes, `amount_paid` | create, submit, approve, post | control and tax accounts tie out to the documents; nothing is booked twice without a race | `Subledgers` |
| Inventory | `stock_moves`, `stock_balances`, receipts, deliveries, counts | `recordStockIn`, `recordStockOut`, `recordAdjustment`, create, post | quantity and value follow the moves; no negative stock; no document moved by half | `Inventory` |
| Banking | statement lines | import, `approveMatch`, `ignoreLine`, payments entered and posted by hand | what a line is reconciled to is booked; no second booking, however payments entered by hand come between | `BankReconciliation` |
| Fixed assets | assets, schedules | create, `runDepreciation` | no month skipped; residual value reached to the cent; every run ends | `Depreciation` |
| Consolidation | intercompany transactions, exchange rates, runs with lines | create, match, enter a rate, create run, finalize | eliminations are in the seller's books, but for trades matched while they were not; a final run lacks no trade but those matched too late for it | `Consolidation` |
| Payroll | salary structures, runs, payslips | create structure, create run, approve, post | payslips from the structure in force; books hold the payslips; a run is booked once | `Payroll` |
| Reports, MIS dashboard, chart of accounts, budgets | `mis_category`, `budgets` | `balanceSheet`, `generalLedger`, `dashboard`, update of a category, create a budget, `variance` | the sheet balances; the figures of a dashboard fit together; a variance counts every account once | `Reports` |
| Audit trail, kernel and master data | `audit_logs` with row hashes, one table for each service | create, update, revoke | last row shows the present value; one beginning and one end of a row; unique keys; links lead back | `AuditTrail` |
| Sign-up, authentication | `tenants`, `users`, `refresh_tokens` | `signup`, `login`, `refresh`, `logoutEverywhere` | a tenant has its Owner or nobody; a refresh token is exchanged once | `Tenancy` |
| Users, roles, company access, guard | `users`, `roles`, `role_permissions`, `user_company_access` | invite, set status, create role, add and remove permissions, grant, revoke, the guard before each handler | nobody but a tenant's own users changes its Owner | `Tenancy` |
| Company provisioning | posting rules, first fiscal year | create company | the first year is there with the company; rules balance | `Tenancy`; data in `Subledgers`, `Payroll` |
| Integrations | none | CSV bank feed, stubs | — | not modelled |

Interaction: every module that books calls `AccountingEngineService.postEvent`
inside its own transaction, which takes the company's lock on the journal number
sequence and keeps it to the commit. `post` and `reverse` go through the same
balance upsert. `Reports`, consolidation and depreciation only see
`gl_account_balances` and the entries. Bank reconciliation calls the receipt and
payment services, each call a transaction of its own. Every handler behind a
permission comes after `PermissionsGuard`, which reads the grants in a
transaction that is over when the handler's begins. There are no messages or
callbacks between components: they meet in the tables.

### What is hard here

* State read before the write it justifies: document statuses, period status,
  stock balances, the latest fiscal year, the last audit row. Some of it is
  protected by a lock or a trigger, some by nothing; `PROJECT.json` lists each
  place under `hazards`.
* Locks taken in an order the documents choose (stock rows), and one hot lock
  (the number sequence) with no row to lock before the first document.
* `approveMatch`, four transactions with nothing around them; sign-up, three, on
  two connections; `refresh`, a read, an update and an insert; the guard and its
  handler.
* Unique indexes that make an insert wait for another transaction's row, and one
  (on grants) that does not see rows without a company.
* Rounding: two-decimal schedules, four-decimal average cost, a balance check with a
  tolerance of a cent on amounts that are rounded row by row afterwards.
* Steps nothing forbids: a reversal of a reversal, a journal by hand on a control or
  payroll account, a match of a trade nobody booked, a grant on another tenant's role.
* Reads spread over several statements: the balance sheet, the dashboard,
  consolidation runs, payroll runs, the lines of a stock count.

## 2. The modules

### Ledger

`DoubleEntry` holds what is asked for and what is stored of it. The DTO and the
posting rules give amounts without a limit on decimals, of either sign, so a request
is a sequence of rows whose amounts are counted in units, `Unit` of them to the cent.
`Accepts` checks the sums of these, with the tolerance; `Stored` then rounds each row
to the cents of its `Decimal(18,2)` column (`Cents`), and keeps the totals per account
and side and the number of rows. What is stored can therefore be off by more than was
accepted. Besides there are the mirror of a reversal and the increment of the
balances. `Ledger` has one action per read or commit of the
handlers: `Begin*` are the first reads with their checks, `ReadPeriod` the later
read of the period, `TakeNumber` the `SELECT ... FOR UPDATE` (with the unlocked
case before the first document), `Commit*` the writes, `Reject` a statement that
the immutability trigger or the unique index refuses. `SetPeriodStatus` may
come between any two of them. The immutability trigger is taken from its last
migration (`20260827005400`).

`AbstractLedger` is the promise: an append-only book in which a posting is
recorded, or taken back by its mirror once, in one step together with the
balances. `Ledger!ImplementsBook` maps the booked entries to that book; sessions,
the workflow before posting, numbers and period control are stuttering.

The period a handler posts into, its rows, and the rule behind them are chosen
freely from `Requests` and `Periods`: whatever the users and modules send. `Postable`
are the lines stored of the requests that pass the check.

### Subledgers

The ten services are one handler with different parameters (`Service`): the
status a document starts in, its transitions, the status `post` asks for, the
starter posting rule, and the kind of invoice settled. Quotations, orders and
purchase requests have no rule and are never posted. Line totals and tax are
computed as `create` does, line by line with `round2` at the rate in effect on
the document's date. (`round2` works on doubles and may miss an exact half; the
model rounds it up, and `TaxWithinHalfCent` allows either.) A document's contents
never change, so they are chosen at the start from `Books`. Tables of documents have no trigger and `post` no lock, so a
handler commits what it had checked: `status` can move back, a document can be
booked twice, and an invoice can be overpaid, because nothing compares allocations
with what is outstanding.

Behind the documents' back a user can reverse an entry (`ReverseEntry`), reverse the
reversal, which is a posted entry like any other, and so on (`ReverseReversal`; both
only say how many bookings of a document are undone just now), and write journals on
the same accounts (`PostJournal`, kept apart in `manual`). The properties say what is
true all the same, exactly. `ControlTiesOut` and `TaxWithinHalfCent` are of the
accounts without the manual journals (`FromDocs`) and count every repetition, reversal
and reversal of a reversal. `PaidBeyondByRepeats` says that what an invoice counts as
paid is what its posted payments and notes allocate to it, and beyond that only what
posting these again has added. `raced` is history: documents that two requests have
worked on at once. No other document is booked twice (`BookedTwiceInRacesOnly`, a part of
`RepeatsAreRaces`), though a late submit or approve may take a posted invoice back to
where it can be posted.

### Inventory

Posting goes through the lines in order: `ReadBalance` (no lock), then
`Receive`, `Deliver` or `Adjust`, which write absolute values from what was read
and lock the row; `Commit` publishes the session's own rows. `Victim` is the
deadlock detector. A stock count is created in steps too (`BeginCount`,
`Capture`, `CreateCount`), since it reads its rows one by one, and keeps the quantity
it captured for each line. The costs that bound a row's average
(`AverageWithinCosts`) are those of the posted receipts of the row. `raced` is a history variable: the rows for which some
committed write was computed from a balance that had changed since it was read.
The properties about sums are stated of the other rows, so they hold of racing
executions without hiding the race: any *other* way to lose a move is caught.

### BankReconciliation

The transactions of `approveMatch` are actions of their own, and that of `post` is
two: `ReadPayment` checks the status without a lock, `PostPayment` books; `Fail` ends
the request between any two. Users enter payments and notes by hand on the same
invoices (`EnterPayment`; `HandMade` has what they enter, and such a payment has no
line) and post these and the drafts that approvals left (`ReadByHand`, `PostByHand`),
so one payment can be booked twice here as well. Matching scores invoices as the code
does and takes any of the best.

History: `lost` and `crossed`, payments whose request did not go on after booking (or
that somebody posted by hand), and payments of approvals that began while another of
the same line was under way; `twice`, payments booked again; `before`, and in a payment
`known`, the payments its invoice had when the line was imported or the payment was
entered. Nobody looks at the invoice again before the payment is booked, so
`OverpaidByStaleSuggestions` says what an overpaid invoice comes from: a payment booked
twice, two payments that did not know of each other, or one that was entered for more
than what was left, which an imported line is suggested for only while something is.

### Tenancy and FiscalCalendar

`BeginSignup`, `CreateTenant`, `CreateOwner` and `Issue` are the transactions of a
sign-up and `Fail` ends it (or any other request) between them; `FindToken`,
`RevokeToken` and `Issue` are the statements of a refresh; `Guard` is the guard's
transaction, after which the request is `passed` and may run a handler of the
route it was let through for, whatever has become of the right by then. The guard looks
for a right in the company that path, body or query name, and that may be any company,
of any tenant, on any route (`Bodies`). Handlers of users, roles and grants change
single rows and commit in one step. They do not ask whose rows these are: row-level
security shows them those of the tenant only (`Visible`, `Rows`), but foreign keys see
every row, so `Grant` takes a role and a company of any tenant, and
`createNextFiscalYear` a company of any tenant, whose years it finds and adds among its
own tenant's rows (`Calendars`). A permission code stands for the routes that require
it, and codes that the properties do not tell apart are one in the instance.
`createNextFiscalYear` reads the latest year in one step and inserts the next in
another. History: `abandoned` (tenants whose sign-up failed before it had an
Owner), `revoked` (tenants whose own users have revoked an Owner grant), and in a
token `racing`, the refreshes that had it in hand when it was revoked.

`FiscalCalendar` has the calendar itself: years, their monthly periods with
`Date.UTC`'s arithmetic on days (leap years included), and the year that follows.

### AuditTrail

The services of kernel and master data differ in whether their table has a unique
key and in what they can do to a row after inserting it; `AuditTrail` has them as
a table of services, and one handler: an insert that waits for an uncommitted
row of the same key, or a read without a lock and then an UPDATE or DELETE that
locks the row and fails when it has gone; the insert into the trail, with the
trigger's unlocked look at the latest row it can see, committed or the transaction's
own; and the commit. A sign-up records two rows in one transaction, one of its user
and one of the tenant (`SignUp`, `Record`, `RecordTenant`), and a login one that
changes nothing (`Login`). `clock` orders the inserts and commits. A hash stands for
the row it was computed from.

The properties of values speak of the rows of create, edit and revoke. What a create
records as the new value is its request, and sign-up and invitation record the e-mail
address only; the rest of such a row is what the columns' defaults make it, which is
how the model has it.

### Depreciation, Consolidation, Payroll, Reports

* `Depreciation`: the schedule in cents with the remainder in the last month;
  runs read the pending rows once and book them in month order, each after a
  check of its period; the lock of the number sequence is taken with the first
  booking and kept to the end, so racing runs book one after the other.
* `Consolidation`: a run reads the matched trades once, then each company's books
  and the rate in effect in a transaction of its own, while the companies post
  and rates are entered; `match` and `finalize` check and write apart. Nothing compares
  a trade with the books: it may be recorded and matched before either side has booked
  it (`PostSide`), without, or when the entry has been reversed (`TakeBack`). `late` and
  `bare` are history: the trades a run cannot have seen, and those that were matched
  while the seller's books did not hold them. A company's books are its intercompany
  account and the rest.
* `Payroll`: a run reads the employees, then each one's structure in force, while
  structures are entered and employees come and go; several runs may cover the
  same period; `approve` and `post` check and write apart. As in `Subledgers` an entry
  can be reversed, and its reversal too, while the run stays posted (`undone`), and
  journals pay the salaries off or touch the accounts otherwise (`manual`), so
  `LedgerMatchesPayslips` is of the live bookings, beside the journals. `began` (what
  was there when a run was created) and `raced` (runs that two requests worked on at once)
  are history.
* `Reports`: a balance sheet is two statements and a dashboard three transactions
  (profit and loss, control balances, account 6100), with postings, reversals and
  changes of category between them; `between` is history, and so are the parts of
  `report` that the answers do not show. A posting need not balance, as `Ledger` has
  it: each property has a term for the `Imbalance` of what it adds up. A budget's variance is one read of the
  budget and of the balances of its year, which may name different accounts. Users
  tag accounts as they like, so an income or expense account may count as working
  capital too; `Elsewhere` counts what the working capital leaves out, less what such
  accounts hold.

Sums are those of the community modules (`SumFunction`, `SumFunctionOnSet`),
which `TotalsProofs` has the facts about.

Definitions named `Mutant...` stand before the definition they distort: each is a
plausible bug of that code, and the run named for it in `PROJECT.json` fails when
the definition is replaced by it.

## 3. What the runs check

| Run | Instance | Shows |
|---|---|---|
| `LedgerSafety` | 2 sessions, 2 periods, 3 entries, 2 accounts, amounts in half cents: an entry stored two cents off, one refused, one with negative amounts | balances = booked entries, exact reversals, gapless numbers, bounded drift of the trial balance, immutability, sealed periods, refinement of `AbstractLedger` |
| `SubledgersRaces` | 2 handlers, 5 books of 3 documents, each posted up to 3 times and reversed and restored, a journal on two control accounts, 2 tax codes | control accounts tie out, tax within half a cent a line, only overlapping posts repeat a payment and only overlapping requests a document, an invoice is paid beyond its allocations only by repeats |
| `InventoryRaces` | 2 sessions, 2 rows, 4 documents, 3 posts | only races lose moves; value within rounding; never negative; average between the costs posted; every request ends |
| `InventoryLostUpdate` | the same, 4 posts | *violated*: `QuantityInStep`, the header comment's "kept in step the same way" |
| `BankRaces` | 2 sessions, 3 lines, 3 invoices, 2 payments, which may be entered by hand | reconciled lines are booked; a second booking has an overlap, a failure or a hand behind it; finished requests leave nothing on offer; an invoice is overpaid only by repeats, stale suggestions and amounts nobody compared |
| `DepreciationRaces` | 2 runs, 2 assets of 2 and 4 months, 4 months, one closed and reopened | no gaps, repeats only by overlap, residual value to the cent; every run ends |
| `ConsolidationRaces` | 2 sessions, 2 companies and currencies, 2 rates, 2 trades that are booked, taken back, recorded and matched in any order, a run | what is eliminated is in the seller's books, but for trades matched bare; a final run lacks only trades matched too late |
| `ConsolidationSign` | 2 companies, one currency, 1 trade | *violated*: `EliminatesToZero` |
| `PayrollRaces` | 2 sessions, 2 employees, 2 structures, 2 runs of one period with a reversal each, a journal that pays a salary | payslips from the structure in force, a run is booked once unless requests for it overlapped, the accounts hold the payslips of the live bookings beside the journals |
| `ReportsRaces` | 7 accounts, 3 of them recategorised and an expense account tagged as inventory, 2 periods of two years, 2 entries, a posting a cent out of balance, a budget | sheet and dashboard are off by exactly what was posted in between, what is misfiled and what the entries are out of balance; the general ledger by exactly the reversed entries; variances add up to balances and budget |
| `AuditTrailRaces` | 2 sessions, a user that signs up, logs in and is edited, a grant, 2 tax codes of one key, 2 fields, 8 inserts and commits | last row is current, one beginning and one end, old values as read, unique keys, links to rows committed or of the same transaction, forked only by overlaps |
| `TenancyRaces` | 2 sessions, 2 sign-ups for one slug, 2 users each, a role of the tenant's own, a company, 3 years from 2027, 3 tokens | a tenant has its Owner, or nobody; a token has no more successors than refreshes that held it; no year or day is missing (2028 is a leap year) |

### Bounds, and why they suffice

Two sessions are the least at which a read can be overtaken by a write. The
handlers touch each other only through single rows and one lock, so the
interactions are pairwise, with one exception: `LockFree` and the deadlock
detector are written for any number and the proofs of the ledger hold for any
number. Three journal entries allow a reversal of a reversal and a reversal
beside an unrelated entry. Three posts of one document let a third one come
after two that raced. One tax code is in effect on the documents' date and one
only later, and a line total and a line tax fall on a half cent. The inventory documents list two rows in opposite
order, which is the smallest deadlock, and have costs whose average must be
rounded; three posts are two that race and a third that finds what they left.
In the reports two entries are one between the reads and one before, or an entry
and its reversal around a read. The depreciable amounts do not divide by the lives and one of them
(2 cents over 4 months) gives a last instalment below zero. Of the two structures
one is superseded by the other within the period, on its last day. Two
sign-ups and one slug are a race for it; two users of a tenant are its Owner and
one to whom a role is granted and taken away; three tokens are one and two racing
successors. What a request names of another tenant takes two tenants at work, too many
for a run: in `TenancyRaces` the second tenant never gets past its sign-up, and it is
the theorems that speak of the others. Eight ticks of the audit trail's clock allow a sign-up's two inserts, an insert
of an overlapping transaction, their commits, and an edit afterwards, its commit
included. Two payments are enough for two of a bank line, or one of a line and one by
hand, to meet on an invoice. Half cents are the least amounts that are rounded, and
four of them against two cents are stored two cents off, more than the tolerance. Two companies of
which one is in a foreign currency have every combination of rates a line can
have. Symmetry is used for sessions, users, payroll runs, and periods in the
ledger, where nothing tells them apart; it is not used in the runs with a liveness
property. The largest runs have between half a million and seven hundred thousand distinct states.

Deadlock is checked in `LedgerSafety`. In the other modules the system may really
stop: everything has been posted and the bounded requests are used up.

`MaxPostings`, `MaxUndone` and `MaxManual` bound what users may repeat, reverse and
write by hand without end. Quantities are positive in every instance, as the screens
enter them, although the DTOs do not enforce it for every field; amounts are negative
where the code makes them so (posting rules in `LedgerSafety`, the last instalment of
an asset, money out of the bank).

### Fairness

* `Inventory!FairSpec`, for `RequestsEnd`: strong fairness of a session's next
  step, because a step that waits for a row lock is enabled again and again and
  PostgreSQL queues the waiters of a row, so each is served in turn; weak fairness
  of `Victim`, because the deadlock detector runs after `deadlock_timeout` as long
  as the cycle stands.
* `Depreciation!FairSpec`, for `RunsEnd`: weak fairness of a run's own steps
  (`CheckRow`, `Commit`), which nothing but the run itself disables, and strong
  fairness of `BookRow`, which waits for the row of the number sequence in the
  queue of its waiters.

Nothing is assumed of the users (entering, posting, closing and reopening periods,
starting runs) or of failures (`Abort`).

## 4. What is proved

Each module of proofs takes its component's named assumptions (finite sets of
sessions, rows or documents, natural bounds, well-typed data) and nothing else:
the theorems hold for every number of sessions, rows and documents. Two components
that share no state and no name may share a module.

| Module | Theorem | Statement |
|---|---|---|
| `LedgerProofs` | `LedgerInvariant` | `Spec => []LedgerInv` |
| | `TypeCorrect` | `Spec => []TypeOK` |
| | `NumbersCorrect` | `Spec => []NumbersInCommitOrder` |
| | `LedgerIsImmutable` | `Spec => LedgerImmutable` |
| | `ReversalsAreExact` | `Spec => []ReversalExact` |
| | `BalancesAreExact` | `Spec => []GLMatchesLedger` |
| | `TrialBalanceDriftIsBounded` | `Spec => []TrialBalanceDrift` |
| | `LedgerImplementsBook` | `Spec => ImplementsBook`, the refinement of `AbstractLedger` |
| | `ClosedPeriodsAreSealed` | `Spec => ClosedPeriodSealed` |
| `SettlementProofs` (`Subledgers`) | `SubledgerInvariant` | `SubledgerSpec => []SubledgerInv` |
| | `ControlAlwaysTiesOut`, `TaxAlwaysWithinHalfCent`, `RepeatsInRacesOnly`, `PaidBeyondAllocationsByRepeats` | `ControlTiesOut`, `TaxWithinHalfCent`, `RepeatsAreRaces`, `PaidBeyondByRepeats` |
| (`BankReconciliation`) | `BankInvariant` | `Spec => []BankInv` |
| | `ReconciledAlwaysBooked`, `OneSoundPaymentPerLine`, `BookedLinesAreSettled`, `OverpaidOnlyByStaleSuggestions` | `ReconciledIsBooked`, `OnlyRacesAndFailuresDuplicate`, `BookedIsSettled`, `OverpaidByStaleSuggestions` |
| `InventoryProofs` | `InventoryInvariant` | `Spec => [](InventoryInv /\ StockInv)` |
| | `MovesAreLostInRacesOnly`, `StockIsNeverNegative`, `AverageIsAlwaysWithinCosts`, `ValueIsAlwaysInStep` | `OnlyRacesLoseMoves`, `NeverNegative`, `AverageWithinCosts`, `ValueInStep` |
| `MonthEndProofs` (`Payroll`) | `PayrollInvariant` | `Spec => []PayrollInv` |
| | `PayslipsAlwaysUpToDate`, `RunsAreBookedOnce`, `LedgerAlwaysMatchesPayslips` | `PayslipsUpToDate`, `BookedOncePerRun`, `LedgerMatchesPayslips` |
| (`Depreciation`) | `DepreciationInvariant` | `DepreciationSpec => []DepreciationInv` |
| | `SchedulesAreBookedInOrder`, `RepeatsAreBounded`, `AssetsAreFullyDepreciated` | `BookedWithoutGaps`, `RepeatsAreRaces`, `FullyDepreciated` |
| `ReportingProofs` (`Consolidation`) | `ConsolidationInvariant` | `Spec => []ConsolidationInv` |
| | `FinalRunsLackLateMatchesOnly`, `EliminatedWasBooked` | `OnlyLateMatchesMissed`, `EliminationsAreBooked` |
| (`Reports`) | `ReportsInvariant` | `ReportsSpec => []ReportsInv` |
| | `SheetOffByRacesOnly`, `DashboardOffByRacesOnly`, `VariancesAlwaysAddUp`, `GeneralLedgerLacksReversed` | `SheetOffset`, `DashboardOffset`, `VarianceAddsUp`, `GeneralLedgerGap` |
| `AuditTrailProofs` | `AuditInvariant` | `Spec => []AuditInv` |
| | `LastEditIsAlwaysCurrent`, `OneLifeAlways`, `OldValuesAreReads`, `LinksAreAlwaysTrue` | `LastEditIsCurrent`, `OneLife` (unique keys included), `OldValueAsOfRead`, `LinksAreTrue` |
| `TenancyProofs` | `TenancyInvariant` | `Spec => []TenancyInv` |
| | `TenantsAreAlwaysOwned`, `TokensAreExchangedOnce`, `CalendarIsAlwaysWhole` | `TenantsAreOwned`, `ExchangedOnce`, `CalendarIsWhole` |
| | `EveryYearIsTiled` | the periods of every year in range, leap or not, hold each of its days once |

The arguments. None of the properties is inductive alone, because a commit writes
what its session read some steps ago; each invariant adds what makes those old
reads safe, and there is a lemma for each action.

* **Ledger.** `SessionConsistent`: the entry a session works on still exists with
  the same lines and period; a reversal's lines are the mirror of its original's;
  a locked number is the next one and only one session holds the lock; an
  unlocked number is 1. `RowConsistent`: rows fill the table in order, numbered by
  position. The numbers follow directly; `BookStep` says how the booked entries
  may change in any step, which gives immutability and the refinement: `Keeps` is
  a stutter of the book, `AddsEntry` its `Record`, `AddsReversal` its `TakeBack`.
  Reversals and balances are inductive relative to `LedgerInv`: the trigger acting
  on the latest version of the row is what stops a second reversal or post, and
  it is used exactly there. What an accepted request stores is off by the tolerance and half a
  cent a row at most (`StoredIsWithin`). The drift of the trial balance is a sum over
  the entries of what each leaves there, within that bound (`DriftInv`): an entry
  that is reversed leaves nothing any more, and its reversal what then remains of the
  two, which is nothing or its own imbalance (`Leaves`).
* **Subledgers.** `BalancesOK`: a control balance without the journals is the sum of
  the live bookings, whatever the statuses say; a reversal takes one off, its reversal
  puts it back (`ReversalKeeps`). `PaidInStep`: `amount_paid` over the invoices of a
  kind is the sum over the payments, each as often as it was booked; both sums change
  by the same amount in a post because each service settles its own kind of invoice.
  `PaidEach` says so of each invoice, and the first booking of each payment taken out
  of the sum leaves `PaidBeyondByRepeats`. `OverlapInv`: the only request on a document
  began before the document was posted.
  `RacesOK`: the bookings of a payment and the handlers that may still book it are
  never more than the handlers; a handler joins them only while the payment is a
  draft, which it never is again. The half cent is proved line by line
  (`SumWithin`).
* **Inventory.** First the control (`InventoryInv`). `InOrder`: no row has two
  holders, a document is counted by one session while nobody can post it.
  `VersionKept`: a session's own version of a row is the committed one plus its own
  moves, unless the row was stale when it was first written; from then on the lock
  keeps it so. Then quantity and cost (`StockInv`), for rows that are not counted.
  `BaseKept`: what a session saw before its first write was stock at a price within
  the costs paid, whether or not it is still the committed one, so an average computed
  from it is within them, too (`AverageBetween`, rounding included). `ValueKept`:
  each line of a receipt moves the value away from quantity times average by half a
  unit of the average for each piece at most, the other moves not at all.
* **Banking.** `PaymentOK` (a booked payment that is not lost has settled its line
  or its request is about to) and `ApprovalOK` (an approval that no other crossed
  has the line for itself). For overpayment, `PaidOK`: an invoice none of whose
  payments was booked twice counts as paid what these add up to; and `KnownOK`: what
  a payment knew of were payments of its invoice that are booked. Of an invoice's
  payments take one that knew the most others: it knew all, and exceeds what they
  left, or there is a pair that did not know of each other.
* **Payroll.** `SlipsSoFar` (the payslips made so far are up to date against what
  was there when the run began) and `Undisturbed` (a run that no two requests met
  on is as its request found it). Totals are kept beside the payslips and never
  recomputed: `PayrollTotalsInv` has them agree from the first payslip on, and a
  request that creates a run has it to itself whatever else races.
* **Depreciation.** `RunOK`: the list a run has read leaves out no earlier month
  that is pending, and is booked whole when it commits. `RepeatsOK`: the bookings
  of a row and the runs that may still book it are never more than the sessions;
  a run joins them only while the row has no booking. `ReserveOK`: the reserve is
  the sum of what was booked. `ScheduleTotal`: the instalments of a schedule sum
  to its amount, for every amount and life.
* **Consolidation.** `RunOK` and `RequestOK`: the lines made so far eliminate
  exactly the trades in `Seen`, those matched when the run read them. `BookedInv`:
  a seller's books hold the trades it has posted, and a matched trade is among them or
  `bare`, so they cover what a run can eliminate of them but for the bare ones, at
  whatever moment the run reads them.
* **Reports.** `BooksBalance`: the balances of any set of periods are out by what its
  entries are; `BalancesAreOfEntries`. Between the statements of an answer
  (`SheetUnderWay`, `ControlsToRead`, `DepreciationToRead`) what has been read differs
  from the books as they are by `between`, because a posting moves both alike. A
  variance adds up because grouping the lines of a budget by account leaves out none
  of them and counts none twice (`SumFibres`).
* **Audit trail.** A writer holds its row's lock (`HeldOK`), of the rows of a key
  one is taken at most (`OneRow`), and what a session has read is what the trail
  showed at the time (`SessionOK`). `LinkOK` says of each row, from the moment it
  is recorded, that its link leads past everything committed before it and past its
  transaction's own earlier rows; two rows with the same link must then have
  overlapped.
* **Tenants.** `KeysOK` (ids and slugs are keys, users have a tenant) and
  `SessionOK` (a sign-up that is under way has its tenant for itself). A step that
  neither takes an Owner's role nor its grant keeps `HasOwner` (`OwnerStays`);
  `Editable` and `revoked` cover the others: whatever role or company of another tenant
  a grant is about, it is a row of its user's tenant, and only that tenant's requests
  see it. `ExchangeInv`: the successors of a
  token, those about to be issued and the refreshes that still have it in hand are
  never more than those that held it when it was revoked. `YearsInv`: the years of a
  company run from the first to the last, and the copies of one are of requests that
  began before the first of them was there. That every such year is whole rests on
  the months: `MonthsAddUp` has the days before each month of the year, leap or not,
  and `YearAddsUp` those of the whole.

`TotalsProofs` has the facts about sums over finite sets: they are defined
(`SumEquation`, `SumTakeOut`), have a type, agree where the terms agree, add up
(`SumAdd`, `SumTimes`), change by what one term changes (`SumChange`), are bounded by
the bounds of their terms (`SumPart`, `SumOfMore`, `SumWithin`), can be split
(`SumSplit`) and taken group by group (`SumFibres`), and over 1..n they are the running
sum (`SumRunning`). They are proved from the definitions of the community modules
without an induction theorem, by taking a least counterexample (`LeastNatural`,
`MinimalSubset`), which also serves where a latest structure or a least unused id has
to exist.

Each inductive invariant has been checked by TLC in its component's instance before
it was proved.

Only model-checked: the two liveness properties (`RequestsEnd`, `RunsEnd`), because
fairness and ENABLED are out of the prover's reach. Of the two properties that are
violated, TLC's counterexample is the proof. Not proved at all is what
folds over sequences compute for every input beyond what a property says of it; the
sums, which are folds over sets, are the exception made above.

## 5. Where documentation and code differ

Two are runs that exhibit the violation, and are listed as findings:

* **Stock balances are not kept in step.** `inventory.service.ts:18-20` compares
  them with `gl_account_balances`. The latter are incremented in the database; the
  stock balance is read and written back (`:55-77`), so of two overlapping moves
  one is lost (`InventoryLostUpdate`). `OnlyRacesLoseMoves` shows it is the only way.
* **Intercompany eliminations do not cancel.** `00-OMNIERP-ARCHITECTURE.md:709`
  and `test/consolidation.e2e-spec.ts:9-11` ask for eliminations reconciling to
  zero; `consolidation-runs.ts:132` subtracts the amount on both companies though
  the buyer's balance is a credit (`ConsolidationSign`).

The others are visible as the exception a passing property makes:

| Documented | In the code | Property that states the exception |
|---|---|---|
| the engine refuses to post into a closed period, "full stop" (architecture 404-407) | the status is read without a lock before the commit (`accounting-engine.service.ts:85`) | `ClosedPeriodSealed` excepts transactions that had seen it open |
| debits = credits is validated (371-372) | up to a cent is accepted (`:123`, `journal-entries.service.ts:49-58`), and the rows are rounded to `Decimal(18,2)` after that check (`schema.prisma:719-721`) | `TrialBalanceDrift` allows the tolerance and half a cent a row |
| intercompany transactions are of the two companies' entries, and a match is of both (678-682) | create and match take entries and amount unchecked (`intercompany-transactions.ts:59-62`, `:83-91`) | `EliminationsAreBooked` excepts `bare` |
| draft, submitted, approved, posted, reversed (`backend/README.md:37-38`) | `transition` writes unconditioned (`journal-entries.service.ts:236`), so a stale submit takes an approved entry back | `LedgerImmutable` speaks of booked entries only |
| a retried request does not double-post (548-551) | an overlapping post books again (`customer-receipts.ts:115`), or one after an overlapping submit or approve (`sales-invoices.ts:209`) | `RepeatsAreRaces` allows one per handler of a payment, any of an invoice that is `raced` |
| the one gap is a crash (`bank-statements.ts:57-59`) | so are a second approval and `ignoreLine` during an approval (`:148`, `:205`) | `OnlyRacesAndFailuresDuplicate` excepts `crossed`; `BookedIsSettled` allows "ignored" |
| the value summary is kept in step (`inventory.service.ts:18-20`) | a count changes the quantity at an unchanged average (`:168`) | `ValueInStep` speaks of uncounted rows |
| an intercompany mismatch is caught (678-682) | `finalize` looks at unmatched trades, not at trades matched after the run was made (`consolidation-runs.ts:178`) | `OnlyLateMatchesMissed` excepts `late` |
| a payroll run posts exactly one entry (`backend/README.md:62-64`) | `post` has no lock (`payroll-runs.ts:168`) | `BookedOncePerRun` excepts `raced`; `LedgerMatchesPayslips` counts each live booking |
| all reports are of `gl_account_balances` (38-41) | the general ledger is of posted lines (`reports.service.ts:104`) | `GeneralLedgerGap` |
| each audit row hashes the previous one (604-606) | overlapping rows hash the same one | `LinksAreTrue` allows it when the transactions overlapped, and a link to the transaction's own earlier row |
| the audit row has the old value (599-602) | it has the value read before the lock (`departments.service.ts:53`) | `OldValueAsOfRead`; `LastEditIsCurrent` speaks of new values only |
| the next fiscal year is provisioned (`fiscal-periods.service.ts:24`) | overlapping requests insert it twice (`:27`) | `CalendarIsWhole` bounds the copies by the sessions |
| the old refresh token is single-use (`auth.service.ts:170`) | it is found, revoked and replaced in separate statements (`:171`) | `ExchangedOnce` bounds the successors by the refreshes that held it |
| the guard's query is in the same transaction as the request (`permissions.guard.ts:21-22`) | it runs one of its own (`:50`) | none: in `Tenancy` a handler may run on a right that is gone, and the properties hold all the same |
| a matched invoice is a suggestion for an open invoice (`matching-engine.service.ts:38`) | it is not looked at again at approval | `OverpaidByStaleSuggestions` |

## 6. Not modelled

* Account resolution of the posting rules: a rule that names an account the company
  lacks makes `postEvent` refuse, which is `Abort` here. The starter chart of
  accounts is plain inserts.
* The foreign-currency fields of entries, which no computation uses, and the links
  from an order to the documents made from it, which are stored and never read.
* Replacing the items of a price list (`price-lists.ts:71`): a delete and inserts
  in one transaction, of which overlapping requests leave both sets or are refused
  by the unique index; nothing else reads the items.
* Enrolment of one-time codes (`auth.service.ts:179-220`), two writes of one user's
  own row, and its audit rows, which are of `config_change` (`:211-218`) and say
  nothing of the row's values; the Owner's role and grant that a sign-up inserts
  without an audit row; hashing and signing. A wrong password or code, like an expired token, is
  a request that does nothing.
* The policies of row-level security: `Tenancy` shows a handler the rows of its
  tenant, the policies themselves are PostgreSQL's.
* The catalogue of permissions, which is constant in `Tenancy`. A sign-up copies what
  is there at the time (`auth.service.ts:67`), so permissions seeded later are missing
  from the Owner roles of before.
* Entries on an intercompany account that are of no trade, or of another amount than
  the transaction says: `Consolidation` has them as trades that are not booked.
* The ratios, comparison and drill-down of the dashboard, which read the same
  figures again; pagination, list and get endpoints.
* The integration adapters: text parsing and stubs without state.

In `Tenancy`, a grant without a company may be there more than once, because its
unique index does not compare rows without one (`schema.prisma:278`); `Granted`
keeps the copies apart.

## 7. Plan

Done first, because every other module rests on it: the ledger, its refinement
and its proofs; then the modules around it in the order of the table in section 1,
then tenants and access in front of them, then the proofs of each component, until
every safety property of a run had one.

Next, model:

1. `PostingRules`: account resolution and lookup of rules by date, as pure
   operators checked against a reference definition, used by `Ledger` for the
   choice of lines.
2. Price list items, and the enrolment of one-time codes.
3. In `Reports`: period comparison and drill-down.

Next, prove:

1. That the lines of each `Subledgers` posting are among the `Requests` that
   `Ledger` posts, so that the two compose.
2. Abstract specifications for inventory (stock as a bag of moves, for rows that
   do not race) and for the refresh of tokens, refined as the ledger's is.
3. Whatever `PostingRules` states.
