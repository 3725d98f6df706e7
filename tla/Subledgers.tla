----------------------------- MODULE Subledgers -----------------------------
(***************************************************************************)
(* The customer and the supplier side of one company: quotations, orders   *)
(* and purchase requests, which book nothing, and invoices, receipts and   *)
(* payments, credit and debit notes, what they book through                *)
(* AccountingEngineService.postEvent and the amount_paid they add up on    *)
(* the invoices.                                                           *)
(*                                                                         *)
(* The ten services are one handler with different parameters: a document  *)
(* is created, an invoice is submitted and approved, a purchase request is *)
(* approved, and post reads the document, checks its status, calls the     *)
(* engine, increments the invoices it settles and writes the status, in    *)
(* one READ COMMITTED transaction.  The status is read without a lock and  *)
(* written without a condition, and no trigger guards these tables, so a   *)
(* handler keeps what it has seen until its commit.  The engine's own      *)
(* steps are those of module Ledger; here its success is part of the       *)
(* commit and its refusals are among the rollbacks.                        *)
(***************************************************************************)
EXTENDS Integers, Sequences, FiniteSets, FiniteSetsExt

CONSTANTS
  Handlers,     \* request handlers that may run at the same time
  Docs,         \* documents the users may enter
  Books,        \* what these may be: functions from Docs to Contents
  TaxRates,     \* rows of tax_rates, see TaxRate
  Journals,     \* what manual journals do to the control accounts
  MaxPostings,  \* bound: requests to post one document that are tried
  MaxManual     \* bound: cents, either way, of manual journals on an account

-----------------------------------------------------------------------------
(***************************************************************************)
(* What the services differ in: the status a document starts in, the       *)
(* transitions it has besides post, the status post asks for, the posting  *)
(* rule of its event (debit or credit, account, amount), and the kind of   *)
(* invoice it settles.                                                     *)
(***************************************************************************)
\* submit and approve of an invoice
Workflow == {<<"draft", "submitted">>, <<"submitted", "approved">>}

SalesInvoice ==
  [start |-> "draft", moves |-> Workflow, ready |-> "approved", settles |-> "none", rule |->
    {<<"debit", "AR", "total">>, <<"credit", "SALES_REVENUE", "subtotal">>,
     <<"credit", "TAX_OUTPUT", "taxAmount">>}]
SupplierInvoice ==
  [start |-> "draft", moves |-> Workflow, ready |-> "approved", settles |-> "none", rule |->
    {<<"debit", "PURCHASE_EXPENSE", "subtotal">>,
     <<"debit", "TAX_INPUT", "taxAmount">>, <<"credit", "AP", "total">>}]

\* A receipt, payment or note is posted as it is entered.
Entered(invoiceKind, debit, credit) ==
  [start |-> "draft", moves |-> {}, ready |-> "draft", settles |-> invoiceKind,
   rule |-> {<<"debit", debit, "amount">>, <<"credit", credit, "amount">>}]
CustomerReceipt == Entered("sales_invoice", "bankAccount", "AR")
CreditNote == Entered("sales_invoice", "SALES_REVENUE", "AR")
SupplierPayment == Entered("supplier_invoice", "AP", "bankAccount")
DebitNote == Entered("supplier_invoice", "AP", "PURCHASE_EXPENSE")

\* Quotations, orders and requests are never posted.
Unbooked(start, moves) ==
  [start |-> start, moves |-> moves, ready |-> "never", settles |-> "none", rule |-> {}]
Quotation == Unbooked("draft", {})
SalesOrder == Unbooked("confirmed", {})
PurchaseRequest == Unbooked("draft", {<<"draft", "approved">>})
PurchaseOrder == Unbooked("confirmed", {})

Service == [sales_invoice |-> SalesInvoice, customer_receipt |-> CustomerReceipt,
            credit_note |-> CreditNote, supplier_invoice |-> SupplierInvoice,
            supplier_payment |-> SupplierPayment, debit_note |-> DebitNote,
            quotation |-> Quotation, sales_order |-> SalesOrder,
            purchase_request |-> PurchaseRequest, purchase_order |-> PurchaseOrder]
Kinds == DOMAIN Service
ControlAccounts == {"AR", "AP", "SALES_REVENUE", "PURCHASE_EXPENSE",
                    "TAX_INPUT", "TAX_OUTPUT", "bankAccount"}

\* What a user enters: lines of a quantity at a price in hundredths of a cent,
\* or an amount in cents.  An allocation of 0 to a document stands for none; a
\* note applies its amount to one invoice or to none.
Line == [quantity : Int, price : Int, taxCode : STRING]
Contents == [kind : Kinds, date : Nat, lines : Seq(Line), amount : Int, pays : [Docs -> Int]]

\* A rate in percent and the days it holds on; NoEnd is a missing effective_to.
NoEnd == -1
TaxRate == [code : STRING, percent : Nat, from : Nat, to : Nat \cup {NoEnd}]

ASSUME SubledgersAssumption ==
  /\ IsFiniteSet(Handlers) /\ IsFiniteSet(Docs)
  /\ \A book \in Books : book \in [Docs -> Contents]
  /\ \A book \in Books : \A d \in Docs, i \in Docs :
       book[d].pays[i] # 0 => Service[book[d].kind].settles = book[i].kind
  /\ TaxRates \subseteq TaxRate  \* one of each code: only its creation writes one
  /\ \A r, q \in TaxRates : r.code = q.code => r = q
  /\ Journals \subseteq [ControlAccounts -> Int]
  /\ MaxPostings \in Nat /\ MaxManual \in Nat

VARIABLES
  doc,        \* the contents of the documents, which nothing changes
  status,     \* the documents' status, "absent" before create
  amountPaid, \* the invoices' amount_paid, 0 for the other documents
  posted,     \* number of journal entries booked for each document
  undone,     \* number of these that have been reversed
  balance,    \* debit - credit of gl_account_balances by control account
  manual,     \* the part of it that manual journals have added
  task,       \* what each handler is doing to which document
  raced       \* history: the documents that two requests worked on at once

subledgerVars == <<doc, status, amountPaid, posted, undone, balance, manual, task, raced>>

\* A handler: the status it is about to write, and of which document.
NoTask == [to |-> "none", doc |-> "none"]
Settling == {d \in Docs : Service[doc[d].kind].settles # "none"}
InvoiceDocs == {d \in Docs : doc[d].kind \in {"sales_invoice", "supplier_invoice"}}
OnDoc(d) == {s \in Handlers : task[s].doc = d}

-----------------------------------------------------------------------------
(***************************************************************************)
(* The totals of a document, and AccountingEngineService.postEvent on it:  *)
(* the rule's lines with the amounts the service passes.                   *)
(***************************************************************************)
\* round2: the nearest hundredth, halves up (of a double, which may miss one)
Round2(n, d) == (2 * n + d) \div (2 * d)

\* Mutant of CurrentTaxRatePercent: rates hold from the start.
MutantAnyDate(code, date) == FoldSet(LAMBDA r, p : r.percent, 0, {r \in TaxRates : r.code = code})

\* currentTaxRatePercent: the most recent rate in effect, 0 if there is none
CurrentTaxRatePercent(code, date) ==
  LET inEffect == {r \in TaxRates : r.code = code /\ r.from <= date
                                                  /\ (r.to = NoEnd \/ r.to >= date)}
  IN  IF inEffect = {} THEN 0
      ELSE (CHOOSE r \in inEffect : \A q \in inEffect : q.from <= r.from).percent

LineTotal(l) == Round2(l.quantity * l.price, 100)
LineTax(l, date) == Round2(LineTotal(l) * CurrentTaxRatePercent(l.taxCode, date), 100)

\* Sums over the lines of a document
Subtotal(d) == SumFunction([k \in DOMAIN doc[d].lines |-> LineTotal(doc[d].lines[k])])
TaxAmount(d) == SumFunction([k \in DOMAIN doc[d].lines |-> LineTax(doc[d].lines[k], doc[d].date)])

AmountOf(d, source) ==
  CASE source = "total"     -> Subtotal(d) + TaxAmount(d)
    [] source = "subtotal"  -> Subtotal(d)
    [] source = "taxAmount" -> TaxAmount(d)
    [] OTHER                -> doc[d].amount

\* What a line of the rule adds to an account, and what the entry does.
Share(d, account, l) ==
  IF l[2] # account THEN 0
  ELSE IF l[1] = "debit" THEN AmountOf(d, l[3]) ELSE -AmountOf(d, l[3])
Booking(d, account) == SumFunction([l \in Service[doc[d].kind].rule |-> Share(d, account, l)])

-----------------------------------------------------------------------------
SubledgerInit ==
  /\ doc \in Books
  /\ status = [d \in Docs |-> "absent"]
  /\ amountPaid = [d \in Docs |-> 0]
  /\ posted = [d \in Docs |-> 0]
  /\ undone = [d \in Docs |-> 0]
  /\ balance = [a \in ControlAccounts |-> 0]
  /\ manual = [a \in ControlAccounts |-> 0]
  /\ task = [s \in Handlers |-> NoTask]
  /\ raced = {}

\* create: the invoices it will settle need not be posted, nor be open for
\* the amount; they only have to exist.
Create(d) ==
  /\ status[d] = "absent"
  /\ \A i \in Docs : doc[d].pays[i] # 0 => status[i] # "absent"
  /\ status' = [status EXCEPT ![d] = Service[doc[d].kind].start]
  /\ UNCHANGED <<doc, amountPaid, posted, undone, balance, manual, task, raced>>

\* A request that has checked the status of a document and will write it later.
Start(s, to, d) ==
  /\ task' = [task EXCEPT ![s] = [to |-> to, doc |-> d]]
  /\ raced' = IF OnDoc(d) = {} THEN raced ELSE raced \cup {d}
  /\ UNCHANGED <<doc, status, amountPaid, posted, undone, balance, manual>>

\* submit, approve: the read that checks the status.
BeginTransition(s, d, move) ==
  /\ task[s] = NoTask
  /\ move \in Service[doc[d].kind].moves
  /\ status[d] = move[1]
  /\ Start(s, move[2], d)

CommitTransition(s) ==
  /\ task[s].to \in {"submitted", "approved"}
  /\ status' = [status EXCEPT ![task[s].doc] = task[s].to]
  /\ task' = [task EXCEPT ![s] = NoTask]
  /\ UNCHANGED <<doc, amountPaid, posted, undone, balance, manual, raced>>

\* Mutant of BeginPost: the status is not checked.
MutantAnyStatus(s, d) ==
  /\ task[s] = NoTask
  /\ status[d] # "absent"
  /\ posted[d] + Cardinality(OnDoc(d)) < MaxPostings
  /\ Start(s, "posted", d)

\* post: the read that checks the status.
BeginPost(s, d) ==
  /\ task[s] = NoTask
  /\ status[d] = Service[doc[d].kind].ready
  /\ posted[d] + Cardinality(OnDoc(d)) < MaxPostings
  /\ Start(s, "posted", d)

\* Mutant of CommitPost: a document that has become posted meanwhile is booked
\* all the same, but no longer added to the amounts paid.
MutantSkipsPaid(s) ==
  LET d == task[s].doc IN
  /\ task[s].to = "posted"
  /\ balance' = [a \in ControlAccounts |-> balance[a] + Booking(d, a)]
  /\ amountPaid' = IF status[d] = "posted" THEN amountPaid
                   ELSE [i \in Docs |-> amountPaid[i] + doc[d].pays[i]]
  /\ posted' = [posted EXCEPT ![d] = @ + 1]
  /\ status' = [status EXCEPT ![d] = "posted"]
  /\ task' = [task EXCEPT ![s] = NoTask]
  /\ UNCHANGED <<doc, undone, manual, raced>>

\* The engine's journal entry, the increments of amount_paid and the status.
CommitPost(s) ==
  LET d == task[s].doc IN
  /\ task[s].to = "posted"
  /\ balance' = [a \in ControlAccounts |-> balance[a] + Booking(d, a)]
  /\ amountPaid' = [i \in Docs |-> amountPaid[i] + doc[d].pays[i]]
  /\ posted' = [posted EXCEPT ![d] = @ + 1]
  /\ status' = [status EXCEPT ![d] = "posted"]
  /\ task' = [task EXCEPT ![s] = NoTask]
  /\ UNCHANGED <<doc, undone, manual, raced>>

\* A refusal of the engine (no open period, no rule), or any other rollback.
Abort(s) ==
  /\ task[s] # NoTask
  /\ task' = [task EXCEPT ![s] = NoTask]
  /\ UNCHANGED <<doc, status, amountPaid, posted, undone, balance, manual, raced>>

\* JournalEntriesService.reverse takes any posted entry, these documents'
\* entries too, and tells the document nothing; the reversing entry is posted
\* as well, so that it can be reversed in its turn, and so on.
ReverseEntry(d) ==
  /\ undone[d] < posted[d]
  /\ balance' = [a \in ControlAccounts |-> balance[a] - Booking(d, a)]
  /\ undone' = [undone EXCEPT ![d] = @ + 1]
  /\ UNCHANGED <<doc, status, amountPaid, posted, manual, task, raced>>

ReverseReversal(d) ==
  /\ undone[d] > 0
  /\ balance' = [a \in ControlAccounts |-> balance[a] + Booking(d, a)]
  /\ undone' = [undone EXCEPT ![d] = @ - 1]
  /\ UNCHANGED <<doc, status, amountPaid, posted, manual, task, raced>>

\* A journal that a user writes by hand, on these accounts too, as no account
\* is closed to it; n = -1 reverses one.
PostJournal(j, n) ==
  /\ \A a \in ControlAccounts : manual[a] + n * j[a] \in -MaxManual..MaxManual
  /\ manual' = [a \in ControlAccounts |-> manual[a] + n * j[a]]
  /\ balance' = [a \in ControlAccounts |-> balance[a] + n * j[a]]
  /\ UNCHANGED <<doc, status, amountPaid, posted, undone, task, raced>>

SubledgerNext ==
  \/ \E d \in Docs : Create(d) \/ ReverseEntry(d) \/ ReverseReversal(d)
  \/ \E j \in Journals, n \in {1, -1} : PostJournal(j, n)
  \/ \E s \in Handlers :
       \/ \E d \in Docs :
            \/ \E move \in Workflow \cup PurchaseRequest.moves : BeginTransition(s, d, move)
            \/ BeginPost(s, d)
       \/ CommitTransition(s)
       \/ CommitPost(s)
       \/ Abort(s)

SubledgerSpec == SubledgerInit /\ [][SubledgerNext]_subledgerVars

-----------------------------------------------------------------------------
(***************************************************************************)
(* Properties.                                                             *)
(***************************************************************************)
OfKinds(ks) == {d \in Docs : doc[d].kind \in ks}
Live(d) == posted[d] - undone[d]

\* An account without the manual journals.
FromDocs(a) == balance[a] - manual[a]

\* The part of a payment or note that no invoice takes.
Unapplied(d) == doc[d].amount - SumFunction([i \in InvoiceDocs |-> doc[d].pays[i]])

\* What a control account owes its side's open items: the live bookings of the
\* invoices less what is paid on them, less the live unapplied payments, plus
\* the applied part of the payments whose entry was reversed but whose
\* amount_paid stays.
OpenItems(invoiceKind, settlingKinds) ==
  SumFunction([i \in OfKinds({invoiceKind}) |-> Live(i) * AmountOf(i, "total") - amountPaid[i]])
  - SumFunction([d \in OfKinds(settlingKinds) |->
                   Live(d) * Unapplied(d) - undone[d] * (doc[d].amount - Unapplied(d))])

\* Without the manual journals the accounts receivable and payable always tie
\* out to the documents, entry for entry: an increment of amount_paid is never
\* lost and never without its journal entry, however often a document is booked,
\* reversed, and its reversal reversed.
ControlTiesOut ==
  /\ FromDocs("AR") = OpenItems("sales_invoice", {"customer_receipt", "credit_note"})
  /\ -FromDocs("AP") = OpenItems("supplier_invoice", {"supplier_payment", "debit_note"})

\* Beside the manual journals the tax accounts hold, of every live booking of an
\* invoice, the tax that is due at the rate in force on the invoice's date, up to
\* half a cent a line: halves rounded line by line, rates that begin later, and
\* bookings that are repeated, reversed and put back included.
InForce(code, date) == {r \in TaxRates : /\ r.code = code
                                         /\ date \in r.from..(IF r.to = NoEnd THEN date ELSE r.to)}
Percent(code, date) == SumFunction([r \in InForce(code, date) |-> r.percent])
TaxDue(d) == \* in hundredths of a cent
  SumFunction([k \in DOMAIN doc[d].lines |->
                 LineTotal(doc[d].lines[k]) * Percent(doc[d].lines[k].taxCode, doc[d].date)])
TaxWithin(tax, kind) ==
  LET due == SumFunction([i \in OfKinds({kind}) |-> Live(i) * TaxDue(i)])
      lines == SumFunction([i \in OfKinds({kind}) |-> Live(i) * Len(doc[i].lines)])
  IN  100 * tax - due \in (-50 * lines)..(50 * lines)
TaxWithinHalfCent ==
  /\ TaxWithin(-FromDocs("TAX_OUTPUT"), "sales_invoice")
  /\ TaxWithin(FromDocs("TAX_INPUT"), "supplier_invoice")

\* A payment or note is posted exactly when it is booked, and a request that
\* comes after the first booking never repeats it: the repetitions are requests
\* that had read the draft before, at most one per handler.
PaymentsRepeatOnce ==
  \A d \in Settling :
    /\ status[d] = "posted" <=> posted[d] > 0
    /\ posted[d] <= Cardinality(Handlers)

\* A document is booked once, and only when it says so, unless two requests worked on
\* it at once: then a late submit or approve of an invoice, which looks at nothing
\* again, can take it back to where it may be posted another time.
BookedTwiceInRacesOnly ==
  \A d \in Docs \ raced : posted[d] = IF status[d] = "posted" THEN 1 ELSE 0

\* Only races book a document again, and a payment or note only its own posts do.
RepeatsAreRaces == PaymentsRepeatOnce /\ BookedTwiceInRacesOnly

\* What an invoice counts as paid beyond what its posted payments and notes
\* allocate to it is what posting these again has added.
PaidBeyondByRepeats ==
  \A i \in InvoiceDocs :
    amountPaid[i] - SumFunction([d \in {c \in Docs : posted[c] > 0} |-> doc[d].pays[i]])
      = SumFunction([d \in {c \in Docs : posted[c] > 1} |-> (posted[d] - 1) * doc[d].pays[i]])

-----------------------------------------------------------------------------
(***************************************************************************)
(* The inductive invariant.                                                *)
(***************************************************************************)
Task == [to : {"submitted", "approved", "posted"}, doc : Docs]

\* Every variable has its type; of the entries booked some are reversed.
SubledgerTypeOK ==
  /\ doc \in Books
  /\ status \in [Docs -> {"absent", "draft", "confirmed", "submitted", "approved", "posted"}]
  /\ amountPaid \in [Docs -> Int] /\ posted \in [Docs -> Nat] /\ undone \in [Docs -> Nat]
  /\ balance \in [ControlAccounts -> Int] /\ manual \in [ControlAccounts -> Int]
  /\ task \in [Handlers -> {NoTask} \cup Task]
  /\ \A d \in Docs : undone[d] <= posted[d]

\* The balances are the sum of the live bookings and the manual journals.
BalancesOK ==
  \A a \in ControlAccounts : FromDocs(a) = SumFunction([d \in Docs |-> Live(d) * Booking(d, a)])

\* What has been paid on the invoices of a kind is what was booked for them.
Applied(d, kind) == SumFunction([i \in OfKinds({kind}) |-> doc[d].pays[i]])
PaidOn(kind) ==
  SumFunction([i \in OfKinds({kind}) |-> amountPaid[i]])
    = SumFunction([d \in Docs |-> posted[d] * Applied(d, kind)])
PaidInStep == PaidOn("sales_invoice") /\ PaidOn("supplier_invoice")

\* What has been paid on an invoice is what was booked for it.
PaidEach == \A i \in Docs : amountPaid[i] = SumFunction([d \in Docs |-> posted[d] * doc[d].pays[i]])

\* A payment or note has no transitions, and each handler that posts it had read
\* the draft: with those still to come it is booked once per handler at most.
Posting(d) == {s \in Handlers : task[s] = [to |-> "posted", doc |-> d]}
RacesOK ==
  \A d \in Settling :
    /\ status[d] = "posted" <=> posted[d] > 0
    /\ \A s \in Handlers : task[s] # NoTask /\ task[s].doc = d => task[s].to = "posted"
    /\ posted[d] + Cardinality(Posting(d)) <= Cardinality(Handlers)

SubledgerInv == SubledgerTypeOK /\ BalancesOK /\ PaidInStep /\ PaidEach /\ RacesOK

(***************************************************************************)
(* The one behind BookedTwiceInRacesOnly: the only request on a document   *)
(* began before it was posted.                                             *)
(***************************************************************************)
Undisturbed(s) ==
  task[s] # NoTask /\ task[s].doc \notin raced =>
    /\ status[task[s].doc] # "posted"
    /\ \A u \in Handlers : task[u] # NoTask /\ task[u].doc = task[s].doc => u = s
OverlapInv == BookedTwiceInRacesOnly /\ \A s \in Handlers : Undisturbed(s)
=============================================================================
