------------------------ MODULE BankReconciliation --------------------------
(***************************************************************************)
(* Bank reconciliation: importing a statement suggests an open invoice for *)
(* each line, and approving a suggestion books the receipt or payment and  *)
(* marks the line.                                                         *)
(*                                                                         *)
(* BankStatementsService.approveMatch is four transactions of their own:   *)
(* read the line, create a draft payment, post it, mark the line.  Nothing *)
(* ties them together, so a failure between two of them leaves the earlier *)
(* ones in place, and other requests on the same line run in between.      *)
(* Posting reads the payment's status without a lock and writes it when it *)
(* commits, by an approval and by the payment's own endpoint alike.        *)
(* Receipts of customers, payments to suppliers and the notes that settle  *)
(* an invoice are all "payments" here, those entered by hand of no line;   *)
(* one that settles several invoices is as many payments.                  *)
(***************************************************************************)
EXTENDS Integers, FiniteSets, FiniteSetsExt

CONSTANTS
  Sessions,     \* requests that may run at the same time
  Lines,        \* bank statement lines
  Amount,       \* their signed amounts: money in is positive
  Invoices,     \* posted invoices, of customers and of suppliers
  Total,        \* their totals, positive for customers, negative for suppliers
  Mentions,     \* line -> the invoices whose party the description names
  HandMade,     \* the invoice and amount of payments that may be entered by hand
  MaxPayments   \* bound: payments that can ever be created

None == "none"

ASSUME BankAssumption ==
  /\ Amount \in [Lines -> Int] /\ Total \in [Invoices -> Int]
  /\ Mentions \in [Lines -> SUBSET Invoices]
  /\ HandMade \subseteq [invoice : Invoices, amount : Int]
  /\ MaxPayments \in Nat
  /\ IsFiniteSet(Lines) /\ IsFiniteSet(Invoices)
  /\ None \notin Lines /\ None \notin Invoices

Payments == 1..MaxPayments

VARIABLES
  line,     \* bank_statement_lines: status, suggested invoice, matched entry
  payment,  \* receipts and payments, with their line if any, invoice and amount, and
            \* (history) the payments known when they were suggested or entered
  paid,     \* amount_paid of the invoices, signed like their totals
  sess,     \* approveMatch and post requests under way
  lost,     \* history: payments booked by no request that went on
  crossed,  \* history: payments of approvals begun while another was under way
  twice,    \* history: payments booked more than once
  before    \* history: the payments that its invoice had when a line was imported

vars == <<line, payment, paid, sess, lost, crossed, twice, before>>

LineStatuses == {"absent", "unmatched", "suggested", "reconciled", "ignored"}
NewLine == [status |-> "absent", invoice |-> None, entry |-> 0]
NoPayment == [status |-> "absent", line |-> None, invoice |-> None, amount |-> 0, known |-> {}]
Idle == [pc |-> "idle", line |-> None, payment |-> 0, crossing |-> FALSE]

-----------------------------------------------------------------------------
(***************************************************************************)
(* MatchingEngineService: the open invoices of the amount's side, scored.  *)
(***************************************************************************)
AmountMatchWeight == 70
NameMatchWeight == 30

\* Mutant of Outstanding: what has been paid does not count.
MutantIgnoresPaid(i) == Total[i]

SameSide(x, y) == (x > 0 /\ y > 0) \/ (x < 0 /\ y < 0)
Outstanding(i) == Total[i] - paid[i]
Open(l, i) == SameSide(Amount[l], Total[i]) /\ SameSide(Total[i], Outstanding(i))

Score(l, i) ==
  IF ~Open(l, i) THEN 0
  ELSE (IF Outstanding(i) = Amount[l] THEN AmountMatchWeight ELSE 0)
       + (IF i \in Mentions[l] THEN NameMatchWeight ELSE 0)

\* The first of the best in the database's order, which is any of them.
Best(l) == {i \in Invoices : Score(l, i) > 0 /\
              \A j \in Invoices : Score(l, j) <= Score(l, i)}

WorkingOn(l) == {s \in Sessions : sess[s].line = l}

-----------------------------------------------------------------------------
Init ==
  /\ line = [l \in Lines |-> NewLine]
  /\ payment = [p \in Payments |-> NoPayment]
  /\ paid = [i \in Invoices |-> 0]
  /\ sess = [s \in Sessions |-> Idle]
  /\ lost = {}
  /\ crossed = {}
  /\ twice = {}
  /\ before = [l \in Lines |-> {}]

\* import, for a line that no invoice fits and for one that some do.
ImportUnmatched(l) ==
  /\ line[l].status = "absent"
  /\ Best(l) = {}
  /\ line' = [line EXCEPT ![l].status = "unmatched"]
  /\ UNCHANGED <<payment, paid, sess, lost, crossed, twice, before>>

\* The booked payments of an invoice.
Paying(i) == {p \in Payments : payment[p].status = "posted" /\ payment[p].invoice = i}

ImportSuggested(l, i) ==
  /\ line[l].status = "absent"
  /\ i \in Best(l)
  /\ line' = [line EXCEPT ![l] = [status |-> "suggested", invoice |-> i, entry |-> 0]]
  /\ before' = [before EXCEPT ![l] = Paying(i)]
  /\ UNCHANGED <<payment, paid, sess, lost, crossed, twice>>

\* Mutant of Approve: the line may be anything but ignored.
MutantAnyLine(s, l) ==
  /\ sess[s] = Idle
  /\ line[l].status \in {"suggested", "reconciled"}
  /\ sess' = [sess EXCEPT ![s] = [pc |-> "create", line |-> l, payment |-> 0,
                                  crossing |-> WorkingOn(l) # {}]]
  /\ UNCHANGED <<line, payment, paid, lost, crossed, twice, before>>

\* approveMatch, first transaction: the line must still be a suggestion.
Approve(s, l) ==
  /\ sess[s] = Idle
  /\ line[l].status = "suggested"
  /\ sess' = [sess EXCEPT ![s] = [pc |-> "create", line |-> l, payment |-> 0,
                                  crossing |-> WorkingOn(l) # {}]]
  /\ UNCHANGED <<line, payment, paid, lost, crossed, twice, before>>

\* The next payment, a draft.
Add(p, pay) ==
  /\ payment[p].status = "absent"
  /\ \A q \in 1..(p - 1) : payment[q].status # "absent"
  /\ payment' = [payment EXCEPT ![p] = pay]

Draft(l, i, amount, known) ==
  [status |-> "draft", line |-> l, invoice |-> i, amount |-> amount, known |-> known]

\* Mutant of CreatePayment: the line is marked before the payment is posted.
MutantMarksDraft(s) ==
  LET l == sess[s].line IN
  /\ sess[s].pc = "create"
  /\ \E p \in Payments :
       /\ Add(p, Draft(l, line[l].invoice, Amount[l], before[l]))
       /\ sess' = [sess EXCEPT ![s].pc = "mark", ![s].payment = p]
       /\ crossed' = IF sess[s].crossing THEN crossed \cup {p} ELSE crossed
  /\ UNCHANGED <<line, paid, lost, twice, before>>

\* Second: create of the receipt or payment service, a draft for the full
\* amount of the line.
CreatePayment(s) ==
  LET l == sess[s].line IN
  /\ sess[s].pc = "create"
  /\ \E p \in Payments :
       /\ Add(p, Draft(l, line[l].invoice, Amount[l], before[l]))
       /\ sess' = [sess EXCEPT ![s].pc = "post", ![s].payment = p]
       /\ crossed' = IF sess[s].crossing THEN crossed \cup {p} ELSE crossed
  /\ UNCHANGED <<line, paid, lost, twice, before>>

\* Somebody enters a receipt, a payment or a note, for whatever amount.
EnterPayment(h) ==
  /\ \E p \in Payments : Add(p, Draft(None, h.invoice, h.amount, Paying(h.invoice)))
  /\ UNCHANGED <<line, paid, sess, lost, crossed, twice, before>>

\* Third: post, which reads that the payment is a draft
ReadPayment(s) ==
  /\ sess[s].pc = "post"
  /\ payment[sess[s].payment].status = "draft"
  /\ sess' = [sess EXCEPT ![s].pc = "book"]
  /\ UNCHANGED <<line, payment, paid, lost, crossed, twice, before>>

\* and books it, whatever it has become since.
Book(p) ==
  /\ payment' = [payment EXCEPT ![p].status = "posted"]
  /\ paid' = [paid EXCEPT ![payment[p].invoice] = @ + payment[p].amount]
  /\ twice' = IF payment[p].status = "posted" THEN twice \cup {p} ELSE twice

PostPayment(s) ==
  /\ sess[s].pc = "book"
  /\ Book(sess[s].payment)
  /\ sess' = [sess EXCEPT ![s].pc = "mark"]
  /\ UNCHANGED <<line, lost, crossed, before>>

\* Mutant of MarkReconciled: the entry is noted, the status is not.
MutantEntryOnly(s) ==
  /\ sess[s].pc = "mark"
  /\ line' = [line EXCEPT ![sess[s].line].entry = sess[s].payment]
  /\ sess' = [sess EXCEPT ![s] = Idle]
  /\ UNCHANGED <<payment, paid, lost, crossed, twice, before>>

\* Fourth: the line is marked, whatever has become of it.
MarkReconciled(s) ==
  LET l == sess[s].line IN
  /\ sess[s].pc = "mark"
  /\ line' = [line EXCEPT ![l].status = "reconciled", ![l].entry = sess[s].payment]
  /\ sess' = [sess EXCEPT ![s] = Idle]
  /\ UNCHANGED <<payment, paid, lost, crossed, twice, before>>

\* A refused or rolled-back transaction, or a crash: the request ends, the
\* transactions before it stay.
Fail(s) ==
  /\ sess[s] # Idle
  /\ lost' = IF sess[s].pc = "mark" THEN lost \cup {sess[s].payment} ELSE lost
  /\ sess' = [sess EXCEPT ![s] = Idle]
  /\ UNCHANGED <<line, payment, paid, crossed, twice, before>>

\* Somebody posts a draft by its own endpoint: the same read, and the same booking.
ReadByHand(s, p) ==
  /\ sess[s] = Idle
  /\ payment[p].status = "draft"
  /\ sess' = [sess EXCEPT ![s] = [Idle EXCEPT !.pc = "hand", !.payment = p]]
  /\ UNCHANGED <<line, payment, paid, lost, crossed, twice, before>>

PostByHand(s) ==
  LET p == sess[s].payment IN
  /\ sess[s].pc = "hand"
  /\ Book(p)
  /\ lost' = lost \cup {p}
  /\ sess' = [sess EXCEPT ![s] = Idle]
  /\ UNCHANGED <<line, crossed, before>>

\* ignoreLine looks at nothing but the line's existence.
Ignore(l) ==
  /\ line[l].status # "absent"
  /\ line' = [line EXCEPT ![l].status = "ignored"]
  /\ UNCHANGED <<payment, paid, sess, lost, crossed, twice, before>>

Next ==
  \/ \E l \in Lines : ImportUnmatched(l) \/ Ignore(l)
  \/ \E l \in Lines, i \in Invoices : ImportSuggested(l, i)
  \/ \E s \in Sessions :
       \/ \E l \in Lines : Approve(s, l)
       \/ CreatePayment(s)
       \/ ReadPayment(s)
       \/ PostPayment(s)
       \/ MarkReconciled(s)
       \/ \E p \in Payments : ReadByHand(s, p)
       \/ PostByHand(s)
       \/ Fail(s)
  \/ \E h \in HandMade : EnterPayment(h)

Spec == Init /\ [][Next]_vars

-----------------------------------------------------------------------------
(***************************************************************************)
(* Properties.                                                             *)
(***************************************************************************)
\* Every column holds what its type allows, a suggestion names an invoice and a
\* payment the invoice it was made for.
TypeOK ==
  /\ \A l \in Lines : line[l].status = "suggested" => line[l].invoice # None
  /\ \A p \in Payments : payment[p].status # "absent" => payment[p].invoice # None
  /\ line \in [Lines -> [status : LineStatuses, invoice : Invoices \cup {None},
                         entry : Payments \cup {0}]]
  /\ payment \in [Payments -> [status : {"absent", "draft", "posted"},
                               line : Lines \cup {None}, invoice : Invoices \cup {None},
                               amount : Int, known : SUBSET Payments]]
  /\ paid \in [Invoices -> Int]
  /\ sess \in [Sessions -> [pc : {"idle", "create", "post", "book", "mark", "hand"},
                            line : Lines \cup {None}, payment : Payments \cup {0}, crossing : BOOLEAN]]
  /\ lost \subseteq Payments /\ crossed \subseteq Payments /\ twice \subseteq Payments
  /\ before \in [Lines -> SUBSET Payments]

BookedFor(l) == {p \in Payments : payment[p].status = "posted" /\ payment[p].line = l}

\* A reconciled line points at a booked payment that was made for it, of the
\* invoice suggested, whatever failed or was posted by hand in between.
ReconciledIsBooked ==
  \A l \in Lines : line[l].status = "reconciled" =>
    /\ line[l].entry \in BookedFor(l)
    /\ payment[line[l].entry].invoice = line[l].invoice

\* A line is paid more than once, by two payments or by one that is booked twice,
\* only by approvals that overlapped, by requests that failed after their booking,
\* or by drafts posted by hand: approving it again later adds nothing.
OnlyRacesAndFailuresDuplicate ==
  \A l \in Lines : \A p, q \in BookedFor(l) \ (lost \cup crossed) : p = q /\ p \notin twice

\* When all requests for a line ended well, what they booked is no longer on
\* offer: the line is reconciled, unless somebody has ignored it.
BookedIsSettled ==
  \A l \in Lines :
    (BookedFor(l) # {} /\ BookedFor(l) \cap lost = {} /\ WorkingOn(l) = {}) =>
      line[l].status \in {"reconciled", "ignored"}

Sum(ps) == SumFunctionOnSet([p \in ps |-> payment[p].amount], ps)

\* More than the other amount, for an invoice of a customer or of a supplier.
Beyond(i, x, y) == IF Total[i] > 0 THEN x > y ELSE x < y

\* A suggestion is of the moment of the import and is not looked at again when it is
\* approved, and nothing looks at what is entered by hand.  What that can do is bounded:
\* an invoice is paid beyond its total only when one of its payments is booked twice,
\* when two of them are of moments neither of which could know of the other, or when
\* one was for more than the rest as it was known - for a line, of an invoice that
\* still was partly open, which its party's name alone had matched.
OverpaidByStaleSuggestions ==
  \A i \in Invoices :
    Beyond(i, paid[i], Total[i]) =>
      \/ \E p \in Paying(i) : p \in twice
      \/ \E p, q \in Paying(i) : p # q /\ p \notin payment[q].known /\ q \notin payment[p].known
      \/ \E p \in Paying(i) :
           LET rest == Total[i] - Sum(payment[p].known) IN
           /\ Beyond(i, payment[p].amount, rest)
           /\ payment[p].line # None => SameSide(rest, Total[i])

-----------------------------------------------------------------------------
(***************************************************************************)
(* The inductive invariant behind the first three.                         *)
(***************************************************************************)
Settled(l) == line[l].status \in {"reconciled", "ignored"}
Sound(l) == BookedFor(l) \ (lost \cup crossed)

\* A payment for a line is of the invoice that was suggested for it, and one that is
\* booked and not lost has settled the line or is about to.
PaymentOK(p) ==
  /\ p \in twice => payment[p].status = "posted"
  /\ payment[p].status # "absent" /\ payment[p].line # None =>
       LET l == payment[p].line IN
       /\ line[l].status # "absent"
       /\ payment[p].invoice = line[l].invoice
       /\ payment[p].status = "posted" /\ p \notin lost =>
            \/ Settled(l)
            \/ \E s \in Sessions : sess[s].pc = "mark" /\ sess[s].payment = p /\ sess[s].line = l
       /\ p \in twice => p \in lost

\* An approval holds the payment it has made, which only hands may have booked before
\* it, and has the line for itself if no other was under way when it began.
ApprovalOK(s) ==
  LET l == sess[s].line  p == sess[s].payment IN
  IF sess[s].pc \in {"idle", "hand"} THEN
    l = None /\ (sess[s].pc = "hand" => p \in Payments /\ payment[p].status # "absent")
  ELSE
    /\ l \in Lines /\ line[l].status # "absent" /\ line[l].invoice \in Invoices
    /\ sess[s].pc # "create" =>
         /\ p \in Payments /\ payment[p].status # "absent" /\ payment[p].line = l
         /\ sess[s].crossing => p \in crossed
         /\ \A u \in WorkingOn(l) : sess[u].pc # "create" /\ sess[u].payment = p => u = s
    /\ sess[s].pc = "mark" => payment[p].status = "posted"
    /\ sess[s].pc \in {"post", "book"} /\ payment[p].status = "posted" => p \in lost
    /\ ~sess[s].crossing =>
         /\ \A u \in WorkingOn(l) : sess[u].crossing \/ u = s
         /\ \A q \in Sound(l) : sess[s].pc = "mark" /\ p = q

BankInv ==
  /\ TypeOK
  /\ \A p \in Payments : PaymentOK(p)
  /\ \A s \in Sessions : ApprovalOK(s)
  /\ ReconciledIsBooked
  /\ OnlyRacesAndFailuresDuplicate

(***************************************************************************)
(* And the one behind the last.                                            *)
(***************************************************************************)
\* A suggestion was made for an invoice that was open after the payments that are
\* known of it, none of which was booked twice by then.
SuggestionOK(l) ==
  LET i == line[l].invoice IN
  i \in Invoices =>
    /\ line[l].status # "absent"
    /\ before[l] \subseteq Paying(i)
    /\ before[l] \cap twice = {} => SameSide(Total[i] - Sum(before[l]), Total[i])

\* What a payment knows has been booked before it was made out.
KnownOK(p) ==
  payment[p].status # "absent" =>
    /\ payment[p].invoice \in Invoices
    /\ payment[p].known \subseteq Paying(payment[p].invoice)
    /\ payment[p].line # None => payment[p].known = before[payment[p].line]

\* amount_paid is the sum of the payments that are not booked twice.
PaidOK(i) == Paying(i) \cap twice = {} => paid[i] = Sum(Paying(i))

OverpaidInv ==
  /\ \A l \in Lines : SuggestionOK(l)
  /\ \A p \in Payments : KnownOK(p)
  /\ \A i \in Invoices : PaidOK(i)
  /\ OverpaidByStaleSuggestions
=============================================================================
