----------------------------- MODULE Inventory ------------------------------
(***************************************************************************)
(* The stock of one company: the stock_moves ledger, the running           *)
(* stock_balances (quantity on hand and weighted-average cost), and the    *)
(* three documents that move stock through InventoryService: goods         *)
(* receipts, deliveries and stock counts.                                  *)
(*                                                                         *)
(* post works through the document's lines in order.  For each it reads    *)
(* the stock balance without a lock, computes, and writes back absolute    *)
(* values; the write locks the row until the transaction ends, and waits   *)
(* for the row's holder, but does not read it again.  Uncommitted writes   *)
(* are seen by their own session only.  A cycle of waiting sessions is     *)
(* ended by PostgreSQL's deadlock detector, which aborts one of them.      *)
(***************************************************************************)
EXTENDS Integers, Sequences, FiniteSets, FiniteSetsExt

CONSTANTS
  Sessions,  \* request handlers that may run at the same time
  Stock,     \* rows of stock_balances: a product in a warehouse
  Docs,      \* documents the users may enter
  Doc,       \* their contents, see DocType
  MaxLines,  \* bound: lines of one document
  MaxMoves   \* bound: requests to post that are tried

ASSUME InventoryAssumption ==
  /\ IsFiniteSet(Sessions) /\ IsFiniteSet(Stock) /\ IsFiniteSet(Docs)
  /\ MaxLines \in Nat /\ MaxMoves \in Nat /\ "none" \notin Docs

\* A line names its stock row; quantity is the received, delivered or counted
\* quantity, cost the received unit cost in units of its fourth decimal.
Line == [row : Stock, quantity : Nat, cost : Nat]
DocType == [kind : {"goods_receipt", "delivery", "stock_count"}, lines : Seq(Line)]

ASSUME DocumentAssumption ==
  /\ \A d \in Docs : Doc[d] \in DocType /\ Len(Doc[d].lines) \in 1..MaxLines
  /\ \A d \in Docs : \A k \in 1..Len(Doc[d].lines) :
       Doc[d].kind # "stock_count" => Doc[d].lines[k].quantity > 0

VARIABLES
  status,    \* the documents' status, "absent" before create
  expected,  \* the counts' captured system quantities, line by line
  balance,   \* stock_balances; a missing row reads as no stock at no cost
  moved,     \* sum of quantity over the committed stock_moves of a row
  worth,     \* sum of quantity * unit_cost over them
  postings,  \* how many times a document's moves have been committed
  raced,     \* history: rows written, at least once, from a stale read
  sess       \* the transaction of each session

tables == <<status, expected, balance, moved, worth, postings, raced>>
vars == <<tables, sess>>

Balance == [qty : Int, avg : Int]
NoStock == [qty |-> 0, avg |-> 0]

\* A session's transaction: document, next line, what it last read, its own
\* version of the rows it has written (and locked), and the sums of its moves, or
\* what a count has captured; stale is history: the rows that changed between its
\* read and its write.
Uncaptured == [k \in 1..MaxLines |-> 0]
Idle == [doc |-> "none", at |-> 0, pc |-> "idle", seen |-> NoStock, captured |-> Uncaptured,
         locks |-> {}, own |-> [r \in Stock |-> NoStock],
         qty |-> [r \in Stock |-> 0], value |-> [r \in Stock |-> 0], stale |-> {}]

LineOf(s) == Doc[sess[s].doc].lines[sess[s].at]
\* The session has read the balance and is about to write for such a document.
Writing(s, kind) == sess[s].pc = "write" /\ Doc[sess[s].doc].kind = kind
LockedByOther(s, r) == \E t \in Sessions \ {s} : r \in sess[t].locks

-----------------------------------------------------------------------------
(***************************************************************************)
(* InventoryService: what a line leaves in the balance, given what it has  *)
(* seen there and what the row holds by now.                               *)
(***************************************************************************)

\* JavaScript's double, stored as Decimal(18, 4): the nearest integer of the
\* fourth decimal.  Blends with stock that is below zero may be negative.
Round(n, d) == (2 * n + d) \div (2 * d)

\* Mutants of StockIn: an average that forgets the quantities, the last cost.
MutantPlainAverage(seen, now, l) ==
  [qty |-> seen.qty + l.quantity, avg |-> Round(seen.avg + l.cost, 2)]
MutantLastCost(seen, now, l) == [qty |-> seen.qty + l.quantity, avg |-> l.cost]

\* recordStockIn writes both columns, from what it read.
StockIn(seen, now, l) ==
  LET new == seen.qty + l.quantity IN
  [qty |-> new,
   avg |-> IF new > 0 THEN Round(seen.qty * seen.avg + l.quantity * l.cost, new) ELSE 0]

\* Mutant of Suffices: some stock is enough.
MutantAnyStock(seen, l) == seen.qty > 0

\* recordStockOut writes the quantity only and refuses to draw more than it saw.
StockOut(seen, now, l) == [now EXCEPT !.qty = seen.qty - l.quantity]
Suffices(seen, l) == seen.qty >= l.quantity

\* Mutant of Adjusted: the variance has the wrong sign.
MutantWrongSign(seen, now, delta) == [now EXCEPT !.qty = seen.qty - delta]

\* recordAdjustment applies the variance against the quantity captured at
\* create, and writes the quantity only.
Variance(d, k) == Doc[d].lines[k].quantity - expected[d][k]
Adjusted(seen, now, delta) == [now EXCEPT !.qty = seen.qty + delta]

-----------------------------------------------------------------------------
Init ==
  /\ status = [d \in Docs |-> "absent"]
  /\ expected = [d \in Docs |-> Uncaptured]
  /\ balance = [r \in Stock |-> NoStock]
  /\ moved = [r \in Stock |-> 0]
  /\ worth = [r \in Stock |-> 0]
  /\ postings = [d \in Docs |-> 0]
  /\ raced = {}
  /\ sess = [s \in Sessions |-> Idle]

Become(s, r) == /\ sess' = [sess EXCEPT ![s] = r]
                /\ UNCHANGED tables

\* create of a goods receipt and of a delivery: a draft with its lines
Create(d, kind) ==
  /\ Doc[d].kind = kind
  /\ status[d] = "absent"
  /\ status' = [status EXCEPT ![d] = "draft"]
  /\ UNCHANGED <<expected, balance, moved, worth, postings, raced, sess>>

CreateReceipt(d) == Create(d, "goods_receipt")
CreateDelivery(d) == Create(d, "delivery")

\* create of a stock count reads the system quantity line by line; the
\* variance is applied when the count is posted.
BeginCount(s, d) ==
  /\ sess[s] = Idle
  /\ Doc[d].kind = "stock_count"
  /\ status[d] = "absent" /\ \A t \in Sessions : sess[t].doc # d
  /\ Become(s, [Idle EXCEPT !.doc = d, !.at = 1, !.pc = "capture"])

Capture(s) ==
  /\ sess[s].pc = "capture"
  /\ Become(s, [sess[s] EXCEPT
       !.captured[sess[s].at] = balance[LineOf(s).row].qty,
       !.at = IF @ = Len(Doc[sess[s].doc].lines) THEN 0 ELSE @ + 1,
       !.pc = IF sess[s].at = Len(Doc[sess[s].doc].lines) THEN "captured" ELSE @])

CreateCount(s) ==
  LET d == sess[s].doc IN
  /\ sess[s].pc = "captured"
  /\ status' = [status EXCEPT ![d] = "draft"]
  /\ expected' = [expected EXCEPT ![d] = sess[s].captured]
  /\ sess' = [sess EXCEPT ![s] = Idle]
  /\ UNCHANGED <<balance, moved, worth, postings, raced>>

\* The next line, or the commit after the last one.
Onward(r) == IF r.at = Len(Doc[r.doc].lines)
             THEN [r EXCEPT !.pc = "commit"]
             ELSE [r EXCEPT !.pc = "read", !.at = @ + 1]

\* Bound: the requests that have committed or are running.
Tried == SumFunctionOnSet(postings, Docs)
         + Cardinality({t \in Sessions : sess[t].pc \in {"read", "write", "commit"}})

BeginPost(s, d) ==
  /\ sess[s] = Idle
  /\ status[d] = "draft"
  /\ Tried < MaxMoves
  /\ Become(s, Onward([Idle EXCEPT !.doc = d]))

\* A row as the session sees it: its own version, if it has one.
Visible(s, r) == IF r \in sess[s].locks THEN sess[s].own[r] ELSE balance[r]

ReadBalance(s) ==
  /\ sess[s].pc = "read"
  /\ Become(s, [sess[s] EXCEPT !.pc = "write", !.seen = Visible(s, LineOf(s).row)])

\* The stock move and the write of the balance, once the row's holder is gone.
Move(s, new, quantity, cost) ==
  LET r == LineOf(s).row IN
  /\ ~LockedByOther(s, r)
  /\ Become(s, Onward([sess[s] EXCEPT
       !.locks = @ \cup {r}, !.own[r] = new,
       !.stale = IF sess[s].seen = Visible(s, r) THEN @ ELSE @ \cup {r},
       !.qty[r] = @ + quantity, !.value[r] = @ + quantity * cost]))

Receive(s) ==
  LET l == LineOf(s) IN
  /\ Writing(s, "goods_receipt")
  /\ Move(s, StockIn(sess[s].seen, Visible(s, l.row), l), l.quantity, l.cost)

Deliver(s) ==
  LET l == LineOf(s) IN
  /\ Writing(s, "delivery")
  /\ Suffices(sess[s].seen, l)
  /\ Move(s, StockOut(sess[s].seen, Visible(s, l.row), l), -l.quantity, sess[s].seen.avg)

\* Mutant of Refuse: the delivery waits for stock to come in.
MutantWaits(s) == FALSE

Refuse(s) ==
  /\ Writing(s, "delivery")
  /\ ~Suffices(sess[s].seen, LineOf(s))
  /\ Become(s, Idle)

Adjust(s) ==
  LET l == LineOf(s)
      delta == Variance(sess[s].doc, sess[s].at)
  IN
  /\ Writing(s, "stock_count")
  /\ IF delta = 0
     THEN Become(s, Onward(sess[s]))
     ELSE Move(s, Adjusted(sess[s].seen, Visible(s, l.row), delta), delta, sess[s].seen.avg)

\* The end of post, after the engine's journal entry: the transaction's rows
\* replace the committed ones.
Commit(s) ==
  LET t == sess[s] IN
  /\ t.pc = "commit"
  /\ status' = [status EXCEPT ![t.doc] = "posted"]
  /\ balance' = [r \in Stock |-> IF r \in t.locks THEN t.own[r] ELSE balance[r]]
  /\ moved' = [r \in Stock |-> moved[r] + t.qty[r]]
  /\ worth' = [r \in Stock |-> worth[r] + t.value[r]]
  /\ postings' = [postings EXCEPT ![t.doc] = @ + 1]
  /\ raced' = raced \cup t.stale
  /\ sess' = [sess EXCEPT ![s] = Idle]
  /\ UNCHANGED expected

\* PostgreSQL's deadlock detector ends a transaction that waits, through the
\* holders of the rows it and they want, for itself.
WaitsFor(s) == {t \in Sessions \ {s} :
                  sess[s].pc = "write" /\ LineOf(s).row \in sess[t].locks}
Deadlocked(s) ==
  \E C \in SUBSET Sessions : s \in C /\ \A t \in C : WaitsFor(t) \cap C # {}
Victim(s) ==
  /\ Deadlocked(s)
  /\ Become(s, Idle)

\* A refusal of the engine, the transaction's timeout, a crash.
Abort(s) ==
  /\ sess[s] # Idle
  /\ Become(s, Idle)

Step(s) ==
  \/ Capture(s)
  \/ CreateCount(s)
  \/ ReadBalance(s)
  \/ Receive(s)
  \/ Deliver(s)
  \/ Refuse(s)
  \/ Adjust(s)
  \/ Commit(s)

Next ==
  \/ \E d \in Docs : CreateReceipt(d) \/ CreateDelivery(d)
  \/ \E s \in Sessions :
       \/ \E d \in Docs : BeginCount(s, d) \/ BeginPost(s, d)
       \/ Step(s)
       \/ Victim(s)
       \/ Abort(s)

Spec == Init /\ [][Next]_vars

\* The handlers run on, a row lock is granted to its waiters in turn, and a
\* deadlock is found.
FairSpec == Spec /\ \A s \in Sessions : SF_vars(Step(s)) /\ WF_vars(Victim(s))

-----------------------------------------------------------------------------
(***************************************************************************)
(* Properties.                                                             *)
(***************************************************************************)
Request == [doc : Docs \cup {"none"}, at : Nat,
            pc : {"idle", "capture", "captured", "read", "write", "commit"},
            seen : Balance, captured : [1..MaxLines -> Int], locks : SUBSET Stock, own : [Stock -> Balance],
            qty : [Stock -> Int], value : [Stock -> Int], stale : SUBSET Stock]

TypeOK ==
  /\ status \in [Docs -> {"absent", "draft", "posted"}]
  /\ expected \in [Docs -> [1..MaxLines -> Int]]
  /\ balance \in [Stock -> Balance]
  /\ moved \in [Stock -> Int] /\ worth \in [Stock -> Int]
  /\ postings \in [Docs -> Nat] /\ raced \subseteq Stock
  /\ sess \in [Sessions -> Request]

\* The header of inventory.service.ts: the balance is kept in step with the
\* stock moves the way gl_account_balances is with the journal.
QuantityInStep == \A r \in Stock : balance[r].qty = moved[r]

\* The only thing that can bring them out of step is a balance that changes
\* between a transaction's read of it and its write: no refusal, rollback,
\* second line of a document on the same row, or late stock count does.
OnlyRacesLoseMoves == \A r \in Stock \ raced : balance[r].qty = moved[r]

\* What some of a document's lines move in a row.
Lines(d) == DOMAIN Doc[d].lines
LineEffect(d, k, r) ==
  LET l == Doc[d].lines[k] IN
  IF l.row # r THEN 0 ELSE CASE Doc[d].kind = "goods_receipt" -> l.quantity
                             [] Doc[d].kind = "delivery"      -> -l.quantity
                             [] Doc[d].kind = "stock_count"   -> Variance(d, k)
Effect(d, r, some) == SumFunctionOnSet([k \in Lines(d) |-> LineEffect(d, k, r)], some)

\* The lines among some of a goods receipt's that bring a row in.
Arrivals(d, r, some) ==
  {k \in some : Doc[d].kind = "goods_receipt" /\ Doc[d].lines[k].row = r}

\* Rows no stock count has adjusted.
Uncounted == {r \in Stock : \A d \in Docs :
                Doc[d].kind = "stock_count" /\ postings[d] > 0 => Effect(d, r, Lines(d)) = 0}

\* How often a row was received and how many pieces ever came in.
Receipts(r) ==
  SumFunctionOnSet([d \in Docs |-> postings[d] * Cardinality(Arrivals(d, r, Lines(d)))], Docs)
Pieces(r) ==
  SumFunctionOnSet([d \in Docs |-> IF Effect(d, r, Lines(d)) > 0
                                   THEN postings[d] * Effect(d, r, Lines(d)) ELSE 0], Docs)

\* The value of a row that was neither raced nor counted is what its moves
\* carried, up to half a unit of the fourth decimal, at each receipt, for every
\* piece that ever came in.
ValueInStep ==
  \A r \in Uncounted \ raced :
    LET drift == 2 * (balance[r].qty * balance[r].avg - worth[r])
    IN  -(Receipts(r) * Pieces(r)) <= drift /\ drift <= Receipts(r) * Pieces(r)

\* Nobody ever delivers into the negative, not even two deliveries that both
\* read the same last item; only a count can take out more than there is.
NeverNegative == \A r \in Uncounted : balance[r].qty >= 0

\* The average cost of a row that holds stock lies between the lowest and the highest
\* unit cost of the posted receipts that brought it in: rounding, lost updates and
\* writes of one column only included, so a delivery's cost lies there too.
CostsOf(d, r, some) == {Doc[d].lines[k].cost : k \in Arrivals(d, r, some)}
Costs(r) == UNION {CostsOf(d, r, Lines(d)) : d \in {e \in Docs : postings[e] > 0}}
PricedBy(costs, avg) == /\ \E c \in costs : c <= avg
                        /\ \E c \in costs : avg <= c
AverageWithinCosts ==
  \A r \in Uncounted : balance[r].qty > 0 => PricedBy(Costs(r), balance[r].avg)

\* Every request ends, also when documents list the same rows in opposite order.
RequestsEnd == \A s \in Sessions : sess[s] # Idle ~> sess[s] = Idle

-----------------------------------------------------------------------------
(***************************************************************************)
(* The inductive invariant behind the four of them that are invariants.    *)
(***************************************************************************)
Posting(s) == sess[s].pc \in {"read", "write", "commit"}
Counting(s) == sess[s].pc \in {"capture", "captured"}

\* A document is counted by one session, while nobody can post it, a document that
\* is posted is there, and no row has two holders.
InOrder(s) ==
  /\ Counting(s) => /\ sess[s].doc \in Docs /\ status[sess[s].doc] = "absent"
                    /\ Doc[sess[s].doc].kind = "stock_count"
                    /\ sess[s].pc = "capture" => sess[s].at \in Lines(sess[s].doc)
                    /\ \A t \in Sessions \ {s} : sess[t].doc # sess[s].doc
  /\ Posting(s) => /\ sess[s].doc \in Docs /\ status[sess[s].doc] # "absent"
                   /\ sess[s].at \in Lines(sess[s].doc)
  /\ ~Posting(s) => sess[s].locks = {}
  /\ \A t \in Sessions \ {s} : sess[s].locks \cap sess[t].locks = {}

\* The lines a transaction is done with.
Done(s) == {k \in Lines(sess[s].doc) : k < sess[s].at \/ sess[s].pc = "commit"}

\* A transaction's version of a row is the committed one and its own moves, unless
\* the row was stale at the first write; from then on it is locked, and every read finds
\* the transaction's own version.
VersionKept(s, r) ==
  /\ sess[s].qty[r] = Effect(sess[s].doc, r, Done(s))
  /\ r \notin sess[s].locks => /\ sess[s].qty[r] = 0 /\ sess[s].value[r] = 0
                               /\ r \notin sess[s].stale
  /\ r \in sess[s].locks => (sess[s].pc = "write" /\ LineOf(s).row = r => sess[s].seen = sess[s].own[r])
  /\ r \in sess[s].locks \ sess[s].stale =>
       sess[s].own[r].qty = balance[r].qty + sess[s].qty[r]

\* What a transaction saw before its first write of a row was stock at a price that
\* somebody paid, and so it is in its own version with what it has received itself, as
\* far as receipts and deliveries go; a count may pass through any quantity on the way.
Paid(s, r) == Costs(r) \cup CostsOf(sess[s].doc, r, Done(s))
BaseKept(s, r) ==
  LET t == sess[s]
      base == t.own[r].qty - t.qty[r]
      kind == Doc[t.doc].kind
  IN
  /\ (t.pc = "write" /\ LineOf(s).row = r /\ r \notin t.locks) =>
       /\ t.seen.qty >= 0
       /\ t.seen.qty > 0 => PricedBy(Costs(r), t.seen.avg) /\ PricedBy(Costs(r), balance[r].avg)
  /\ r \in t.locks =>
       /\ base >= 0
       /\ base > 0 => PricedBy(Paid(s, r), t.own[r].avg)
       /\ kind = "delivery" => t.own[r].qty >= 0 /\ t.qty[r] <= 0
       /\ IF kind = "goods_receipt"
          THEN t.qty[r] >= 0 /\ PricedBy(Paid(s, r), t.own[r].avg)
          ELSE t.own[r].avg = balance[r].avg

\* The value of a transaction's version of a row it did not find stale: a receipt
\* rounds once a line, the others do not touch the average.
ValueKept(s, r) ==
  LET t == sess[s]
      drift == 2 * (t.own[r].qty * t.own[r].avg - balance[r].qty * balance[r].avg - t.value[r])
      bound == Cardinality(Arrivals(t.doc, r, Done(s))) * t.own[r].qty
  IN
  r \in t.locks \ t.stale =>
    IF Doc[t.doc].kind = "goods_receipt"
    THEN -bound <= drift /\ drift <= bound
    ELSE t.own[r].avg = balance[r].avg /\ t.value[r] = t.qty[r] * balance[r].avg

InventoryInv ==
  /\ TypeOK
  /\ \A d \in Docs : status[d] = "absent" => postings[d] = 0
  /\ \A s \in Sessions : InOrder(s)
  /\ \A s \in Sessions : Posting(s) => \A r \in Stock : VersionKept(s, r)
  /\ OnlyRacesLoseMoves

StockInv ==
  /\ \A s \in Sessions : Posting(s) => \A r \in Uncounted : BaseKept(s, r) /\ ValueKept(s, r)
  /\ NeverNegative
  /\ AverageWithinCosts
  /\ ValueInStep
  /\ \A r \in Stock : moved[r] <= Pieces(r)
=============================================================================
