-------------------------- MODULE SettlementProofs --------------------------
(***************************************************************************)
(* Proofs about how what is owed is settled: Subledgers, for any documents,*)
(* tax rates and handlers, and BankReconciliation, for any sessions, lines,*)
(* invoices and payments.  The two models share no state and no name.      *)
(***************************************************************************)
EXTENDS Subledgers, BankReconciliation, TotalsProofs

\* Sums of one term and of two.
LEMMA SumOne ==
  ASSUME NEW f, NEW x, f[x] \in Int
  PROVE  SumFunctionOnSet(f, {x}) = f[x]
<1>1. IsFiniteSet({x}) /\ \A z \in {x} : f[z] \in Int
  BY FS_Singleton
<1>2. SumFunctionOnSet(f, {x}) = f[x] + SumFunctionOnSet(f, {x} \ {x})
  BY <1>1, SumTakeOut
<1>3. {x} \ {x} = {}
  OBVIOUS
<1> QED BY <1>2, <1>3, SumEmpty

LEMMA SumTwo ==
  ASSUME NEW f, NEW x, NEW y, x # y, f[x] \in Int, f[y] \in Int
  PROVE  SumFunctionOnSet(f, {x, y}) = f[x] + f[y]
<1>1. IsFiniteSet({x, y}) /\ \A z \in {x, y} : f[z] \in Int
  <2>1. {x, y} = {x} \cup {y}
    OBVIOUS
  <2>2. IsFiniteSet({x} \cup {y})
    BY FS_Singleton, FS_AddElement
  <2> QED BY <2>1, <2>2
<1>2. SumFunctionOnSet(f, {x, y}) = f[x] + SumFunctionOnSet(f, {x, y} \ {x})
  BY <1>1, SumTakeOut
<1>3. {x, y} \ {x} = {y}
  OBVIOUS
<1> QED BY <1>2, <1>3, SumOne

-----------------------------------------------------------------------------
(***************************************************************************)
(* The totals of a document.                                               *)
(***************************************************************************)
\* Rounding to a hundredth moves a number by half of one at most (round2).
LEMMA RoundingIsClose ==
  ASSUME NEW n \in Int
  PROVE  /\ Round2(n, 100) \in Int
         /\ -50 <= 100 * Round2(n, 100) - n /\ 100 * Round2(n, 100) - n <= 50
<1>1. PICK q \in Int : q = (2 * n + 100) \div 200
  OBVIOUS
<1>2. 200 * q <= 2 * n + 100 /\ 2 * n + 100 < 200 * q + 200
  BY <1>1
<1>3. Round2(n, 100) = q
  BY <1>1 DEF Round2
<1> QED BY <1>2, <1>3

\* A document has the types its book gives it.
LEMMA DocTypes ==
  ASSUME SubledgerTypeOK, NEW d \in Docs
  PROVE  /\ doc[d].kind \in Kinds /\ doc[d].date \in Nat /\ doc[d].amount \in Int
         /\ doc[d].lines \in Seq(Line) /\ doc[d].pays \in [Docs -> Int]
         /\ Len(doc[d].lines) \in Nat /\ DOMAIN doc[d].lines = 1..Len(doc[d].lines)
         /\ \A k \in DOMAIN doc[d].lines : doc[d].lines[k] \in Line
<1>1. doc[d] \in Contents
  BY SubledgersAssumption DEF SubledgerTypeOK
<1>2. doc[d].lines \in Seq(Line)
  BY <1>1 DEF Contents
<1>3. /\ Len(doc[d].lines) \in Nat /\ DOMAIN doc[d].lines = 1..Len(doc[d].lines)
      /\ \A k \in DOMAIN doc[d].lines : doc[d].lines[k] \in Line
  BY <1>2
<1> QED BY <1>1, <1>2, <1>3 DEF Contents

\* Of one code one rate is in effect at most, and it is the one that
\* currentTaxRatePercent returns.
LEMMA RateIsTheOneInForce ==
  ASSUME NEW code, NEW date \in Nat
  PROVE  /\ CurrentTaxRatePercent(code, date) = Percent(code, date)
         /\ Percent(code, date) \in Nat
<1> DEFINE In == InForce(code, date)
           f == [r \in In |-> r.percent]
<1>1. \A r \in TaxRates : r.from \in Nat /\ r.percent \in Nat /\ (r.to \in Nat \/ r.to = NoEnd)
  BY SubledgersAssumption DEF TaxRate
<1>2. In = {r \in TaxRates : r.code = code /\ r.from <= date /\ (r.to = NoEnd \/ r.to >= date)}
  <2>1. \A r \in TaxRates : date \in r.from..(IF r.to = NoEnd THEN date ELSE r.to)
                            <=> r.from <= date /\ (r.to = NoEnd \/ r.to >= date)
    BY <1>1
  <2> QED BY <2>1 DEF InForce
<1>3. Percent(code, date) = SumFunctionOnSet(f, In)
  BY DEF Percent, SumFunction
<1>4. CurrentTaxRatePercent(code, date) =
        IF In = {} THEN 0 ELSE (CHOOSE r \in In : \A q \in In : q.from <= r.from).percent
  BY <1>2 DEF CurrentTaxRatePercent
<1>5. CASE In = {}
  BY <1>3, <1>4, <1>5, SumEmpty
<1>6. CASE In # {}
  <2>1. PICK r \in In : TRUE
    BY <1>6
  <2>2. \A q \in In : q = r
    BY <2>1, <1>2, SubledgersAssumption
  <2>3. In = {r}
    BY <2>1, <2>2
  <2>4. r \in TaxRates
    BY <1>2, <2>1
  <2>5. (CHOOSE x \in In : \A q \in In : q.from <= x.from) = r
    <3>1. \A q \in In : q.from <= r.from
      BY <2>2, <2>4, <1>1
    <3> HIDE DEF In
    <3>2. (CHOOSE x \in In : \A q \in In : q.from <= x.from) \in In
      BY <3>1, <2>1
    <3> QED BY <3>2, <2>2
  <2>6. f[r] = r.percent /\ f[r] \in Int
    BY <2>1, <2>4, <1>1
  <2> HIDE DEF In, f
  <2>7. SumFunctionOnSet(f, In) = r.percent
    BY <2>3, <2>6, SumOne
  <2> QED BY <2>7, <2>5, <2>4, <1>1, <1>3, <1>4, <1>6
<1> QED BY <1>5, <1>6

\* The amounts of a line, and the tax that is due on it.
LEMMA LineAmounts ==
  ASSUME NEW l \in Line, NEW date \in Nat
  PROVE  /\ LineTotal(l) \in Int /\ LineTax(l, date) \in Int
         /\ LineTotal(l) * Percent(l.taxCode, date) \in Int
         /\ -50 <= 100 * LineTax(l, date) - LineTotal(l) * Percent(l.taxCode, date)
         /\ 100 * LineTax(l, date) - LineTotal(l) * Percent(l.taxCode, date) <= 50
<1>1. \A a, b \in Int : a * b \in Int
  OBVIOUS
<1>2. l.quantity * l.price \in Int
  BY <1>1 DEF Line
<1>3. LineTotal(l) \in Int
  BY <1>2, RoundingIsClose DEF LineTotal
<1>4. Percent(l.taxCode, date) \in Nat /\ CurrentTaxRatePercent(l.taxCode, date) = Percent(l.taxCode, date)
  BY RateIsTheOneInForce
<1>5. LineTotal(l) * Percent(l.taxCode, date) \in Int
  BY <1>1, <1>3, <1>4
<1>6. LineTax(l, date) = Round2(LineTotal(l) * Percent(l.taxCode, date), 100)
  BY <1>4 DEF LineTax
<1> QED BY <1>3, <1>5, <1>6, RoundingIsClose

\* The totals of a document; its tax is within half a cent a line of what is due.
LEMMA DocTotals ==
  ASSUME SubledgerTypeOK, NEW d \in Docs
  PROVE  /\ Subtotal(d) \in Int /\ TaxAmount(d) \in Int /\ TaxDue(d) \in Int
         /\ -(50 * Len(doc[d].lines)) <= 100 * TaxAmount(d) - TaxDue(d)
         /\ 100 * TaxAmount(d) - TaxDue(d) <= 50 * Len(doc[d].lines)
<1> DEFINE L == DOMAIN doc[d].lines
           tot == [k \in L |-> LineTotal(doc[d].lines[k])]
           tax == [k \in L |-> LineTax(doc[d].lines[k], doc[d].date)]
           due == [k \in L |-> LineTotal(doc[d].lines[k]) * Percent(doc[d].lines[k].taxCode, doc[d].date)]
           neg == [k \in L |-> (-1) * due[k]]
           big == [k \in L |-> 100 * tax[k]]
           off == [k \in L |-> 100 * tax[k] - due[k]]
<1>1. L = 1..Len(doc[d].lines) /\ Len(doc[d].lines) \in Nat
  BY DocTypes
<1>2. IsFiniteSet(L) /\ Cardinality(L) = Len(doc[d].lines)
  BY <1>1, FS_Interval
<1>3. \A k \in L : /\ tot[k] \in Int /\ tax[k] \in Int /\ due[k] \in Int
                   /\ -50 <= 100 * tax[k] - due[k] /\ 100 * tax[k] - due[k] <= 50
  BY DocTypes, LineAmounts
<1>4. \A k \in L : /\ neg[k] = (-1) * due[k] /\ big[k] = 100 * tax[k] /\ off[k] = 100 * tax[k] - due[k]
  OBVIOUS
<1>5. /\ Subtotal(d) = SumFunctionOnSet(tot, L) /\ TaxAmount(d) = SumFunctionOnSet(tax, L)
      /\ TaxDue(d) = SumFunctionOnSet(due, L)
  BY DEF Subtotal, TaxAmount, TaxDue, SumFunction
<1> HIDE DEF L, tot, tax, due, neg, big, off
<1>6. SumFunctionOnSet(tot, L) \in Int /\ SumFunctionOnSet(tax, L) \in Int /\ SumFunctionOnSet(due, L) \in Int
  BY <1>2, <1>3, SumType
<1>7. SumFunctionOnSet(neg, L) = (-1) * SumFunctionOnSet(due, L)
  BY <1>2, <1>3, <1>4, SumTimes
<1>8. SumFunctionOnSet(big, L) = 100 * SumFunctionOnSet(tax, L)
  BY <1>2, <1>3, <1>4, SumTimes
<1>9. SumFunctionOnSet(off, L) = SumFunctionOnSet(big, L) + SumFunctionOnSet(neg, L)
  <2>1. \A k \in L : big[k] \in Int /\ neg[k] \in Int /\ off[k] = big[k] + neg[k]
    BY <1>3, <1>4
  <2> QED BY <2>1, <1>2, SumAdd
<1>10. WithinOn(L, off, L, 50)
  BY <1>3, <1>4 DEF WithinOn
<1>11. /\ -(50 * Cardinality(L)) <= SumFunctionOnSet(off, L)
       /\ SumFunctionOnSet(off, L) <= 50 * Cardinality(L)
  BY <1>10, <1>2, SumWithin
<1>12. PICK x \in Int, y \in Int, n \in Nat :
         x = SumFunctionOnSet(tax, L) /\ y = SumFunctionOnSet(due, L) /\ n = Cardinality(L)
  BY <1>1, <1>2, <1>6
<1>13. SumFunctionOnSet(off, L) = 100 * x - y
  BY <1>7, <1>8, <1>9, <1>12
<1>14. -(50 * n) <= 100 * x - y /\ 100 * x - y <= 50 * n
  BY <1>11, <1>12, <1>13
<1> QED BY <1>2, <1>5, <1>6, <1>12, <1>14

LEMMA AmountTypes ==
  ASSUME SubledgerTypeOK, NEW d \in Docs, NEW source
  PROVE  AmountOf(d, source) \in Int
BY DocTotals, DocTypes DEF AmountOf

LEMMA ShareTypes ==
  ASSUME SubledgerTypeOK, NEW d \in Docs, NEW account, NEW l
  PROVE  /\ Share(d, account, l) \in Int
         /\ l[2] # account => Share(d, account, l) = 0
<1>1. AmountOf(d, l[3]) \in Int /\ -AmountOf(d, l[3]) \in Int
  BY AmountTypes
<1> QED BY <1>1 DEF Share

\* What the entry of each kind of document does to the four accounts.
SidesOf(d) ==
  /\ Booking(d, "AR") = IF doc[d].kind = "sales_invoice" THEN AmountOf(d, "total")
                        ELSE IF doc[d].kind \in {"customer_receipt", "credit_note"} THEN -doc[d].amount
                        ELSE 0
  /\ Booking(d, "AP") = IF doc[d].kind = "supplier_invoice" THEN -AmountOf(d, "total")
                        ELSE IF doc[d].kind \in {"supplier_payment", "debit_note"} THEN doc[d].amount
                        ELSE 0
  /\ Booking(d, "TAX_OUTPUT") = IF doc[d].kind = "sales_invoice" THEN -TaxAmount(d) ELSE 0
  /\ Booking(d, "TAX_INPUT") = IF doc[d].kind = "supplier_invoice" THEN TaxAmount(d) ELSE 0

LEMMA BookingOfInvoice ==
  ASSUME SubledgerTypeOK, NEW d \in Docs, NEW l, NEW m, NEW n,
         l[2] # m[2], l[2] # n[2], m[2] # n[2],
         Service[doc[d].kind].rule = {l, m, n}, NEW account
  PROVE  Booking(d, account) = Share(d, account, l) + Share(d, account, m) + Share(d, account, n)
<1> DEFINE f == [x \in {l, m, n} |-> Share(d, account, x)]
<1>1. Booking(d, account) = SumFunctionOnSet(f, {l, m, n})
  BY DEF Booking, SumFunction
<1>2. /\ f[l] = Share(d, account, l) /\ f[m] = Share(d, account, m) /\ f[n] = Share(d, account, n)
      /\ f[l] \in Int /\ f[m] \in Int /\ f[n] \in Int
  BY ShareTypes
<1> HIDE DEF f
<1>3. l # m /\ l # n /\ m # n
  OBVIOUS
<1>4. IsFiniteSet({l, m, n}) /\ \A x \in {l, m, n} : f[x] \in Int
  <2>1. {l, m, n} = ({l} \cup {m}) \cup {n}
    OBVIOUS
  <2>2. IsFiniteSet({l} \cup {m})
    BY FS_Singleton, FS_AddElement
  <2>3. IsFiniteSet(({l} \cup {m}) \cup {n})
    BY <2>2, FS_AddElement
  <2> QED BY <1>2, <2>1, <2>3
<1>5. SumFunctionOnSet(f, {l, m, n}) = f[l] + SumFunctionOnSet(f, {l, m, n} \ {l})
  BY <1>4, SumTakeOut
<1>6. {l, m, n} \ {l} = {m, n}
  BY <1>3
<1>7. SumFunctionOnSet(f, {m, n}) = f[m] + f[n]
  BY <1>2, <1>3, SumTwo
<1>8. Booking(d, account) = f[l] + (f[m] + f[n])
  BY <1>1, <1>5, <1>6, <1>7
<1>9. \A a, b, c \in Int : a + (b + c) = a + b + c
  OBVIOUS
<1> QED BY <1>2, <1>8, <1>9

LEMMA BookingOfPayment ==
  ASSUME SubledgerTypeOK, NEW d \in Docs, NEW l, NEW m, l[2] # m[2],
         Service[doc[d].kind].rule = {l, m}, NEW account
  PROVE  Booking(d, account) = Share(d, account, l) + Share(d, account, m)
<1> DEFINE f == [x \in {l, m} |-> Share(d, account, x)]
<1>1. Booking(d, account) = SumFunctionOnSet(f, {l, m})
  BY DEF Booking, SumFunction
<1>2. /\ f[l] = Share(d, account, l) /\ f[m] = Share(d, account, m)
      /\ f[l] \in Int /\ f[m] \in Int
  BY ShareTypes
<1> HIDE DEF f
<1>3. l # m
  OBVIOUS
<1>4. SumFunctionOnSet(f, {l, m}) = f[l] + f[m]
  BY <1>2, <1>3, SumTwo
<1> QED BY <1>1, <1>2, <1>4

LEMMA BookingOfNothing ==
  ASSUME NEW d \in Docs, Service[doc[d].kind].rule = {}, NEW account
  PROVE  Booking(d, account) = 0
<1> DEFINE f == [x \in {} |-> Share(d, account, x)]
<1>1. Booking(d, account) = SumFunctionOnSet(f, {})
  BY DEF Booking, SumFunction
<1> QED BY <1>1, SumEmpty

LEMMA SidesOfPayment ==
  ASSUME SubledgerTypeOK, NEW d \in Docs, NEW debit, NEW credit, debit # credit,
         Service[doc[d].kind].rule = {<<"debit", debit, "amount">>, <<"credit", credit, "amount">>}
  PROVE  \A a : Booking(d, a) = IF a = debit THEN doc[d].amount
                                ELSE IF a = credit THEN -doc[d].amount ELSE 0
<1> DEFINE l == <<"debit", debit, "amount">>
           m == <<"credit", credit, "amount">>
<1>1. l[2] # m[2]
  OBVIOUS
<1>2. \A a : Booking(d, a) = Share(d, a, l) + Share(d, a, m)
  <2>1. Service[doc[d].kind].rule = {l, m}
    OBVIOUS
  <2> HIDE DEF l, m
  <2> QED BY <1>1, <2>1, BookingOfPayment
<1>3. \A a : /\ Share(d, a, l) = IF a = debit THEN doc[d].amount ELSE 0
             /\ Share(d, a, m) = IF a = credit THEN -doc[d].amount ELSE 0
  <2>1. AmountOf(d, "amount") = doc[d].amount
    BY DEF AmountOf
  <2> QED BY <2>1 DEF Share
<1> HIDE DEF l, m
<1> QED BY <1>2, <1>3, DocTypes

LEMMA SidesAreRight == ASSUME SubledgerTypeOK, NEW d \in Docs PROVE SidesOf(d)
<1> DEFINE k == doc[d].kind
<1>0. k \in Kinds
  BY DocTypes
<1>1. CASE k = "sales_invoice"
  <2> DEFINE l == <<"debit", "AR", "total">>
             m == <<"credit", "SALES_REVENUE", "subtotal">>
             n == <<"credit", "TAX_OUTPUT", "taxAmount">>
  <2>1. Service[k].rule = {l, m, n}
    BY <1>1 DEF Service, SalesInvoice
  <2>0. l[2] # m[2] /\ l[2] # n[2] /\ m[2] # n[2]
    OBVIOUS
  <2>2. \A a : Booking(d, a) = Share(d, a, l) + Share(d, a, m) + Share(d, a, n)
    <3> HIDE DEF l, m, n
    <3> QED BY <2>0, <2>1, BookingOfInvoice
  <2>3. /\ \A a : Share(d, a, l) = IF a = "AR" THEN AmountOf(d, "total") ELSE 0
        /\ \A a : Share(d, a, m) = IF a = "SALES_REVENUE" THEN -AmountOf(d, "subtotal") ELSE 0
        /\ \A a : Share(d, a, n) = IF a = "TAX_OUTPUT" THEN -AmountOf(d, "taxAmount") ELSE 0
    BY DEF Share
  <2>4. AmountOf(d, "total") \in Int /\ AmountOf(d, "subtotal") \in Int /\ AmountOf(d, "taxAmount") \in Int
    BY AmountTypes
  <2>5. AmountOf(d, "taxAmount") = TaxAmount(d)
    BY DEF AmountOf
  <2> HIDE DEF l, m, n
  <2> QED BY <1>1, <2>2, <2>3, <2>4, <2>5 DEF SidesOf
<1>2. CASE k = "supplier_invoice"
  <2> DEFINE l == <<"debit", "PURCHASE_EXPENSE", "subtotal">>
             m == <<"debit", "TAX_INPUT", "taxAmount">>
             n == <<"credit", "AP", "total">>
  <2>1. Service[k].rule = {l, m, n}
    BY <1>2 DEF Service, SupplierInvoice
  <2>0. l[2] # m[2] /\ l[2] # n[2] /\ m[2] # n[2]
    OBVIOUS
  <2>2. \A a : Booking(d, a) = Share(d, a, l) + Share(d, a, m) + Share(d, a, n)
    <3> HIDE DEF l, m, n
    <3> QED BY <2>0, <2>1, BookingOfInvoice
  <2>3. /\ \A a : Share(d, a, l) = IF a = "PURCHASE_EXPENSE" THEN AmountOf(d, "subtotal") ELSE 0
        /\ \A a : Share(d, a, m) = IF a = "TAX_INPUT" THEN AmountOf(d, "taxAmount") ELSE 0
        /\ \A a : Share(d, a, n) = IF a = "AP" THEN -AmountOf(d, "total") ELSE 0
    BY DEF Share
  <2>4. AmountOf(d, "total") \in Int /\ AmountOf(d, "subtotal") \in Int /\ AmountOf(d, "taxAmount") \in Int
    BY AmountTypes
  <2>5. AmountOf(d, "taxAmount") = TaxAmount(d)
    BY DEF AmountOf
  <2> HIDE DEF l, m, n
  <2> QED BY <1>2, <2>2, <2>3, <2>4, <2>5 DEF SidesOf
<1>4. CASE k \in {"customer_receipt", "credit_note"}
  <2>1. PICK a \in {"bankAccount", "SALES_REVENUE"} :
          Service[k].rule = {<<"debit", a, "amount">>, <<"credit", "AR", "amount">>}
    BY <1>4 DEF Service, CustomerReceipt, CreditNote, Entered
  <2>2. \A b : Booking(d, b) = IF b = a THEN doc[d].amount
                               ELSE IF b = "AR" THEN -doc[d].amount ELSE 0
    <3>1. a # "AR"
      OBVIOUS
    <3> QED BY <2>1, <3>1, SidesOfPayment
  <2>3. Booking(d, "AR") = -doc[d].amount /\ Booking(d, "AP") = 0
    BY <2>2
  <2>4. Booking(d, "TAX_OUTPUT") = 0 /\ Booking(d, "TAX_INPUT") = 0
    BY <2>2
  <2> QED BY <2>3, <2>4, <1>4 DEF SidesOf
<1>5. CASE k \in {"supplier_payment", "debit_note"}
  <2>1. PICK a \in {"bankAccount", "PURCHASE_EXPENSE"} :
          Service[k].rule = {<<"debit", "AP", "amount">>, <<"credit", a, "amount">>}
    BY <1>5 DEF Service, SupplierPayment, DebitNote, Entered
  <2>2. \A b : Booking(d, b) = IF b = "AP" THEN doc[d].amount
                               ELSE IF b = a THEN -doc[d].amount ELSE 0
    <3>1. a # "AP"
      OBVIOUS
    <3> QED BY <2>1, <3>1, SidesOfPayment
  <2>3. Booking(d, "AP") = doc[d].amount /\ Booking(d, "AR") = 0
    BY <2>2
  <2>4. Booking(d, "TAX_OUTPUT") = 0 /\ Booking(d, "TAX_INPUT") = 0
    BY <2>2
  <2> QED BY <2>3, <2>4, <1>5 DEF SidesOf
<1>6. CASE k \in {"quotation", "sales_order", "purchase_request", "purchase_order"}
  <2>1. Service[k].rule = {}
    BY <1>6 DEF Service, Quotation, SalesOrder, PurchaseRequest, PurchaseOrder, Unbooked
  <2> QED BY <2>1, <1>6, BookingOfNothing DEF SidesOf
<1> QED BY <1>0, <1>1, <1>2, <1>4, <1>5, <1>6 DEF Kinds, Service

LEMMA BookingTypes == ASSUME SubledgerTypeOK, NEW d \in Docs, NEW a PROVE Booking(d, a) \in Int
<1> DEFINE R == Service[doc[d].kind].rule
           f == [l \in R |-> Share(d, a, l)]
<1>1. IsFiniteSet(R)
  <2>1. doc[d].kind \in Kinds
    BY DocTypes
  <2>2. /\ \A l, m : IsFiniteSet({l} \cup {m})
        /\ \A l, m, n : IsFiniteSet(({l} \cup {m}) \cup {n})
    <3>1. \A l, m : IsFiniteSet({l} \cup {m})
      BY FS_Singleton, FS_AddElement
    <3> QED BY <3>1, FS_AddElement
  <2>3. CASE doc[d].kind = "sales_invoice"
    <3>1. PICK l, m, n : R = ({l} \cup {m}) \cup {n}
      <4>1. R = ({<<"debit", "AR", "total">>} \cup {<<"credit", "SALES_REVENUE", "subtotal">>})
                \cup {<<"credit", "TAX_OUTPUT", "taxAmount">>}
        BY <2>3 DEF Service, SalesInvoice
      <4> HIDE DEF R
      <4> QED BY <4>1
    <3> HIDE DEF R
    <3> QED BY <3>1, <2>2
  <2>4. CASE doc[d].kind = "supplier_invoice"
    <3>1. PICK l, m, n : R = ({l} \cup {m}) \cup {n}
      <4>1. R = ({<<"debit", "PURCHASE_EXPENSE", "subtotal">>}
                 \cup {<<"debit", "TAX_INPUT", "taxAmount">>}) \cup {<<"credit", "AP", "total">>}
        BY <2>4 DEF Service, SupplierInvoice
      <4> HIDE DEF R
      <4> QED BY <4>1
    <3> HIDE DEF R
    <3> QED BY <3>1, <2>2
  <2>5. CASE doc[d].kind \in {"customer_receipt", "credit_note", "supplier_payment", "debit_note"}
    <3>1. PICK debit, credit :
            R = {<<"debit", debit, "amount">>} \cup {<<"credit", credit, "amount">>}
      <4>1. \/ R = {<<"debit", "bankAccount", "amount">>} \cup {<<"credit", "AR", "amount">>}
            \/ R = {<<"debit", "SALES_REVENUE", "amount">>} \cup {<<"credit", "AR", "amount">>}
            \/ R = {<<"debit", "AP", "amount">>} \cup {<<"credit", "bankAccount", "amount">>}
            \/ R = {<<"debit", "AP", "amount">>} \cup {<<"credit", "PURCHASE_EXPENSE", "amount">>}
        BY <2>5 DEF Service, CustomerReceipt, CreditNote, SupplierPayment, DebitNote, Entered
      <4> HIDE DEF R
      <4> QED BY <4>1
    <3> HIDE DEF R
    <3> QED BY <3>1, <2>2
  <2>6. CASE doc[d].kind \in {"quotation", "sales_order", "purchase_request", "purchase_order"}
    <3>1. R = {}
      BY <2>6 DEF Service, Quotation, SalesOrder, PurchaseRequest, PurchaseOrder, Unbooked
    <3> QED BY <3>1, FS_EmptySet
  <2> QED BY <2>1, <2>3, <2>4, <2>5, <2>6 DEF Kinds, Service
<1>2. \A l \in R : f[l] \in Int
  BY ShareTypes
<1>3. Booking(d, a) = SumFunctionOnSet(f, R)
  BY DEF Booking, SumFunction
<1> HIDE DEF R, f
<1> QED BY <1>1, <1>2, <1>3, SumType

LEMMA AppliedTypes ==
  ASSUME SubledgerTypeOK, NEW d \in Docs, NEW kind
  PROVE  Applied(d, kind) \in Int
<1> DEFINE K == OfKinds({kind})
           f == [i \in K |-> doc[d].pays[i]]
<1>1. K \subseteq Docs
  BY DEF OfKinds
<1>2. IsFiniteSet(K)
  BY <1>1, SubledgersAssumption, FS_Subset
<1>3. \A i \in K : f[i] \in Int
  BY <1>1, DocTypes
<1>4. Applied(d, kind) = SumFunctionOnSet(f, K)
  BY DEF Applied, SumFunction
<1> HIDE DEF K, f
<1> QED BY <1>2, <1>3, <1>4, SumType

-----------------------------------------------------------------------------
(***************************************************************************)
(* The invariant holds at the start, and every step preserves it.          *)
(***************************************************************************)
LEMMA SubledgerInitLemma == SubledgerInit => SubledgerInv
<1> SUFFICES ASSUME SubledgerInit PROVE SubledgerInv
  OBVIOUS
<1>1. SubledgerTypeOK
  <2>1. task \in [Handlers -> {NoTask} \cup Task]
    BY DEF SubledgerInit
  <2>2. status \in [Docs -> {"absent", "draft", "confirmed", "submitted", "approved", "posted"}]
    BY DEF SubledgerInit
  <2>5. balance \in [ControlAccounts -> Int] /\ manual \in [ControlAccounts -> Int]
    BY DEF SubledgerInit
  <2>3. amountPaid \in [Docs -> Int] /\ posted \in [Docs -> Nat] /\ undone \in [Docs -> Nat]
    BY DEF SubledgerInit
  <2>4. \A d \in Docs : undone[d] <= posted[d]
    BY DEF SubledgerInit
  <2> QED BY <2>1, <2>2, <2>3, <2>4, <2>5 DEF SubledgerInit, SubledgerTypeOK
<1>2. BalancesOK
  <2> SUFFICES ASSUME NEW a \in ControlAccounts
               PROVE  SumFunction([d \in Docs |-> Live(d) * Booking(d, a)]) = 0
    <3>1. \A a \in ControlAccounts : FromDocs(a) = 0
      BY DEF SubledgerInit, FromDocs
    <3> QED BY <3>1 DEF BalancesOK
  <2> DEFINE f == [d \in Docs |-> Live(d) * Booking(d, a)]
  <2>1. \A d \in Docs : f[d] = 0
    <3>1. \A d \in Docs : Live(d) = 0
      BY DEF SubledgerInit, Live
    <3>2. \A d \in Docs : Booking(d, a) \in Int
      BY <1>1, BookingTypes
    <3> QED BY <3>1, <3>2
  <2>2. SumFunction(f) = SumFunctionOnSet(f, Docs)
    BY DEF SumFunction
  <2> HIDE DEF f
  <2>3. SumFunctionOnSet(f, Docs) = 0
    BY <2>1, SubledgersAssumption, SumZero
  <2> QED BY <2>2, <2>3 DEF f
<1>3. PaidInStep
  <2> SUFFICES ASSUME NEW kind
               PROVE  /\ SumFunction([i \in OfKinds({kind}) |-> amountPaid[i]]) = 0
                      /\ SumFunction([d \in Docs |-> posted[d] * Applied(d, kind)]) = 0
    BY DEF PaidInStep, PaidOn
  <2> DEFINE K == OfKinds({kind})
             f == [i \in K |-> amountPaid[i]]
             g == [d \in Docs |-> posted[d] * Applied(d, kind)]
  <2>1. IsFiniteSet(K) /\ \A i \in K : f[i] = 0
    <3>1. K \subseteq Docs
      BY DEF OfKinds
    <3> QED BY <3>1, SubledgersAssumption, FS_Subset DEF SubledgerInit
  <2>2. \A d \in Docs : g[d] = 0
    <3>1. \A d \in Docs : Applied(d, kind) \in Int
      BY <1>1, AppliedTypes
    <3> QED BY <3>1 DEF SubledgerInit
  <2>3. SumFunction(f) = SumFunctionOnSet(f, K) /\ SumFunction(g) = SumFunctionOnSet(g, Docs)
    BY DEF SumFunction
  <2> HIDE DEF K, f, g
  <2>4. SumFunctionOnSet(f, K) = 0 /\ SumFunctionOnSet(g, Docs) = 0
    <3>1. SumFunctionOnSet(f, K) = 0
      BY <2>1, SumZero
    <3>2. SumFunctionOnSet(g, Docs) = 0
      BY <2>2, SubledgersAssumption, SumZero
    <3> QED BY <3>1, <3>2
  <2> QED BY <2>3, <2>4 DEF K, f, g
<1>4. RacesOK
  <2> SUFFICES ASSUME NEW d \in Settling
               PROVE  /\ status[d] = "posted" <=> posted[d] > 0
                      /\ \A s \in Handlers : task[s] # NoTask /\ task[s].doc = d => task[s].to = "posted"
                      /\ posted[d] + Cardinality(Posting(d)) <= Cardinality(Handlers)
    BY DEF RacesOK
  <2>1. posted[d] = 0 /\ status[d] = "absent"
    BY DEF SubledgerInit, Settling
  <2>2. \A s \in Handlers : task[s] = NoTask
    BY DEF SubledgerInit
  <2>3. Posting(d) = {}
    BY <2>2 DEF Posting, NoTask
  <2>4. Cardinality(Posting(d)) = 0 /\ Cardinality(Handlers) \in Nat
    BY <2>3, FS_EmptySet, FS_CardinalityType, SubledgersAssumption
  <2> QED BY <2>1, <2>2, <2>4
<1>5. PaidEach
  <2> SUFFICES ASSUME NEW i \in Docs
               PROVE  SumFunction([d \in Docs |-> posted[d] * doc[d].pays[i]]) = 0
    BY DEF SubledgerInit, PaidEach
  <2> DEFINE g == [d \in Docs |-> posted[d] * doc[d].pays[i]]
  <2>1. \A d \in Docs : g[d] = 0
    <3>1. \A d \in Docs : doc[d].pays[i] \in Int
      BY <1>1, DocTypes
    <3> QED BY <3>1 DEF SubledgerInit
  <2>2. SumFunction(g) = SumFunctionOnSet(g, Docs)
    BY DEF SumFunction
  <2> HIDE DEF g
  <2>3. SumFunctionOnSet(g, Docs) = 0
    BY <2>1, SubledgersAssumption, SumZero
  <2> QED BY <2>2, <2>3 DEF g
<1> QED BY <1>1, <1>2, <1>3, <1>4, <1>5 DEF SubledgerInv

\* The contents never change, nor what is computed from them alone.
LEMMA ContentsStay ==
  ASSUME doc' = doc
  PROVE  /\ \A d, a : Booking(d, a)' = Booking(d, a)
         /\ \A d, kind : Applied(d, kind)' = Applied(d, kind)
         /\ \A kinds : OfKinds(kinds)' = OfKinds(kinds)
         /\ Settling' = Settling
<1>1. \A d : Subtotal(d)' = Subtotal(d) /\ TaxAmount(d)' = TaxAmount(d)
  BY DEF Subtotal, TaxAmount
<1>2. \A d, source : AmountOf(d, source)' = AmountOf(d, source)
  BY <1>1 DEF AmountOf
<1>3. \A d, a, l : Share(d, a, l)' = Share(d, a, l)
  BY <1>2 DEF Share
<1>4. \A d, a : Booking(d, a)' = Booking(d, a)
  BY <1>3 DEF Booking
<1>5. \A kinds : OfKinds(kinds)' = OfKinds(kinds)
  BY DEF OfKinds
<1>6. \A d, kind : Applied(d, kind)' = Applied(d, kind)
  BY <1>5 DEF Applied
<1> QED BY <1>4, <1>5, <1>6 DEF Settling

\* A step that books and reverses nothing keeps the sums.
LEMMA SumsStay ==
  ASSUME SubledgerInv, UNCHANGED <<doc, amountPaid, posted, undone, balance, manual>>
  PROVE  BalancesOK' /\ PaidInStep' /\ PaidEach'
<1>1. (\A d : Live(d)' = Live(d)) /\ (\A a : FromDocs(a)' = FromDocs(a))
  BY DEF Live, FromDocs
<1>2. BalancesOK'
  BY <1>1, ContentsStay DEF SubledgerInv, BalancesOK
<1>3. PaidInStep'
  BY ContentsStay DEF SubledgerInv, PaidInStep, PaidOn
<1>4. PaidEach'
  BY DEF SubledgerInv, PaidEach
<1> QED BY <1>2, <1>3, <1>4

\* One more live booking of a document, or one less, and the balances with it.
LEMMA BookingCounts ==
  ASSUME SubledgerInv, doc' = doc, NEW y \in Docs, NEW n \in Int,
         Live(y)' = Live(y) + n, \A d \in Docs : d # y => Live(d)' = Live(d),
         balance' = [a \in ControlAccounts |-> balance[a] + n * Booking(y, a)], manual' = manual
  PROVE  BalancesOK'
<1> SUFFICES ASSUME NEW a \in ControlAccounts
             PROVE  FromDocs(a)' = SumFunction([d \in Docs |-> Live(d)' * Booking(d, a)])
  BY ContentsStay DEF BalancesOK
<1> DEFINE f == [d \in Docs |-> Live(d) * Booking(d, a)]
           g == [d \in Docs |-> Live(d)' * Booking(d, a)]
<1>1. /\ SumFunction(f) = SumFunctionOnSet(f, Docs) /\ SumFunction(g) = SumFunctionOnSet(g, Docs)
      /\ FromDocs(a) = SumFunction(f)
  BY DEF SumFunction, SubledgerInv, BalancesOK
<1>2. \A d \in Docs : Live(d) \in Int /\ Booking(d, a) \in Int /\ Live(d)' \in Int
  <2>1. \A d \in Docs : Live(d) \in Int /\ Booking(d, a) \in Int
    BY BookingTypes DEF SubledgerInv, SubledgerTypeOK, Live
  <2> QED BY <2>1
<1>3. \A d \in Docs : f[d] \in Int /\ g[d] \in Int /\ (d # y => g[d] = f[d])
  <2>1. \A i, j \in Int : i * j \in Int
    OBVIOUS
  <2> QED BY <1>2, <2>1
<1>4. g[y] = f[y] + n * Booking(y, a)
  <2>1. \A i, j, k \in Int : (i + j) * k = i * k + j * k
    OBVIOUS
  <2> QED BY <1>2, <2>1
<1>5. n * Booking(y, a) \in Int
  BY <1>2
<1> HIDE DEF f, g
<1>6. SumFunctionOnSet(g, Docs) = SumFunctionOnSet(f, Docs) + g[y] - f[y]
  BY <1>3, SubledgersAssumption, SumChange DEF DiffersAt
<1>7. SumFunctionOnSet(f, Docs) \in Int
  BY <1>3, SubledgersAssumption, SumType
<1>8. FromDocs(a)' = FromDocs(a) + n * Booking(y, a)
  <2>1. balance[a] \in Int /\ manual[a] \in Int
    BY DEF SubledgerInv, SubledgerTypeOK
  <2>2. balance'[a] = balance[a] + n * Booking(y, a) /\ manual'[a] = manual[a]
    OBVIOUS
  <2> QED BY <1>5, <2>1, <2>2 DEF FromDocs
<1> QED BY <1>1, <1>3, <1>4, <1>5, <1>6, <1>7, <1>8 DEF g

\* A document that is booked again is added to what has been paid.
LEMMA PaymentCounts ==
  ASSUME SubledgerInv, doc' = doc, NEW y \in Docs, posted' = [posted EXCEPT ![y] = @ + 1],
         amountPaid' = [i \in Docs |-> amountPaid[i] + doc[y].pays[i]]
  PROVE  PaidInStep'
<1> SUFFICES ASSUME NEW kind, PaidOn(kind)
             PROVE  PaidOn(kind)'
  BY DEF PaidInStep, SubledgerInv
<1> DEFINE K == OfKinds({kind})
           f == [i \in K |-> amountPaid[i]]
           p == [i \in K |-> doc[y].pays[i]]
           h == [i \in K |-> amountPaid'[i]]
           g == [d \in Docs |-> posted[d] * Applied(d, kind)]
           j == [d \in Docs |-> posted'[d] * Applied(d, kind)]
<1>0. SubledgerTypeOK
  BY DEF SubledgerInv
<1>1. IsFiniteSet(K) /\ K \subseteq Docs
  <2>1. K \subseteq Docs
    BY DEF OfKinds
  <2> QED BY <2>1, SubledgersAssumption, FS_Subset
<1>2. /\ SumFunction(f) = SumFunctionOnSet(f, K) /\ SumFunction(h) = SumFunctionOnSet(h, K)
      /\ SumFunction(g) = SumFunctionOnSet(g, Docs) /\ SumFunction(j) = SumFunctionOnSet(j, Docs)
      /\ SumFunction(f) = SumFunction(g) /\ Applied(y, kind) = SumFunctionOnSet(p, K)
  BY DEF SumFunction, PaidOn, Applied
<1>3. \A i \in K : f[i] \in Int /\ p[i] \in Int /\ h[i] = f[i] + p[i]
  BY <1>0, <1>1, DocTypes DEF SubledgerTypeOK
<1>4. \A d \in Docs : Applied(d, kind) \in Int /\ posted[d] \in Int /\ posted'[d] \in Int
  BY <1>0, AppliedTypes DEF SubledgerTypeOK
<1>5. \A d \in Docs : g[d] \in Int /\ j[d] \in Int /\ (d # y => j[d] = g[d])
  <2>1. \A a, b \in Int : a * b \in Int
    OBVIOUS
  <2>2. \A d \in Docs : d # y => posted'[d] = posted[d]
    BY <1>0 DEF SubledgerTypeOK
  <2> QED BY <1>4, <2>1, <2>2
<1>6. j[y] = g[y] + Applied(y, kind)
  <2>1. \A a, b \in Int : (a + 1) * b = a * b + b
    OBVIOUS
  <2>2. posted'[y] = posted[y] + 1
    BY <1>0 DEF SubledgerTypeOK
  <2> QED BY <1>4, <2>1, <2>2
<1>p. PaidOn(kind)' <=> SumFunction(h) = SumFunction(j)
  <2>1. OfKinds({kind})' = OfKinds({kind}) /\ \A d : Applied(d, kind)' = Applied(d, kind)
    BY ContentsStay
  <2>2. [i \in OfKinds({kind})' |-> amountPaid'[i]] = h
    BY <2>1
  <2>3. [d \in Docs |-> posted'[d] * Applied(d, kind)'] = j
    BY <2>1
  <2> HIDE DEF h, j
  <2> QED BY <2>2, <2>3 DEF PaidOn
<1> HIDE DEF K, f, p, h, g, j
<1>7. SumFunctionOnSet(h, K) = SumFunctionOnSet(f, K) + SumFunctionOnSet(p, K)
  BY <1>1, <1>3, SumAdd
<1>8. SumFunctionOnSet(j, Docs) = SumFunctionOnSet(g, Docs) + j[y] - g[y]
  BY <1>5, SubledgersAssumption, SumChange DEF DiffersAt
<1>9. SumFunctionOnSet(g, Docs) \in Int
  BY <1>5, SubledgersAssumption, SumType
<1>10. SumFunctionOnSet(f, K) \in Int /\ SumFunctionOnSet(p, K) \in Int
  BY <1>1, <1>3, SumType
<1>11. g[y] \in Int /\ j[y] \in Int /\ j[y] = g[y] + SumFunctionOnSet(p, K)
  BY <1>2, <1>5, <1>6
<1>12. SumFunctionOnSet(j, Docs) = SumFunctionOnSet(g, Docs) + SumFunctionOnSet(p, K)
  BY <1>8, <1>9, <1>10, <1>11
<1> QED BY <1>p, <1>2, <1>7, <1>12

LEMMA EachCounts ==
  ASSUME SubledgerInv, doc' = doc, NEW y \in Docs, posted' = [posted EXCEPT ![y] = @ + 1],
         amountPaid' = [i \in Docs |-> amountPaid[i] + doc[y].pays[i]]
  PROVE  PaidEach'
<1>0. SubledgerTypeOK
  BY DEF SubledgerInv
<1> SUFFICES ASSUME NEW i \in Docs
             PROVE  amountPaid'[i] = SumFunction([d \in Docs |-> posted'[d] * doc[d].pays[i]])
  BY DEF PaidEach
<1> DEFINE g == [d \in Docs |-> posted[d] * doc[d].pays[i]]
           j == [d \in Docs |-> posted'[d] * doc[d].pays[i]]
<1>1. /\ SumFunction(g) = SumFunctionOnSet(g, Docs) /\ SumFunction(j) = SumFunctionOnSet(j, Docs)
      /\ amountPaid[i] = SumFunction(g) /\ amountPaid'[i] = amountPaid[i] + doc[y].pays[i]
  BY DEF SumFunction, SubledgerInv, PaidEach
<1>2. \A d \in Docs : posted[d] \in Int /\ posted'[d] \in Int /\ doc[d].pays[i] \in Int
  BY <1>0, DocTypes DEF SubledgerTypeOK
<1>3. \A d \in Docs : g[d] \in Int /\ j[d] \in Int /\ (d # y => j[d] = g[d])
  <2>1. \A a, b \in Int : a * b \in Int
    OBVIOUS
  <2>2. \A d \in Docs : d # y => posted'[d] = posted[d]
    BY <1>0 DEF SubledgerTypeOK
  <2> QED BY <1>2, <2>1, <2>2
<1>4. j[y] = g[y] + doc[y].pays[i]
  <2>1. \A a, b \in Int : (a + 1) * b = a * b + b
    OBVIOUS
  <2>2. posted'[y] = posted[y] + 1
    BY <1>0 DEF SubledgerTypeOK
  <2> QED BY <1>2, <2>1, <2>2
<1>5. doc[y].pays[i] \in Int
  BY <1>2
<1> HIDE DEF g, j
<1>6. SumFunctionOnSet(j, Docs) = SumFunctionOnSet(g, Docs) + j[y] - g[y]
  BY <1>3, SubledgersAssumption, SumChange DEF DiffersAt
<1>7. SumFunctionOnSet(g, Docs) \in Int
  BY <1>3, SubledgersAssumption, SumType
<1> QED BY <1>1, <1>3, <1>4, <1>5, <1>6, <1>7 DEF j

\* What RacesOK needs of the services.
LEMMA SettlingServices ==
  ASSUME SubledgerTypeOK, NEW d \in Docs
  PROVE  /\ Service[doc[d].kind].start \in {"draft", "confirmed"}
         /\ d \in Settling => /\ Service[doc[d].kind].moves = {}
                              /\ Service[doc[d].kind].ready = "draft"
<1>1. doc[d].kind \in Kinds
  BY DocTypes
<1>2. CASE doc[d].kind \in {"sales_invoice", "supplier_invoice"}
  <2>1. Service[doc[d].kind].start = "draft" /\ Service[doc[d].kind].settles = "none"
    BY <1>2 DEF Service, SalesInvoice, SupplierInvoice
  <2> QED BY <2>1 DEF Settling
<1>3. CASE doc[d].kind \in {"customer_receipt", "credit_note", "supplier_payment", "debit_note"}
  BY <1>3 DEF Service, CustomerReceipt, CreditNote, SupplierPayment, DebitNote, Entered
<1>4. CASE doc[d].kind \in {"quotation", "sales_order", "purchase_request", "purchase_order"}
  <2>1. /\ Service[doc[d].kind].start \in {"draft", "confirmed"}
        /\ Service[doc[d].kind].settles = "none"
    BY <1>4 DEF Service, Quotation, SalesOrder, PurchaseRequest, PurchaseOrder, Unbooked
  <2> QED BY <2>1 DEF Settling
<1> QED BY <1>1, <1>2, <1>3, <1>4 DEF Kinds, Service

\* The handlers that post a document are among the handlers.
LEMMA PostingFinite ==
  ASSUME NEW d
  PROVE  /\ IsFiniteSet(Posting(d)) /\ Cardinality(Posting(d)) \in Nat
         /\ Cardinality(Handlers) \in Nat /\ Cardinality(Posting(d)) <= Cardinality(Handlers)
<1>1. Posting(d) \subseteq Handlers
  BY DEF Posting
<1> QED BY <1>1, SubledgersAssumption, FS_Subset, FS_CardinalityType

\* A handler that ends or begins anything but a post adds nothing to the posts.
LEMMA RacesStay ==
  ASSUME SubledgerInv, SubledgerTypeOK', doc' = doc, posted' = posted,
         \A d \in Settling : /\ status'[d] = "posted" <=> status[d] = "posted"
                             /\ Posting(d)' \subseteq Posting(d)
                             /\ \A s \in Handlers : task'[s] # NoTask /\ task'[s].doc = d
                                                    => task'[s].to = "posted"
  PROVE  RacesOK'
<1> SUFFICES ASSUME NEW d \in Settling
             PROVE  /\ status'[d] = "posted" <=> posted'[d] > 0
                    /\ \A s \in Handlers : task'[s] # NoTask /\ task'[s].doc = d => task'[s].to = "posted"
                    /\ posted'[d] + Cardinality(Posting(d))' <= Cardinality(Handlers)
  BY ContentsStay DEF RacesOK
<1>1. d \in Docs /\ posted[d] \in Nat
  BY DEF Settling, SubledgerInv, SubledgerTypeOK
<1>2. /\ status[d] = "posted" <=> posted[d] > 0
      /\ posted[d] + Cardinality(Posting(d)) <= Cardinality(Handlers)
  BY DEF SubledgerInv, RacesOK
<1>3. /\ Cardinality(Posting(d))' \in Nat /\ Cardinality(Posting(d)) \in Nat
      /\ Cardinality(Handlers) \in Nat
      /\ Cardinality(Posting(d)') <= Cardinality(Posting(d))
  <2>1. /\ IsFiniteSet(Posting(d)) /\ Cardinality(Posting(d)) \in Nat /\ Cardinality(Handlers) \in Nat
    BY PostingFinite
  <2>2. Posting(d)' \subseteq Posting(d)
    OBVIOUS
  <2>3. IsFiniteSet(Posting(d)') /\ Cardinality(Posting(d)') <= Cardinality(Posting(d))
    BY <2>1, <2>2, FS_Subset
  <2> QED BY <2>1, <2>3, FS_CardinalityType
<1> QED BY <1>1, <1>2, <1>3

LEMMA CreateKeeps ==
  ASSUME SubledgerInv, NEW d \in Docs, Create(d)
  PROVE  SubledgerInv'
<1>0. SubledgerTypeOK
  BY DEF SubledgerInv
<1>1. Service[doc[d].kind].start \in {"draft", "confirmed"}
  BY <1>0, SettlingServices
<1>2. SubledgerTypeOK'
  <2>1. status' \in [Docs -> {"absent", "draft", "confirmed", "submitted", "approved", "posted"}]
    BY <1>0, <1>1 DEF Create, SubledgerTypeOK
  <2> QED BY <1>0, <2>1 DEF Create, SubledgerTypeOK
<1>3. RacesOK'
  <2>1. \A e \in Docs : status'[e] = "posted" <=> status[e] = "posted"
    BY <1>0, <1>1 DEF Create, SubledgerTypeOK
  <2>2. \A e \in Settling : e \in Docs
    BY DEF Settling
  <2>3. \A e \in Settling : \A s \in Handlers : task[s] # NoTask /\ task[s].doc = e => task[s].to = "posted"
    BY DEF SubledgerInv, RacesOK
  <2>4. doc' = doc /\ posted' = posted /\ task' = task
    BY DEF Create
  <2>5. \A e : Posting(e)' = Posting(e)
    BY <2>4 DEF Posting
  <2> QED BY <1>2, <2>1, <2>2, <2>3, <2>4, <2>5, RacesStay
<1> QED BY <1>2, <1>3, SumsStay DEF Create, SubledgerInv

LEMMA BeginTransitionKeeps ==
  ASSUME SubledgerInv, NEW s \in Handlers, NEW d \in Docs,
         NEW move \in Workflow \cup PurchaseRequest.moves, BeginTransition(s, d, move)
  PROVE  SubledgerInv'
<1>0. SubledgerTypeOK
  BY DEF SubledgerInv
<1>1. move[2] \in {"submitted", "approved"}
  BY DEF Workflow, PurchaseRequest, Unbooked
<1>2. /\ \A t \in Handlers : t # s => task'[t] = task[t]
      /\ task'[s] = [to |-> move[2], doc |-> d]
      /\ UNCHANGED <<doc, status, amountPaid, posted, undone, balance, manual>>
  BY <1>0 DEF BeginTransition, Start, SubledgerTypeOK
<1>3. SubledgerTypeOK'
  <2>1. [to |-> move[2], doc |-> d] \in Task
    BY <1>1 DEF Task
  <2>2. task' \in [Handlers -> {NoTask} \cup Task]
    BY <1>0, <2>1 DEF BeginTransition, Start, SubledgerTypeOK
  <2>3. Task' = Task
    BY DEF Task
  <2> QED BY <1>0, <1>2, <2>2, <2>3 DEF SubledgerTypeOK
<1>4. d \notin Settling
  BY <1>0, SettlingServices DEF BeginTransition
<1>5. RacesOK'
  <2>1. \A e \in Settling : Posting(e)' \subseteq Posting(e)
    <3>1. task'[s].to # "posted"
      BY <1>1, <1>2
    <3> QED BY <1>2, <3>1 DEF Posting
  <2>2. \A e \in Settling : \A t \in Handlers : task'[t] # NoTask /\ task'[t].doc = e => task'[t].to = "posted"
    <3>1. \A e \in Settling : task'[s].doc # e
      BY <1>2, <1>4
    <3> QED BY <1>2, <3>1 DEF SubledgerInv, RacesOK
  <2> QED BY <1>2, <1>3, <2>1, <2>2, RacesStay
<1> QED BY <1>2, <1>3, <1>5, SumsStay DEF SubledgerInv

LEMMA CommitTransitionKeeps ==
  ASSUME SubledgerInv, NEW s \in Handlers, CommitTransition(s)
  PROVE  SubledgerInv'
<1>0. SubledgerTypeOK
  BY DEF SubledgerInv
<1>1. task[s].to \in {"submitted", "approved"} /\ task[s] # NoTask /\ task[s].doc \in Docs
  BY <1>0 DEF CommitTransition, NoTask, Task, SubledgerTypeOK
<1>2. /\ \A t \in Handlers : t # s => task'[t] = task[t]
      /\ task'[s] = NoTask
      /\ status' = [status EXCEPT ![task[s].doc] = task[s].to]
      /\ UNCHANGED <<doc, amountPaid, posted, undone, balance, manual>>
  BY <1>0 DEF CommitTransition, SubledgerTypeOK
<1>3. SubledgerTypeOK'
  <2>1. status' \in [Docs -> {"absent", "draft", "confirmed", "submitted", "approved", "posted"}]
    BY <1>0, <1>1, <1>2 DEF SubledgerTypeOK
  <2>2. task' \in [Handlers -> {NoTask} \cup Task]
    BY <1>0 DEF CommitTransition, SubledgerTypeOK
  <2> QED BY <1>0, <1>2, <2>1, <2>2 DEF SubledgerTypeOK, Task
<1>4. task[s].doc \notin Settling
  BY <1>1 DEF SubledgerInv, RacesOK
<1>5. RacesOK'
  <2>1. \A e \in Settling : Posting(e)' \subseteq Posting(e)
    BY <1>2 DEF Posting, NoTask
  <2>2. \A e \in Settling : \A t \in Handlers : task'[t] # NoTask /\ task'[t].doc = e => task'[t].to = "posted"
    BY <1>2 DEF SubledgerInv, RacesOK
  <2>3. \A e \in Settling : status'[e] = status[e]
    BY <1>2, <1>4, <1>0 DEF SubledgerTypeOK, Settling
  <2> QED BY <1>2, <1>3, <2>1, <2>2, <2>3, RacesStay
<1> QED BY <1>2, <1>3, <1>5, SumsStay DEF SubledgerInv

LEMMA AbortKeeps ==
  ASSUME SubledgerInv, NEW s \in Handlers, Abort(s)
  PROVE  SubledgerInv'
<1>0. SubledgerTypeOK
  BY DEF SubledgerInv
<1>2. /\ \A t \in Handlers : t # s => task'[t] = task[t]
      /\ task'[s] = NoTask
      /\ UNCHANGED <<doc, status, amountPaid, posted, undone, balance, manual>>
  BY <1>0 DEF Abort, SubledgerTypeOK
<1>3. SubledgerTypeOK'
  <2>1. task' \in [Handlers -> {NoTask} \cup Task]
    BY <1>0 DEF Abort, SubledgerTypeOK
  <2> QED BY <1>0, <1>2, <2>1 DEF SubledgerTypeOK, Task
<1>5. RacesOK'
  <2>1. \A e \in Settling : Posting(e)' \subseteq Posting(e)
    BY <1>2 DEF Posting, NoTask
  <2>2. \A e \in Settling : \A t \in Handlers : task'[t] # NoTask /\ task'[t].doc = e => task'[t].to = "posted"
    BY <1>2 DEF SubledgerInv, RacesOK
  <2> QED BY <1>2, <1>3, <2>1, <2>2, RacesStay
<1> QED BY <1>2, <1>3, <1>5, SumsStay DEF SubledgerInv

\* A payment or note is read as a draft, so it has not been booked yet: the handlers
\* that post it are all there can be.
LEMMA BeginPostKeeps ==
  ASSUME SubledgerInv, NEW s \in Handlers, NEW d \in Docs, BeginPost(s, d)
  PROVE  SubledgerInv'
<1>0. SubledgerTypeOK
  BY DEF SubledgerInv
<1>1. /\ \A t \in Handlers : t # s => task'[t] = task[t]
      /\ task'[s] = [to |-> "posted", doc |-> d]
      /\ UNCHANGED <<doc, status, amountPaid, posted, undone, balance, manual>>
      /\ status[d] = Service[doc[d].kind].ready
  BY <1>0 DEF BeginPost, Start, SubledgerTypeOK
<1>2. SubledgerTypeOK'
  <2>1. [to |-> "posted", doc |-> d] \in Task
    BY DEF Task
  <2>2. task' \in [Handlers -> {NoTask} \cup Task]
    BY <1>0, <2>1 DEF BeginPost, Start, SubledgerTypeOK
  <2> QED BY <1>0, <1>1, <2>2 DEF SubledgerTypeOK, Task
<1>3. RacesOK'
  <2> SUFFICES ASSUME NEW e \in Settling
               PROVE  /\ status[e] = "posted" <=> posted[e] > 0
                      /\ \A t \in Handlers : task'[t] # NoTask /\ task'[t].doc = e => task'[t].to = "posted"
                      /\ posted[e] + Cardinality(Posting(e)') <= Cardinality(Handlers)
    BY <1>1, ContentsStay DEF RacesOK
  <2>1. /\ status[e] = "posted" <=> posted[e] > 0
        /\ \A t \in Handlers : task[t] # NoTask /\ task[t].doc = e => task[t].to = "posted"
        /\ posted[e] + Cardinality(Posting(e)) <= Cardinality(Handlers)
    BY DEF SubledgerInv, RacesOK
  <2>2. \A t \in Handlers : task'[t] # NoTask /\ task'[t].doc = e => task'[t].to = "posted"
    <3>1. task'[s].to = "posted"
      BY <1>1
    <3> QED BY <1>1, <2>1, <3>1
  <2>3. CASE e = d
    <3>1. status[d] = "draft"
      BY <1>0, <1>1, <2>3, SettlingServices
    <3>2. posted[e] = 0
      BY <1>0, <2>1, <2>3, <3>1 DEF SubledgerTypeOK
    <3>3. Posting(e)' \subseteq Handlers
      BY DEF Posting
    <3>4. Cardinality(Posting(e)') <= Cardinality(Handlers) /\ Cardinality(Posting(e)') \in Nat
      BY <3>3, SubledgersAssumption, FS_Subset, FS_CardinalityType
    <3> QED BY <2>1, <2>2, <3>2, <3>4
  <2>4. CASE e # d
    <3>1. Posting(e)' = Posting(e)
      <4>1. task'[s] # [to |-> "posted", doc |-> e]
        BY <1>1, <2>4
      <4>2. task[s] # [to |-> "posted", doc |-> e]
        BY DEF BeginPost, NoTask
      <4> QED BY <1>1, <4>1, <4>2 DEF Posting
    <3> QED BY <2>1, <2>2, <3>1
  <2> QED BY <2>3, <2>4
<1> QED BY <1>1, <1>2, <1>3, SumsStay DEF SubledgerInv

LEMMA CommitPostKeeps ==
  ASSUME SubledgerInv, NEW s \in Handlers, CommitPost(s)
  PROVE  SubledgerInv'
<1>0. SubledgerTypeOK
  BY DEF SubledgerInv
<1>1. PICK d \in Docs : task[s] = [to |-> "posted", doc |-> d]
  BY <1>0 DEF CommitPost, SubledgerTypeOK, Task, NoTask
<1>2. /\ \A t \in Handlers : t # s => task'[t] = task[t]
      /\ task'[s] = NoTask
      /\ posted' = [posted EXCEPT ![d] = @ + 1]
      /\ status' = [status EXCEPT ![d] = "posted"]
      /\ balance' = [a \in ControlAccounts |-> balance[a] + Booking(d, a)]
      /\ amountPaid' = [i \in Docs |-> amountPaid[i] + doc[d].pays[i]]
      /\ doc' = doc /\ undone' = undone /\ manual' = manual
  <2>1. task[s].doc = d
    BY <1>1
  <2> QED BY <1>0, <2>1 DEF CommitPost, SubledgerTypeOK
<1>3. SubledgerTypeOK'
  <2>1. \A a \in ControlAccounts : balance[a] + Booking(d, a) \in Int
    BY <1>0, <1>1, BookingTypes DEF SubledgerTypeOK
  <2>2. balance' \in [ControlAccounts -> Int]
    BY <1>2, <2>1
  <2>3. \A i \in Docs : amountPaid[i] + doc[d].pays[i] \in Int
    BY <1>0, <1>1, DocTypes DEF SubledgerTypeOK
  <2>4. amountPaid' \in [Docs -> Int]
    BY <1>2, <2>3
  <2>5. status' \in [Docs -> {"absent", "draft", "confirmed", "submitted", "approved", "posted"}]
    BY <1>0, <1>2 DEF SubledgerTypeOK
  <2>8. posted' \in [Docs -> Nat]
    <3>1. posted[d] + 1 \in Nat
      BY <1>0, <1>1 DEF SubledgerTypeOK
    <3> QED BY <1>0, <1>2, <3>1 DEF SubledgerTypeOK
  <2>6. task' \in [Handlers -> {NoTask} \cup Task]
    BY <1>0 DEF CommitPost, SubledgerTypeOK
  <2>7. \A e \in Docs : undone'[e] <= posted'[e]
    BY <1>0, <1>2 DEF SubledgerTypeOK
  <2> QED BY <1>0, <1>2, <2>2, <2>4, <2>5, <2>6, <2>7, <2>8 DEF SubledgerTypeOK, Task
<1>4. BalancesOK'
  <2>1. /\ posted'[d] = posted[d] + 1 /\ posted[d] \in Nat /\ undone[d] \in Nat
        /\ \A e \in Docs : e # d => posted'[e] = posted[e]
    BY <1>0, <1>1, <1>2 DEF SubledgerTypeOK
  <2>2. Live(d)' = Live(d) + 1 /\ \A e \in Docs : e # d => Live(e)' = Live(e)
    <3>1. posted'[d] - undone[d] = (posted[d] - undone[d]) + 1
      BY <2>1
    <3>2. undone' = undone
      BY <1>2
    <3>3. \A e : Live(e)' = posted'[e] - undone[e]
      BY <3>2 DEF Live
    <3> QED BY <2>1, <3>1, <3>3 DEF Live
  <2>3. balance' = [a \in ControlAccounts |-> balance[a] + 1 * Booking(d, a)]
    <3>1. \A a \in ControlAccounts : balance[a] + 1 * Booking(d, a) = balance[a] + Booking(d, a)
      BY <1>0, <1>1, BookingTypes DEF SubledgerTypeOK
    <3>2. balance' = [a \in ControlAccounts |-> balance[a] + Booking(d, a)]
      BY <1>2
    <3> QED BY <3>1, <3>2
  <2> QED BY <1>1, <1>2, <2>2, <2>3, BookingCounts
<1>5. PaidInStep' /\ PaidEach'
  BY <1>1, <1>2, PaymentCounts, EachCounts
<1>6. RacesOK'
  <2> SUFFICES ASSUME NEW e \in Settling
               PROVE  /\ status'[e] = "posted" <=> posted'[e] > 0
                      /\ \A t \in Handlers : task'[t] # NoTask /\ task'[t].doc = e => task'[t].to = "posted"
                      /\ posted'[e] + Cardinality(Posting(e)') <= Cardinality(Handlers)
    BY <1>2, ContentsStay DEF RacesOK
  <2>1. /\ status[e] = "posted" <=> posted[e] > 0
        /\ \A t \in Handlers : task[t] # NoTask /\ task[t].doc = e => task[t].to = "posted"
        /\ posted[e] + Cardinality(Posting(e)) <= Cardinality(Handlers)
    BY DEF SubledgerInv, RacesOK
  <2>2. \A t \in Handlers : task'[t] # NoTask /\ task'[t].doc = e => task'[t].to = "posted"
    BY <1>2, <2>1
  <2>3. e \in Docs
    BY DEF Settling
  <2>4. CASE e = d
    <3>1. Posting(e)' = Posting(e) \ {s} /\ s \in Posting(e)
      <4>1. NoTask # [to |-> "posted", doc |-> e]
        BY DEF NoTask
      <4> QED BY <1>1, <1>2, <2>4, <4>1 DEF Posting
    <3>2. Cardinality(Posting(e)') = Cardinality(Posting(e)) - 1
      BY <3>1, PostingFinite, FS_RemoveElement
    <3>3. posted'[e] = posted[e] + 1 /\ status'[e] = "posted" /\ posted[e] \in Nat
      BY <1>0, <1>2, <2>3, <2>4 DEF SubledgerTypeOK
    <3>4. Cardinality(Posting(e)) \in Nat /\ Cardinality(Handlers) \in Nat
      BY PostingFinite
    <3>5. posted'[e] + Cardinality(Posting(e)') <= Cardinality(Handlers)
      BY <2>1, <3>2, <3>3, <3>4
    <3> QED BY <2>2, <3>3, <3>5
  <2>5. CASE e # d
    <3>1. Posting(e)' = Posting(e)
      <4>1. task'[s] # [to |-> "posted", doc |-> e]
        BY <1>2 DEF NoTask
      <4>2. task[s] # [to |-> "posted", doc |-> e]
        BY <1>1, <2>5
      <4> QED BY <1>2, <4>1, <4>2 DEF Posting
    <3>2. posted'[e] = posted[e] /\ status'[e] = status[e]
      BY <1>0, <1>2, <2>3, <2>5 DEF SubledgerTypeOK
    <3> QED BY <2>1, <2>2, <3>1, <3>2
  <2> QED BY <2>4, <2>5
<1> QED BY <1>3, <1>4, <1>5, <1>6 DEF SubledgerInv

\* A reversal, n = -1, takes a booking off the balances, and its own reversal,
\* n = 1, puts it back.
LEMMA ReversalKeeps ==
  ASSUME SubledgerInv, NEW d \in Docs, NEW n \in {1, -1},
         undone[d] - n \in 0..posted[d], undone' = [undone EXCEPT ![d] = @ - n],
         balance' = [a \in ControlAccounts |-> balance[a] + n * Booking(d, a)],
         UNCHANGED <<doc, status, amountPaid, posted, manual, task>>
  PROVE  SubledgerInv'
<1>0. SubledgerTypeOK
  BY DEF SubledgerInv
<1>1. n \in Int
  OBVIOUS
<1>2. SubledgerTypeOK'
  <2>1. \A a \in ControlAccounts : balance[a] + n * Booking(d, a) \in Int
    <3>1. \A a \in ControlAccounts : balance[a] \in Int /\ Booking(d, a) \in Int
      BY <1>0, BookingTypes DEF SubledgerTypeOK
    <3>2. \A i, j \in Int : i + n * j \in Int
      BY <1>1
    <3> QED BY <3>1, <3>2
  <2>2. balance' \in [ControlAccounts -> Int]
    BY <2>1
  <2>3. undone[d] - n \in Nat /\ undone[d] - n <= posted[d]
    BY <1>0, <1>1 DEF SubledgerTypeOK
  <2>4. undone' \in [Docs -> Nat] /\ \A e \in Docs : undone'[e] <= posted[e]
    BY <1>0, <2>3 DEF SubledgerTypeOK
  <2> QED BY <1>0, <2>2, <2>4 DEF SubledgerTypeOK, Task
<1>3. BalancesOK'
  <2>1. /\ undone'[d] = undone[d] - n /\ posted[d] \in Nat /\ undone[d] \in Nat
        /\ \A e \in Docs : e # d => undone'[e] = undone[e]
    BY <1>0 DEF SubledgerTypeOK
  <2>2. Live(d)' = Live(d) + n /\ \A e \in Docs : e # d => Live(e)' = Live(e)
    <3>1. posted[d] - undone'[d] = (posted[d] - undone[d]) + n
      BY <1>1, <2>1
    <3> QED BY <2>1, <3>1 DEF Live
  <2> QED BY <1>1, <2>2, BookingCounts
<1>4. PaidInStep' /\ PaidEach'
  <2>1. PaidInStep'
    BY ContentsStay DEF SubledgerInv, PaidInStep, PaidOn
  <2>2. PaidEach'
    BY DEF SubledgerInv, PaidEach
  <2> QED BY <2>1, <2>2
<1>5. RacesOK'
  <2>1. \A e : Posting(e)' = Posting(e)
    BY DEF Posting
  <2> QED BY <1>2, <2>1, RacesStay DEF SubledgerInv, RacesOK
<1> QED BY <1>2, <1>3, <1>4, <1>5 DEF SubledgerInv

LEMMA ReverseEntryKeeps ==
  ASSUME SubledgerInv, NEW d \in Docs, ReverseEntry(d)
  PROVE  SubledgerInv'
<1>0. /\ \A a \in ControlAccounts : balance[a] \in Int /\ Booking(d, a) \in Int
      /\ undone \in [Docs -> Nat] /\ posted[d] \in Nat
  BY BookingTypes DEF SubledgerInv, SubledgerTypeOK
<1>1. undone[d] - (-1) \in 0..posted[d] /\ undone' = [undone EXCEPT ![d] = @ - (-1)]
  <2>1. undone[d] \in Nat /\ undone[d] + 1 = undone[d] - (-1)
    BY <1>0
  <2>2. undone[d] < posted[d] /\ undone' = [undone EXCEPT ![d] = @ + 1]
    BY DEF ReverseEntry
  <2>3. undone' = [undone EXCEPT ![d] = undone[d] - (-1)]
    BY <2>1, <2>2
  <2>4. undone[d] - (-1) \in 0..posted[d]
    BY <1>0, <2>1, <2>2
  <2> QED BY <2>3, <2>4
<1>2. balance' = [a \in ControlAccounts |-> balance[a] + (-1) * Booking(d, a)]
  <2>1. \A a \in ControlAccounts : balance[a] - Booking(d, a) = balance[a] + (-1) * Booking(d, a)
    BY <1>0
  <2> QED BY <2>1 DEF ReverseEntry
<1>3. UNCHANGED <<doc, status, amountPaid, posted, manual, task>>
  BY DEF ReverseEntry
<1> QED BY <1>1, <1>2, <1>3, ReversalKeeps

LEMMA ReverseReversalKeeps ==
  ASSUME SubledgerInv, NEW d \in Docs, ReverseReversal(d)
  PROVE  SubledgerInv'
<1>0. /\ \A a \in ControlAccounts : balance[a] \in Int /\ Booking(d, a) \in Int
      /\ undone[d] \in Nat /\ posted[d] \in Nat /\ undone[d] <= posted[d]
  BY BookingTypes DEF SubledgerInv, SubledgerTypeOK
<1>1. undone[d] - 1 \in 0..posted[d] /\ undone' = [undone EXCEPT ![d] = @ - 1]
  BY <1>0 DEF ReverseReversal
<1>2. balance' = [a \in ControlAccounts |-> balance[a] + 1 * Booking(d, a)]
  <2>1. \A a \in ControlAccounts : balance[a] + Booking(d, a) = balance[a] + 1 * Booking(d, a)
    BY <1>0
  <2> QED BY <2>1 DEF ReverseReversal
<1>3. UNCHANGED <<doc, status, amountPaid, posted, manual, task>>
  BY DEF ReverseReversal
<1> QED BY <1>1, <1>2, <1>3, ReversalKeeps

\* A manual journal adds the same to a balance and to its manual part.
LEMMA PostJournalKeeps ==
  ASSUME SubledgerInv, NEW j \in Journals, NEW n \in {1, -1}, PostJournal(j, n)
  PROVE  SubledgerInv'
<1>0. SubledgerTypeOK
  BY DEF SubledgerInv
<1>1. UNCHANGED <<doc, status, amountPaid, posted, undone, task>>
  BY DEF PostJournal
<1>2. \A a \in ControlAccounts :
        /\ balance[a] \in Int /\ manual[a] \in Int /\ n * j[a] \in Int
        /\ balance'[a] = balance[a] + n * j[a] /\ manual'[a] = manual[a] + n * j[a]
  <2>1. \A a \in ControlAccounts : balance[a] \in Int /\ manual[a] \in Int /\ j[a] \in Int
    BY <1>0, SubledgersAssumption DEF SubledgerTypeOK
  <2>2. \A a \in ControlAccounts : n * j[a] \in Int
    BY <2>1
  <2> QED BY <2>1, <2>2 DEF PostJournal
<1>3. SubledgerTypeOK'
  <2>1. balance' \in [ControlAccounts -> Int] /\ manual' \in [ControlAccounts -> Int]
    BY <1>2 DEF PostJournal
  <2> QED BY <1>0, <1>1, <2>1 DEF SubledgerTypeOK, Task
<1>4. BalancesOK'
  <2>1. \A a \in ControlAccounts : FromDocs(a)' = FromDocs(a)
    BY <1>2 DEF FromDocs
  <2>2. \A d : Live(d)' = Live(d)
    BY <1>1 DEF Live
  <2> QED BY <1>1, <2>1, <2>2, ContentsStay DEF SubledgerInv, BalancesOK
<1>5. PaidInStep' /\ PaidEach'
  <2>1. PaidInStep'
    BY <1>1, ContentsStay DEF SubledgerInv, PaidInStep, PaidOn
  <2>2. PaidEach'
    BY <1>1 DEF SubledgerInv, PaidEach
  <2> QED BY <2>1, <2>2
<1>6. RacesOK'
  <2>1. \A e : Posting(e)' = Posting(e)
    BY <1>1 DEF Posting
  <2> QED BY <1>1, <1>3, <2>1, RacesStay DEF SubledgerInv, RacesOK
<1> QED BY <1>3, <1>4, <1>5, <1>6 DEF SubledgerInv

LEMMA SubledgerNextLemma == SubledgerInv /\ [SubledgerNext]_subledgerVars => SubledgerInv'
<1> SUFFICES ASSUME SubledgerInv, [SubledgerNext]_subledgerVars PROVE SubledgerInv'
  OBVIOUS
<1>1. CASE UNCHANGED subledgerVars
  <2>1. UNCHANGED <<doc, status, amountPaid, posted, undone, balance, manual, task>>
    BY <1>1 DEF subledgerVars
  <2>2. SubledgerTypeOK'
    BY <2>1 DEF SubledgerInv, SubledgerTypeOK, Task
  <2>3. \A e : Posting(e)' = Posting(e)
    BY <2>1 DEF Posting
  <2>4. RacesOK'
    BY <2>1, <2>2, <2>3, RacesStay DEF SubledgerInv, RacesOK
  <2> QED BY <2>1, <2>2, <2>4, SumsStay DEF SubledgerInv
<1>2. ASSUME NEW d \in Docs, Create(d) \/ ReverseEntry(d) \/ ReverseReversal(d) PROVE SubledgerInv'
  BY <1>2, CreateKeeps, ReverseEntryKeeps, ReverseReversalKeeps
<1>4. ASSUME NEW j \in Journals, NEW n \in {1, -1}, PostJournal(j, n) PROVE SubledgerInv'
  BY <1>4, PostJournalKeeps
<1>3. ASSUME NEW s \in Handlers,
             \/ \E d \in Docs :
                  \/ \E move \in Workflow \cup PurchaseRequest.moves : BeginTransition(s, d, move)
                  \/ BeginPost(s, d)
             \/ CommitTransition(s)
             \/ CommitPost(s)
             \/ Abort(s)
      PROVE  SubledgerInv'
  BY <1>3, BeginTransitionKeeps, BeginPostKeeps, CommitTransitionKeeps, CommitPostKeeps, AbortKeeps
<1> QED BY <1>1, <1>2, <1>3, <1>4 DEF SubledgerNext

\* The sub-ledgers' inductive invariant.
THEOREM SubledgerInvariant == SubledgerSpec => []SubledgerInv
<1> QED BY SubledgerInitLemma, SubledgerNextLemma, PTL DEF SubledgerSpec

\* A sum over some documents is one over all, of which the others count nothing.
LEMMA PartOfDocs ==
  ASSUME NEW T \in SUBSET Docs, NEW f, NEW g, \A d \in T : f[d] \in Int,
         \A d \in Docs : g[d] = IF d \in T THEN f[d] ELSE 0
  PROVE  SumFunctionOnSet(f, T) = SumFunctionOnSet(g, Docs)
<1>1. \A d \in Docs : g[d] \in Int
  OBVIOUS
<1>2. \A d \in Docs : g[d] = IF d \in T THEN g[d] ELSE 0
  OBVIOUS
<1>3. SumFunctionOnSet(g, T) = SumFunctionOnSet(g, Docs)
  BY <1>1, <1>2, SubledgersAssumption, SumPart
<1>4. IsFiniteSet(T)
  BY SubledgersAssumption, FS_Subset
<1>5. SumFunctionOnSet(f, T) = SumFunctionOnSet(g, T)
  BY <1>4, SumSame
<1> QED BY <1>3, <1>5

\* Whatever payments and notes allocate to an invoice, what it counts as paid beyond
\* that is what the repeated postings of these have added.
THEOREM PaidBeyondAllocationsByRepeats == SubledgerSpec => []PaidBeyondByRepeats
<1>1. SubledgerInv => PaidBeyondByRepeats
  <2> DEFINE Once == {c \in Docs : posted[c] > 0}
             Again == {c \in Docs : posted[c] > 1}
  <2> SUFFICES ASSUME SubledgerInv, NEW i \in InvoiceDocs
               PROVE  amountPaid[i] - SumFunction([d \in Once |-> doc[d].pays[i]])
                        = SumFunction([d \in Again |-> (posted[d] - 1) * doc[d].pays[i]])
    BY DEF PaidBeyondByRepeats
  <2> DEFINE once == [d \in Once |-> doc[d].pays[i]]
             again == [d \in Again |-> (posted[d] - 1) * doc[d].pays[i]]
             all == [d \in Docs |-> posted[d] * doc[d].pays[i]]
             first == [d \in Docs |-> IF d \in Once THEN once[d] ELSE 0]
             rest == [d \in Docs |-> IF d \in Again THEN again[d] ELSE 0]
  <2>0. SubledgerTypeOK /\ i \in Docs /\ Once \in SUBSET Docs /\ Again \in SUBSET Docs
    BY DEF SubledgerInv, InvoiceDocs
  <2>1. \A d \in Docs : doc[d].pays[i] \in Int /\ posted[d] \in Nat
    BY <2>0, DocTypes DEF SubledgerTypeOK
  <2>2. /\ \A d \in Once : once[d] \in Int
        /\ \A d \in Again : again[d] \in Int
        /\ \A d \in Docs : all[d] = first[d] + rest[d]
    <3>1. \A m \in Nat, k \in Int : (m - 1) * k \in Int /\ m * k = k + (m - 1) * k
      OBVIOUS
    <3>2. \A k \in Int : 0 * k = 0 + 0 /\ 1 * k = k + 0
      OBVIOUS
    <3>3. \A d \in Docs : all[d] = first[d] + rest[d]
      <4> SUFFICES ASSUME NEW d \in Docs PROVE all[d] = first[d] + rest[d]
        OBVIOUS
      <4>1. CASE posted[d] = 0
        <5>1. d \notin Once /\ d \notin Again
          BY <4>1
        <5> QED BY <2>1, <3>2, <4>1, <5>1
      <4>2. CASE posted[d] = 1
        <5>1. d \in Once /\ d \notin Again
          BY <4>2
        <5> QED BY <2>1, <3>2, <4>2, <5>1
      <4>3. CASE posted[d] > 1
        <5>1. d \in Once /\ d \in Again
          BY <2>1, <4>3
        <5> QED BY <2>1, <3>1, <5>1
      <4> QED BY <2>1, <4>1, <4>2, <4>3
    <3> QED BY <2>1, <3>1, <3>3
  <2>3. /\ SumFunction(once) = SumFunctionOnSet(once, Once)
        /\ SumFunction(again) = SumFunctionOnSet(again, Again)
        /\ amountPaid[i] = SumFunctionOnSet(all, Docs)
    BY <2>0 DEF SumFunction, SubledgerInv, PaidEach
  <2>4. /\ \A d \in Docs : first[d] = IF d \in Once THEN once[d] ELSE 0
        /\ \A d \in Docs : rest[d] = IF d \in Again THEN again[d] ELSE 0
    OBVIOUS
  <2> HIDE DEF Once, Again, once, again, all, first, rest
  <2>5. SumFunctionOnSet(once, Once) = SumFunctionOnSet(first, Docs)
    BY <2>0, <2>2, <2>4, PartOfDocs
  <2>6. SumFunctionOnSet(again, Again) = SumFunctionOnSet(rest, Docs)
    BY <2>0, <2>2, <2>4, PartOfDocs
  <2>7. \A d \in Docs : first[d] \in Int /\ rest[d] \in Int
    BY <2>2, <2>4
  <2>8. SumFunctionOnSet(all, Docs) = SumFunctionOnSet(first, Docs) + SumFunctionOnSet(rest, Docs)
    BY <2>2, <2>7, SubledgersAssumption, SumAdd
  <2>9. SumFunctionOnSet(first, Docs) \in Int /\ SumFunctionOnSet(rest, Docs) \in Int
    BY <2>7, SubledgersAssumption, SumType
  <2> QED BY <2>3, <2>5, <2>6, <2>8, <2>9 DEF once, again
<1> QED BY <1>1, SubledgerInvariant, PTL

-----------------------------------------------------------------------------
(***************************************************************************)
(* Documents booked twice: a request that is alone on its document began   *)
(* before it was posted, so what it writes is the first booking or none.   *)
(***************************************************************************)
\* A request that ends, or that nothing is booked by, disturbs no document.
LEMMA OverlapStays ==
  ASSUME SubledgerTypeOK, OverlapInv, raced' = raced, posted' = posted,
         \A d \in Docs \ raced : status'[d] = "posted" <=> status[d] = "posted",
         \A s \in Handlers : task'[s] \in {task[s], NoTask}
  PROVE  OverlapInv'
<1>1. BookedTwiceInRacesOnly'
  BY DEF OverlapInv, BookedTwiceInRacesOnly
<1>2. ASSUME NEW s \in Handlers PROVE Undisturbed(s)'
  <2> SUFFICES ASSUME task'[s] # NoTask, task'[s].doc \notin raced
               PROVE  /\ status'[task'[s].doc] # "posted"
                      /\ \A u \in Handlers : task'[u] # NoTask /\ task'[u].doc = task'[s].doc => u = s
    BY DEF Undisturbed
  <2>1. task'[s] = task[s] /\ task[s].doc \in Docs
    BY DEF SubledgerTypeOK, Task
  <2>2. Undisturbed(s)
    BY DEF OverlapInv
  <2>3. \A u \in Handlers : task'[u] # NoTask => task'[u] = task[u]
    OBVIOUS
  <2> QED BY <2>1, <2>2, <2>3 DEF Undisturbed
<1> QED BY <1>1, <1>2 DEF OverlapInv

\* A request that begins has seen a document that is not posted; if others work on
\* it already, the document counts as raced from then on.
LEMMA StartKeepsOverlap ==
  ASSUME SubledgerTypeOK, OverlapInv, NEW s \in Handlers, NEW d \in Docs, NEW to,
         status[d] # "posted", Start(s, to, d)
  PROVE  OverlapInv'
<1>1. /\ \A t \in Handlers : t # s => task'[t] = task[t]
      /\ task'[s] = [to |-> to, doc |-> d]
      /\ raced' = IF OnDoc(d) = {} THEN raced ELSE raced \cup {d}
      /\ status' = status /\ posted' = posted
  BY DEF Start, SubledgerTypeOK
<1>2. BookedTwiceInRacesOnly'
  BY <1>1 DEF OverlapInv, BookedTwiceInRacesOnly
<1>3. ASSUME NEW t \in Handlers PROVE Undisturbed(t)'
  <2> SUFFICES ASSUME task'[t] # NoTask, task'[t].doc \notin raced'
               PROVE  /\ status[task'[t].doc] # "posted"
                      /\ \A u \in Handlers : task'[u] # NoTask /\ task'[u].doc = task'[t].doc => u = t
    BY <1>1 DEF Undisturbed
  <2>1. CASE task'[t].doc = d
    <3>1. \A u \in Handlers : task[u].doc # d
      BY <1>1, <2>1 DEF OnDoc
    <3>2. \A u \in Handlers : task'[u].doc = d => u = s
      BY <1>1, <3>1
    <3> QED BY <2>1, <3>2
  <2>2. CASE task'[t].doc # d
    <3>1. t # s /\ task'[t] = task[t] /\ task[t].doc \notin raced
      BY <1>1, <2>2
    <3>2. Undisturbed(t)
      BY DEF OverlapInv
    <3>3. \A u \in Handlers : task'[u].doc = task[t].doc => u # s
      BY <1>1, <2>2, <3>1
    <3> QED BY <1>1, <3>1, <3>2, <3>3 DEF Undisturbed
  <2> QED BY <2>1, <2>2
<1> QED BY <1>2, <1>3 DEF OverlapInv

LEMMA CommitPostKeepsOverlap ==
  ASSUME SubledgerTypeOK, OverlapInv, NEW s \in Handlers, CommitPost(s)
  PROVE  OverlapInv'
<1>1. PICK d \in Docs : task[s] = [to |-> "posted", doc |-> d]
  BY DEF CommitPost, SubledgerTypeOK, Task, NoTask
<1>2. /\ \A t \in Handlers : t # s => task'[t] = task[t]
      /\ task'[s] = NoTask
      /\ posted'[d] = posted[d] + 1 /\ status'[d] = "posted"
      /\ \A e \in Docs : e # d => posted'[e] = posted[e] /\ status'[e] = status[e]
      /\ raced' = raced
  <2>1. task[s].doc = d
    BY <1>1
  <2> QED BY <2>1 DEF CommitPost, SubledgerTypeOK
<1>3. d \notin raced => /\ status[d] # "posted"
                        /\ \A u \in Handlers : task[u] # NoTask /\ task[u].doc = d => u = s
  <2>1. Undisturbed(s) /\ task[s] # NoTask /\ task[s].doc = d
    BY <1>1 DEF OverlapInv, NoTask
  <2> QED BY <2>1 DEF Undisturbed
<1>4. BookedTwiceInRacesOnly'
  <2> SUFFICES ASSUME NEW e \in Docs \ raced
               PROVE  posted'[e] = IF status'[e] = "posted" THEN 1 ELSE 0
    BY <1>2 DEF BookedTwiceInRacesOnly
  <2>1. posted[e] = IF status[e] = "posted" THEN 1 ELSE 0
    BY DEF OverlapInv, BookedTwiceInRacesOnly
  <2> QED BY <1>2, <1>3, <2>1
<1>5. ASSUME NEW t \in Handlers PROVE Undisturbed(t)'
  <2> SUFFICES ASSUME task'[t] # NoTask, task'[t].doc \notin raced
               PROVE  /\ status'[task'[t].doc] # "posted"
                      /\ \A u \in Handlers : task'[u] # NoTask /\ task'[u].doc = task'[t].doc => u = t
    BY <1>2 DEF Undisturbed
  <2>1. t # s /\ task'[t] = task[t] /\ task[t].doc \in Docs
    BY <1>2 DEF SubledgerTypeOK, Task
  <2>2. task[t].doc # d
    BY <1>3, <2>1
  <2>3. Undisturbed(t)
    BY DEF OverlapInv
  <2>4. \A u \in Handlers : task'[u] # NoTask => task'[u] = task[u]
    BY <1>2
  <2> QED BY <1>2, <2>1, <2>2, <2>3, <2>4 DEF Undisturbed
<1> QED BY <1>4, <1>5 DEF OverlapInv

\* A status that a request checks before it begins is never "posted".
LEMMA PostedIsFinal ==
  ASSUME SubledgerTypeOK, NEW d \in Docs
  PROVE  /\ Service[doc[d].kind].start # "posted" /\ Service[doc[d].kind].ready # "posted"
         /\ \A move \in Workflow \cup PurchaseRequest.moves :
              move[1] # "posted" /\ move[2] # "posted"
<1>1. doc[d].kind \in Kinds
  BY DocTypes
<1>2. \A move \in Workflow \cup PurchaseRequest.moves : move[1] # "posted" /\ move[2] # "posted"
  BY DEF Workflow, PurchaseRequest, Unbooked
<1>3. CASE doc[d].kind \in {"sales_invoice", "supplier_invoice"}
  BY <1>2, <1>3 DEF Service, SalesInvoice, SupplierInvoice
<1>4. CASE doc[d].kind \in {"customer_receipt", "credit_note", "supplier_payment", "debit_note"}
  BY <1>2, <1>4 DEF Service, CustomerReceipt, CreditNote, SupplierPayment, DebitNote, Entered
<1>5. CASE doc[d].kind \in {"quotation", "sales_order", "purchase_request", "purchase_order"}
  BY <1>2, <1>5 DEF Service, Quotation, SalesOrder, PurchaseRequest, PurchaseOrder, Unbooked
<1> QED BY <1>1, <1>3, <1>4, <1>5 DEF Kinds, Service

LEMMA OverlapNextLemma ==
  ASSUME SubledgerInv, OverlapInv, [SubledgerNext]_subledgerVars
  PROVE  OverlapInv'
<1>0. SubledgerTypeOK
  BY DEF SubledgerInv
<1>1. CASE UNCHANGED subledgerVars
  BY <1>0, <1>1, OverlapStays DEF subledgerVars
<1>2. ASSUME NEW d \in Docs, Create(d) PROVE OverlapInv'
  <2>1. \A e \in Docs : status'[e] = "posted" <=> status[e] = "posted"
    BY <1>0, <1>2, PostedIsFinal DEF Create, SubledgerTypeOK
  <2> QED BY <1>0, <1>2, <2>1, OverlapStays DEF Create
<1>3. ASSUME NEW d \in Docs, ReverseEntry(d) \/ ReverseReversal(d) PROVE OverlapInv'
  BY <1>0, <1>3, OverlapStays DEF ReverseEntry, ReverseReversal
<1>4. ASSUME NEW j \in Journals, NEW n \in {1, -1}, PostJournal(j, n) PROVE OverlapInv'
  BY <1>0, <1>4, OverlapStays DEF PostJournal
<1>5. ASSUME NEW s \in Handlers, NEW d \in Docs,
             NEW move \in Workflow \cup PurchaseRequest.moves, BeginTransition(s, d, move)
      PROVE  OverlapInv'
  <2>1. status[d] # "posted" /\ Start(s, move[2], d)
    BY <1>0, <1>5, PostedIsFinal DEF BeginTransition
  <2> QED BY <1>0, <2>1, StartKeepsOverlap
<1>6. ASSUME NEW s \in Handlers, NEW d \in Docs, BeginPost(s, d) PROVE OverlapInv'
  <2>1. status[d] # "posted" /\ Start(s, "posted", d)
    BY <1>0, <1>6, PostedIsFinal DEF BeginPost
  <2> QED BY <1>0, <2>1, StartKeepsOverlap
<1>7. ASSUME NEW s \in Handlers, CommitTransition(s) PROVE OverlapInv'
  <2>1. task[s] # NoTask /\ task[s].to # "posted" /\ Undisturbed(s)
    BY <1>7 DEF CommitTransition, NoTask, OverlapInv
  <2>2. \A e \in Docs \ raced : status'[e] = "posted" <=> status[e] = "posted"
    BY <1>0, <1>7, <2>1 DEF CommitTransition, Undisturbed, SubledgerTypeOK
  <2>3. \A t \in Handlers : task'[t] \in {task[t], NoTask}
    BY <1>0, <1>7 DEF CommitTransition, SubledgerTypeOK
  <2> QED BY <1>0, <1>7, <2>2, <2>3, OverlapStays DEF CommitTransition
<1>8. ASSUME NEW s \in Handlers, CommitPost(s) PROVE OverlapInv'
  BY <1>0, <1>8, CommitPostKeepsOverlap
<1>9. ASSUME NEW s \in Handlers, Abort(s) PROVE OverlapInv'
  <2>1. \A t \in Handlers : task'[t] \in {task[t], NoTask}
    BY <1>0, <1>9 DEF Abort, SubledgerTypeOK
  <2> QED BY <1>0, <1>9, <2>1, OverlapStays DEF Abort
<1> QED BY <1>1, <1>2, <1>3, <1>4, <1>5, <1>6, <1>7, <1>8, <1>9 DEF SubledgerNext

\* However many handlers there are, a payment or note is posted exactly when it is
\* booked, and booked once per handler at most.
LEMMA PaymentsRepeatInRaces == SubledgerInv => PaymentsRepeatOnce
<1> SUFFICES ASSUME SubledgerInv, NEW d \in Settling
             PROVE  /\ status[d] = "posted" <=> posted[d] > 0
                    /\ posted[d] <= Cardinality(Handlers)
  BY DEF PaymentsRepeatOnce
<1>1. posted[d] \in Nat
  BY DEF Settling, SubledgerInv, SubledgerTypeOK
<1>2. /\ status[d] = "posted" <=> posted[d] > 0
      /\ posted[d] + Cardinality(Posting(d)) <= Cardinality(Handlers)
  BY DEF SubledgerInv, RacesOK
<1>3. Cardinality(Posting(d)) \in Nat /\ Cardinality(Handlers) \in Nat
  BY PostingFinite
<1> QED BY <1>1, <1>2, <1>3

\* However many handlers there are, a payment or note is posted exactly when it is
\* booked, and booked once per handler at most; and any document is booked once, exactly
\* when it is posted, unless two requests worked on it at once.
THEOREM RepeatsInRacesOnly == SubledgerSpec => []RepeatsAreRaces
<1>1. SubledgerInit => OverlapInv
  BY DEF SubledgerInit, OverlapInv, BookedTwiceInRacesOnly, Undisturbed
<1>2. SubledgerInv /\ OverlapInv /\ [SubledgerNext]_subledgerVars => OverlapInv'
  BY OverlapNextLemma
<1>3. SubledgerInv /\ OverlapInv => RepeatsAreRaces
  BY PaymentsRepeatInRaces DEF OverlapInv, RepeatsAreRaces
<1> QED BY <1>1, <1>2, <1>3, SubledgerInvariant, PTL DEF SubledgerSpec

-----------------------------------------------------------------------------
(***************************************************************************)
(* The accounts that tie out.                                              *)
(***************************************************************************)
\* Which documents apply amounts to the invoices of a kind: create has checked
\* that what a document settles is of the kind its service settles.
SettledBy(kind) == IF kind = "sales_invoice" THEN {"customer_receipt", "credit_note"}
                   ELSE {"supplier_payment", "debit_note"}
LEMMA AppliedIs ==
  ASSUME SubledgerTypeOK, NEW d \in Docs, NEW kind \in {"sales_invoice", "supplier_invoice"}
  PROVE  Applied(d, kind) = IF doc[d].kind \in SettledBy(kind) THEN doc[d].amount - Unapplied(d) ELSE 0
<1> DEFINE K == OfKinds({kind})
           f == [i \in K |-> doc[d].pays[i]]
           g == [i \in InvoiceDocs |-> doc[d].pays[i]]
<1>1. /\ K \subseteq InvoiceDocs /\ InvoiceDocs \subseteq Docs
      /\ \A i \in Docs : i \in K <=> doc[i].kind = kind
  BY DEF OfKinds, InvoiceDocs
<1>2. IsFiniteSet(K) /\ IsFiniteSet(InvoiceDocs)
  BY <1>1, SubledgersAssumption, FS_Subset
<1>3. /\ Applied(d, kind) = SumFunctionOnSet(f, K)
      /\ Unapplied(d) = doc[d].amount - SumFunctionOnSet(g, InvoiceDocs)
  BY DEF Applied, Unapplied, SumFunction
<1>4. \A i \in Docs : doc[d].pays[i] # 0 => Service[doc[d].kind].settles = doc[i].kind
  BY SubledgersAssumption DEF SubledgerTypeOK
<1>5. doc[d].kind \in Kinds /\ doc[d].amount \in Int /\ \A i \in Docs : doc[d].pays[i] \in Int
  BY DocTypes
<1>6. (\A i \in K : f[i] = doc[d].pays[i]) /\ (\A i \in InvoiceDocs : g[i] = doc[d].pays[i])
  OBVIOUS
<1>7. doc[d].kind \in SettledBy(kind) <=> Service[doc[d].kind].settles = kind
  <2>1. CASE doc[d].kind \in {"customer_receipt", "credit_note"}
    <3>1. Service[doc[d].kind].settles = "sales_invoice"
      BY <2>1 DEF Service, CustomerReceipt, CreditNote, Entered
    <3> QED BY <2>1, <3>1 DEF SettledBy
  <2>2. CASE doc[d].kind \in {"supplier_payment", "debit_note"}
    <3>1. Service[doc[d].kind].settles = "supplier_invoice"
      BY <2>2 DEF Service, SupplierPayment, DebitNote, Entered
    <3> QED BY <2>2, <3>1 DEF SettledBy
  <2>3. CASE doc[d].kind \in {"sales_invoice", "supplier_invoice"}
    <3>1. Service[doc[d].kind].settles = "none"
      BY <2>3 DEF Service, SalesInvoice, SupplierInvoice
    <3> QED BY <2>3, <3>1 DEF SettledBy
  <2>4. CASE doc[d].kind \in {"quotation", "sales_order", "purchase_request", "purchase_order"}
    <3>1. Service[doc[d].kind].settles = "none"
      BY <2>4 DEF Service, Quotation, SalesOrder, PurchaseRequest, PurchaseOrder, Unbooked
    <3> QED BY <2>4, <3>1 DEF SettledBy
  <2> QED BY <1>5, <2>1, <2>2, <2>3, <2>4 DEF Kinds, Service
<1> HIDE DEF K, f, g
<1>8. CASE doc[d].kind \in SettledBy(kind)
  <2>1. \A i \in InvoiceDocs : g[i] = IF i \in K THEN g[i] ELSE 0
    BY <1>1, <1>4, <1>6, <1>7, <1>8
  <2>2. \A i \in InvoiceDocs : g[i] \in Int
    BY <1>1, <1>5, <1>6
  <2>3. SumFunctionOnSet(g, K) = SumFunctionOnSet(g, InvoiceDocs)
    BY <1>1, <1>2, <2>1, <2>2, SumPart
  <2>4. SumFunctionOnSet(f, K) = SumFunctionOnSet(g, K)
    <3>1. \A i \in K : f[i] = g[i]
      BY <1>1, <1>6
    <3> QED BY <1>2, <3>1, SumSame
  <2>5. SumFunctionOnSet(g, InvoiceDocs) \in Int
    BY <1>2, <2>2, SumType
  <2> QED BY <1>3, <1>5, <1>8, <2>3, <2>4, <2>5
<1>9. CASE doc[d].kind \notin SettledBy(kind)
  <2>1. \A i \in K : f[i] = 0
    BY <1>1, <1>4, <1>6, <1>7, <1>9
  <2> QED BY <1>2, <1>3, <1>9, <2>1, SumZero
<1> QED BY <1>8, <1>9

LEMMA UnappliedTypes == ASSUME SubledgerTypeOK, NEW d \in Docs PROVE Unapplied(d) \in Int
<1> DEFINE g == [i \in InvoiceDocs |-> doc[d].pays[i]]
<1>1. IsFiniteSet(InvoiceDocs) /\ \A i \in InvoiceDocs : g[i] \in Int
  <2>1. InvoiceDocs \subseteq Docs
    BY DEF InvoiceDocs
  <2> QED BY <2>1, SubledgersAssumption, FS_Subset, DocTypes
<1>2. Unapplied(d) = doc[d].amount - SumFunctionOnSet(g, InvoiceDocs) /\ doc[d].amount \in Int
  BY DocTypes DEF Unapplied, SumFunction
<1> HIDE DEF g
<1> QED BY <1>1, <1>2, SumType

\* The live bookings of one side's control account are its open items.
LEMMA OpenItemsAreBooked ==
  ASSUME SubledgerInv, NEW kind \in {"sales_invoice", "supplier_invoice"}, PaidOn(kind), NEW book,
         \A d \in Docs : book[d] = IF doc[d].kind = kind THEN AmountOf(d, "total")
                                   ELSE IF doc[d].kind \in SettledBy(kind) THEN -doc[d].amount
                                   ELSE 0
  PROVE  SumFunctionOnSet([d \in Docs |-> Live(d) * book[d]], Docs) = OpenItems(kind, SettledBy(kind))
<1> DEFINE K == OfKinds({kind})
           P == OfKinds(SettledBy(kind))
           owed == [i \in K |-> Live(i) * AmountOf(i, "total") - amountPaid[i]]
           kept == [d \in P |-> Live(d) * Unapplied(d) - undone[d] * (doc[d].amount - Unapplied(d))]
           taken == [i \in K |-> amountPaid[i]]
           allOwed == [d \in Docs |-> IF d \in K THEN owed[d] ELSE 0]
           allKept == [d \in Docs |-> IF d \in P THEN kept[d] ELSE 0]
           allPaid == [d \in Docs |-> IF d \in K THEN taken[d] ELSE 0]
           applied == [d \in Docs |-> posted[d] * Applied(d, kind)]
           booked == [d \in Docs |-> Live(d) * book[d]]
           left == [d \in Docs |-> allOwed[d] + allPaid[d]]
           part == [d \in Docs |-> booked[d] + applied[d]]
           right == [d \in Docs |-> part[d] + allKept[d]]
<1>0. SubledgerTypeOK
  BY DEF SubledgerInv
<1>1. /\ K \subseteq Docs /\ P \subseteq Docs /\ IsFiniteSet(Docs) /\ IsFiniteSet(K) /\ IsFiniteSet(P)
      /\ \A d \in Docs : (d \in K <=> doc[d].kind = kind) /\ (d \in P <=> doc[d].kind \in SettledBy(kind))
      /\ \A d \in Docs : ~ (d \in K /\ d \in P)
  <2>1. K \subseteq Docs /\ P \subseteq Docs
    BY DEF OfKinds
  <2>2. \A d \in Docs : (d \in K <=> doc[d].kind = kind) /\ (d \in P <=> doc[d].kind \in SettledBy(kind))
    BY DEF OfKinds
  <2>3. kind \notin SettledBy(kind)
    BY DEF SettledBy
  <2> QED BY <2>1, <2>2, <2>3, SubledgersAssumption, FS_Subset
<1>2. /\ OpenItems(kind, SettledBy(kind)) = SumFunctionOnSet(owed, K) - SumFunctionOnSet(kept, P)
      /\ SumFunctionOnSet(taken, K) = SumFunctionOnSet(applied, Docs)
  BY DEF OpenItems, SumFunction, PaidOn
<1>3. \A d \in Docs : /\ Live(d) \in Int /\ undone[d] \in Int /\ posted[d] \in Int
                      /\ posted[d] = Live(d) + undone[d]
                      /\ amountPaid[d] \in Int /\ doc[d].amount \in Int
                      /\ AmountOf(d, "total") \in Int /\ Applied(d, kind) \in Int
  BY <1>0, DocTypes, AmountTypes, AppliedTypes DEF SubledgerTypeOK, Live
<1>4. \A d \in Docs : Applied(d, kind) = IF d \in P THEN doc[d].amount - Unapplied(d) ELSE 0
  BY <1>0, <1>1, AppliedIs
<1>5. \A d \in P : Unapplied(d) \in Int /\ Unapplied(d) = doc[d].amount - Applied(d, kind)
  <2>1. \A d \in P : Unapplied(d) \in Int
    BY <1>0, <1>1, UnappliedTypes
  <2> QED BY <1>1, <1>3, <1>4, <2>1
<1>6. \A a, b \in Int : a * b \in Int
  OBVIOUS
<1>7. /\ \A i \in K : owed[i] \in Int /\ taken[i] \in Int
      /\ \A d \in P : kept[d] \in Int
      /\ \A d \in Docs : applied[d] \in Int /\ booked[d] \in Int
  <2>1. \A d \in Docs : book[d] \in Int
    BY <1>1, <1>3
  <2>2. \A i \in K : owed[i] \in Int /\ taken[i] \in Int
    BY <1>1, <1>3, <1>6
  <2>3. \A d \in P : kept[d] \in Int
    BY <1>1, <1>3, <1>5, <1>6
  <2> QED BY <1>3, <1>6, <2>1, <2>2, <2>3
<1>8. \A d \in Docs : left[d] = right[d]
  <2> SUFFICES ASSUME NEW d \in Docs PROVE left[d] = right[d]
    OBVIOUS
  <2>1. CASE d \in K
    <3>1. /\ left[d] = (Live(d) * AmountOf(d, "total") - amountPaid[d]) + amountPaid[d]
          /\ right[d] = (Live(d) * AmountOf(d, "total") + posted[d] * 0) + 0
      BY <1>1, <1>4, <2>1
    <3>2. Live(d) * AmountOf(d, "total") \in Int
      BY <1>3, <1>6
    <3> QED BY <1>3, <3>1, <3>2
  <2>2. CASE d \in P
    <3>0. d \notin K /\ book[d] = -doc[d].amount
      BY <1>1, <2>2
    <3>1. /\ left[d] = 0
          /\ right[d] = (Live(d) * (-doc[d].amount) + posted[d] * Applied(d, kind))
                        + (Live(d) * Unapplied(d) - undone[d] * (doc[d].amount - Unapplied(d)))
      <4>1. /\ allOwed[d] = 0 /\ allPaid[d] = 0 /\ left[d] = allOwed[d] + allPaid[d]
            /\ allKept[d] = kept[d] /\ right[d] = (booked[d] + applied[d]) + allKept[d]
        BY <2>2, <3>0
      <4>2. /\ kept[d] = Live(d) * Unapplied(d) - undone[d] * (doc[d].amount - Unapplied(d))
            /\ applied[d] = posted[d] * Applied(d, kind)
        BY <2>2
      <4>3. booked[d] = Live(d) * (-doc[d].amount)
        BY <3>0
      <4> HIDE DEF allOwed, allPaid, allKept, kept, booked, applied, left, right
      <4> QED BY <4>1, <4>2, <4>3
    <3>2. \A l, u, m, a \in Int :
            (l * (-m) + (l + u) * a) + (l * (m - a) - u * (m - (m - a))) = 0
      OBVIOUS
    <3> QED BY <1>3, <1>5, <2>2, <3>1, <3>2
  <2>3. CASE d \notin K /\ d \notin P
    <3>1. left[d] = 0 + 0 /\ right[d] = (Live(d) * 0 + posted[d] * 0) + 0
      BY <1>1, <1>4, <2>3
    <3> QED BY <1>3, <3>1
  <2> QED BY <2>1, <2>2, <2>3
<1>9. /\ \A d \in Docs : allOwed[d] = IF d \in K THEN owed[d] ELSE 0
      /\ \A d \in Docs : allKept[d] = IF d \in P THEN kept[d] ELSE 0
      /\ \A d \in Docs : allPaid[d] = IF d \in K THEN taken[d] ELSE 0
      /\ \A d \in Docs : left[d] = allOwed[d] + allPaid[d]
      /\ \A d \in Docs : part[d] = booked[d] + applied[d]
      /\ \A d \in Docs : right[d] = part[d] + allKept[d]
  OBVIOUS
<1> HIDE DEF K, P, owed, kept, taken, allOwed, allKept, allPaid, applied, booked, left, part, right
<1>10. \A d \in Docs : /\ allOwed[d] \in Int /\ allKept[d] \in Int /\ allPaid[d] \in Int
                       /\ part[d] \in Int
  BY <1>7, <1>9
<1>11. SumFunctionOnSet(owed, K) = SumFunctionOnSet(allOwed, Docs)
  BY <1>1, <1>7, <1>9, PartOfDocs
<1>12. SumFunctionOnSet(kept, P) = SumFunctionOnSet(allKept, Docs)
  BY <1>1, <1>7, <1>9, PartOfDocs
<1>13. SumFunctionOnSet(taken, K) = SumFunctionOnSet(allPaid, Docs)
  BY <1>1, <1>7, <1>9, PartOfDocs
<1>14. SumFunctionOnSet(left, Docs) = SumFunctionOnSet(allOwed, Docs) + SumFunctionOnSet(allPaid, Docs)
  BY <1>1, <1>9, <1>10, SumAdd
<1>15. SumFunctionOnSet(part, Docs) = SumFunctionOnSet(booked, Docs) + SumFunctionOnSet(applied, Docs)
  BY <1>1, <1>7, <1>9, SumAdd
<1>16. SumFunctionOnSet(right, Docs) = SumFunctionOnSet(part, Docs) + SumFunctionOnSet(allKept, Docs)
  BY <1>1, <1>9, <1>10, SumAdd
<1>17. SumFunctionOnSet(left, Docs) = SumFunctionOnSet(right, Docs)
  BY <1>1, <1>8, SumSame
<1>18. /\ SumFunctionOnSet(booked, Docs) \in Int /\ SumFunctionOnSet(applied, Docs) \in Int
       /\ SumFunctionOnSet(allOwed, Docs) \in Int /\ SumFunctionOnSet(allKept, Docs) \in Int
  <2>1. SumFunctionOnSet(booked, Docs) \in Int /\ SumFunctionOnSet(applied, Docs) \in Int
    BY <1>1, <1>7, SumType
  <2>2. SumFunctionOnSet(allOwed, Docs) \in Int /\ SumFunctionOnSet(allKept, Docs) \in Int
    BY <1>1, <1>10, SumType
  <2> QED BY <2>1, <2>2
<1>19. SumFunctionOnSet(booked, Docs) = SumFunctionOnSet(owed, K) - SumFunctionOnSet(kept, P)
  <2>1. \A b, a, o, k \in Int : o + a = (b + a) + k => b = o - k
    OBVIOUS
  <2>2. SumFunctionOnSet(allPaid, Docs) = SumFunctionOnSet(applied, Docs)
    BY <1>2, <1>13
  <2>3. SumFunctionOnSet(allOwed, Docs) + SumFunctionOnSet(applied, Docs)
          = (SumFunctionOnSet(booked, Docs) + SumFunctionOnSet(applied, Docs)) + SumFunctionOnSet(allKept, Docs)
    BY <2>2, <1>14, <1>15, <1>16, <1>17
  <2>4. SumFunctionOnSet(booked, Docs) = SumFunctionOnSet(allOwed, Docs) - SumFunctionOnSet(allKept, Docs)
    BY <2>1, <2>3, <1>18
  <2> QED BY <2>4, <1>11, <1>12
<1> QED BY <1>2, <1>19 DEF booked

\* However the documents are booked, repeated, reversed and put back, and whatever
\* the manual journals, the accounts receivable and payable tie out to the documents.
THEOREM ControlAlwaysTiesOut == SubledgerSpec => []ControlTiesOut
<1>1. SubledgerInv => ControlTiesOut
  <2> SUFFICES ASSUME SubledgerInv PROVE ControlTiesOut
    OBVIOUS
  <2>0. SubledgerTypeOK /\ PaidOn("sales_invoice") /\ PaidOn("supplier_invoice")
    BY DEF SubledgerInv, PaidInStep
  <2>1. FromDocs("AR") = OpenItems("sales_invoice", SettledBy("sales_invoice"))
    <3> DEFINE book == [d \in Docs |-> Booking(d, "AR")]
    <3>1. \A d \in Docs : book[d] = IF doc[d].kind = "sales_invoice" THEN AmountOf(d, "total")
                                    ELSE IF doc[d].kind \in SettledBy("sales_invoice") THEN -doc[d].amount
                                    ELSE 0
      BY <2>0, SidesAreRight DEF SidesOf, SettledBy
    <3>2. FromDocs("AR") = SumFunctionOnSet([d \in Docs |-> Live(d) * Booking(d, "AR")], Docs)
      <4>1. "AR" \in ControlAccounts
        BY DEF ControlAccounts
      <4> QED BY <4>1 DEF SubledgerInv, BalancesOK, SumFunction
    <3>3. [d \in Docs |-> Live(d) * Booking(d, "AR")] = [d \in Docs |-> Live(d) * book[d]]
      OBVIOUS
    <3> HIDE DEF book
    <3>4. SumFunctionOnSet([d \in Docs |-> Live(d) * book[d]], Docs)
            = OpenItems("sales_invoice", SettledBy("sales_invoice"))
      BY <2>0, <3>1, OpenItemsAreBooked
    <3> QED BY <3>2, <3>3, <3>4
  <2>2. -FromDocs("AP") = OpenItems("supplier_invoice", SettledBy("supplier_invoice"))
    <3> DEFINE book == [d \in Docs |-> -Booking(d, "AP")]
               f == [d \in Docs |-> Live(d) * Booking(d, "AP")]
               g == [d \in Docs |-> Live(d) * book[d]]
    <3>0. \A d \in Docs : AmountOf(d, "total") \in Int /\ doc[d].amount \in Int /\ Live(d) \in Int
                          /\ Booking(d, "AP") \in Int
      BY <2>0, AmountTypes, DocTypes, BookingTypes DEF SubledgerTypeOK, Live
    <3>1. \A d \in Docs : book[d] = IF doc[d].kind = "supplier_invoice" THEN AmountOf(d, "total")
                                    ELSE IF doc[d].kind \in SettledBy("supplier_invoice") THEN -doc[d].amount
                                    ELSE 0
      <4>1. \A d \in Docs : Booking(d, "AP") =
                              IF doc[d].kind = "supplier_invoice" THEN -AmountOf(d, "total")
                              ELSE IF doc[d].kind \in SettledBy("supplier_invoice") THEN doc[d].amount
                              ELSE 0
        BY <2>0, SidesAreRight DEF SidesOf, SettledBy
      <4> QED BY <3>0, <4>1
    <3>2. FromDocs("AP") = SumFunctionOnSet(f, Docs)
      <4>1. "AP" \in ControlAccounts
        BY DEF ControlAccounts
      <4> QED BY <4>1 DEF SubledgerInv, BalancesOK, SumFunction
    <3>3. \A d \in Docs : f[d] \in Int /\ g[d] = (-1) * f[d]
      <4>1. \A a, b \in Int : a * b \in Int /\ a * (-b) = (-1) * (a * b)
        OBVIOUS
      <4> QED BY <3>0, <4>1
    <3>4. g = [d \in Docs |-> Live(d) * book[d]]
      OBVIOUS
    <3> HIDE DEF book, f, g
    <3>5. SumFunctionOnSet(g, Docs) = (-1) * SumFunctionOnSet(f, Docs)
      BY <3>3, SubledgersAssumption, SumTimes
    <3>6. SumFunctionOnSet(g, Docs) = OpenItems("supplier_invoice", SettledBy("supplier_invoice"))
      BY <2>0, <3>1, <3>4, OpenItemsAreBooked
    <3>7. SumFunctionOnSet(f, Docs) \in Int
      BY <3>3, SubledgersAssumption, SumType
    <3> QED BY <3>2, <3>5, <3>6, <3>7
  <2> QED BY <2>1, <2>2 DEF ControlTiesOut, SettledBy
<1> QED BY <1>1, SubledgerInvariant, PTL

\* A sum of a live booking's tax stays near what is due, half a cent a line.
LEMMA TaxIsClose ==
  ASSUME SubledgerInv, NEW kind, NEW tax, NEW book,
         tax = SumFunctionOnSet([d \in Docs |-> Live(d) * book[d]], Docs),
         \A d \in Docs : book[d] = IF doc[d].kind = kind THEN TaxAmount(d) ELSE 0
  PROVE  TaxWithin(tax, kind)
<1> DEFINE K == OfKinds({kind})
           due == [i \in K |-> Live(i) * TaxDue(i)]
           len == [i \in K |-> Live(i) * Len(doc[i].lines)]
           taxes == [i \in K |-> Live(i) * TaxAmount(i)]
           all == [d \in Docs |-> Live(d) * book[d]]
           off == [i \in K |-> 100 * taxes[i] + (-1) * due[i]]
           hundred == [i \in K |-> 100 * taxes[i]]
           minus == [i \in K |-> (-1) * due[i]]
           most == [i \in K |-> 50 * len[i]]
           low == [i \in K |-> off[i] + most[i]]
           mirror == [i \in K |-> (-1) * off[i]]
           high == [i \in K |-> mirror[i] + most[i]]
<1>0. SubledgerTypeOK
  BY DEF SubledgerInv
<1>1. /\ K \subseteq Docs /\ IsFiniteSet(K) /\ \A d \in Docs : d \in K <=> doc[d].kind = kind
  <2>1. K \subseteq Docs /\ \A d \in Docs : d \in K <=> doc[d].kind = kind
    BY DEF OfKinds
  <2> QED BY <2>1, SubledgersAssumption, FS_Subset
<1>2. \A d \in Docs : /\ Live(d) \in Nat /\ TaxAmount(d) \in Int /\ TaxDue(d) \in Int
                      /\ Len(doc[d].lines) \in Nat
                      /\ -(50 * Len(doc[d].lines)) <= 100 * TaxAmount(d) - TaxDue(d)
                      /\ 100 * TaxAmount(d) - TaxDue(d) <= 50 * Len(doc[d].lines)
  <2>1. \A d \in Docs : Live(d) \in Nat
    BY <1>0 DEF SubledgerTypeOK, Live
  <2> QED BY <1>0, <2>1, DocTotals, DocTypes
<1>3. \A i \in K : /\ due[i] \in Int /\ len[i] \in Int /\ taxes[i] \in Int
                   /\ -(50 * len[i]) <= 100 * taxes[i] - due[i]
                   /\ 100 * taxes[i] - due[i] <= 50 * len[i]
  <2> SUFFICES ASSUME NEW i \in K
               PROVE  /\ due[i] \in Int /\ len[i] \in Int /\ taxes[i] \in Int
                      /\ -(50 * len[i]) <= 100 * taxes[i] - due[i]
                      /\ 100 * taxes[i] - due[i] <= 50 * len[i]
    OBVIOUS
  <2>1. i \in Docs
    BY <1>1
  <2>3. /\ due[i] = Live(i) * TaxDue(i) /\ len[i] = Live(i) * Len(doc[i].lines)
        /\ taxes[i] = Live(i) * TaxAmount(i)
    OBVIOUS
  <2> HIDE DEF K, due, len, taxes
  <2>4. PICK n \in Nat, l \in Nat, x \in Int, d \in Int :
          /\ n = Live(i) /\ l = Len(doc[i].lines) /\ x = TaxAmount(i) /\ d = TaxDue(i)
          /\ -(50 * l) <= 100 * x - d /\ 100 * x - d <= 50 * l
    BY <1>2, <2>1
  <2>5. due[i] = n * d /\ len[i] = n * l /\ taxes[i] = n * x
    BY <2>3, <2>4
  <2>6. /\ n * l \in Int /\ n * x \in Int /\ n * d \in Int
        /\ -(50 * (n * l)) <= 100 * (n * x) - n * d
        /\ 100 * (n * x) - n * d <= 50 * (n * l)
    <3>1. \A k \in Nat : \A a, b \in Int : a <= b => k * a <= k * b
      OBVIOUS
    <3>2. n * l \in Int /\ n * x \in Int /\ n * d \in Int
      OBVIOUS
    <3>3. n * (100 * x - d) = 100 * (n * x) - n * d
      OBVIOUS
    <3>4. n * (50 * l) = 50 * (n * l) /\ n * (-(50 * l)) = -(50 * (n * l))
      OBVIOUS
    <3>5. 100 * x - d \in Int /\ 50 * l \in Int /\ -(50 * l) \in Int
      OBVIOUS
    <3>6. n * (-(50 * l)) <= n * (100 * x - d) /\ n * (100 * x - d) <= n * (50 * l)
      BY <2>4, <3>1, <3>5
    <3> QED BY <3>2, <3>3, <3>4, <3>6
  <2> QED BY <2>5, <2>6
<1>4. /\ \A i \in K : off[i] = hundred[i] + minus[i]
      /\ \A i \in K : hundred[i] = 100 * taxes[i]
      /\ \A i \in K : minus[i] = (-1) * due[i]
      /\ \A i \in K : most[i] = 50 * len[i]
      /\ \A i \in K : low[i] = off[i] + most[i]
      /\ \A i \in K : mirror[i] = (-1) * off[i]
      /\ \A i \in K : high[i] = mirror[i] + most[i]
  OBVIOUS
<1>5. \A d \in Docs : all[d] = IF d \in K THEN taxes[d] ELSE 0
  <2>1. \A d \in Docs : Live(d) * 0 = 0
    BY <1>2
  <2> QED BY <1>1, <2>1
<1>6. TaxWithin(tax, kind) <=>
        100 * tax - SumFunctionOnSet(due, K)
          \in (-50 * SumFunctionOnSet(len, K))..(50 * SumFunctionOnSet(len, K))
  BY DEF TaxWithin, SumFunction
<1>7. tax = SumFunctionOnSet(all, Docs)
  OBVIOUS
<1> HIDE DEF K, due, len, taxes, all, off, hundred, minus, most, low, mirror, high
<1>8. tax = SumFunctionOnSet(taxes, K)
  BY <1>1, <1>3, <1>5, <1>7, PartOfDocs
<1>9. \A i \in K : /\ hundred[i] \in Int /\ minus[i] \in Int /\ off[i] \in Int /\ most[i] \in Int
                   /\ mirror[i] \in Int /\ low[i] \in Nat /\ high[i] \in Nat
  BY <1>3, <1>4
<1>10. /\ SumFunctionOnSet(taxes, K) \in Int /\ SumFunctionOnSet(due, K) \in Int
       /\ SumFunctionOnSet(len, K) \in Int
  BY <1>1, <1>3, SumType
<1>11. SumFunctionOnSet(hundred, K) = 100 * SumFunctionOnSet(taxes, K)
  BY <1>1, <1>3, <1>4, SumTimes
<1>12. SumFunctionOnSet(minus, K) = (-1) * SumFunctionOnSet(due, K)
  BY <1>1, <1>3, <1>4, SumTimes
<1>13. SumFunctionOnSet(most, K) = 50 * SumFunctionOnSet(len, K)
  BY <1>1, <1>3, <1>4, SumTimes
<1>14. SumFunctionOnSet(off, K) = SumFunctionOnSet(hundred, K) + SumFunctionOnSet(minus, K)
  BY <1>1, <1>4, <1>9, SumAdd
<1>15. SumFunctionOnSet(low, K) = SumFunctionOnSet(off, K) + SumFunctionOnSet(most, K)
  BY <1>1, <1>4, <1>9, SumAdd
<1>16. SumFunctionOnSet(mirror, K) = (-1) * SumFunctionOnSet(off, K)
  BY <1>1, <1>4, <1>9, SumTimes
<1>17. SumFunctionOnSet(high, K) = SumFunctionOnSet(mirror, K) + SumFunctionOnSet(most, K)
  BY <1>1, <1>4, <1>9, SumAdd
<1>18. SumFunctionOnSet(low, K) \in Nat /\ SumFunctionOnSet(high, K) \in Nat
  BY <1>1, <1>9, SumNatural
<1>19. \A t, u, l, h, o, p, m, v \in Int :
         /\ o = 100 * t + (-1) * u /\ m = 50 * v
         /\ l = o + m /\ l \in Nat /\ p = (-1) * o /\ h = p + m /\ h \in Nat
         => 100 * t - u \in (-50 * v)..(50 * v)
  OBVIOUS
<1>20. SumFunctionOnSet(off, K) \in Int /\ SumFunctionOnSet(mirror, K) \in Int /\ SumFunctionOnSet(most, K) \in Int
  BY <1>1, <1>9, SumType
<1>21. SumFunctionOnSet(off, K) = 100 * SumFunctionOnSet(taxes, K) + (-1) * SumFunctionOnSet(due, K)
  BY <1>11, <1>12, <1>14
<1>22. 100 * SumFunctionOnSet(taxes, K) - SumFunctionOnSet(due, K)
          \in (-50 * SumFunctionOnSet(len, K))..(50 * SumFunctionOnSet(len, K))
  BY <1>10, <1>13, <1>15, <1>16, <1>17, <1>18, <1>19, <1>20, <1>21
<1> QED BY <1>6, <1>8, <1>22

\* The tax accounts are never off by more than half a cent for each line booked,
\* whatever the rates, amounts, repetitions and reversals.
THEOREM TaxAlwaysWithinHalfCent == SubledgerSpec => []TaxWithinHalfCent
<1>1. SubledgerInv => TaxWithinHalfCent
  <2> SUFFICES ASSUME SubledgerInv PROVE TaxWithinHalfCent
    OBVIOUS
  <2>0. SubledgerTypeOK
    BY DEF SubledgerInv
  <2>1. \A d \in Docs : Live(d) \in Int /\ Booking(d, "TAX_OUTPUT") \in Int /\ TaxAmount(d) \in Int
    BY <2>0, BookingTypes, DocTotals DEF SubledgerTypeOK, Live
  <2>2. TaxWithin(-FromDocs("TAX_OUTPUT"), "sales_invoice")
    <3> DEFINE book == [d \in Docs |-> -Booking(d, "TAX_OUTPUT")]
               f == [d \in Docs |-> Live(d) * Booking(d, "TAX_OUTPUT")]
               g == [d \in Docs |-> Live(d) * book[d]]
    <3>1. \A d \in Docs : book[d] = IF doc[d].kind = "sales_invoice" THEN TaxAmount(d) ELSE 0
      BY <2>0, <2>1, SidesAreRight DEF SidesOf
    <3>2. FromDocs("TAX_OUTPUT") = SumFunctionOnSet(f, Docs)
      <4>1. "TAX_OUTPUT" \in ControlAccounts
        BY DEF ControlAccounts
      <4> QED BY <4>1 DEF SubledgerInv, BalancesOK, SumFunction
    <3>3. \A d \in Docs : f[d] \in Int /\ g[d] = (-1) * f[d]
      <4>1. \A a, b \in Int : a * b \in Int /\ a * (-b) = (-1) * (a * b)
        OBVIOUS
      <4> QED BY <2>1, <4>1
    <3>4. g = [d \in Docs |-> Live(d) * book[d]]
      OBVIOUS
    <3> HIDE DEF book, f, g
    <3>5. SumFunctionOnSet(g, Docs) = (-1) * SumFunctionOnSet(f, Docs)
      BY <3>3, SubledgersAssumption, SumTimes
    <3>6. SumFunctionOnSet(f, Docs) \in Int
      BY <3>3, SubledgersAssumption, SumType
    <3>7. -FromDocs("TAX_OUTPUT") = SumFunctionOnSet([d \in Docs |-> Live(d) * book[d]], Docs)
      BY <3>2, <3>4, <3>5, <3>6
    <3> QED BY <3>1, <3>7, TaxIsClose
  <2>3. TaxWithin(FromDocs("TAX_INPUT"), "supplier_invoice")
    <3> DEFINE book == [d \in Docs |-> Booking(d, "TAX_INPUT")]
    <3>1. \A d \in Docs : book[d] = IF doc[d].kind = "supplier_invoice" THEN TaxAmount(d) ELSE 0
      BY <2>0, SidesAreRight DEF SidesOf
    <3>2. FromDocs("TAX_INPUT") = SumFunctionOnSet([d \in Docs |-> Live(d) * Booking(d, "TAX_INPUT")], Docs)
      <4>1. "TAX_INPUT" \in ControlAccounts
        BY DEF ControlAccounts
      <4> QED BY <4>1 DEF SubledgerInv, BalancesOK, SumFunction
    <3>3. [d \in Docs |-> Live(d) * Booking(d, "TAX_INPUT")] = [d \in Docs |-> Live(d) * book[d]]
      OBVIOUS
    <3> HIDE DEF book
    <3>4. FromDocs("TAX_INPUT") = SumFunctionOnSet([d \in Docs |-> Live(d) * book[d]], Docs)
      BY <3>2, <3>3
    <3> QED BY <3>1, <3>4, TaxIsClose
  <2> QED BY <2>2, <2>3 DEF TaxWithinHalfCent
<1> QED BY <1>1, SubledgerInvariant, PTL

-----------------------------------------------------------------------------
(***************************************************************************)
(* Bank reconciliation: the lines that are booked and reconciled.          *)
(***************************************************************************)
LEMMA BankInit == Init => BankInv
<1> SUFFICES ASSUME Init PROVE BankInv
  OBVIOUS
<1>1. TypeOK
  BY BankAssumption DEF Init, TypeOK, NewLine, NoPayment, Idle, LineStatuses, Payments
<1>2. \A p \in Payments : PaymentOK(p)
  BY DEF Init, PaymentOK, NoPayment
<1>3. \A s \in Sessions : ApprovalOK(s)
  BY DEF Init, ApprovalOK, Idle
<1>4. ReconciledIsBooked /\ OnlyRacesAndFailuresDuplicate
  BY DEF Init, ReconciledIsBooked, OnlyRacesAndFailuresDuplicate, BookedFor, NewLine, NoPayment
<1> QED BY <1>1, <1>2, <1>3, <1>4 DEF BankInv

-----------------------------------------------------------------------------
(***************************************************************************)
(* What holds of the lines, payments and approvals that a step does not    *)
(* touch.                                                                  *)
(***************************************************************************)
\* Importing or ignoring a line changes no booking.
LEMMA LineStepKeeps ==
  ASSUME BankInv, TypeOK', NEW l \in Lines, NEW new,
         line' = [line EXCEPT ![l] = new],
         UNCHANGED <<payment, paid, sess, lost, crossed, twice>>,
         \/ line[l].status = "absent" /\ new.status \in {"unmatched", "suggested"}
         \/ line[l].status # "absent" /\ new.status = "ignored" /\ new.invoice = line[l].invoice
  PROVE  BankInv'
<1>1. /\ line'[l] = new /\ new.status # "absent" /\ new.status # "reconciled"
      /\ \A k \in Lines : k # l => line'[k] = line[k]
      /\ \A k : BookedFor(k)' = BookedFor(k) /\ Sound(k)' = Sound(k) /\ WorkingOn(k)' = WorkingOn(k)
  BY DEF BankInv, TypeOK, BookedFor, Sound, WorkingOn
<1>2. ASSUME NEW p \in Payments PROVE PaymentOK(p)'
  <2>1. PaymentOK(p) /\ payment'[p] = payment[p]
    BY DEF BankInv
  <2>2. ASSUME payment[p].status # "absent", payment[p].line # None
        PROVE  LET k == payment[p].line IN
               /\ line'[k].status # "absent" /\ line'[k].invoice = line[k].invoice
               /\ Settled(k) => Settled(k)'
    <3>1. PICK k \in Lines : k = payment[p].line /\ line[k].status # "absent"
      BY <2>1, <2>2 DEF PaymentOK, BankInv, TypeOK
    <3> QED BY <1>1, <3>1 DEF Settled
  <2> QED BY <2>1, <2>2 DEF PaymentOK
<1>3. ASSUME NEW s \in Sessions PROVE ApprovalOK(s)'
  BY <1>1 DEF BankInv, ApprovalOK
<1>4. ReconciledIsBooked' /\ OnlyRacesAndFailuresDuplicate'
  BY <1>1 DEF BankInv, ReconciledIsBooked, OnlyRacesAndFailuresDuplicate, Sound
<1> QED BY <1>2, <1>3, <1>4 DEF BankInv

LEMMA ImportUnmatchedKeeps ==
  ASSUME BankInv, NEW l \in Lines, ImportUnmatched(l)
  PROVE  BankInv'
<1> DEFINE new == [status |-> "unmatched", invoice |-> line[l].invoice, entry |-> line[l].entry]
<1>1. line' = [line EXCEPT ![l] = new]
  <2>1. PICK x : x = line[l] /\ x \in [status : LineStatuses, invoice : Invoices \cup {None},
                                       entry : Payments \cup {0}]
    BY DEF BankInv, TypeOK
  <2>2. [x EXCEPT !.status = "unmatched"] = [status |-> "unmatched", invoice |-> x.invoice, entry |-> x.entry]
    BY <2>1
  <2> QED BY <2>1, <2>2 DEF ImportUnmatched
<1>2. TypeOK'
  BY <1>1 DEF BankInv, TypeOK, ImportUnmatched, LineStatuses
<1> QED BY <1>1, <1>2, LineStepKeeps DEF ImportUnmatched

LEMMA ImportSuggestedKeeps ==
  ASSUME BankInv, NEW l \in Lines, NEW i \in Invoices, ImportSuggested(l, i)
  PROVE  BankInv'
<1> DEFINE new == [status |-> "suggested", invoice |-> i, entry |-> 0]
<1>1. TypeOK'
  <2>1. Paying(i) \subseteq Payments
    BY DEF Paying
  <2> QED BY <2>1, BankAssumption DEF BankInv, TypeOK, ImportSuggested, LineStatuses
<1> QED BY <1>1, LineStepKeeps DEF ImportSuggested

LEMMA IgnoreKeeps ==
  ASSUME BankInv, NEW l \in Lines, Ignore(l)
  PROVE  BankInv'
<1> DEFINE new == [status |-> "ignored", invoice |-> line[l].invoice, entry |-> line[l].entry]
<1>1. line' = [line EXCEPT ![l] = new]
  <2>1. PICK x : x = line[l] /\ x \in [status : LineStatuses, invoice : Invoices \cup {None},
                                       entry : Payments \cup {0}]
    BY DEF BankInv, TypeOK
  <2>2. [x EXCEPT !.status = "ignored"] = [status |-> "ignored", invoice |-> x.invoice, entry |-> x.entry]
    BY <2>1
  <2> QED BY <2>1, <2>2 DEF Ignore
<1>2. TypeOK'
  BY <1>1 DEF BankInv, TypeOK, Ignore, LineStatuses
<1> QED BY <1>1, <1>2, LineStepKeeps DEF Ignore

Request == [pc : {"idle", "create", "post", "book", "mark", "hand"}, line : Lines \cup {None},
            payment : Payments \cup {0}, crossing : BOOLEAN]
PaymentRow == [status : {"absent", "draft", "posted"},
               line : Lines \cup {None}, invoice : Invoices \cup {None},
               amount : Int, known : SUBSET Payments]

\* Beginning, of an approval or of a posting by hand.
LEMMA ApproveKeeps ==
  ASSUME BankInv, NEW s \in Sessions, NEW l \in Lines, Approve(s, l)
  PROVE  BankInv'
<1> DEFINE t == [pc |-> "create", line |-> l, payment |-> 0, crossing |-> WorkingOn(l) # {}]
<1>1. /\ sess[s] = Idle /\ line[l].status = "suggested" /\ line[l].invoice \in Invoices
      /\ sess' = [sess EXCEPT ![s] = t]
      /\ UNCHANGED <<line, payment, paid, lost, crossed, twice, before>>
  BY DEF Approve, BankInv, TypeOK
<1>2. TypeOK'
  BY <1>1 DEF BankInv, TypeOK
<1>3. sess'[s] = t /\ \A u \in Sessions : u # s => sess'[u] = sess[u]
  BY <1>1 DEF BankInv, TypeOK
<1>a. t.pc = "create" /\ t.line = l /\ t.payment = 0 /\ (t.crossing <=> WorkingOn(l) # {})
  OBVIOUS
<1> HIDE DEF t
<1>4. \A k : BookedFor(k)' = BookedFor(k) /\ Sound(k)' = Sound(k)
  BY <1>1 DEF BookedFor, Sound
<1>5. ASSUME NEW p \in Payments PROVE PaymentOK(p)'
  <2>1. \A u \in Sessions : sess[u].pc = "mark" => u # s
    BY <1>1 DEF Idle
  <2> QED BY <1>1, <1>3, <1>a, <2>1 DEF BankInv, PaymentOK, Settled
<1>6. ApprovalOK(s)'
  <2>1. CASE WorkingOn(l) # {}
    BY <1>1, <1>3, <1>a, <2>1 DEF ApprovalOK
  <2>2. CASE WorkingOn(l) = {}
    <3>1. ASSUME NEW q \in Sound(l) PROVE FALSE
      <4>1. /\ q \in Payments /\ payment[q].status = "posted" /\ payment[q].line = l
            /\ q \notin lost /\ PaymentOK(q) /\ l # None
        BY BankAssumption DEF Sound, BookedFor, BankInv
      <4>2. ~ Settled(l)
        BY <1>1 DEF Settled
      <4> QED BY <2>2, <4>1, <4>2 DEF PaymentOK, WorkingOn
    <3>2. \A u \in WorkingOn(l)' : u = s
      BY <1>3, <1>a, <2>2 DEF WorkingOn
    <3> QED BY <1>1, <1>3, <1>4, <1>a, <3>1, <3>2 DEF ApprovalOK
  <2> QED BY <2>1, <2>2
<1>7. ASSUME NEW u \in Sessions, u # s PROVE ApprovalOK(u)'
  <2>1. sess'[u] = sess[u] /\ ApprovalOK(u)
    BY <1>3, <1>7 DEF BankInv
  <2>2. ASSUME sess[u].line = l PROVE sess'[s].crossing
    BY <1>3, <1>a, <2>2 DEF WorkingOn
  <2>4. \A v \in WorkingOn(sess[u].line)' : v # s => sess'[v] = sess[v] /\ v \in WorkingOn(sess[u].line)
    BY <1>3, <2>1 DEF WorkingOn
  <2>5. s \in WorkingOn(sess[u].line)' => sess[u].line = l
    BY <1>3, <1>a, <2>1 DEF WorkingOn
  <2>6. sess'[s].pc = "create"
    BY <1>3, <1>a
  <2> QED BY <1>1, <1>4, <2>1, <2>2, <2>4, <2>5, <2>6 DEF ApprovalOK
<1>8. ReconciledIsBooked' /\ OnlyRacesAndFailuresDuplicate'
  BY <1>1, <1>4 DEF BankInv, ReconciledIsBooked, OnlyRacesAndFailuresDuplicate, Sound
<1> QED BY <1>2, <1>5, <1>6, <1>7, <1>8 DEF BankInv

LEMMA ReadByHandKeeps ==
  ASSUME BankInv, NEW s \in Sessions, NEW p \in Payments, ReadByHand(s, p)
  PROVE  BankInv'
<1> DEFINE t == [pc |-> "hand", line |-> None, payment |-> p, crossing |-> FALSE]
<1>1. /\ sess[s] = Idle /\ payment[p].status = "draft"
      /\ UNCHANGED <<line, payment, paid, lost, crossed, twice, before>>
  BY DEF ReadByHand
<1>2. sess' = [sess EXCEPT ![s] = t]
  <2>1. PICK x \in Request : x = Idle
    BY DEF Idle, Request
  <2>2. PICK y : y = [x EXCEPT !.pc = "hand"]
    OBVIOUS
  <2>3. y = [pc |-> "hand", line |-> x.line, payment |-> x.payment, crossing |-> x.crossing]
    BY <2>2 DEF Request
  <2>4. [y EXCEPT !.payment = p] =
          [pc |-> "hand", line |-> x.line, payment |-> p, crossing |-> x.crossing]
    BY <2>3
  <2>5. x.line = None /\ x.crossing = FALSE
    BY <2>1 DEF Idle
  <2>6. [Idle EXCEPT !.pc = "hand", !.payment = p] = t
    BY <2>1, <2>2, <2>4, <2>5
  <2> QED BY <2>6 DEF ReadByHand
<1>3. sess'[s] = t /\ \A u \in Sessions : u # s => sess'[u] = sess[u]
  BY <1>2 DEF BankInv, TypeOK
<1>a. t.pc = "hand" /\ t.line = None /\ t.payment = p /\ t \in Request
  BY DEF Request
<1>b. sess[s].pc = "idle" /\ sess[s].line = None
  BY <1>1 DEF Idle
<1> HIDE DEF t
<1>4. TypeOK'
  BY <1>1, <1>2, <1>a DEF BankInv, TypeOK, Request
<1>5. \A k : BookedFor(k)' = BookedFor(k) /\ Sound(k)' = Sound(k) /\ WorkingOn(k)' = WorkingOn(k)
  <2>1. \A u \in Sessions : sess'[u].line = sess[u].line
    BY <1>3, <1>a, <1>b
  <2> QED BY <1>1, <2>1 DEF BookedFor, Sound, WorkingOn
<1>6. ASSUME NEW q \in Payments PROVE PaymentOK(q)'
  <2>1. \A u \in Sessions : sess[u].pc = "mark" => sess'[u] = sess[u]
    BY <1>3, <1>b
  <2> QED BY <1>1, <2>1 DEF BankInv, PaymentOK, Settled
<1>7. ASSUME NEW u \in Sessions PROVE ApprovalOK(u)'
  <2>1. CASE u = s
    BY <1>1, <1>3, <1>a, <2>1 DEF ApprovalOK
  <2>2. CASE u # s
    <3>1. sess'[u] = sess[u] /\ ApprovalOK(u)
      BY <1>3, <2>2 DEF BankInv
    <3>2. sess[u].line \in Lines => \A v \in WorkingOn(sess[u].line) : v # s
      BY <1>b, BankAssumption DEF WorkingOn
    <3>3. sess[u].line \in Lines => \A v \in WorkingOn(sess[u].line) : sess'[v] = sess[v]
      BY <1>3, <3>2 DEF WorkingOn
    <3> QED BY <1>1, <1>5, <3>1, <3>3 DEF ApprovalOK
  <2> QED BY <2>1, <2>2
<1>8. ReconciledIsBooked' /\ OnlyRacesAndFailuresDuplicate'
  BY <1>1, <1>5 DEF BankInv, ReconciledIsBooked, OnlyRacesAndFailuresDuplicate, Sound
<1> QED BY <1>4, <1>6, <1>7, <1>8 DEF BankInv

\* Reading the draft that was made changes nothing but how far the approval is.
LEMMA ReadPaymentKeeps ==
  ASSUME BankInv, NEW s \in Sessions, ReadPayment(s)
  PROVE  BankInv'
<1> DEFINE t == [pc |-> "book", line |-> sess[s].line, payment |-> sess[s].payment,
                 crossing |-> sess[s].crossing]
<1>1. /\ sess[s].pc = "post" /\ payment[sess[s].payment].status = "draft"
      /\ UNCHANGED <<line, payment, paid, lost, crossed, twice, before>>
  BY DEF ReadPayment
<1>2. sess' = [sess EXCEPT ![s] = t]
  <2>1. PICK x \in Request : x = sess[s]
    BY DEF BankInv, TypeOK, Request
  <2>2. [x EXCEPT !.pc = "book"] =
          [pc |-> "book", line |-> x.line, payment |-> x.payment, crossing |-> x.crossing]
    BY DEF Request
  <2>3. sess' = [sess EXCEPT ![s] = [sess[s] EXCEPT !.pc = "book"]]
    BY DEF ReadPayment
  <2> QED BY <2>1, <2>2, <2>3
<1>3. sess'[s] = t /\ \A u \in Sessions : u # s => sess'[u] = sess[u]
  BY <1>2 DEF BankInv, TypeOK
<1>a. /\ t.pc = "book" /\ t.line = sess[s].line /\ t.payment = sess[s].payment
      /\ t.crossing = sess[s].crossing
  OBVIOUS
<1>rows. t \in Request
  BY DEF BankInv, TypeOK, Request
<1> HIDE DEF t
<1>4. TypeOK'
  BY <1>1, <1>2, <1>rows DEF BankInv, TypeOK, Request
<1>5. /\ \A k : BookedFor(k)' = BookedFor(k) /\ Sound(k)' = Sound(k) /\ WorkingOn(k)' = WorkingOn(k)
      /\ \A u \in Sessions : /\ sess'[u].line = sess[u].line /\ sess'[u].payment = sess[u].payment
                             /\ sess'[u].crossing = sess[u].crossing
                             /\ sess'[u].pc = "create" <=> sess[u].pc = "create"
  <2>1. \A u \in Sessions : /\ sess'[u].line = sess[u].line /\ sess'[u].payment = sess[u].payment
                            /\ sess'[u].crossing = sess[u].crossing
                            /\ sess'[u].pc = "create" <=> sess[u].pc = "create"
    BY <1>1, <1>3, <1>a
  <2> QED BY <1>1, <2>1 DEF BookedFor, Sound, WorkingOn
<1>6. ASSUME NEW q \in Payments PROVE PaymentOK(q)'
  <2>1. \A u \in Sessions : sess[u].pc = "mark" => sess'[u] = sess[u]
    BY <1>1, <1>3
  <2> QED BY <1>1, <2>1 DEF BankInv, PaymentOK, Settled
<1>7. ASSUME NEW u \in Sessions PROVE ApprovalOK(u)'
  <2>1. ApprovalOK(u)
    BY DEF BankInv
  <2>2. \A v \in WorkingOn(sess[u].line) : v \in Sessions
    BY DEF WorkingOn
  <2>3. CASE u = s
    BY <1>1, <1>3, <1>5, <1>a, <2>1, <2>2, <2>3 DEF ApprovalOK
  <2>4. CASE u # s
    BY <1>1, <1>3, <1>5, <2>1, <2>2, <2>4 DEF ApprovalOK
  <2> QED BY <2>3, <2>4
<1>8. ReconciledIsBooked' /\ OnlyRacesAndFailuresDuplicate'
  BY <1>1, <1>5 DEF BankInv, ReconciledIsBooked, OnlyRacesAndFailuresDuplicate, Sound
<1> QED BY <1>4, <1>6, <1>7, <1>8 DEF BankInv

\* A new draft disturbs no payment that was there.
LEMMA AddFacts ==
  ASSUME BankInv, NEW p \in Payments, NEW new \in PaymentRow, Add(p, new),
         new.status = "draft", new.invoice # None
  PROVE  /\ payment[p].status = "absent" /\ payment'[p] = new
         /\ \A q \in Payments : q # p => payment'[q] = payment[q]
         /\ payment' \in [Payments -> PaymentRow]
         /\ \A q \in Payments : payment'[q].status # "absent" => payment'[q].invoice # None
         /\ \A k : BookedFor(k)' = BookedFor(k) /\ p \notin BookedFor(k)
<1>1. payment \in [Payments -> PaymentRow] /\ payment' = [payment EXCEPT ![p] = new]
  BY DEF BankInv, TypeOK, PaymentRow, Add
<1>2. /\ payment[p].status = "absent" /\ payment'[p] = new
      /\ \A q \in Payments : q # p => payment'[q] = payment[q]
      /\ payment' \in [Payments -> PaymentRow]
  <2>1. payment[p].status = "absent"
    BY DEF Add
  <2> QED BY <1>1, <2>1
<1>3. \A q \in Payments : payment'[q].status # "absent" => payment'[q].invoice # None
  BY <1>2 DEF BankInv, TypeOK
<1>4. \A q \in Payments : payment[q].status = "posted" \/ payment'[q].status = "posted" =>
        q # p /\ payment'[q] = payment[q]
  BY <1>2
<1>5. \A k : BookedFor(k)' = BookedFor(k) /\ p \notin BookedFor(k)
  BY <1>2, <1>4 DEF BookedFor
<1> QED BY <1>2, <1>3, <1>5

LEMMA EnterPaymentKeeps ==
  ASSUME BankInv, NEW h \in HandMade, EnterPayment(h)
  PROVE  BankInv'
<1> DEFINE new == Draft(None, h.invoice, h.amount, Paying(h.invoice))
<1>1. PICK p \in Payments : Add(p, new)
  BY DEF EnterPayment
<1>2. h.invoice \in Invoices /\ h.amount \in Int /\ Paying(h.invoice) \subseteq Payments
  BY BankAssumption DEF Paying
<1>3. new \in PaymentRow /\ new.status = "draft" /\ new.line = None /\ new.invoice # None
  BY <1>2, BankAssumption DEF Draft, PaymentRow
<1> HIDE DEF new
<1>4. UNCHANGED <<line, paid, sess, lost, crossed, twice, before>>
  BY DEF EnterPayment
<1>5. /\ payment[p].status = "absent" /\ payment'[p] = new
      /\ \A q \in Payments : q # p => payment'[q] = payment[q]
      /\ payment' \in [Payments -> PaymentRow]
      /\ \A q \in Payments : payment'[q].status # "absent" => payment'[q].invoice # None
      /\ \A k : BookedFor(k)' = BookedFor(k) /\ p \notin BookedFor(k)
  BY <1>1, <1>3, AddFacts
<1>6. TypeOK'
  BY <1>4, <1>5 DEF BankInv, TypeOK, PaymentRow
<1>7. ASSUME NEW q \in Payments PROVE PaymentOK(q)'
  <2>1. CASE q = p
    <3>1. q \notin twice'
      BY <1>4, <1>5, <2>1 DEF BankInv, PaymentOK
    <3> QED BY <1>3, <1>5, <2>1, <3>1 DEF PaymentOK
  <2>2. CASE q # p
    BY <1>4, <1>5, <2>2 DEF BankInv, PaymentOK, Settled
  <2> QED BY <2>1, <2>2
<1>8. ASSUME NEW u \in Sessions PROVE ApprovalOK(u)'
  <2>1. ApprovalOK(u) /\ sess'[u] = sess[u]
    BY <1>4 DEF BankInv
  <2>2. \A k : Sound(k)' = Sound(k) /\ WorkingOn(k)' = WorkingOn(k)
    BY <1>4, <1>5 DEF Sound, WorkingOn
  <2>3. sess[u].pc \notin {"idle", "create"} =>
          payment'[sess[u].payment] = payment[sess[u].payment]
    BY <1>5, <2>1 DEF ApprovalOK
  <2> QED BY <1>4, <2>1, <2>2, <2>3 DEF ApprovalOK
<1>9. ReconciledIsBooked'
  <2>1. \A k \in Lines : \A q \in BookedFor(k) : payment'[q] = payment[q]
    BY <1>5 DEF BookedFor
  <2> QED BY <1>4, <1>5, <2>1 DEF BankInv, ReconciledIsBooked
<1>10. OnlyRacesAndFailuresDuplicate'
  BY <1>4, <1>5 DEF BankInv, OnlyRacesAndFailuresDuplicate
<1> QED BY <1>6, <1>7, <1>8, <1>9, <1>10 DEF BankInv

LEMMA CreatedRecord ==
  ASSUME NEW x \in Request, NEW p \in Payments
  PROVE  [x EXCEPT !.pc = "post", !.payment = p] =
           [pc |-> "post", line |-> x.line, payment |-> p, crossing |-> x.crossing]
<1>1. PICK y : y = [x EXCEPT !.pc = "post"]
  OBVIOUS
<1>2. y = [pc |-> "post", line |-> x.line, payment |-> x.payment, crossing |-> x.crossing]
  BY <1>1 DEF Request
<1>3. [y EXCEPT !.payment = p] =
        [pc |-> "post", line |-> x.line, payment |-> p, crossing |-> x.crossing]
  BY <1>2
<1> QED BY <1>1, <1>3

LEMMA CreatePaymentKeeps ==
  ASSUME BankInv, NEW s \in Sessions, CreatePayment(s)
  PROVE  BankInv'
<1>l. PICK l : l = sess[s].line
  OBVIOUS
<1> DEFINE new == Draft(l, line[l].invoice, Amount[l], before[l])
<1>0. PICK p \in Payments :
        /\ Add(p, new)
        /\ sess' = [sess EXCEPT ![s].pc = "post", ![s].payment = p]
        /\ crossed' = IF sess[s].crossing THEN crossed \cup {p} ELSE crossed
  BY <1>l DEF CreatePayment
<1> DEFINE t == [pc |-> "post", line |-> l, payment |-> p, crossing |-> sess[s].crossing]
<1>1. /\ sess[s].pc = "create" /\ l \in Lines /\ line[l].status # "absent"
      /\ line[l].invoice \in Invoices /\ ApprovalOK(s)
      /\ UNCHANGED <<line, paid, lost, twice, before>>
  BY <1>l DEF CreatePayment, BankInv, ApprovalOK
<1>2. sess' = [sess EXCEPT ![s] = t]
  <2>1. PICK x \in Request : x = sess[s]
    BY DEF BankInv, TypeOK, Request
  <2>2. [x EXCEPT !.pc = "post", !.payment = p] =
          [pc |-> "post", line |-> x.line, payment |-> p, crossing |-> x.crossing]
    BY CreatedRecord
  <2>3. sess' = [sess EXCEPT ![s] = [sess[s] EXCEPT !.pc = "post", !.payment = p]]
    BY <1>0
  <2> QED BY <1>l, <2>1, <2>2, <2>3
<1>3. sess'[s] = t /\ \A u \in Sessions : u # s => sess'[u] = sess[u]
  BY <1>2 DEF BankInv, TypeOK
<1>a. t.pc = "post" /\ t.line = l /\ t.payment = p /\ t.crossing = sess[s].crossing
  OBVIOUS
<1>rows. t \in Request
  BY <1>1 DEF BankInv, TypeOK, Request
<1>new. /\ new \in PaymentRow /\ new.status = "draft" /\ new.line = l
        /\ new.invoice = line[l].invoice /\ new.invoice # None
  BY <1>1, BankAssumption DEF BankInv, TypeOK, PaymentRow, Draft
<1> HIDE DEF t, new
<1>4. crossed \subseteq crossed' /\ (sess[s].crossing => p \in crossed') /\ crossed' \subseteq crossed \cup {p}
  BY <1>0
<1>5. /\ payment[p].status = "absent" /\ payment'[p] = new
      /\ \A q \in Payments : q # p => payment'[q] = payment[q]
      /\ payment' \in [Payments -> PaymentRow]
      /\ \A q \in Payments : payment'[q].status # "absent" => payment'[q].invoice # None
      /\ \A k : BookedFor(k)' = BookedFor(k) /\ p \notin BookedFor(k)
  BY <1>0, <1>new, AddFacts
<1>type. TypeOK'
  <2>1. crossed' \subseteq Payments
    BY <1>4 DEF BankInv, TypeOK
  <2> QED BY <1>1, <1>2, <1>5, <1>rows, <2>1 DEF BankInv, TypeOK, Request, PaymentRow
<1>6. \A k : WorkingOn(k)' = WorkingOn(k)
  <2>1. \A u \in Sessions : sess'[u].line = sess[u].line
    BY <1>l, <1>3, <1>a
  <2> QED BY <2>1 DEF WorkingOn
<1>7. \A k : Sound(k)' = Sound(k)
  BY <1>1, <1>4, <1>5 DEF Sound
<1>8. ASSUME NEW q \in Payments PROVE PaymentOK(q)'
  <2>1. CASE q = p
    <3>1. payment'[q].status = "draft" /\ payment'[q].line = l
          /\ payment'[q].invoice = line[l].invoice
      BY <1>5, <1>new, <2>1
    <3>2. q \notin twice'
      BY <1>1, <1>5, <2>1 DEF BankInv, PaymentOK
    <3> QED BY <1>1, <3>1, <3>2 DEF PaymentOK
  <2>2. CASE q # p
    <3>1. PaymentOK(q) /\ payment'[q] = payment[q]
      BY <1>5, <2>2 DEF BankInv
    <3>2. \A u \in Sessions : sess[u].pc = "mark" => sess'[u] = sess[u]
      BY <1>1, <1>3
    <3> QED BY <1>1, <3>1, <3>2 DEF PaymentOK, Settled
  <2> QED BY <2>1, <2>2
<1>9. ASSUME NEW u \in Sessions PROVE ApprovalOK(u)'
  <2>0. /\ \A v \in Sessions : ApprovalOK(v) /\ sess'[v].crossing = sess[v].crossing
        /\ \A k : WorkingOn(k) \subseteq Sessions
    BY <1>3, <1>a DEF BankInv, WorkingOn
  <2>1. CASE u = s
    <3>1. ASSUME NEW v \in WorkingOn(l), sess'[v].pc # "create", sess'[v].payment = p
          PROVE  v = s
      <4>1. SUFFICES ASSUME v # s PROVE FALSE
        OBVIOUS
      <4>2. v \in Sessions /\ sess[v].line = l /\ l # None
        BY <1>1, BankAssumption DEF WorkingOn
      <4>3. sess[v].pc # "create" /\ sess[v].payment = p /\ ApprovalOK(v)
        BY <1>3, <2>0, <3>1, <4>1, <4>2
      <4> QED BY <1>5, <4>2, <4>3 DEF ApprovalOK
    <3>2. payment'[p].status = "draft" /\ payment'[p].line = l
      BY <1>5, <1>new
    <3>3. ~ sess[s].crossing =>
            /\ \A v \in WorkingOn(l) : sess[v].crossing \/ v = s
            /\ \A q \in Sound(l) : FALSE
      BY <1>l, <1>1 DEF ApprovalOK
    <3>4. sess'[s].pc = "post" /\ sess'[s].line = l /\ sess'[s].payment = p
          /\ sess'[s].crossing = sess[s].crossing
      BY <1>3, <1>a
    <3> QED BY <1>1, <1>4, <1>6, <1>7, <2>0, <2>1, <3>1, <3>2, <3>3, <3>4 DEF ApprovalOK
  <2>2. CASE u # s
    <3>1. sess'[u] = sess[u] /\ ApprovalOK(u)
      BY <1>3, <2>0, <2>2
    <3>2. sess[u].pc \notin {"idle", "create"} =>
            /\ sess[u].payment # p
            /\ payment'[sess[u].payment] = payment[sess[u].payment]
      BY <1>5, <3>1 DEF ApprovalOK
    <3>3. ASSUME NEW v \in WorkingOn(sess[u].line), sess[u].pc \notin {"idle", "create", "hand"},
                 sess'[v].pc # "create", sess'[v].payment = sess[u].payment
          PROVE  v = u
      <4>1. v # s
        BY <1>3, <1>a, <3>2, <3>3
      <4>2. sess'[v] = sess[v]
        BY <1>3, <2>0, <4>1
      <4> QED BY <3>1, <3>3, <4>2 DEF ApprovalOK
    <3> QED BY <1>1, <1>4, <1>6, <1>7, <2>0, <3>1, <3>2, <3>3 DEF ApprovalOK
  <2> QED BY <2>1, <2>2
<1>10. ReconciledIsBooked'
  <2>1. \A k \in Lines : \A q \in BookedFor(k) : payment'[q] = payment[q]
    BY <1>5 DEF BookedFor
  <2> QED BY <1>1, <1>5, <2>1 DEF BankInv, ReconciledIsBooked
<1>11. OnlyRacesAndFailuresDuplicate'
  BY <1>1, <1>7 DEF BankInv, OnlyRacesAndFailuresDuplicate, Sound
<1> QED BY <1>type, <1>8, <1>9, <1>10, <1>11 DEF BankInv

\* What booking a payment changes.
LEMMA BookingFacts ==
  ASSUME TypeOK, NEW p \in Payments, payment[p].status # "absent", Book(p)
  PROVE  /\ payment'[p].status = "posted"
         /\ \A q \in Payments : /\ payment'[q].line = payment[q].line
                                /\ payment'[q].invoice = payment[q].invoice
                                /\ payment'[q].amount = payment[q].amount
                                /\ payment'[q].known = payment[q].known
                                /\ payment'[q].status = "absent" <=> payment[q].status = "absent"
         /\ \A q \in Payments : q # p => payment'[q] = payment[q]
         /\ payment' \in [Payments -> PaymentRow]
         /\ paid' \in [Invoices -> Int]
         /\ twice' = IF payment[p].status = "posted" THEN twice \cup {p} ELSE twice
         /\ \A k : BookedFor(k)' \subseteq BookedFor(k) \cup {p}
         /\ \A k : BookedFor(k) \subseteq BookedFor(k)'
         /\ \A k : k # payment[p].line => BookedFor(k)' = BookedFor(k)
<1>1. PICK x \in PaymentRow : x = payment[p]
  BY DEF TypeOK, PaymentRow
<1> DEFINE new == [status |-> "posted", line |-> x.line, invoice |-> x.invoice,
                   amount |-> x.amount, known |-> x.known]
<1>2. [x EXCEPT !.status = "posted"] = new
  BY DEF PaymentRow
<1>3. payment' = [payment EXCEPT ![p] = new]
  BY <1>1, <1>2 DEF Book
<1>4. new \in PaymentRow /\ payment \in [Payments -> PaymentRow]
  BY DEF TypeOK, PaymentRow
<1>a. /\ new.status = "posted" /\ new.line = x.line /\ new.invoice = x.invoice
      /\ new.amount = x.amount /\ new.known = x.known
  OBVIOUS
<1> HIDE DEF new
<1>5. /\ payment'[p] = new
      /\ \A q \in Payments : q # p => payment'[q] = payment[q]
      /\ payment' \in [Payments -> PaymentRow]
  BY <1>3, <1>4
<1>6. /\ payment'[p].status = "posted"
      /\ \A q \in Payments : /\ payment'[q].line = payment[q].line
                             /\ payment'[q].invoice = payment[q].invoice
                             /\ payment'[q].amount = payment[q].amount
                             /\ payment'[q].known = payment[q].known
                             /\ payment'[q].status = "absent" <=> payment[q].status = "absent"
  BY <1>1, <1>5, <1>a
<1>7. paid' \in [Invoices -> Int]
  <2>1. PICK i, a : i = payment[p].invoice /\ a = payment[p].amount
    OBVIOUS
  <2>2. a \in Int /\ i \in Invoices
    BY <2>1 DEF TypeOK
  <2>3. paid' = [paid EXCEPT ![i] = paid[i] + a] /\ paid \in [Invoices -> Int]
    BY <2>1 DEF Book, TypeOK
  <2> QED BY <2>2, <2>3
<1>8. /\ \A k : BookedFor(k)' \subseteq BookedFor(k) \cup {p}
      /\ \A k : BookedFor(k) \subseteq BookedFor(k)'
      /\ \A k : k # payment[p].line => BookedFor(k)' = BookedFor(k)
  BY <1>5, <1>6 DEF BookedFor
<1>9. twice' = IF payment[p].status = "posted" THEN twice \cup {p} ELSE twice
  BY DEF Book
<1> QED BY <1>5, <1>6, <1>7, <1>8, <1>9

\* What booking a payment leaves of a reconciled line.
LEMMA BookingKeepsReconciled ==
  ASSUME BankInv, NEW p \in Payments, payment[p].status # "absent", Book(p), line' = line
  PROVE  ReconciledIsBooked'
<1>1. /\ \A q \in Payments : payment'[q].invoice = payment[q].invoice
      /\ \A k : BookedFor(k) \subseteq BookedFor(k)'
  BY BookingFacts DEF BankInv
<1>2. \A k : BookedFor(k) \subseteq Payments
  BY DEF BookedFor
<1> QED BY <1>1, <1>2 DEF BankInv, ReconciledIsBooked

LEMMA PostPaymentKeeps ==
  ASSUME BankInv, NEW s \in Sessions, PostPayment(s)
  PROVE  BankInv'
<1>0. PICK l, p : l = sess[s].line /\ p = sess[s].payment
  OBVIOUS
<1> DEFINE t == [pc |-> "mark", line |-> l, payment |-> p, crossing |-> sess[s].crossing]
<1>1. /\ sess[s].pc = "book" /\ p \in Payments /\ l \in Lines /\ payment[p].status # "absent"
      /\ payment[p].line = l /\ line[l].status # "absent" /\ line[l].invoice \in Invoices
      /\ payment[p].status = "posted" => p \in lost
      /\ Book(p) /\ ApprovalOK(s) /\ PaymentOK(p)
      /\ UNCHANGED <<line, lost, crossed, before>>
  BY <1>0 DEF PostPayment, BankInv, ApprovalOK
<1>2. sess' = [sess EXCEPT ![s] = t]
  <2>1. PICK x \in Request : x = sess[s]
    BY DEF BankInv, TypeOK, Request
  <2>2. [x EXCEPT !.pc = "mark"] =
          [pc |-> "mark", line |-> x.line, payment |-> x.payment, crossing |-> x.crossing]
    BY DEF Request
  <2>3. sess' = [sess EXCEPT ![s] = [sess[s] EXCEPT !.pc = "mark"]]
    BY DEF PostPayment
  <2> QED BY <1>0, <2>1, <2>2, <2>3
<1>3. sess'[s] = t /\ \A u \in Sessions : u # s => sess'[u] = sess[u]
  BY <1>2 DEF BankInv, TypeOK
<1>a. t.pc = "mark" /\ t.line = l /\ t.payment = p /\ t.crossing = sess[s].crossing
  OBVIOUS
<1>rows. t \in Request
  BY <1>0, <1>1 DEF BankInv, TypeOK, Request
<1> HIDE DEF t
<1>4. /\ payment'[p].status = "posted"
      /\ \A q \in Payments : /\ payment'[q].line = payment[q].line
                             /\ payment'[q].invoice = payment[q].invoice
                             /\ payment'[q].status = "absent" <=> payment[q].status = "absent"
      /\ \A q \in Payments : q # p => payment'[q] = payment[q]
      /\ payment' \in [Payments -> PaymentRow]
      /\ paid' \in [Invoices -> Int]
      /\ twice' = IF payment[p].status = "posted" THEN twice \cup {p} ELSE twice
      /\ \A k : BookedFor(k)' \subseteq BookedFor(k) \cup {p}
      /\ \A k : BookedFor(k) \subseteq BookedFor(k)'
      /\ \A k : k # l => BookedFor(k)' = BookedFor(k)
  BY <1>1, BookingFacts DEF BankInv
<1>5. TypeOK'
  <2>1. \A q \in Payments : payment'[q].status # "absent" => payment'[q].invoice # None
    BY <1>4 DEF BankInv, TypeOK
  <2>2. twice' \subseteq Payments
    BY <1>1, <1>4 DEF BankInv, TypeOK
  <2> QED BY <1>1, <1>2, <1>4, <1>rows, <2>1, <2>2 DEF BankInv, TypeOK, Request, PaymentRow
<1>6. /\ \A k : k # l => Sound(k)' = Sound(k)
      /\ sess[s].crossing => Sound(l)' = Sound(l)
      /\ ~sess[s].crossing => Sound(l)' \subseteq {p}
  <2>1. /\ sess[s].crossing => p \in crossed
        /\ ~sess[s].crossing => Sound(l) = {}
    BY <1>0, <1>1 DEF ApprovalOK
  <2>2. Sound(l) \subseteq Sound(l)' /\ Sound(l)' \subseteq Sound(l) \cup ({p} \ crossed)
    BY <1>1, <1>4 DEF Sound
  <2>3. \A k : k # l => Sound(k)' = Sound(k)
    BY <1>1, <1>4 DEF Sound
  <2> QED BY <2>1, <2>2, <2>3
<1>once. /\ p \in twice' => p \in lost
         /\ \A q : q # p => (q \in twice' <=> q \in twice)
  <2>1. p \in twice => p \in lost
    BY <1>1, BankAssumption DEF PaymentOK
  <2> QED BY <1>1, <1>4, <2>1
<1>7. ASSUME NEW q \in Payments PROVE PaymentOK(q)'
  <2>1. CASE q = p
    <3>1. payment'[p].line = l /\ payment'[p].invoice = line[l].invoice
      BY <1>1, <1>4, BankAssumption DEF PaymentOK
    <3>2. \E u \in Sessions : sess'[u].pc = "mark" /\ sess'[u].payment = p /\ sess'[u].line = l
      BY <1>3, <1>a
    <3>3. payment'[p].status = "posted" /\ line' = line /\ lost' = lost
      BY <1>1, <1>4
    <3> QED BY <1>1, <1>once, <2>1, <3>1, <3>2, <3>3 DEF PaymentOK
  <2>2. CASE q # p
    <3>1. PaymentOK(q) /\ payment'[q] = payment[q] /\ (q \in twice' <=> q \in twice)
      BY <1>4, <1>once, <2>2 DEF BankInv
    <3>2. \A u \in Sessions : sess[u].pc = "mark" => sess'[u] = sess[u]
      BY <1>1, <1>3
    <3> QED BY <1>1, <3>1, <3>2 DEF PaymentOK, Settled
  <2> QED BY <2>1, <2>2
<1>8. \A k : WorkingOn(k)' = WorkingOn(k) /\ WorkingOn(k) \subseteq Sessions
  <2>1. \A u \in Sessions : sess'[u].line = sess[u].line
    BY <1>0, <1>3, <1>a
  <2> QED BY <2>1 DEF WorkingOn
<1>9. ASSUME NEW u \in Sessions PROVE ApprovalOK(u)'
  <2>0. /\ ApprovalOK(u)
        /\ \A v \in Sessions : /\ sess'[v].crossing = sess[v].crossing
                               /\ sess'[v].payment = sess[v].payment
                               /\ sess'[v].pc = "create" <=> sess[v].pc = "create"
    BY <1>0, <1>1, <1>3, <1>a DEF BankInv
  <2>1. CASE u = s
    <3>1. sess'[s].pc = "mark" /\ sess'[s].line = l /\ sess'[s].payment = p
      BY <1>3, <1>a
    <3>2. ~sess[s].crossing => \A v \in WorkingOn(l) : sess[v].crossing \/ v = s
      BY <1>0, <1>1 DEF ApprovalOK
    <3>3. \A v \in WorkingOn(l) : sess[v].pc # "create" /\ sess[v].payment = p => v = s
      BY <1>0, <1>1 DEF ApprovalOK
    <3>4. sess[s].crossing => p \in crossed
      BY <1>0, <1>1 DEF ApprovalOK
    <3>5. payment'[p].line = l /\ payment'[p].status = "posted"
      BY <1>1, <1>4
    <3> QED BY <1>1, <1>6, <1>8, <2>0, <2>1, <3>1, <3>2, <3>3, <3>4, <3>5 DEF ApprovalOK
  <2>2. CASE u # s
    <3>1. sess'[u] = sess[u]
      BY <1>3, <2>2
    <3>2. sess[u].pc \notin {"idle", "create"} =>
            LET new == payment'[sess[u].payment]  old == payment[sess[u].payment]
            IN  /\ new.line = old.line /\ new.status # "absent"
                /\ old.status = "posted" => new.status = "posted"
      <4>1. sess[u].pc \notin {"idle", "create"} =>
              sess[u].payment \in Payments /\ payment[sess[u].payment].status # "absent"
        BY <2>0 DEF ApprovalOK
      <4>2. \A q \in Payments : payment[q].status = "posted" => payment'[q].status = "posted"
        BY <1>4
      <4> QED BY <1>4, <4>1, <4>2
    <3>3. ASSUME sess[u].line = l, sess[u].pc \notin {"idle", "hand"}
          PROVE  /\ ~sess[u].crossing => sess[s].crossing
                 /\ sess[u].pc # "create" => sess[u].payment # p
      <4>1. s \in WorkingOn(l) /\ u \in WorkingOn(l)
        BY <1>0, <3>3 DEF WorkingOn
      <4>2. ~sess[u].crossing => sess[s].crossing
        BY <2>0, <2>2, <3>3, <4>1 DEF ApprovalOK
      <4>3. sess[u].pc # "create" => sess[u].payment # p
        BY <1>0, <1>1, <2>2, <4>1 DEF ApprovalOK
      <4> QED BY <4>2, <4>3
    <3>4. sess[u].pc \notin {"idle", "hand"} /\ ~sess[u].crossing =>
            Sound(sess[u].line)' = Sound(sess[u].line)
      <4>1. PICK k : k = sess[u].line /\ k = sess'[u].line
        BY <3>1
      <4>2. sess[u].pc \notin {"idle", "hand"} /\ ~sess[u].crossing => Sound(k)' = Sound(k)
        BY <1>6, <3>3, <4>1
      <4> QED BY <4>1, <4>2 DEF Sound, BookedFor
    <3>5. ASSUME sess[u].pc \in {"post", "book"}, payment'[sess[u].payment].status = "posted"
          PROVE  sess[u].payment \in lost
      <4>1. sess[u].payment \in Payments /\ payment[sess[u].payment].line = sess[u].line
        BY <2>0, <3>5 DEF ApprovalOK
      <4>2. sess[u].payment # p
        BY <1>1, <3>3, <3>5, <4>1
      <4>3. payment[sess[u].payment].status = "posted"
        BY <1>4, <3>5, <4>1, <4>2
      <4> QED BY <2>0, <3>5, <4>3 DEF ApprovalOK
    <3>6. CASE sess[u].pc \in {"idle", "hand"}
      BY <2>0, <3>1, <3>2, <3>6 DEF ApprovalOK
    <3>7. CASE sess[u].pc = "create"
      BY <1>1, <1>8, <2>0, <3>1, <3>4, <3>7 DEF ApprovalOK
    <3>8. CASE sess[u].pc \notin {"idle", "hand", "create"}
      BY <1>1, <1>8, <2>0, <3>1, <3>2, <3>4, <3>5, <3>8 DEF ApprovalOK
    <3> QED BY <3>6, <3>7, <3>8
  <2> QED BY <2>1, <2>2
<1>10. ReconciledIsBooked'
  BY <1>1, BookingKeepsReconciled
<1>11. OnlyRacesAndFailuresDuplicate'
  <2>1. \A k \in Lines : \A q, r \in Sound(k)' : q = r /\ q \notin twice'
    <3>1. \A k \in Lines : \A q, r \in Sound(k) : q = r /\ q \notin twice
      BY DEF BankInv, OnlyRacesAndFailuresDuplicate, Sound
    <3>2. \A q, r \in Sound(l)' : q = r
      BY <1>1, <1>6, <3>1
    <3>3. \A k \in Lines : \A q \in Sound(k)' : q \in Sound(k) \/ q = p
      BY <1>6
    <3>4. \A k \in Lines : p \in Sound(k)' => p \notin lost
      BY <1>1 DEF Sound
    <3>5. \A k \in Lines : \A q \in Sound(k)' : q \notin twice'
      BY <1>once, <3>1, <3>3, <3>4
    <3> QED BY <1>6, <3>1, <3>2, <3>5
  <2> QED BY <2>1 DEF OnlyRacesAndFailuresDuplicate, Sound
<1> QED BY <1>5, <1>7, <1>9, <1>10, <1>11 DEF BankInv

LEMMA PostByHandKeeps ==
  ASSUME BankInv, NEW s \in Sessions, PostByHand(s)
  PROVE  BankInv'
<1>0. PICK p : p = sess[s].payment
  OBVIOUS
<1>1. /\ sess[s].pc = "hand" /\ sess[s].line = None
      /\ p \in Payments /\ payment[p].status # "absent" /\ Book(p)
      /\ lost' = lost \cup {p} /\ sess' = [sess EXCEPT ![s] = Idle]
      /\ UNCHANGED <<line, crossed, before>>
  BY <1>0 DEF PostByHand, BankInv, ApprovalOK
<1>2. sess'[s] = Idle /\ \A u \in Sessions : u # s => sess'[u] = sess[u]
  BY <1>1 DEF BankInv, TypeOK
<1>b. Idle.pc = "idle" /\ Idle.line = None /\ Idle \in Request
  BY DEF Idle, Request
<1>4. /\ payment'[p].status = "posted"
      /\ \A q \in Payments : /\ payment'[q].line = payment[q].line
                             /\ payment'[q].invoice = payment[q].invoice
                             /\ payment'[q].status = "absent" <=> payment[q].status = "absent"
      /\ \A q \in Payments : q # p => payment'[q] = payment[q]
      /\ payment' \in [Payments -> PaymentRow]
      /\ paid' \in [Invoices -> Int]
      /\ twice' = IF payment[p].status = "posted" THEN twice \cup {p} ELSE twice
      /\ \A k : BookedFor(k)' \subseteq BookedFor(k) \cup {p}
      /\ \A k : BookedFor(k) \subseteq BookedFor(k)'
  BY <1>1, BookingFacts DEF BankInv
<1>5. TypeOK'
  <2>1. \A q \in Payments : payment'[q].status # "absent" => payment'[q].invoice # None
    BY <1>4 DEF BankInv, TypeOK
  <2>2. lost' \subseteq Payments /\ twice' \subseteq Payments
    BY <1>1, <1>4 DEF BankInv, TypeOK
  <2> QED BY <1>1, <1>4, <1>b, <2>1, <2>2 DEF BankInv, TypeOK, Request, PaymentRow
<1>6. \A k : Sound(k)' \subseteq Sound(k)
  BY <1>1, <1>4 DEF Sound
<1>8. \A k \in Lines : WorkingOn(k)' = WorkingOn(k) /\ \A v \in WorkingOn(k) : sess'[v] = sess[v]
  <2>1. \A k \in Lines : k # None
    BY BankAssumption
  <2>2. \A k \in Lines : WorkingOn(k)' = WorkingOn(k)
    BY <1>1, <1>2, <1>b, <2>1 DEF WorkingOn
  <2>3. \A k \in Lines : \A v \in WorkingOn(k) : v # s /\ v \in Sessions
    BY <1>1, <2>1 DEF WorkingOn
  <2> QED BY <1>2, <2>2, <2>3
<1>7. ASSUME NEW q \in Payments PROVE PaymentOK(q)'
  <2>1. PaymentOK(q)
    BY DEF BankInv
  <2>2. CASE q = p
    BY <1>1, <1>4, <2>1, <2>2 DEF PaymentOK
  <2>3. CASE q # p
    <3>1. payment'[q] = payment[q] /\ (q \in twice' => q \in twice) /\ (q \in lost' <=> q \in lost)
      BY <1>1, <1>4, <2>3
    <3>2. \A u \in Sessions : sess[u].pc = "mark" => sess'[u] = sess[u]
      BY <1>1, <1>2
    <3> QED BY <1>1, <2>1, <3>1, <3>2 DEF PaymentOK, Settled
  <2> QED BY <2>2, <2>3
<1>9. ASSUME NEW u \in Sessions PROVE ApprovalOK(u)'
  <2>1. CASE u = s
    BY <1>2, <1>b, <2>1 DEF ApprovalOK
  <2>2. CASE u # s
    <3>1. ApprovalOK(u) /\ sess'[u] = sess[u]
      BY <1>2, <2>2 DEF BankInv
    <3>2. sess[u].pc \notin {"idle", "create"} =>
            LET new == payment'[sess[u].payment]  old == payment[sess[u].payment]
            IN  /\ new.line = old.line /\ new.status # "absent"
                /\ old.status = "posted" => new.status = "posted"
                /\ new.status = "posted" => old.status = "posted" \/ sess[u].payment \in lost'
      <4>1. sess[u].pc \notin {"idle", "create"} =>
              sess[u].payment \in Payments /\ payment[sess[u].payment].status # "absent"
        BY <3>1 DEF ApprovalOK
      <4>2. \A q \in Payments :
              /\ payment[q].status = "posted" => payment'[q].status = "posted"
              /\ payment'[q].status = "posted" => payment[q].status = "posted" \/ q \in lost'
        BY <1>1, <1>4
      <4> QED BY <1>4, <4>1, <4>2
    <3>3. lost \subseteq lost'
      BY <1>1
    <3>4. CASE sess[u].pc \in {"idle", "hand"}
      BY <3>1, <3>2, <3>4 DEF ApprovalOK
    <3>5. CASE sess[u].pc \notin {"idle", "hand"}
      <4>1. sess[u].line \in Lines
        BY <3>1, <3>5 DEF ApprovalOK
      <4> QED BY <1>1, <1>6, <1>8, <3>1, <3>2, <3>3, <3>5, <4>1 DEF ApprovalOK
    <3> QED BY <3>4, <3>5
  <2> QED BY <2>1, <2>2
<1>10. ReconciledIsBooked'
  BY <1>1, BookingKeepsReconciled
<1>11. OnlyRacesAndFailuresDuplicate'
  <2>1. \A k \in Lines : \A q, r \in Sound(k)' : q = r /\ q \notin twice'
    <3>1. \A k \in Lines : \A q, r \in Sound(k) : q = r /\ q \notin twice
      BY DEF BankInv, OnlyRacesAndFailuresDuplicate, Sound
    <3>2. \A k : p \notin Sound(k)'
      BY <1>1 DEF Sound
    <3>3. \A q : q # p /\ q \in twice' => q \in twice
      BY <1>4
    <3> QED BY <1>6, <3>1, <3>2, <3>3
  <2> QED BY <2>1 DEF OnlyRacesAndFailuresDuplicate, Sound
<1> QED BY <1>5, <1>7, <1>9, <1>10, <1>11 DEF BankInv

\* A session that ends, well or not, leaves the others what they had.
LEMMA EndedKeepsOthers ==
  ASSUME BankInv, NEW s \in Sessions, sess' = [sess EXCEPT ![s] = Idle],
         UNCHANGED <<payment, crossed, twice>>, lost \subseteq lost',
         \A k \in Lines : line[k].status # "absent" =>
           line'[k].status # "absent" /\ line'[k].invoice = line[k].invoice
  PROVE  /\ sess'[s] = Idle /\ \A u \in Sessions : u # s => sess'[u] = sess[u]
         /\ \A k : Sound(k)' \subseteq Sound(k) /\ BookedFor(k)' = BookedFor(k)
         /\ \A u \in Sessions : ApprovalOK(u)'
<1>1. sess'[s] = Idle /\ \A u \in Sessions : u # s => sess'[u] = sess[u]
  BY DEF BankInv, TypeOK
<1>2. \A k : Sound(k)' \subseteq Sound(k) /\ BookedFor(k)' = BookedFor(k)
  BY DEF Sound, BookedFor
<1>3. ApprovalOK(s)'
  BY <1>1 DEF ApprovalOK, Idle
<1>4. ASSUME NEW u \in Sessions, u # s PROVE ApprovalOK(u)'
  <2>1. ApprovalOK(u) /\ sess'[u] = sess[u]
    BY <1>1, <1>4 DEF BankInv
  <2>2. \A v \in WorkingOn(sess[u].line)' :
          sess[u].line # None => v # s /\ v \in WorkingOn(sess[u].line)
    BY <1>1, <2>1 DEF WorkingOn, Idle
  <2>3. sess[u].pc \notin {"idle", "hand"} => sess[u].line # None
    BY <2>1, BankAssumption DEF ApprovalOK
  <2>4. \A v \in WorkingOn(sess[u].line)' : sess[u].line # None => sess'[v] = sess[v]
    BY <1>1, <2>2 DEF WorkingOn
  <2>5. CASE sess[u].pc \in {"idle", "hand"}
    BY <2>1, <2>5 DEF ApprovalOK
  <2>6. CASE sess[u].pc \notin {"idle", "hand"}
    <3>1. PICK l : l = sess[u].line
      OBVIOUS
    <3>2. /\ l \in Lines /\ line'[l].status # "absent" /\ line'[l].invoice \in Invoices
          /\ \A v \in WorkingOn(l)' : v \in WorkingOn(l) /\ sess'[v] = sess[v]
      BY <2>1, <2>2, <2>3, <2>4, <2>6, <3>1 DEF ApprovalOK
    <3> QED BY <1>2, <2>1, <2>6, <3>1, <3>2 DEF ApprovalOK
  <2> QED BY <2>5, <2>6
<1> QED BY <1>1, <1>2, <1>3, <1>4

LEMMA MarkReconciledKeeps ==
  ASSUME BankInv, NEW s \in Sessions, MarkReconciled(s)
  PROVE  BankInv'
<1>0. PICK l, p : l = sess[s].line /\ p = sess[s].payment
  OBVIOUS
<1>1. /\ sess[s].pc = "mark" /\ p \in Payments /\ l \in Lines
      /\ payment[p].status = "posted" /\ payment[p].line = l /\ line[l].status # "absent"
      /\ line' = [line EXCEPT ![l].status = "reconciled", ![l].entry = p]
      /\ sess' = [sess EXCEPT ![s] = Idle]
      /\ UNCHANGED <<payment, paid, lost, crossed, twice, before>>
  BY <1>0 DEF MarkReconciled, BankInv, ApprovalOK
<1> DEFINE Row == [status : LineStatuses, invoice : Invoices \cup {None}, entry : Payments \cup {0}]
<1> DEFINE new == [status |-> "reconciled", invoice |-> line[l].invoice, entry |-> p]
<1>2. line' = [line EXCEPT ![l] = new]
  <2>1. PICK x \in Row : x = line[l]
    BY <1>1 DEF BankInv, TypeOK
  <2>2. PICK y : y = [x EXCEPT !.status = "reconciled"]
    OBVIOUS
  <2>3. y = [status |-> "reconciled", invoice |-> x.invoice, entry |-> x.entry]
    BY <2>1, <2>2
  <2>4. [y EXCEPT !.entry = p] = [status |-> "reconciled", invoice |-> x.invoice, entry |-> p]
    BY <2>3
  <2>5. line' = [line EXCEPT ![l] = [line[l] EXCEPT !.status = "reconciled", !.entry = p]]
    BY <1>1
  <2> QED BY <2>1, <2>2, <2>4, <2>5
<1>3. /\ line'[l] = new /\ \A k \in Lines : k # l => line'[k] = line[k]
      /\ new \in Row
  BY <1>1, <1>2 DEF BankInv, TypeOK, LineStatuses
<1>4. TypeOK'
  BY <1>1, <1>2, <1>3 DEF BankInv, TypeOK, Idle
<1>5. /\ sess'[s] = Idle /\ \A u \in Sessions : u # s => sess'[u] = sess[u]
      /\ \A k : Sound(k)' \subseteq Sound(k) /\ BookedFor(k)' = BookedFor(k)
      /\ \A u \in Sessions : ApprovalOK(u)'
  <2>1. \A k \in Lines : line[k].status # "absent" =>
          line'[k].status # "absent" /\ line'[k].invoice = line[k].invoice
    BY <1>3
  <2> QED BY <1>1, <2>1, EndedKeepsOthers
<1>6. ASSUME NEW q \in Payments PROVE PaymentOK(q)'
  <2>1. CASE payment[q].line = l
    BY <1>1, <1>3, <2>1 DEF BankInv, PaymentOK, Settled
  <2>2. CASE payment[q].line # l /\ payment[q].status # "absent" /\ payment[q].line # None
    <3>1. PaymentOK(q)
      BY DEF BankInv
    <3>2. \A u \in Sessions : sess[u].line = payment[q].line => sess'[u] = sess[u]
      BY <1>0, <1>5, <2>2
    <3>3. PICK k \in Lines : /\ k = payment[q].line /\ line[k].status # "absent"
                             /\ payment[q].invoice = line[k].invoice /\ line'[k] = line[k]
      BY <1>3, <2>2, <3>1 DEF PaymentOK, BankInv, TypeOK
    <3>4. payment[q].status = "posted" /\ q \notin lost =>
            Settled(k)' \/ \E u \in Sessions : /\ sess'[u].pc = "mark" /\ sess'[u].payment = q
                                              /\ sess'[u].line = k
      BY <2>2, <3>1, <3>2, <3>3 DEF PaymentOK, Settled
    <3> QED BY <1>1, <2>2, <3>1, <3>3, <3>4 DEF PaymentOK
  <2>3. CASE payment[q].status = "absent" \/ payment[q].line = None
    BY <1>1, <2>3 DEF BankInv, PaymentOK
  <2> QED BY <2>1, <2>2, <2>3
<1>7. ReconciledIsBooked'
  <2>1. p \in BookedFor(l)' /\ payment'[p].invoice = new.invoice
    BY <1>1, BankAssumption DEF BankInv, PaymentOK, BookedFor
  <2>2. line'[l].entry = p /\ line'[l].invoice = new.invoice
    BY <1>3
  <2> HIDE DEF new
  <2>3. ASSUME NEW k \in Lines, line'[k].status = "reconciled"
        PROVE  line'[k].entry \in BookedFor(k)' /\ payment'[line'[k].entry].invoice = line'[k].invoice
    <3>1. CASE k = l
      BY <2>1, <2>2, <3>1
    <3>2. CASE k # l
      <4>1. line'[k] = line[k] /\ BookedFor(k)' = BookedFor(k) /\ payment' = payment
        BY <1>1, <1>3, <1>5, <3>2
      <4> QED BY <2>3, <4>1 DEF BankInv, ReconciledIsBooked
    <3> QED BY <3>1, <3>2
  <2> QED BY <2>3 DEF ReconciledIsBooked
<1>8. OnlyRacesAndFailuresDuplicate'
  <2>1. \A k \in Lines : \A q, r \in Sound(k)' : q = r /\ q \notin twice'
    BY <1>1, <1>5 DEF BankInv, OnlyRacesAndFailuresDuplicate, Sound
  <2> QED BY <2>1 DEF OnlyRacesAndFailuresDuplicate, Sound
<1> QED BY <1>4, <1>5, <1>6, <1>7, <1>8 DEF BankInv

LEMMA FailKeeps ==
  ASSUME BankInv, NEW s \in Sessions, Fail(s)
  PROVE  BankInv'
<1>0. PICK p : p = sess[s].payment
  OBVIOUS
<1>1. /\ lost' = IF sess[s].pc = "mark" THEN lost \cup {p} ELSE lost
      /\ sess' = [sess EXCEPT ![s] = Idle]
      /\ UNCHANGED <<line, payment, paid, crossed, twice, before>>
      /\ ApprovalOK(s)
  BY <1>0 DEF Fail, BankInv
<1>2. TypeOK'
  BY <1>0, <1>1 DEF BankInv, TypeOK, ApprovalOK, Idle
<1>3. /\ sess'[s] = Idle /\ \A u \in Sessions : u # s => sess'[u] = sess[u]
      /\ \A k : Sound(k)' \subseteq Sound(k) /\ BookedFor(k)' = BookedFor(k)
      /\ \A u \in Sessions : ApprovalOK(u)'
  BY <1>1, EndedKeepsOthers
<1>4. ASSUME NEW q \in Payments PROVE PaymentOK(q)'
  <2>1. \A u \in Sessions : sess[u].pc = "mark" /\ sess[u].payment = q /\ q \notin lost' =>
          sess'[u] = sess[u]
    BY <1>0, <1>1, <1>3
  <2> QED BY <1>1, <2>1 DEF BankInv, PaymentOK, Settled
<1>5. ReconciledIsBooked' /\ OnlyRacesAndFailuresDuplicate'
  BY <1>1, <1>3 DEF BankInv, ReconciledIsBooked, OnlyRacesAndFailuresDuplicate, Sound
<1> QED BY <1>2, <1>3, <1>4, <1>5 DEF BankInv

-----------------------------------------------------------------------------
LEMMA BankStep == BankInv /\ [Next]_vars => BankInv'
<1> SUFFICES ASSUME BankInv, [Next]_vars PROVE BankInv'
  OBVIOUS
<1>1. CASE \E l \in Lines : ImportUnmatched(l) \/ Ignore(l)
  BY <1>1, ImportUnmatchedKeeps, IgnoreKeeps
<1>2. CASE \E l \in Lines, i \in Invoices : ImportSuggested(l, i)
  BY <1>2, ImportSuggestedKeeps
<1>3. CASE \E s \in Sessions, l \in Lines : Approve(s, l)
  BY <1>3, ApproveKeeps
<1>4. CASE \E s \in Sessions : CreatePayment(s) \/ ReadPayment(s) \/ PostPayment(s)
  BY <1>4, CreatePaymentKeeps, ReadPaymentKeeps, PostPaymentKeeps
<1>5. CASE \E s \in Sessions : MarkReconciled(s) \/ Fail(s)
  BY <1>5, MarkReconciledKeeps, FailKeeps
<1>6. CASE \E h \in HandMade : EnterPayment(h)
  BY <1>6, EnterPaymentKeeps
<1>8. CASE \E s \in Sessions : PostByHand(s) \/ \E p \in Payments : ReadByHand(s, p)
  BY <1>8, PostByHandKeeps, ReadByHandKeeps
<1>7. CASE UNCHANGED vars
  BY <1>7 DEF vars, BankInv, TypeOK, PaymentOK, ApprovalOK, ReconciledIsBooked,
     OnlyRacesAndFailuresDuplicate, BookedFor, Settled, Sound, WorkingOn
<1> QED BY <1>1, <1>2, <1>3, <1>4, <1>5, <1>6, <1>7, <1>8 DEF Next

\* The inductive invariant of imports, approvals, failures and postings by hand.
THEOREM BankInvariant == Spec => []BankInv
<1> QED BY BankInit, BankStep, PTL DEF Spec

\* A reconciled line points at a booked payment made for it (markReconciled comes
\* after the posting in approveMatch), whatever failed or ran in between.
THEOREM ReconciledAlwaysBooked == Spec => []ReconciledIsBooked
<1>1. BankInv => ReconciledIsBooked
  BY DEF BankInv
<1> QED BY <1>1, BankInvariant, PTL

\* Only approvals that overlap, requests that fail after booking and drafts posted
\* by hand pay a line twice: approveMatch's test of the status keeps every later one out.
THEOREM OneSoundPaymentPerLine == Spec => []OnlyRacesAndFailuresDuplicate
<1>1. BankInv => OnlyRacesAndFailuresDuplicate
  BY DEF BankInv
<1> QED BY <1>1, BankInvariant, PTL

\* Once the requests for a line have all ended well, what they booked has taken it
\* off the list of suggestions.
THEOREM BookedLinesAreSettled == Spec => []BookedIsSettled
<1>1. BankInv => BookedIsSettled
  <2> SUFFICES ASSUME BankInv, NEW l \in Lines, NEW p \in BookedFor(l),
                      BookedFor(l) \cap lost = {}, WorkingOn(l) = {}
               PROVE  line[l].status \in {"reconciled", "ignored"}
    BY DEF BookedIsSettled
  <2>1. PaymentOK(p) /\ payment[p].status = "posted" /\ payment[p].line = l /\ p \notin lost
    BY DEF BankInv, BookedFor
  <2>2. l # None
    BY BankAssumption
  <2> QED BY <2>1, <2>2 DEF PaymentOK, Settled, WorkingOn
<1> QED BY <1>1, BankInvariant, PTL

-----------------------------------------------------------------------------
(***************************************************************************)
(* Payments beyond an invoice's total.                                     *)
(***************************************************************************)
LEMMA PaymentsAreFinite ==
  ASSUME NEW ps \in SUBSET Payments
  PROVE  IsFiniteSet(ps)
<1>1. IsFiniteSet(Payments)
  BY BankAssumption, FS_Interval DEF Payments
<1> QED BY <1>1, FS_Subset

\* Payments that keep their amounts keep their sum.
LEMMA SumKept ==
  ASSUME NEW ps \in SUBSET Payments, \A p \in ps : payment'[p].amount = payment[p].amount
  PROVE  Sum(ps)' = Sum(ps)
<1> DEFINE f == [p \in ps |-> payment[p].amount]
           g == [p \in ps |-> payment'[p].amount]
<1>1. \A p \in ps : f[p] = g[p]
  OBVIOUS
<1>2. IsFiniteSet(ps)
  BY PaymentsAreFinite
<1> HIDE DEF f, g
<1>3. SumFunctionOnSet(f, ps) = SumFunctionOnSet(g, ps)
  BY <1>1, <1>2, SumSame
<1> QED BY <1>3 DEF Sum, f, g

\* Payments have integer amounts, and so does their sum.
LEMMA SumOfPayments ==
  ASSUME TypeOK, NEW ps \in SUBSET Payments
  PROVE  /\ Sum(ps) \in Int
         /\ \A p \in ps : Sum(ps) = payment[p].amount + Sum(ps \ {p})
<1> DEFINE f == [p \in ps |-> payment[p].amount]
<1>1. \A p \in ps : f[p] \in Int
  BY DEF TypeOK
<1>2. IsFiniteSet(ps)
  BY PaymentsAreFinite
<1>3. SumFunctionOnSet(f, ps) \in Int
  <2> HIDE DEF f
  <2> QED BY <1>1, <1>2, SumType
<1>4. ASSUME NEW p \in ps PROVE Sum(ps) = payment[p].amount + Sum(ps \ {p})
  <2> DEFINE rest == ps \ {p}
             g == [q \in rest |-> payment[q].amount]
  <2>1. \A q \in rest : f[q] = g[q]
    OBVIOUS
  <2>2. IsFiniteSet(rest) /\ f[p] = payment[p].amount
    BY PaymentsAreFinite
  <2> HIDE DEF f, g
  <2>3. SumFunctionOnSet(f, ps) = f[p] + SumFunctionOnSet(f, ps \ {p})
    BY <1>1, <1>2, SumTakeOut
  <2> HIDE DEF rest
  <2>4. SumFunctionOnSet(f, rest) = SumFunctionOnSet(g, rest)
    BY <2>1, <2>2, SumSame
  <2> QED BY <2>2, <2>3, <2>4 DEF Sum, f, g, rest
<1> QED BY <1>3, <1>4 DEF Sum

\* A step that books nothing keeps the invariant if it leaves the lines that are there
\* their invoices and what is known of them, and imports and makes out as it should.
LEMMA NothingBooked ==
  ASSUME BankInv, OverpaidInv, paid' = paid, twice' = twice,
         \A p \in Payments : \/ payment'[p] = payment[p]
                             \/ /\ payment[p].status = "absent" /\ payment'[p].status = "draft"
                                /\ KnownOK(p)',
         \A l \in Lines : \/ /\ line[l].status # "absent" /\ line'[l].status # "absent"
                             /\ line'[l].invoice = line[l].invoice /\ before'[l] = before[l]
                          \/ line'[l] = line[l] /\ before'[l] = before[l]
                          \/ line[l].status = "absent" /\ SuggestionOK(l)'
  PROVE  OverpaidInv'
<1>1. \A i : /\ Paying(i)' = Paying(i) /\ Paying(i) \in SUBSET Payments
             /\ \A p \in Paying(i) : payment'[p] = payment[p]
  BY DEF Paying
<1>2. ASSUME NEW i PROVE \A ps \in SUBSET Paying(i) : Sum(ps)' = Sum(ps)
  <2> SUFFICES ASSUME NEW ps \in SUBSET Paying(i) PROVE Sum(ps)' = Sum(ps)
    OBVIOUS
  <2>1. ps \in SUBSET Payments /\ \A p \in ps : payment'[p].amount = payment[p].amount
    BY <1>1
  <2> QED BY <2>1, SumKept
<1>3. ASSUME NEW l \in Lines PROVE SuggestionOK(l)'
  <2>1. CASE line[l].status = "absent" /\ SuggestionOK(l)'
    BY <2>1
  <2>2. CASE /\ line'[l].status = line[l].status \/ line'[l].status # "absent"
             /\ line'[l].invoice = line[l].invoice /\ before'[l] = before[l]
    <3>1. SuggestionOK(l)
      BY DEF OverpaidInv
    <3>2. before[l] \subseteq Paying(line[l].invoice) => Sum(before[l])' = Sum(before[l])
      BY <1>2, <2>2
    <3> QED BY <1>1, <2>2, <3>1, <3>2 DEF SuggestionOK
  <2> QED BY <2>1, <2>2
<1>4. ASSUME NEW i \in Invoices PROVE PaidOK(i)'
  BY <1>1, <1>2 DEF OverpaidInv, PaidOK
<1>5. ASSUME NEW p \in Payments PROVE KnownOK(p)'
  <2>1. CASE payment'[p] = payment[p] /\ payment[p].status # "absent"
    <3>1. KnownOK(p) /\ PaymentOK(p)
      BY DEF BankInv, OverpaidInv
    <3>2. payment[p].line # None =>
            before'[payment[p].line] = before[payment[p].line]
      <4>1. payment[p].line # None =>
              payment[p].line \in Lines /\ line[payment[p].line].status # "absent"
        BY <2>1, <3>1 DEF PaymentOK, BankInv, TypeOK
      <4> QED BY <4>1
    <3> QED BY <1>1, <2>1, <3>1, <3>2 DEF KnownOK
  <2>2. CASE payment'[p] = payment[p] /\ payment[p].status = "absent"
    BY <2>2 DEF KnownOK
  <2>3. CASE KnownOK(p)'
    BY <2>3
  <2> QED BY <2>1, <2>2, <2>3
<1>6. OverpaidByStaleSuggestions'
  <2> SUFFICES ASSUME NEW i \in Invoices, Beyond(i, paid[i], Total[i])
               PROVE  \/ \E p \in Paying(i) : p \in twice
                      \/ \E p, q \in Paying(i) : p # q /\ p \notin payment'[q].known
                                                 /\ q \notin payment'[p].known
                      \/ \E p \in Paying(i) :
                           /\ Beyond(i, payment'[p].amount, Total[i] - Sum(payment[p].known)')
                           /\ payment'[p].line # None =>
                                SameSide(Total[i] - Sum(payment[p].known)', Total[i])
    BY <1>1 DEF OverpaidByStaleSuggestions, SameSide, Beyond
  <2>1. \/ \E p \in Paying(i) : p \in twice
        \/ \E p, q \in Paying(i) : p # q /\ p \notin payment[q].known /\ q \notin payment[p].known
        \/ \E p \in Paying(i) :
             /\ Beyond(i, payment[p].amount, Total[i] - Sum(payment[p].known))
             /\ payment[p].line # None => SameSide(Total[i] - Sum(payment[p].known), Total[i])
    BY DEF OverpaidInv, OverpaidByStaleSuggestions
  <2>2. ASSUME NEW p \in Paying(i)
        PROVE  payment'[p] = payment[p] /\ Sum(payment[p].known)' = Sum(payment[p].known)
    <3>1. p \in Payments /\ payment[p].status = "posted" /\ payment[p].invoice = i
      BY DEF Paying
    <3>2. PICK k : k = payment[p].known /\ k = payment'[p].known
      BY <1>1
    <3>3. k \in SUBSET Paying(i)
      BY <3>1, <3>2 DEF OverpaidInv, KnownOK
    <3>4. Sum(k)' = Sum(k)
      BY <1>2, <3>3
    <3>5. Sum(payment[p].known)' = Sum(k)'
      BY <3>2 DEF Sum
    <3> QED BY <1>1, <3>2, <3>4, <3>5
  <2> QED BY <2>1, <2>2
<1> QED BY <1>3, <1>4, <1>5, <1>6 DEF OverpaidInv

\* An imported suggestion is for an invoice that was open for it.
LEMMA ImportSuggestedFits ==
  ASSUME BankInv, OverpaidInv, NEW l \in Lines, NEW i \in Invoices, ImportSuggested(l, i)
  PROVE  OverpaidInv'
<1>1. /\ line[l].status = "absent" /\ Open(l, i)
      /\ \A k \in Lines : k # l => line'[k] = line[k] /\ before'[k] = before[k]
      /\ line'[l].status = "suggested" /\ line'[l].invoice = i
      /\ before'[l] = Paying(i)
      /\ payment' = payment /\ paid' = paid /\ twice' = twice
  BY DEF ImportSuggested, Best, Score, BankInv, TypeOK
<1>2. Sum(Paying(i))' = Sum(Paying(i)) /\ Paying(i)' = Paying(i)
  BY <1>1 DEF Sum, Paying
<1>3. Paying(i) \cap twice = {} => SameSide(Total[i] - Sum(Paying(i)), Total[i])
  BY <1>1 DEF Open, Outstanding, OverpaidInv, PaidOK, SameSide
<1>4. SuggestionOK(l)'
  <2>1. Sum(before[l])' = Sum(Paying(i))
    BY <1>1 DEF Sum
  <2> QED BY <1>1, <1>2, <1>3, <2>1 DEF SuggestionOK
<1> QED BY <1>1, <1>4, NothingBooked

\* A payment that is made out knows of what its line's import or its author could see.
LEMMA CreatePaymentFits ==
  ASSUME BankInv, OverpaidInv, NEW s \in Sessions, CreatePayment(s)
  PROVE  OverpaidInv'
<1>1. PICK l : l = sess[s].line
  OBVIOUS
<1>2. l \in Lines /\ line[l].status # "absent" /\ line[l].invoice \in Invoices /\ SuggestionOK(l)
  BY <1>1 DEF CreatePayment, BankInv, ApprovalOK, OverpaidInv
<1> DEFINE new == Draft(l, line[l].invoice, Amount[l], before[l])
<1>3. /\ new \in PaymentRow /\ new.status = "draft" /\ new.line = l
      /\ new.invoice = line[l].invoice /\ new.invoice # None /\ new.known = before[l]
  BY <1>2, BankAssumption DEF BankInv, TypeOK, PaymentRow, Draft
<1>4. PICK p \in Payments : Add(p, new)
  BY <1>1 DEF CreatePayment
<1> HIDE DEF new
<1>5. /\ payment[p].status = "absent" /\ payment'[p] = new
      /\ \A q \in Payments : q # p => payment'[q] = payment[q]
  BY <1>3, <1>4, AddFacts
<1>6. UNCHANGED <<line, paid, twice, before>>
  BY DEF CreatePayment
<1>7. \A i : Paying(i) \subseteq Paying(i)'
  BY <1>5 DEF Paying
<1>8. KnownOK(p)'
  BY <1>2, <1>3, <1>5, <1>6, <1>7 DEF KnownOK, SuggestionOK
<1> QED BY <1>3, <1>5, <1>6, <1>8, NothingBooked

LEMMA EnterPaymentFits ==
  ASSUME BankInv, OverpaidInv, NEW h \in HandMade, EnterPayment(h)
  PROVE  OverpaidInv'
<1> DEFINE new == Draft(None, h.invoice, h.amount, Paying(h.invoice))
<1>1. PICK p \in Payments : Add(p, new)
  BY DEF EnterPayment
<1>2. h.invoice \in Invoices /\ h.amount \in Int /\ Paying(h.invoice) \subseteq Payments
  BY BankAssumption DEF Paying
<1>3. /\ new \in PaymentRow /\ new.status = "draft" /\ new.line = None
      /\ new.invoice = h.invoice /\ new.invoice # None /\ new.known = Paying(h.invoice)
  BY <1>2, BankAssumption DEF Draft, PaymentRow
<1> HIDE DEF new
<1>4. UNCHANGED <<line, paid, twice, before>>
  BY DEF EnterPayment
<1>5. /\ payment[p].status = "absent" /\ payment'[p] = new
      /\ \A q \in Payments : q # p => payment'[q] = payment[q]
  BY <1>1, <1>3, AddFacts
<1>6. Paying(h.invoice) \subseteq Paying(h.invoice)'
  BY <1>5 DEF Paying
<1>7. KnownOK(p)'
  BY <1>2, <1>3, <1>5, <1>6 DEF KnownOK
<1> QED BY <1>3, <1>4, <1>5, <1>7, NothingBooked

\* The steps that book nothing.
LEMMA OthersFit ==
  ASSUME BankInv, OverpaidInv, Next,
         \A s \in Sessions : ~ PostByHand(s) /\ ~ PostPayment(s)
  PROVE  OverpaidInv'
<1> USE DEF BankInv, TypeOK
<1>1. ASSUME NEW l \in Lines, ImportUnmatched(l) PROVE OverpaidInv'
  <2>1. /\ line[l].status = "absent" /\ before' = before /\ payment' = payment /\ paid' = paid
        /\ twice' = twice
        /\ line'[l].invoice = line[l].invoice
        /\ \A k \in Lines : k # l => line'[k] = line[k]
    BY <1>1 DEF ImportUnmatched
  <2>2. line[l].invoice \notin Invoices
    BY <2>1 DEF OverpaidInv, SuggestionOK
  <2>3. SuggestionOK(l)'
    BY <2>1, <2>2 DEF SuggestionOK
  <2> QED BY <2>1, <2>3, NothingBooked
<1>2. ASSUME NEW l \in Lines, Ignore(l) PROVE OverpaidInv'
  <2>1. /\ line[l].status # "absent" /\ line'[l].status # "absent"
        /\ before' = before /\ payment' = payment /\ paid' = paid /\ twice' = twice
        /\ line'[l].invoice = line[l].invoice
        /\ \A k \in Lines : k # l => line'[k] = line[k]
    BY <1>2 DEF Ignore
  <2> QED BY <2>1, NothingBooked
<1>3. ASSUME NEW s \in Sessions, NEW l \in Lines, Approve(s, l) PROVE OverpaidInv'
  BY <1>3, NothingBooked DEF Approve
<1>4. ASSUME NEW s \in Sessions, ReadPayment(s) \/ \E p \in Payments : ReadByHand(s, p)
      PROVE  OverpaidInv'
  BY <1>4, NothingBooked DEF ReadPayment, ReadByHand
<1>5. ASSUME NEW s \in Sessions, MarkReconciled(s) PROVE OverpaidInv'
  <2>1. PICK l : l = sess[s].line
    OBVIOUS
  <2>2. l \in Lines /\ line[l].status # "absent"
    BY <1>5, <2>1 DEF MarkReconciled, ApprovalOK
  <2>3. /\ line'[l].status # "absent" /\ line'[l].invoice = line[l].invoice
        /\ \A k \in Lines : k # l => line'[k] = line[k]
        /\ before' = before /\ payment' = payment /\ paid' = paid /\ twice' = twice
    BY <1>5, <2>1, <2>2 DEF MarkReconciled
  <2> QED BY <2>2, <2>3, NothingBooked
<1>6. ASSUME NEW s \in Sessions, Fail(s) PROVE OverpaidInv'
  BY <1>6, NothingBooked DEF Fail
<1> QED BY <1>1, <1>2, <1>3, <1>4, <1>5, <1>6, ImportSuggestedFits, CreatePaymentFits,
           EnterPaymentFits DEF Next

\* The arithmetic: a payment of no more than the rest does not overpay.
LEMMA BeyondTheRest ==
  ASSUME NEW i \in Invoices, NEW known \in Int, NEW amount \in Int,
         Beyond(i, known + amount, Total[i])
  PROVE  Beyond(i, amount, Total[i] - known)
<1>1. Total[i] \in Int
  BY BankAssumption
<1> QED BY <1>1 DEF Beyond

\* Booking a payment keeps the invariant: if it overpays its invoice, it was booked
\* already, did not know of some payment, which did not know of it, or was for more
\* than the rest.
LEMMA BookingFits ==
  ASSUME BankInv, OverpaidInv, NEW p \in Payments, payment[p].status # "absent", Book(p),
         line' = line, before' = before
  PROVE  OverpaidInv'
<1>1. PICK i \in Invoices : payment[p].invoice = i
  BY DEF OverpaidInv, KnownOK
<1>a. PICK a \in Int : a = payment[p].amount
  BY DEF BankInv, TypeOK
<1>2. /\ paid'[i] = paid[i] + a /\ paid[i] \in Int
      /\ \A j \in Invoices : j # i => paid'[j] = paid[j]
  BY <1>1, <1>a DEF BankInv, TypeOK, Book
<1>3. /\ payment'[p].status = "posted"
      /\ \A q \in Payments : /\ payment'[q].line = payment[q].line
                             /\ payment'[q].invoice = payment[q].invoice
                             /\ payment'[q].amount = payment[q].amount
                             /\ payment'[q].known = payment[q].known
                             /\ payment'[q].status = "absent" <=> payment[q].status = "absent"
      /\ \A q \in Payments : q # p => payment'[q] = payment[q]
      /\ twice' = IF payment[p].status = "posted" THEN twice \cup {p} ELSE twice
  BY BookingFacts DEF BankInv
<1>4. /\ \A j : Paying(j) \subseteq Payments
      /\ \A j : j # i => Paying(j)' = Paying(j)
      /\ Paying(i)' = Paying(i) \cup {p}
  BY <1>1, <1>3 DEF Paying
<1>5. \A ps \in SUBSET Payments : Sum(ps)' = Sum(ps)
  BY <1>3, SumKept
<1>6. twice \subseteq twice' /\ \A j : Paying(j) \subseteq Paying(j)'
  BY <1>3, <1>4
<1>7. ASSUME NEW k \in Lines PROVE SuggestionOK(k)'
  <2>1. SuggestionOK(k)
    BY DEF OverpaidInv
  <2>2. before[k] \in SUBSET Payments
    BY DEF BankInv, TypeOK
  <2>3. Sum(before[k])' = Sum(before[k])
    BY <1>5, <2>2
  <2> QED BY <1>6, <2>1, <2>3 DEF SuggestionOK
<1>8. ASSUME NEW q \in Payments PROVE KnownOK(q)'
  <2>1. KnownOK(q)
    BY DEF OverpaidInv
  <2> QED BY <1>3, <1>6, <2>1 DEF KnownOK
<1>9. \A q \in Payments : payment[q].known \in SUBSET Payments /\ payment'[q].known = payment[q].known
                          /\ Sum(payment[q].known)' = Sum(payment[q].known)
  <2> SUFFICES ASSUME NEW q \in Payments
               PROVE  /\ payment[q].known \in SUBSET Payments /\ payment'[q].known = payment[q].known
                      /\ Sum(payment[q].known)' = Sum(payment[q].known)
    OBVIOUS
  <2>1. PICK k : k = payment[q].known /\ k = payment'[q].known
    BY <1>3
  <2>2. k \in SUBSET Payments
    BY <2>1 DEF BankInv, TypeOK
  <2>3. Sum(k)' = Sum(k)
    BY <1>5, <2>2
  <2>4. Sum(payment[q].known)' = Sum(k)'
    BY <2>1 DEF Sum
  <2> QED BY <2>1, <2>2, <2>3, <2>4
<1>10. ASSUME NEW j \in Invoices, j # i
       PROVE  /\ PaidOK(j)'
              /\ Beyond(j, paid'[j], Total[j]) =>
                   \/ \E q \in Paying(j)' : q \in twice'
                   \/ \E q, u \in Paying(j)' : q # u /\ q \notin payment'[u].known
                                               /\ u \notin payment'[q].known
                   \/ \E q \in Paying(j)' :
                        /\ Beyond(j, payment'[q].amount, Total[j] - Sum(payment[q].known)')
                        /\ payment'[q].line # None =>
                             SameSide(Total[j] - Sum(payment[q].known)', Total[j])
  <2>1. PaidOK(j) /\ paid'[j] = paid[j] /\ Paying(j)' = Paying(j) /\ Paying(j) \in SUBSET Payments
    BY <1>2, <1>4, <1>10 DEF OverpaidInv
  <2>2. Sum(Paying(j))' = Sum(Paying(j))
    <3>1. PICK ps \in SUBSET Payments : ps = Paying(j) /\ ps = Paying(j)'
      BY <2>1
    <3>2. Sum(ps)' = Sum(ps)
      BY <1>5
    <3> QED BY <3>1, <3>2 DEF Sum
  <2>3. PaidOK(j)'
    BY <1>6, <2>1, <2>2 DEF PaidOK
  <2>4. ASSUME Beyond(j, paid[j], Total[j])
        PROVE  \/ \E q \in Paying(j) : q \in twice
               \/ \E q, u \in Paying(j) : q # u /\ q \notin payment[u].known /\ u \notin payment[q].known
               \/ \E q \in Paying(j) :
                    /\ Beyond(j, payment[q].amount, Total[j] - Sum(payment[q].known))
                    /\ payment[q].line # None => SameSide(Total[j] - Sum(payment[q].known), Total[j])
    BY <2>4 DEF OverpaidInv, OverpaidByStaleSuggestions
  <2>5. \A q \in Paying(j) : /\ q \in Paying(j)' /\ payment'[q].known = payment[q].known
                             /\ Sum(payment[q].known)' = Sum(payment[q].known)
                             /\ payment'[q].line = payment[q].line
                             /\ payment'[q].amount = payment[q].amount
                             /\ q \in twice => q \in twice'
    BY <1>3, <1>6, <1>9, <2>1
  <2> QED BY <2>1, <2>3, <2>4, <2>5
<1>11. CASE payment[p].status = "posted"
  <2>1. p \in Paying(i)' /\ p \in twice'
    BY <1>3, <1>4, <1>11
  <2>2. PaidOK(i)'
    BY <2>1 DEF PaidOK
  <2>3. OverpaidByStaleSuggestions'
    BY <1>10, <2>1 DEF OverpaidByStaleSuggestions, Beyond, SameSide
  <2> QED BY <1>7, <1>8, <1>10, <2>2, <2>3 DEF OverpaidInv
<1>12. CASE payment[p].status = "draft"
  <2>1. twice' = twice /\ p \notin Paying(i) /\ KnownOK(p) /\ PaidOK(i)
    BY <1>3, <1>12 DEF OverpaidInv, Paying
  <2>2. PICK mine \in SUBSET Payments : mine = Paying(i)
    BY <1>4
  <2>3. Sum(mine) \in Int /\ Sum(mine \cup {p}) = Sum(mine) + a
    <3>1. Sum(mine) \in Int /\ TypeOK
      BY SumOfPayments DEF BankInv
    <3>2. mine \cup {p} \in SUBSET Payments /\ (mine \cup {p}) \ {p} = mine
      BY <2>1, <2>2
    <3>3. Sum(mine \cup {p}) = payment[p].amount + Sum((mine \cup {p}) \ {p})
      BY <3>1, <3>2, SumOfPayments
    <3>4. Sum((mine \cup {p}) \ {p}) = Sum(mine)
      BY <3>2
    <3> QED BY <1>a, <3>1, <3>3, <3>4
  <2>4. Sum(Paying(i))' = Sum(mine) + a
    <3>1. Paying(i)' = mine \cup {p} /\ mine \cup {p} \in SUBSET Payments
      BY <1>4, <2>2
    <3>2. Sum(mine \cup {p})' = Sum(mine \cup {p})
      BY <1>5, <3>1
    <3>3. Sum(Paying(i))' = Sum(mine \cup {p})'
      BY <3>1 DEF Sum
    <3> QED BY <2>3, <3>2, <3>3
  <2>5. mine \cap twice = {} => paid[i] = Sum(mine)
    BY <2>1, <2>2 DEF PaidOK
  <2>6. PaidOK(i)'
    BY <1>2, <1>4, <2>1, <2>2, <2>4, <2>5 DEF PaidOK
  <2>7. ASSUME Beyond(i, paid'[i], Total[i])
        PROVE  \/ \E q \in Paying(i)' : q \in twice'
               \/ \E q, u \in Paying(i)' : q # u /\ q \notin payment'[u].known
                                           /\ u \notin payment'[q].known
               \/ \E q \in Paying(i)' :
                    /\ Beyond(i, payment'[q].amount, Total[i] - Sum(payment[q].known)')
                    /\ payment'[q].line # None =>
                         SameSide(Total[i] - Sum(payment[q].known)', Total[i])
    <3>1. CASE mine \cap twice # {}
      BY <1>4, <2>1, <2>2, <3>1
    <3>2. CASE mine \cap twice = {} /\ ~ (mine \subseteq payment[p].known)
      <4>1. PICK q \in mine : q \notin payment[p].known
        BY <3>2
      <4>2. q \in Payments /\ payment[q].status = "posted" /\ KnownOK(q)
        BY <2>2, <4>1 DEF Paying, OverpaidInv
      <4>3. p \notin payment[q].known
        BY <1>12, <4>2 DEF KnownOK, Paying
      <4> QED BY <1>3, <1>4, <2>1, <2>2, <4>1, <4>2, <4>3
    <3>3. CASE mine \cap twice = {} /\ mine \subseteq payment[p].known
      <4>1. payment[p].known = mine
        BY <1>1, <1>12, <2>1, <2>2, <3>3 DEF KnownOK
      <4>2. Beyond(i, Sum(mine) + a, Total[i])
        BY <1>2, <2>5, <2>7, <3>3
      <4>3. Beyond(i, a, Total[i] - Sum(mine))
        BY <2>3, <4>2, BeyondTheRest
      <4>4. payment[p].line # None => SameSide(Total[i] - Sum(mine), Total[i])
        <5>1. CASE payment[p].line # None
          <6>1. PICK l \in Lines : l = payment[p].line /\ line[l].invoice = i /\ before[l] = mine
            BY <1>1, <1>12, <2>1, <4>1, <5>1 DEF BankInv, PaymentOK, TypeOK, KnownOK
          <6> QED BY <3>3, <6>1 DEF OverpaidInv, SuggestionOK
        <5> QED BY <5>1
      <4>5. /\ p \in Paying(i)' /\ payment'[p].amount = a /\ payment'[p].line = payment[p].line
            /\ Sum(payment[p].known)' = Sum(mine)
        BY <1>3, <1>4, <1>9, <1>a, <4>1
      <4> QED BY <4>3, <4>4, <4>5
    <3> QED BY <3>1, <3>2, <3>3
  <2>8. OverpaidByStaleSuggestions'
    BY <1>10, <2>7 DEF OverpaidByStaleSuggestions, Beyond, SameSide
  <2> QED BY <1>7, <1>8, <1>10, <2>6, <2>8 DEF OverpaidInv
<1> QED BY <1>11, <1>12 DEF BankInv, TypeOK

LEMMA OverpaidStep == BankInv /\ OverpaidInv /\ [Next]_vars => OverpaidInv'
<1> SUFFICES ASSUME BankInv, OverpaidInv, [Next]_vars PROVE OverpaidInv'
  OBVIOUS
<1>1. ASSUME NEW s \in Sessions, PostPayment(s) \/ PostByHand(s) PROVE OverpaidInv'
  <2>1. PICK p \in Payments : p = sess[s].payment /\ payment[p].status # "absent"
    BY <1>1 DEF PostPayment, PostByHand, BankInv, ApprovalOK
  <2> QED BY <1>1, <2>1, BookingFits DEF PostPayment, PostByHand
<1>2. CASE UNCHANGED vars
  BY <1>2, NothingBooked DEF vars
<1> QED BY <1>1, <1>2, OthersFit

\* An invoice is paid beyond its total only by a payment that was booked twice, by two
\* of which neither could know of the other, or by one for more than the rest: the
\* MatchingEngine's test of what is open is never repeated when the match is approved.
THEOREM OverpaidOnlyByStaleSuggestions == Spec => []OverpaidByStaleSuggestions
<1>1. Init => OverpaidInv
  <2> SUFFICES ASSUME Init PROVE OverpaidInv
    OBVIOUS
  <2>1. \A l \in Lines : SuggestionOK(l)
    BY BankAssumption DEF Init, SuggestionOK, NewLine
  <2>2. \A p \in Payments : KnownOK(p)
    BY DEF Init, KnownOK, NoPayment
  <2>3. ASSUME NEW i \in Invoices PROVE PaidOK(i)
    <3>1. Paying(i) = {} /\ paid[i] = 0
      BY DEF Init, Paying, NoPayment
    <3>2. Sum({}) = 0
      BY SumEmpty DEF Sum
    <3> QED BY <3>1, <3>2 DEF PaidOK
  <2>4. ASSUME NEW i \in Invoices PROVE ~ Beyond(i, paid[i], Total[i])
    <3>1. Total[i] \in Int /\ paid[i] = 0
      BY BankAssumption DEF Init
    <3> QED BY <3>1 DEF Beyond
  <2> QED BY <2>1, <2>2, <2>3, <2>4 DEF OverpaidInv, OverpaidByStaleSuggestions
<1>2. OverpaidInv => OverpaidByStaleSuggestions
  BY DEF OverpaidInv
<1> QED BY <1>1, <1>2, OverpaidStep, BankInvariant, PTL DEF Spec
=============================================================================
