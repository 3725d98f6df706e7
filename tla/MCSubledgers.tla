---------------------------- MODULE MCSubledgers ----------------------------
(* Small books for TLC: an invoice with a payment that settles part of it or *)
(* more than it is and a note with or without the invoice, on each side; one *)
(* receipt for two invoices; and the documents that lead up to them.  One    *)
(* tax code is in force, the other one comes into force after the invoices.  *)
(* One journal moves a cent from a control account to a tax account.         *)
EXTENDS Subledgers

MCDocs == {"a", "b", "c"}
MCTaxRates == {[code |-> "vat", percent |-> 15, from |-> 1, to |-> NoEnd],
               [code |-> "levy", percent |-> 5, from |-> 3, to |-> NoEnd]}

Pays(x, y) == [d \in MCDocs |-> CASE d = "a" -> x [] d = "b" -> y [] OTHER -> 0]
Of(kind, lines, amount, pays) ==
  [kind |-> kind, date |-> 2, lines |-> lines, amount |-> amount, pays |-> pays]
L(quantity, price, taxCode) == [quantity |-> quantity, price |-> price, taxCode |-> taxCode]
Listed(kind, lines) == Of(kind, lines, 0, Pays(0, 0))
Paying(kind, amount, pays) == Of(kind, <<>>, amount, pays)

Sales == [a |-> Listed("sales_invoice", <<L(2, 1150, "vat"), L(1, 300, "none"), L(1, 700, "vat")>>),
          b |-> Paying("customer_receipt", 7, Pays(7, 0)),
          c |-> Paying("credit_note", 4, Pays(0, 0))]
Purchases == [a |-> Listed("supplier_invoice", <<L(1, 1050, "vat"), L(3, 800, "levy")>>),
              b |-> Paying("supplier_payment", 80, Pays(80, 0)),
              c |-> Paying("debit_note", 3, Pays(3, 0))]
TwoInvoices == [a |-> Listed("sales_invoice", <<L(1, 1000, "vat")>>),
                b |-> Listed("sales_invoice", <<L(1, 600, "none")>>),
                c |-> Paying("customer_receipt", 9, Pays(5, 3))]
Requested == [a |-> Listed("purchase_request", <<L(3, 0, "none")>>),
              b |-> Listed("purchase_order", <<L(3, 800, "levy")>>),
              c |-> Listed("supplier_invoice", <<L(3, 800, "levy")>>)]
Offered == [a |-> Listed("quotation", <<L(2, 1150, "vat")>>),
            b |-> Listed("sales_order", <<L(2, 1150, "vat")>>),
            c |-> Listed("sales_invoice", <<L(2, 1150, "vat")>>)]

MCJournals == {[a \in ControlAccounts |-> CASE a \in {"AR", "AP"} -> 1
                                          [] a \in {"TAX_INPUT", "TAX_OUTPUT"} -> -1
                                          [] OTHER -> 0]}

MCBooks == {Sales, Purchases, TwoInvoices, Requested, Offered}
=============================================================================
