---------------------------- MODULE MCInventory -----------------------------
(* Documents for TLC: receipts at different costs whose average has to be    *)
(* rounded and which list two products in opposite order, a delivery that    *)
(* competes for the stock, a count that finds none of one product and lists  *)
(* the other one twice.                                                      *)
EXTENDS Inventory

Of(kind, lines) == [kind |-> kind, lines |-> lines]
L(row, quantity, cost) == [row |-> row, quantity |-> quantity, cost |-> cost]

MCDoc == [in1 |-> Of("goods_receipt", <<L("a", 3, 10), L("b", 2, 7)>>),
          in2 |-> Of("goods_receipt", <<L("b", 1, 4), L("a", 2, 15)>>),
          out |-> Of("delivery", <<L("a", 1, 0), L("a", 2, 0)>>),
          cnt |-> Of("stock_count", <<L("b", 0, 0), L("a", 1, 0), L("a", 3, 0)>>)]
MCDocs == DOMAIN MCDoc
=============================================================================
