-------------------------- MODULE MCConsolidation ---------------------------
(* Two companies in different currencies, one sells to the other; its rate    *)
(* changes.                                                                  *)
EXTENDS Consolidation

MCCompanies == {"sg", "my"}
MCHome == {"my"}
MCRates == [sg |-> <<3, 2>>]
NoRates == [c \in {} |-> <<>>]
MCTrade == [t1 |-> [a |-> "sg", b |-> "my", amount |-> 5],
            t2 |-> [a |-> "sg", b |-> "my", amount |-> 2]]
MCTrades == {"t1", "t2"}
OneTrade == {"t1"}
OneTradeData == [t \in OneTrade |-> MCTrade[t]]
=============================================================================
