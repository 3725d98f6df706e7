----------------------------- MODULE MCReports ------------------------------
(* One account of each side of a sheet: a cash sale, shrinkage on credit,    *)
(* capital paid in and a month's depreciation, over two periods that are the *)
(* ends of two years, one of them with a budget.  The expense account for    *)
(* shrinkage is tagged like the inventory, and its posting is out of balance *)
(* by a cent.                                                                *)
EXTENDS Reports

MCAccountType == [bank |-> "asset", payable |-> "liability", capital |-> "equity",
                  revenue |-> "income", accumulated |-> "asset", depreciation |-> "expense",
                  shrinkage |-> "expense"]
MCChart == DOMAIN MCAccountType
MCControlType == [a \in MCChart |-> CASE a = "bank" -> "BANK" [] a = "payable" -> "AP"
                                         [] a = "revenue" -> "SALES_REVENUE"
                                         [] a = "shrinkage" -> "INVENTORY" [] OTHER -> "none"]
MCStarter == [bank |-> "CASH", payable |-> "AP", capital |-> "EQUITY",
              revenue |-> "REVENUE", accumulated |-> "ASSET", depreciation |-> "OPEX",
              shrinkage |-> "COGS"]
Moves(debit, credit, amount) ==
  [a \in MCChart |-> CASE a = debit -> amount [] a = credit -> -amount [] OTHER -> 0]
MCPostings == {Moves("bank", "revenue", 5), [Moves("shrinkage", "payable", 4) EXCEPT !.payable = -3],
               Moves("bank", "capital", 1), Moves("depreciation", "accumulated", 2)}
MCPeriods == 1..2
MCYear == [p \in MCPeriods |-> 2025 + p]
Line(account, amount) == [account |-> account, amount |-> amount]
MCBudgets == {[year |-> 2026, lines |-> <<Line("revenue", -6), Line("depreciation", 1),
                                          Line("depreciation", 2)>>]}
=============================================================================
