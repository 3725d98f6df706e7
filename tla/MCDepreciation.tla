--------------------------- MODULE MCDepreciation ---------------------------
(* Two assets whose amounts do not divide by their lives, one of them with a *)
(* last month below zero, entered in any order.                              *)
EXTENDS Depreciation

MCAssets == {"van", "phone"}
MCAsset == [van |-> [amount |-> 5, life |-> 2, first |-> 2],
            phone |-> [amount |-> 2, life |-> 4, first |-> 1]]
=============================================================================
