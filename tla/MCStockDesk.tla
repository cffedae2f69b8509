---------------------------- MODULE MCStockDesk ----------------------------
(* An item b with two hundred units: a count of 197 is within two percent  *)
(* of them, one of zero needs the owner's approval.                        *)
EXTENDS StockDesk, TLC
CONSTANTS b, boss, hand, s1, s2, a1

OwnerRole == (boss :> "owner") @@ (hand :> "staff")
MCUserOf == (s1 :> hand) @@ (s2 :> boss)
MCOpsOf == (s1 :> {"audit", "undo"}) @@ (s2 :> {"audit", "usage"})
DeskCounts == (b :> {0, 197})
DeskEdit == (b :> {0})
DeskStock == (b :> 200)
=============================================================================
