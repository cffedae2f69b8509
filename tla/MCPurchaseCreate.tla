-------------------------- MODULE MCPurchaseCreate --------------------------
(* One supplier.  Two requests are one purchase sent twice, a third is the *)
(* same for another day; the office edits and closes what it finds.        *)
EXTENDS PurchaseCreate, TLC
CONSTANTS s, rice, oil, k1, k2, r1, r2, r3, e1, c1

Ten == [items |-> {rice}, kg |-> 50, total |-> 10]
Near == [items |-> {rice}, kg |-> 54, total |-> 11]
Other == [items |-> {oil}, kg |-> 50, total |-> 10]
Buy(day, content, key) ==
  [op |-> "create", supplier |-> s, day |-> day, content |-> content, key |-> key,
   forced |-> FALSE, status |-> "confirmed"]
Office(op) == [op |-> op, status |-> "saved"]
MCBody == (r1 :> Buy(1, Ten, k1)) @@ (r2 :> Buy(1, Near, k1)) @@ (r3 :> Buy(2, [Ten EXCEPT !.total = 90], k2))
            @@ (e1 :> Office("edit")) @@ (c1 :> Office("cancel"))
MCEdits == {Other}
=============================================================================
