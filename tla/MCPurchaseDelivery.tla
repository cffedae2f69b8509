-------------------------- MODULE MCPurchaseDelivery --------------------------
(***************************************************************************)
(* Small instances of PurchaseDelivery: the requests that meet, and the    *)
(* purchases they meet on.                                                 *)
(***************************************************************************)
EXTENDS PurchaseDelivery

CONSTANTS a, b, tp1

Quantities(x, y) == [i \in Items |-> IF i = a THEN x ELSE y]

\* A confirmed purchase of two a, and of one b where b is an item
Confirmed == [status |-> "confirmed", delivery |-> "pending", delivered |-> FALSE,
              ordered |-> Quantities(2, 1), received |-> [i \in Items |-> None]]

\* The same once it is verified in full or in part
Verified == [Confirmed EXCEPT !.status = "verified", !.delivery = "staff_verified",
                              !.received = Quantities(2, 1)]
Partial == [Confirmed EXCEPT !.status = "verification_pending", !.delivery = "partial",
                             !.received = Quantities(1, 0)]

New == {Confirmed}
ToCommit == {Verified, Partial}

\* Requests of the office and the warehouse, one at a time
OfficeOps == [s \in Sessions |-> [p \in Purchases |->
                {"edit", "transition", "arrive", "verify", "commit", "cancel", "delete"}]]

\* A purchase the manager moves along the lifecycle
Supplied == {[Confirmed EXCEPT !.status = "supplier_confirmed"]}

\* Edits: more of a, less of a, b alone
SomeLines == {Quantities(2, 1), Quantities(1, 1), Quantities(0, 1)}
NoLines == {}
===============================================================================
