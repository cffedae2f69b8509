---------------------------- MODULE MCStockLedger ----------------------------
(***************************************************************************)
(* Small instances of StockLedger.  The jobs are the requests of the       *)
(* routers, named after them.                                              *)
(***************************************************************************)
EXTENDS StockLedger

CONSTANTS a, b, k1, k2, k3, k4, k5

MCItems == {a, b}

MCInitStock == [i \in Items |-> IF i = a THEN 0 ELSE 2]

MCKeys == {k1, k2, k3, k4, k5}

Plain(i, mode, qty, key) ==
    [item |-> i, mode |-> mode, qty |-> qty, key |-> key, versioned |-> FALSE,
     tolerance |-> 0, force |-> FALSE, exempt |-> FALSE]

Single(move_, preread) == [moves |-> <<move_>>, preread |-> preread]

\* POST /stock/staff-purchases, with the client's key
QuickPurchase == Single(Plain(a, "delta", 1, k5), FALSE)

\* The same key sent for another item
OtherPurchase == Single(Plain(b, "delta", 1, k5), FALSE)

\* POST /stock/{id}/physical-update: a sale, a verification (two versions of
\* drift allowed, kind physical_count), and one sent with ?force=true
PhysicalSale ==
    Single([Plain(a, "absolute", 0, NoKey) EXCEPT !.versioned = TRUE], FALSE)
PhysicalVerify ==
    Single([Plain(a, "absolute", 3, k2) EXCEPT !.versioned = TRUE, !.tolerance = 2,
                                              !.exempt = TRUE], FALSE)
PhysicalForce ==
    Single([Plain(a, "absolute", 1, NoKey) EXCEPT !.versioned = TRUE, !.force = TRUE], FALSE)

\* Commit of a purchase's receipt, and the reversal of another one received
\* earlier, with lines in the opposite order; the lines' items were loaded
\* with the purchase.  Part of what is reversed may have been sold since.
Receive == [moves |-> <<Plain(a, "delta", 1, k1), Plain(b, "delta", 1, k2)>>,
            preread |-> TRUE]
Revert == [moves |-> <<Plain(b, "delta", -2, k3), Plain(a, "delta", -1, k4)>>,
           preread |-> TRUE]

\* PATCH /stock/{id} without a key: it reads the item before it locks it
Patch == Single([Plain(a, "absolute", 1, NoKey) EXCEPT !.versioned = TRUE], TRUE)

\* Requests that lock the item before they first read it
FreshJobs == {QuickPurchase, PhysicalSale, PhysicalVerify, PhysicalForce}

PurchaseJobs == {Receive, Revert, QuickPurchase, OtherPurchase, Patch}

ReceiptJobs == {Receive, QuickPurchase}
=============================================================================
