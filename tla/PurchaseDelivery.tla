--------------------------- MODULE PurchaseDelivery ---------------------------
(***************************************************************************)
(* The life of a trade purchase from dispatch to stock and back:           *)
(* backend/app/services/trade_purchase_service.py, with the quantities and *)
(* idempotency keys of backend/app/services/stock_inventory.py.            *)
(*                                                                         *)
(* A session serves one request.  Load is its first SELECT, which copies   *)
(* the purchase with its lines into the ORM session; the second step is    *)
(* the rest of the handler up to its commit.  The handler decides on the   *)
(* copy, even when it selects the purchase again behind an advisory lock,  *)
(* and writes back only the columns it changed.  Other sessions run        *)
(* between the two steps.  The stock movements of one request succeed or   *)
(* roll back with it (StockLedger has their steps), so they are part of    *)
(* the second step.                                                        *)
(*                                                                         *)
(* A line is an item with a quantity in the item's stock unit; a purchase  *)
(* has one line per item, ordered 0 stands for no line.                    *)
(***************************************************************************)
EXTENDS Integers, FiniteSets

CONSTANTS
    Purchases, Items, Sessions,
    Ops,            \* the requests a session may get about a purchase
    InitRows,       \* purchases as they are at the start
    EditLines,      \* the lines an edit may leave, [Items -> Nat]
    MaxQty,         \* bound: quantities the staff may enter
    InitStock,      \* an item's stock at the start, without the purchases
    NeedsUnit,      \* items whose stock unit is not set up at the start
    None            \* no received quantity, no request, no answer

AllOps == {"dispatch", "arrive", "verify", "commit", "revert", "cancel",
           "delete", "edit", "pay", "transition"}

\* "paid" stands for paid, partially_paid, overdue and due_soon, which no
\* handler tells apart.
Statuses == {"draft", "saved", "confirmed", "active", "approved", "ordered",
             "supplier_confirmed", "in_transit", "arrived",
             "verification_pending", "verified", "added_to_stock",
             "completed", "paid", "cancelled", "deleted"}

Deliveries == {"pending", "dispatched", "in_transit", "arrived",
               "staff_verifying", "staff_verified", "partial",
               "stock_committed", "cancelled"}

Row == [status : Statuses, delivery : Deliveries, delivered : BOOLEAN,
        ordered : [Items -> Nat], received : [Items -> Nat \cup {None}]]

ASSUME OpsAssumption == Ops \in [Sessions -> [Purchases -> SUBSET AllOps]]
ASSUME ItemsAssumption == IsFiniteSet(Items) /\ NeedsUnit \subseteq Items
ASSUME QtyAssumption ==
    /\ MaxQty \in Nat /\ InitStock \in Nat
    /\ EditLines \subseteq [Items -> Nat]
ASSUME RowsAssumption ==
    /\ InitRows \subseteq Row
    /\ \A r \in InitRows : ~ r.delivered /\ r.delivery # "stock_committed"
ASSUME NoneAssumption == None \notin Nat /\ None \notin AllOps \X Purchases

VARIABLES
    tp,         \* committed TradePurchase rows with their lines
    stock,      \* committed CatalogItem.current_stock
    net,        \* sum of an item's movements whose source is the purchase
    keys,       \* idempotency keys of committed stock movements
    ready,      \* items whose stock unit is set up
    req,        \* the request a session serves, and its copy of the purchase
    answer      \* the last request a session answered with success

vars == <<tp, stock, net, keys, ready, req, answer>>
goods == <<stock, net, keys>>

Request == [op : AllOps, p : Purchases, row : Row,
            applied : BOOLEAN,     \* an apply key was there at the load
            gone : BOOLEAN]        \* an edit has replaced the loaded lines

Init ==
    /\ tp \in [Purchases -> InitRows]
    /\ stock = [i \in Items |-> InitStock]
    /\ net = [p \in Purchases |-> [i \in Items |-> 0]]
    /\ keys = {}
    /\ ready = Items \ NeedsUnit
    /\ req = [s \in Sessions |-> None]
    /\ answer = [s \in Sessions |-> None]

Closed == {"cancelled", "deleted"}

(***************************************************************************)
(* Stock.                                                                  *)
(***************************************************************************)
\* line_qty_for_stock_commit: what a line adds to stock, none while its unit
\* cannot be converted
LineQty(r, i) ==
    IF r.ordered[i] = 0 \/ i \notin ready THEN 0
    ELSE IF r.received[i] = None THEN r.ordered[i] ELSE r.received[i]

Key(kind, p, i, d) == <<kind, p, i, IF kind = "adjust" THEN d ELSE 0>>

\* purchase_delivery_stock_already_applied: it looks at the receipt's keys,
\* which stay when the receipt is reversed
Applied(p) == \E i \in Items : Key("apply", p, i, 0) \in keys

\* Items whose movement is new: not zero, and its key not seen before
Fresh(kind, p, q) == {i \in Items : q[i] # 0 /\ Key(kind, p, i, q[i]) \notin keys}

\* Quantities q of purchase p enter or leave stock, each under its key; one
\* that would make stock negative fails the request.
Move(kind, p, q) ==
    LET new == Fresh(kind, p, q)
        change == [i \in Items |-> IF i \in new THEN q[i] ELSE 0]
    IN  /\ \A i \in Items : stock[i] + change[i] >= 0
        /\ stock' = [i \in Items |-> stock[i] + change[i]]
        /\ net' = [net EXCEPT ![p] = [i \in Items |-> @[i] + change[i]]]
        /\ keys' = keys \cup {Key(kind, p, i, q[i]) : i \in new}

\* Mutant of TakeBack: the ordered quantity is reversed.
TakeBackOrdered(p, r) == Move("revert", p, [i \in Items |-> - r.ordered[i]])

TakeBack(p, r) == Move("revert", p, [i \in Items |-> - LineQty(r, i)])

(***************************************************************************)
(* Requests.                                                               *)
(***************************************************************************)
View(s) == req[s].row
Serves(s, op) == req[s] # None /\ req[s].op = op

\* A deleted purchase is refused as soon as it is loaded.
Load(s, op, p) ==
    /\ req[s] = None
    /\ tp[p].status # "deleted"
    /\ req' = [req EXCEPT ![s] = [op |-> op, p |-> p, row |-> tp[p],
                                  applied |-> Applied(p), gone |-> FALSE]]
    /\ answer' = [answer EXCEPT ![s] = None]
    /\ UNCHANGED <<tp, goods, ready>>

Succeed(s) ==
    /\ req' = [req EXCEPT ![s] = None]
    /\ answer' = [answer EXCEPT ![s] = <<req[s].op, req[s].p>>]

\* The request is refused, answered without a change, fails or is lost: its
\* transaction is rolled back.
Abort(s) ==
    /\ req[s] # None
    /\ req' = [req EXCEPT ![s] = None]
    /\ UNCHANGED <<tp, goods, ready, answer>>

\* A flush updates the columns the handler changed, the others keep what is
\* committed by now.
Column(old, new, now) == IF new = old THEN now ELSE new

\* Mutant of Merged: the handler writes back the whole row.
MergedWhole(old, new, now) == new

Merged(old, new, now) ==
    [now EXCEPT !.status = Column(old.status, new.status, @),
                !.delivery = Column(old.delivery, new.delivery, @),
                !.delivered = Column(old.delivered, new.delivered, @),
                !.received = [i \in Items |->
                                Column(old.received[i], new.received[i], @[i])]]

\* Updating a line that no longer exists fails the flush.
Flushable(s, new) == req[s].gone => new.received = View(s).received

Save(s, new) ==
    /\ Flushable(s, new)
    /\ tp' = [tp EXCEPT ![req[s].p] = Merged(View(s), new, @)]

Dispatch(s) ==
    /\ Serves(s, "dispatch")
    /\ View(s).status \notin Closed
    /\ View(s).delivery = "pending"
    /\ \E d \in {"in_transit", "dispatched"} : Save(s, [View(s) EXCEPT !.delivery = d])
    /\ Succeed(s)
    /\ UNCHANGED <<goods, ready>>

Arrive(s) ==
    /\ Serves(s, "arrive")
    /\ View(s).status \notin Closed
    /\ View(s).delivery \in {"pending", "dispatched", "in_transit"}
    /\ Save(s, [View(s) EXCEPT !.delivery = "arrived"])
    /\ Succeed(s)
    /\ UNCHANGED <<goods, ready>>

Lines(r) == {i \in Items : r.ordered[i] > 0}

\* The staff enters quantities for some of the lines; what it leaves out is
\* neither short nor received.
Entered(r, counted) ==
    LET short == \E i \in DOMAIN counted : counted[i] < r.ordered[i]
    IN  [r EXCEPT !.received = [i \in Items |-> IF i \in DOMAIN counted
                                                THEN counted[i] ELSE @[i]],
                  !.delivery = IF short THEN "partial" ELSE "staff_verified",
                  !.status = IF short THEN "verification_pending" ELSE "verified"]

\* After a full verification the same session goes on with a commit, on its
\* own copy.
Verify(s) ==
    /\ Serves(s, "verify")
    /\ View(s).status \notin Closed
    /\ View(s).delivery \in {"arrived", "staff_verifying"}
    /\ \E counted \in UNION {[D -> 0 .. MaxQty] : D \in SUBSET Lines(View(s))} :
         LET new == Entered(View(s), counted)
         IN  /\ Save(s, new)
             /\ IF new.delivery = "staff_verified"
                THEN /\ req' = [req EXCEPT ![s].op = "commit", ![s].row = new]
                     /\ UNCHANGED answer
                ELSE Succeed(s)
    /\ UNCHANGED <<goods, ready>>

\* What the loaded lines would add
Incoming(s) == [i \in Items |-> LineQty(View(s), i)]

\* Mutant of Committed: is_delivered is not set.
CommittedUndelivered(r) ==
    [r EXCEPT !.delivery = "stock_committed",
              !.status = IF @ = "completed" THEN @ ELSE "added_to_stock"]

Committed(r) ==
    [r EXCEPT !.delivery = "stock_committed", !.delivered = TRUE,
              !.status = IF @ = "completed" THEN @ ELSE "added_to_stock"]

\* commit_trade_purchase_delivery: the check for an earlier receipt and the
\* movements are serialised by an advisory lock.
CommitNew(s, new) ==
    /\ View(s).status \notin Closed
    /\ View(s).delivery \in {"staff_verified", "partial"}
    /\ ~ Applied(req[s].p)
    /\ \E i \in Items : Incoming(s)[i] > 0
    /\ Move("apply", req[s].p, Incoming(s))
    /\ Save(s, new)

\* A purchase that is committed, or whose keys are known, is answered with
\* success as it is.
CommitAgain(s) ==
    /\ View(s).status \notin Closed
    /\ \/ View(s).delivery = "stock_committed"
       \/ View(s).delivery \in {"staff_verified", "partial"} /\ Applied(req[s].p)
    /\ UNCHANGED goods

Commit(s) ==
    /\ Serves(s, "commit")
    /\ \/ CommitNew(s, Committed(View(s)))
       \/ CommitAgain(s) /\ UNCHANGED tp
    /\ Succeed(s)
    /\ UNCHANGED ready

\* PATCH delivery with is_delivered = false; with notes it resets a purchase
\* that is not delivered.
Revert(s) ==
    /\ Serves(s, "revert")
    /\ View(s).status \notin Closed
    /\ \/ View(s).delivered /\ View(s).delivery = "stock_committed"
          /\ TakeBack(req[s].p, View(s))
       \/ ~ View(s).delivered /\ UNCHANGED goods
    /\ Save(s, [View(s) EXCEPT !.delivered = FALSE, !.delivery = "pending"])
    /\ Succeed(s)
    /\ UNCHANGED ready

\* Mutant of WasDelivered: it is asked after the row is reset.
WasDeliveredLate(r) == FALSE

WasDelivered(r) == r.delivered \/ r.delivery = "stock_committed"

CloseAs(s, status) ==
    Save(s, [View(s) EXCEPT !.status = status, !.delivered = FALSE,
                            !.delivery = "cancelled"])

Cancel(s) ==
    /\ Serves(s, "cancel")
    /\ CloseAs(s, "cancelled")
    /\ IF WasDelivered(View(s)) THEN TakeBack(req[s].p, View(s)) ELSE UNCHANGED goods
    /\ Succeed(s)
    /\ UNCHANGED ready

\* The lookup of the keys follows the load of the purchase; what it finds
\* lies between the answers of then and of now.
LookedUp(s) == {req[s].applied, Applied(req[s].p)}

Delete(s) ==
    /\ Serves(s, "delete")
    /\ CloseAs(s, "deleted")
    /\ \E applied \in LookedUp(s) :
         IF WasDelivered(View(s)) \/ applied
         THEN TakeBack(req[s].p, View(s)) ELSE UNCHANGED goods
    /\ Succeed(s)
    /\ UNCHANGED ready

\* What an edit keeps of the received quantities: those of unchanged lines, if
\* the purchase was ever applied
Kept(old, ordered, applied) ==
    [i \in Items |->
       IF ~ applied \/ ordered[i] = 0 THEN None
       ELSE IF ordered[i] # old.ordered[i] THEN ordered[i]
       ELSE IF old.received[i] = 0 THEN None ELSE old.received[i]]

\* Mutant of Editable: a committed purchase may be edited.
EditableCommitted(r) == r.status \notin Closed

Editable(r) == r.status \notin Closed /\ r.delivery # "stock_committed"

\* The edit deletes the committed lines, whoever wrote them, and inserts its
\* own; on a delivered or once applied purchase it moves the difference.
Edit(s) ==
    /\ Serves(s, "edit")
    /\ Editable(View(s))
    /\ \E lines \in EditLines, status \in {"draft", "saved", "confirmed"},
          applied \in LookedUp(s) :
         LET p == req[s].p
             new == [View(s) EXCEPT !.status = status, !.ordered = lines,
                                    !.received = Kept(View(s), lines, applied)]
         IN  /\ tp' = [tp EXCEPT ![p].status = Column(View(s).status, status, @),
                                 ![p].ordered = new.ordered,
                                 ![p].received = new.received]
             /\ IF View(s).delivered \/ applied
                THEN Move("adjust", p, [i \in Items |->
                                          LineQty(new, i) - LineQty(View(s), i)])
                ELSE UNCHANGED goods
    /\ req' = [t \in Sessions |->
                 CASE t = s -> None
                   [] t # s /\ req[t] # None /\ req[t].p = req[s].p ->
                        [req[t] EXCEPT !.gone = TRUE]
                   [] OTHER -> req[t]]
    /\ answer' = [answer EXCEPT ![s] = <<"edit", req[s].p>>]
    /\ UNCHANGED ready

\* compute_status for a payment, whatever was paid and is due
PaidStatuses(status) ==
    {"paid", IF status \in {"saved", "confirmed", "paid"} THEN status ELSE "confirmed"}

Pay(s) ==
    /\ Serves(s, "pay")
    /\ View(s).status \notin Closed \cup {"draft"}
    /\ \E status \in PaidStatuses(View(s).status) :
         Save(s, [View(s) EXCEPT !.status = status])
    /\ Succeed(s)
    /\ UNCHANGED <<goods, ready>>

(***************************************************************************)
(* POST /lifecycle: the manager moves the status along a table of its own. *)
(***************************************************************************)
Normal(status) ==
    CASE status = "saved" -> "draft"
      [] status = "confirmed" -> "active"
      [] OTHER -> status

Allowed(status) ==
    CASE status = "draft" -> {"active", "approved", "cancelled"}
      [] status = "active" -> {"approved", "ordered", "cancelled"}
      [] status = "approved" -> {"ordered", "cancelled"}
      [] status = "ordered" -> {"supplier_confirmed", "cancelled"}
      [] status = "supplier_confirmed" -> {"in_transit", "cancelled"}
      [] status = "in_transit" -> {"arrived", "cancelled"}
      [] status = "arrived" -> {"verification_pending", "verified", "cancelled"}
      [] status = "verification_pending" -> {"verified", "cancelled"}
      [] status = "verified" -> {"added_to_stock", "cancelled"}
      [] status = "added_to_stock" -> {"completed", "cancelled"}
      [] OTHER -> {}

DeliveryFor(target, delivery) ==
    CASE target \in {"in_transit", "arrived"} -> target
      [] target = "verification_pending" -> "staff_verifying"
      [] target = "verified" -> "staff_verified"
      [] OTHER -> delivery

MoveOn(s, target) ==
    /\ Save(s, [View(s) EXCEPT !.status = target,
                               !.delivery = DeliveryFor(target, @)])
    /\ UNCHANGED goods

\* added_to_stock runs the commit, then sets the status whatever it answered.
AddToStock(s) ==
    \/ CommitNew(s, Committed(View(s)))
    \/ CommitAgain(s) /\ Save(s, [View(s) EXCEPT !.status = "added_to_stock"])

Transition(s) ==
    /\ Serves(s, "transition")
    /\ \E target \in Allowed(Normal(View(s).status)) :
         IF target = "added_to_stock" THEN AddToStock(s) ELSE MoveOn(s, target)
    /\ Succeed(s)
    /\ UNCHANGED ready

(***************************************************************************)
(* Others.                                                                 *)
(***************************************************************************)
\* Another movement takes one unit of the item out of stock.
Sell(i) ==
    /\ stock[i] > 0
    /\ stock' = [stock EXCEPT ![i] = @ - 1]
    /\ UNCHANGED <<tp, net, keys, ready, req, answer>>

\* The owner sets up the item's stock unit.
SetUnit(i) ==
    /\ i \notin ready
    /\ ready' = ready \cup {i}
    /\ UNCHANGED <<tp, goods, req, answer>>

Finish(s) ==
    \/ Dispatch(s) \/ Arrive(s) \/ Verify(s) \/ Commit(s) \/ Revert(s)
    \/ Cancel(s) \/ Delete(s) \/ Edit(s) \/ Pay(s) \/ Transition(s)

Next ==
    \/ \E s \in Sessions : Finish(s) \/ Abort(s)
    \/ \E s \in Sessions, p \in Purchases : \E op \in Ops[s][p] : Load(s, op, p)
    \/ \E i \in Items : Sell(i) \/ SetUnit(i)

Spec == Init /\ [][Next]_vars

(***************************************************************************)
(* Properties.                                                             *)
(***************************************************************************)
\* The rows, stock, requests and answers have the types the code declares.
TypeOK ==
    /\ tp \in [Purchases -> Row]
    /\ stock \in [Items -> Nat]
    /\ net \in [Purchases -> [Items -> Int]]
    /\ ready \subseteq Items
    /\ req \in [Sessions -> Request \cup {None}]
    /\ answer \in [Sessions -> (AllOps \X Purchases) \cup {None}]

\* The stock movements of a purchase add up to what its rows say: to its lines
\* while it is delivered, to nothing otherwise.  Receipt, reversal and edit
\* compute their quantities apart, at different times.
NetMatches ==
    \A p \in Purchases, i \in Items :
        net[p][i] = IF tp[p].delivered THEN LineQty(tp[p], i) ELSE 0

\* A reversal takes no more out of stock than the receipt has put in.
NeverOverdrawn == \A p \in Purchases, i \in Items : net[p][i] >= 0

\* A purchase about which a single session gets requests, one after another
Alone(p) == \A s, t \in Sessions : Ops[s][p] # {} /\ Ops[t][p] # {} => s = t

\* While a purchase's requests are served one after another, one that a cancel
\* or delete request has closed, which puts its delivery to cancelled, has no
\* goods in stock, whatever was received, counted short, edited, taken back,
\* paid or moved along the lifecycle before.  The lifecycle's own move of a
\* received purchase to cancelled is no such request: it leaves delivery and
\* goods as they are.
NoStockWhenClosedAlone ==
    \A p \in Purchases :
        Alone(p) /\ (tp[p].status = "deleted" \/ tp[p].delivery = "cancelled")
            => \A i \in Items : net[p][i] = 0

\* And it is delivered exactly in delivery status stock_committed, the only
\* one from which the delivery can be taken back.
DeliveredCommittedAlone ==
    \A p \in Purchases :
        Alone(p) => (tp[p].delivered <=> tp[p].delivery = "stock_committed")

\* A commit answered with success leaves the purchase in stock.
CommitAnswersTrue ==
    [][\A s \in Sessions, p \in Purchases :
         answer'[s] = <<"commit", p>> /\ answer[s] = None
            => tp'[p].delivered /\ \E i \in Items : net'[p][i] > 0]_vars

\* The goods of a purchase come in at most once and go out whole.
stage == [p \in Purchases |-> CASE ~ Applied(p) -> "awaited"
                                [] Applied(p) /\ tp[p].delivered -> "received"
                                [] OTHER -> "returned"]
R == INSTANCE Receipt WITH stage <- stage, inStock <- net
ReceivedOnce == R!Spec

\* Whatever the office edits and moves along the lifecycle meanwhile, rows and
\* stock agree, goods come in once, and a commit answered with success has
\* brought them in.
EditedMatches == []NetMatches /\ CommitAnswersTrue /\ ReceivedOnce

-----------------------------------------------------------------------------
(***************************************************************************)
(* The inductive invariant of PurchaseDeliveryProofs, for items whose unit *)
(* is set up and requests that do not edit lines; the staff counts them    *)
(* while nobody else works on the purchase.                                *)
(***************************************************************************)
CopyOps == {"dispatch", "arrive", "commit", "revert", "cancel", "pay"}

LinesHeld ==
    /\ \A s \in Sessions, p \in Purchases :
         Ops[s][p] \subseteq IF Alone(p) THEN CopyOps \cup {"verify"} ELSE CopyOps
    /\ NeedsUnit = {}

Reverted(p) == \E i \in Items : Key("revert", p, i, 0) \in keys

\* A loaded copy has the lines of the row, and is the row while nobody else
\* works on the purchase.
LinesInv ==
    /\ ready = Items
    /\ \A s \in Sessions : req[s] # None =>
         LET p == req[s].p
         IN  /\ Ops[s][p] # {}
             /\ req[s].op \in IF Alone(p) THEN CopyOps \cup {"verify"} ELSE CopyOps
             /\ View(s).ordered = tp[p].ordered
             /\ View(s).received = tp[p].received
             /\ Alone(p) => View(s) = tp[p]

\* Receipt and reversal are whole: their keys are there for every line that
\* adds something, or for none; a purchase that was returned may be counted
\* again, by a session alone.
WholeInv ==
    \A p \in Purchases :
        /\ Reverted(p) => Applied(p)
        /\ ~ (Reverted(p) /\ Alone(p)) => \A i \in Items :
             /\ Key("apply", p, i, 0) \in keys <=> Applied(p) /\ LineQty(tp[p], i) > 0
             /\ Key("revert", p, i, 0) \in keys <=> Reverted(p) /\ LineQty(tp[p], i) > 0
        /\ \A i \in Items :
             net[p][i] = IF Applied(p) /\ ~ Reverted(p) THEN LineQty(tp[p], i) ELSE 0

\* The row knows what the keys say.
RowInv ==
    \A p \in Purchases :
        /\ tp[p].delivered <=> Applied(p) /\ ~ Reverted(p)
        /\ tp[p].delivery = "stock_committed" => tp[p].delivered
        /\ Alone(p) /\ tp[p].delivered => tp[p].delivery = "stock_committed"
        /\ Alone(p) /\ tp[p].status \in Closed => ~ tp[p].delivered

\* A copy that is delivered was loaded after the receipt, and one that was
\* already out of stock_committed leaves no way back to it.
ViewInv ==
    \A s \in Sessions : req[s] # None =>
        /\ View(s).delivered => Applied(req[s].p)
        /\ View(s).delivery = "stock_committed" => View(s).delivered
        /\ View(s).delivered /\ View(s).delivery # "stock_committed"
             => tp[req[s].p].delivery # "stock_committed"

ReceiptInv == TypeOK /\ LinesInv /\ WholeInv /\ RowInv /\ ViewInv

-----------------------------------------------------------------------------
(***************************************************************************)
(* The inductive invariant of PurchaseDeliveryProofs for a purchase that   *)
(* is edited on its way to the stock, by one request at a time: nobody     *)
(* reverts it, and it is paid or moved along the lifecycle, not both.      *)
(* Units may be missing if a purchase has one line only.                   *)
(***************************************************************************)
OneByOne ==
    /\ \A p \in Purchases : Alone(p)
    /\ \A s \in Sessions, p \in Purchases :
         "revert" \notin Ops[s][p] /\ ~ {"pay", "transition"} \subseteq Ops[s][p]
    /\ NeedsUnit = {} \/ \E i \in Items : Items = {i}

\* A request at work has the row as it is.
TurnInv ==
    \A s \in Sessions : req[s] # None =>
      LET p == req[s].p
      IN  /\ Ops[s][p] # {} /\ req[s].op \in Ops[s][p] \cup {"commit"}
          /\ View(s) = tp[p] /\ req[s].applied = Applied(p)

\* Keys, sums and the row say the same; what has come in is in a delivery
\* status, and a status, from which no edit starts.
OnceInv(p) ==
    /\ Reverted(p) => Applied(p) /\ tp[p].status \in Closed
    /\ tp[p].delivered <=> Applied(p) /\ ~ Reverted(p)
    /\ tp[p].delivered <=> tp[p].delivery = "stock_committed"
    /\ tp[p].delivered /\ (\E s \in Sessions : "transition" \in Ops[s][p])
         => tp[p].status \in {"added_to_stock", "completed", "cancelled"}
    /\ Applied(p) => ready = Items
    /\ \A i \in Items :
         /\ Key("apply", p, i, 0) \in keys <=> Applied(p) /\ LineQty(tp[p], i) > 0
         /\ Key("revert", p, i, 0) \in keys <=> Reverted(p) /\ LineQty(tp[p], i) > 0
         /\ net[p][i] = IF tp[p].delivered THEN LineQty(tp[p], i) ELSE 0

EditedInv ==
    /\ TypeOK /\ TurnInv /\ (NeedsUnit = {} => ready = Items)
    /\ \A p \in Purchases : OnceInv(p)
===============================================================================
