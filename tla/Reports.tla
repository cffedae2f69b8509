------------------------------- MODULE Reports -------------------------------
(***************************************************************************)
(* What the office reads about its purchases: the lists by state of        *)
(* payment, what is owed, the period reports and their breakdowns, the     *)
(* dashboards with their cache, and the figures a new bill is filled with. *)
(*                                                                         *)
(* All of them are computed from the same rows along different paths: the  *)
(* lists once in SQL and again in Python, the reports with different joins *)
(* and status filters, the debts from the header.  The properties compare  *)
(* them while bills are saved, rewritten, paid, delivered and closed and   *)
(* the catalog changes.  A request is one step.                            *)
(***************************************************************************)
EXTENDS PurchaseMoney, FiniteSets

CONSTANTS
    Bills,          \* identifier -> bill
    Imported,       \* bills of the purchases that were imported before the
                    \*   columns of amounts and weights were there
    Items, Cats, Types, Names,  \* the catalog
    Suppliers, Brokers,
    N,              \* purchases, numbered as they are recorded
    LastDay,        \* bound on the days
    Viewed,         \* periods <<from, to>> the dashboard is read for
    MonthDays,      \* days of a month
    SoonDays,       \* 3 in the code
    Payments,       \* amounts that are paid
    MaxOps          \* bound on the requests

\* What the schemas let through: no amount, quantity, rate or weight is negative.
Optional == Nat \cup {None}
BillLine == [item : Items, unit : STRING, named : Optional, qty : Nat, rate : Nat, kgPer : Optional,
             perKg : Optional, discount : Optional, tax : Optional, separate : BOOLEAN,
             freight : Optional, delivered : Optional, sell : Optional]
AnyBill == [supplier : Suppliers \cup {None}, broker : Brokers \cup {None}, days : Optional,
            discount : Optional, freight : Optional, included : BOOLEAN, billty : Optional,
            delivered : Optional, mode : STRING, commission : Optional, lines : Seq(BillLine)]

ASSUME ReportsAssumption ==
    /\ N \in Nat /\ LastDay \in Nat \ {0} /\ MonthDays \in Nat \ {0}
    /\ SoonDays \in Nat /\ MaxOps \in Nat /\ Payments \subseteq Int
    /\ \A b \in DOMAIN Bills : Bills[b] \in AnyBill
    /\ Imported \subseteq DOMAIN Bills /\ Viewed \subseteq (1 .. LastDay) \X (1 .. LastDay)
    /\ Cats # {} /\ IsFiniteSet(Items) /\ IsFiniteSet(Cats) /\ IsFiniteSet(Suppliers) /\ IsFiniteSet(Brokers)
    /\ None \notin Int /\ None \notin Items \cup Cats \cup Suppliers \cup Brokers
    /\ None \notin {"bag", "box", "tin", "litre", "pcs", "kg", "other"}

VARIABLES
    po,         \* number -> the purchase, or None
    items,      \* Items -> [cat, type, live]
    names,      \* Cats -> name of the category
    generation, \* the generation of the read caches
    kept,       \* the latest dashboard that was computed, with its generation
    today,
    ops

reportsVars == <<po, items, names, generation, kept, today, ops>>

BillTotal == [b \in DOMAIN Bills |-> Total(Bills[b])]
BillRows == [b \in DOMAIN Bills |-> Rows(Bills[b], b \in Imported)]

Recorded == {n \in 1 .. N : po[n] # None}
Bill(n) == Bills[po[n].bill]
BillOf(x) == Bill(x[1])
RowOf(x) == BillRows[po[x[1]].bill][x[2]]
ItemOf(x) == RowOf(x).line.item

------------------------------------------------------------------------------
(* The state of payment *)

Remaining(n) == Max({po[n].total - po[n].paid, 0})
Derived(n) ==
    ComputeStatus(Normalized(po[n].status), po[n].total, po[n].paid, po[n].due, today, SoonDays)

\* _trade_list_payment_exprs
IsPaid(n) == po[n].total <= 0 \/ po[n].paid >= po[n].total
Open(n) == po[n].status \notin {"cancelled", "deleted", "draft"} /\ ~ IsPaid(n)
Overdue(n) == Open(n) /\ po[n].due # None /\ po[n].due < today
DueSoon(n) == Open(n) /\ po[n].due # None /\ po[n].due - today \in 0 .. SoonDays
PaymentPending(n) ==
    /\ Open(n) /\ ~ Overdue(n) /\ ~ DueSoon(n)
    /\ po[n].status \in {"confirmed", "saved"} \/ po[n].paid > 0

\* _apply_trade_list_status_sql
Selected(n, list) ==
    CASE list = "draft"     -> po[n].status \in {"draft", "saved"}
      [] list = "due_soon"  -> DueSoon(n)
      [] list = "overdue"   -> Overdue(n)
      [] list = "paid"      -> IsPaid(n)
      [] list = "pending"   -> PaymentPending(n)
      [] list = "delivered" -> po[n].delivered \/ po[n].delivery = "stock_committed"
      [] list = "cancelled" -> po[n].status = "cancelled" \/ po[n].delivery = "cancelled"
      [] OTHER -> po[n].delivery = list

\* list_trade_purchases: the rows are filtered again as they are answered
AnsweredWith(n, list) ==
    CASE list = "draft"   -> Normalized(po[n].status) \in {"draft", "saved"}
      [] list = "pending" -> Derived(n) \in {"confirmed", "saved", "partially_paid"}
      [] list \in {"due_soon", "overdue", "paid"} -> Derived(n) = list
      [] OTHER -> Selected(n, list)
Listed(list) ==
    {n \in Recorded : po[n].status # "deleted" /\ Selected(n, list) /\ AnsweredWith(n, list)}

------------------------------------------------------------------------------
(* The reports: totals of sets of rows <<purchase, line>> *)

Reported(n) == po[n].status \notin {"draft", "cancelled", "deleted"}
InPeriod(from, to) == {n \in Recorded : Reported(n) /\ po[n].day \in from .. to}
Lines(S) == UNION {{<<n, k>> : k \in DOMAIN Bill(n).lines} : n \in S}
Added(f(_), X) == Sum(LAMBDA x : f(RowOf(x)), X)
Figures(X) ==
    [deals |-> Cardinality({x[1] : x \in X}),
     amount |-> Added(Amount, X),
     qty |-> Added(LAMBDA r : r.line.qty, X),
     units |-> [u \in {"bag", "box", "tin"} |-> Added(LAMBDA r : QtyWhen(r, u), X)],
     kg |-> Added(Weight, X)]
Grouped(X, key(_)) == [g \in {key(x) : x \in X} |-> Figures({x \in X : key(x) = g})]

\* The catalog joined to a row: an archived item counts as no item
CatOf(x) == IF items[ItemOf(x)].live THEN items[ItemOf(x)].cat ELSE None
TypeOf(x) ==
    IF CatOf(x) = None THEN <<"Uncategorized", "No type">>
    ELSE <<names[CatOf(x)], First(items[ItemOf(x)].type, "No type")>>
CatName(x) == TypeOf(x)[1]
SupplierOf(x) == BillOf(x).supplier

Summary(from, to, supplier) ==
    Figures({x \in Lines(InPeriod(from, to)) : supplier = None \/ SupplierOf(x) = supplier})
SupplierRows(from, to) == Grouped(Lines(InPeriod(from, to)), SupplierOf)
ItemRows(from, to) == Grouped(Lines(InPeriod(from, to)), ItemOf)
TypeRows(from, to) == Grouped(Lines(InPeriod(from, to)), TypeOf)
CategoryRows(from, to) == Grouped(Lines(InPeriod(from, to)), CatName)
\* item_supplier_broker_rows: the rows that have a supplier
Mapping(from, to) ==
    Grouped({x \in Lines(InPeriod(from, to)) : SupplierOf(x) # None},
            LAMBDA x : <<ItemOf(x), SupplierOf(x), BillOf(x).broker>>)
\* item-categories/{id}/trade-summary: confirmed purchases only, any item
CategoryTrade(c) ==
    LET X == {x \in Lines({n \in Recorded : po[n].status = "confirmed"}) : items[ItemOf(x)].cat = c}
    IN  [amount |-> Added(LAMBDA r : Given(r.total), X), kg |-> Added(LAMBDA r : Given(r.weight), X)]
\* reports/item/{id}, before the count it cannot read
ItemReport(i, from, to) ==
    LET X == {x \in Lines(InPeriod(from, to)) : ItemOf(x) = i}
        figures == Figures(X)
    IN  [amount |-> figures.amount, deals |-> figures.deals,
         kg |-> Added(LAMBDA r : Given(r.weight), X)]

\* period-comparison: the same number of days before
Comparison(from, to) ==
    LET span == to - from + 1
        end == from - 1
    IN  [current |-> Summary(from, to, None), prior |-> Summary(end - (span - 1), end, None),
         from |-> end - (span - 1)]

------------------------------------------------------------------------------
(* Profits *)

ProfitOf(X) == Added(RowProfit, X)
DailyProfit(from, to) ==
    [d \in {po[n].day : n \in InPeriod(from, to)} |->
        ProfitOf({x \in Lines(InPeriod(from, to)) : po[x[1]].day = d})]
SnapshotProfit(from, to) ==
    Added(Selling, Lines(InPeriod(from, to))) - Added(Amount, Lines(InPeriod(from, to)))
ItemProfit(i, from, to) == ProfitOf({x \in Lines(InPeriod(from, to)) : ItemOf(x) = i})
\* An insight into a category counts its archived items
CategoryProfitOfLive(c, from, to) ==
    ProfitOf({x \in Lines(InPeriod(from, to)) : items[ItemOf(x)].cat = c /\ items[ItemOf(x)].live})
CategoryProfit(c, from, to) ==
    ProfitOf({x \in Lines(InPeriod(from, to)) : items[ItemOf(x)].cat = c})
\* aggregate_landing_selling_profit, of the lines of a bill as they came
Margin(n) ==
    LET sold == LineSum(LAMBDA l : l.qty * Given(l.sell), Bill(n))
    IN  IF sold <= 0 THEN None ELSE sold - LineSum(LAMBDA l : Money(l) + Charges(l), Bill(n))
BrokerMetrics(b, from, to) ==
    LET S == {n \in InPeriod(from, to) : Bill(n).broker = b}
    IN  [deals |-> Cardinality(S), profit |-> ProfitOf(Lines(S))]

------------------------------------------------------------------------------
(* Debts and deliveries *)

\* suppliers/{id}/ledger
Ledger(s) ==
    LET S == {n \in Recorded : Reported(n) /\ Bill(n).supplier = s}
    IN  [rows |-> [n \in S |-> po[n].total - po[n].paid],
         amount |-> Sum(LAMBDA n : po[n].total, S),
         paid |-> Sum(LAMBDA n : po[n].paid, S)]
Balance(s) == Ledger(s).amount - Ledger(s).paid

\* get_trade_purchase_delivery_pipeline
Deliveries == {"pending", "dispatched", "in_transit", "arrived", "staff_verifying", "staff_verified",
               "partial", "stock_committed", "cancelled"}
Pipeline ==
    [count |-> [d \in Deliveries |->
        Cardinality({n \in Recorded : po[n].status # "deleted" /\ po[n].delivery = d})],
     amount |-> Sum(LAMBDA n : po[n].total,
        {n \in Recorded : /\ po[n].status \notin {"deleted", "cancelled"}
                          /\ po[n].delivery \notin {"stock_committed", "cancelled"}})]

Undelivered == {n \in Recorded : ~ po[n].delivered /\ po[n].status \notin {"deleted", "cancelled"}}
ReceivedIn(from, to) == {n \in InPeriod(from, to) : po[n].delivered}

\* _compute_trade_dashboard_snapshot_payload
Snapshot(from, to) ==
    LET X == Lines(InPeriod(from, to))
    IN  [figures |-> Summary(from, to, None),
         profit |-> SnapshotProfit(from, to),
         pending |-> Cardinality(Undelivered),
         received |-> Cardinality(ReceivedIn(from, to)),
         suppliers |-> {SupplierOf(x) : x \in X} \ {None},
         cats |-> Grouped(X, CatOf),
         pipeline |-> Pipeline,
         names |-> names]

\* A kept dashboard is served for a while, if it is of this generation of the
\* caches; an answer that takes too long is the one kept last, or empty, and marked
Hit(from, to) == kept # None /\ kept.gen = generation /\ kept.period = <<from, to>>
Served(from, to, old, slow) ==
    CASE Hit(from, to) /\ ~ old -> [degraded |-> FALSE, body |-> kept.body]
      [] (~ Hit(from, to) \/ old) /\ slow ->
            [degraded |-> TRUE, body |-> IF Hit(from, to) THEN kept.body ELSE None]
      [] OTHER -> [degraded |-> FALSE, body |-> Snapshot(from, to)]

\* _compute_month_dashboard_payload
Month(m) ==
    LET from == (m - 1) * MonthDays + 1
        to == m * MonthDays
        amount == Summary(from, to, None).amount
        paid == Sum(LAMBDA n : po[n].paid, InPeriod(from, to))
    IN  [amount |-> amount, paid |-> paid, pending |-> Max({0, amount - paid}),
         profit |-> ProfitOf(Lines(InPeriod(from, to))),
         top |-> ItemRows(from, to)]

------------------------------------------------------------------------------
(* What a new bill is filled with *)

SettledStatuses == {"saved", "confirmed", "paid", "partially_paid", "overdue", "due_soon"}
Newer(n, m) == po[n].day > po[m].day \/ (po[n].day = po[m].day /\ n >= m)
Newest(S) == IF S = {} THEN None ELSE CHOOSE n \in S : \A m \in S : Newer(n, m)
WithItem(S, i) == {n \in S : \E k \in DOMAIN Bill(n).lines : Bill(n).lines[k].item = i}

\* last_purchase_defaults: supplier, broker and item; supplier and item; item
LastDefaults(i, s, b) ==
    LET all == WithItem({n \in Recorded : po[n].status \in SettledStatuses}, i)
        ofSupplier == {n \in all : Bill(n).supplier = s}
        ofBoth == {n \in ofSupplier : Bill(n).broker = b}
    IN  IF s # None /\ b # None /\ ofBoth # {} THEN Newest(ofBoth)
        ELSE IF s # None /\ ofSupplier # {} THEN Newest(ofSupplier)
        ELSE Newest(all)
\* latest_supplier_trade_header_defaults
HeaderDefaults(s) == Newest({n \in Recorded : po[n].status \in SettledStatuses /\ Bill(n).supplier = s})
\* trade-supplier-prices: the purchase a supplier's price is read from, any of
\* those of the newest day
PriceFrom(i, s) ==
    LET S == WithItem({n \in Recorded : Reported(n) /\ Bill(n).supplier = s}, i)
    IN  {n \in S : \A m \in S : po[m].day <= po[n].day}

------------------------------------------------------------------------------
(* Requests *)

RenewNot == generation' = generation
Renew == generation' = generation + 1
Request == ops < MaxOps /\ ops' = ops + 1
Purchase(b, st, day) ==
    [status |-> st, delivered |-> FALSE, delivery |-> "pending", bill |-> b, touched |-> FALSE,
     total |-> BillTotal[b], paid |-> 0, due |-> DueAfter(day, Bills[b].days), day |-> day]
CanSave(b, st, day) ==
    /\ Valid(Bills[b]) /\ b \notin Imported
    /\ day <= today
    /\ st = "confirmed" => Bills[b].supplier # None

\* create_trade_purchase
Save(n, b, st, day) ==
    /\ Request /\ n \notin Recorded /\ \A m \in 1 .. (n - 1) : m \in Recorded
    /\ CanSave(b, st, day)
    /\ po' = [po EXCEPT ![n] = Purchase(b, st, day)]
    /\ Renew
    /\ UNCHANGED <<items, names, kept, today>>

\* update_trade_purchase: everything is written again, what was paid is kept
\* up to the new total
PaidKept(n, b) == po[n].paid
PaidAfter(n, b) == Min({po[n].paid, BillTotal[b]})
Update(n, b, st, day) ==
    /\ Request /\ n \in Recorded
    /\ CanSave(b, st, day)
    /\ po[n].status \notin {"deleted", "cancelled"} /\ po[n].delivery # "stock_committed"
    /\ po' = [po EXCEPT ![n] = [Purchase(b, st, day) EXCEPT !.paid = PaidAfter(n, b),
                                  !.delivery = po[n].delivery, !.delivered = po[n].delivered,
                                  !.touched = po[n].touched]]
    /\ Renew
    /\ UNCHANGED <<items, names, kept, today>>

\* patch_trade_purchase_payment, and mark_trade_purchase_paid that pays all
\* when it is given no amount
Pay(n, x) ==
    /\ Request /\ n \in Recorded /\ po[n].status \notin {"deleted", "cancelled", "draft"}
    /\ LET paid == Min({Max({First(x, po[n].total), 0}), po[n].total})
       IN  po' = [po EXCEPT ![n].paid = paid, ![n].touched = TRUE,
                            ![n].status = ComputeStatus(po[n].status, po[n].total, paid,
                                                        po[n].due, today, SoonDays)]
    /\ Renew
    /\ UNCHANGED <<items, names, kept, today>>

\* _PURCHASE_LIFECYCLE_ALLOWED
Follows == {<<"draft", "active">>, <<"draft", "approved">>, <<"active", "approved">>, <<"active", "ordered">>,
            <<"approved", "ordered">>, <<"ordered", "supplier_confirmed">>,
            <<"supplier_confirmed", "in_transit">>, <<"in_transit", "arrived">>,
            <<"arrived", "verification_pending">>, <<"arrived", "verified">>,
            <<"verification_pending", "verified">>, <<"verified", "added_to_stock">>,
            <<"added_to_stock", "completed">>}
Lifecycle == {f[1] : f \in Follows}
Allowed(st) ==
    {g[2] : g \in {f \in Follows : f[1] = st}} \cup (IF st \in Lifecycle THEN {"cancelled"} ELSE {})
DeliveryAt(n, st) ==
    CASE st = "verification_pending" -> "staff_verifying"
      [] st = "verified" -> "staff_verified"
      [] st \in {"in_transit", "arrived"} -> st
      [] OTHER -> po[n].delivery

\* transition_purchase_lifecycle; reaching the stock is CommitStock
Transition(n, st) ==
    /\ Request /\ n \in Recorded
    /\ st \in Allowed(Normalized(po[n].status)) \ {"added_to_stock"}
    /\ po' = [po EXCEPT ![n].status = st, ![n].delivery = DeliveryAt(n, st)]
    /\ Renew
    /\ UNCHANGED <<items, names, kept, today>>

\* What happens to a delivery on its way
Deliver(n, from, delivery, st) ==
    /\ Request /\ n \in Recorded
    /\ po[n].status \notin {"deleted", "cancelled"} /\ po[n].delivery \in from
    /\ po' = [po EXCEPT ![n].delivery = delivery, ![n].status = st]
    /\ Renew
    /\ UNCHANGED <<items, names, kept, today>>

\* dispatch_trade_purchase and arrive_trade_purchase
Dispatch(n) == \E d \in {"dispatched", "in_transit"} : Deliver(n, {"pending"}, d, po[n].status)
Arrive(n) == Deliver(n, {"pending", "dispatched", "in_transit"}, "arrived", po[n].status)
\* verify_trade_purchase_delivery: staff count all of it, or less
Verify(n) ==
    \/ Deliver(n, {"arrived", "staff_verifying"}, "staff_verified", "verified")
    \/ Deliver(n, {"arrived", "staff_verifying"}, "partial", "verification_pending")

\* patch_trade_purchase_delivery: what reached the stock is taken out, or a
\* delivery gets a note; either waits for its truck again
Revert(n) ==
    /\ Request /\ n \in Recorded
    /\ po[n].status \notin {"deleted", "cancelled"}
    /\ po[n].delivered => po[n].delivery = "stock_committed"
    /\ po' = [po EXCEPT ![n].delivery = "pending", ![n].delivered = FALSE]
    /\ Renew
    /\ UNCHANGED <<items, names, kept, today>>

\* commit_trade_purchase_delivery, of what was counted
CommitStock(n) ==
    /\ Request /\ n \in Recorded
    /\ po[n].status \notin {"deleted", "cancelled"} /\ po[n].delivery \in {"staff_verified", "partial"}
    /\ po' = [po EXCEPT ![n].delivery = "stock_committed", ![n].delivered = TRUE,
                        ![n].status = IF po[n].status = "completed" THEN "completed" ELSE "added_to_stock"]
    /\ Renew
    /\ UNCHANGED <<items, names, kept, today>>

\* cancel_trade_purchase and delete_trade_purchase
Closed(n, st) == [po[n] EXCEPT !.status = st, !.delivery = "cancelled", !.delivered = FALSE]
Close(n, st) ==
    /\ Request /\ n \in Recorded /\ po[n].status # "deleted"
    /\ po' = [po EXCEPT ![n] = Closed(n, st)]
    /\ Renew
    /\ UNCHANGED <<items, names, kept, today>>

\* The catalog: an item is archived or moved, which empties the read caches; a
\* category is renamed, which does not
Archive(i) ==
    /\ Request /\ items[i].live
    /\ items' = [items EXCEPT ![i].live = FALSE]
    /\ Renew
    /\ UNCHANGED <<po, names, kept, today>>
Move(i, c, t) ==
    /\ Request /\ items[i].live
    /\ items' = [items EXCEPT ![i].cat = c, ![i].type = t]
    /\ Renew
    /\ UNCHANGED <<po, names, kept, today>>
Rename(c, name) ==
    /\ Request /\ \A d \in Cats \ {c} : names[d] # name
    /\ names' = [names EXCEPT ![c] = name]
    /\ UNCHANGED <<po, items, generation, kept, today>>

\* home-overview and trade-dashboard-snapshot, in time: the answer is kept
View(from, to) ==
    /\ Request /\ ~ Hit(from, to)
    /\ kept' = [gen |-> generation, period |-> <<from, to>>, body |-> Snapshot(from, to)]
    /\ UNCHANGED <<po, items, names, generation, today>>

Day ==
    /\ today < LastDay
    /\ today' = today + 1
    /\ UNCHANGED <<po, items, names, generation, kept, ops>>
------------------------------------------------------------------------------
(* An imported purchase may be there, waiting for its truck or in the stock *)
ImportedPurchase(b, delivery) ==
    LET in == delivery = "stock_committed"
    IN  [Purchase(b, IF in THEN "added_to_stock" ELSE "confirmed", 1)
            EXCEPT !.delivery = delivery, !.delivered = in]
ReportsInit ==
    /\ po \in {[n \in 1 .. N |-> IF n = 1 THEN first ELSE None] :
               first \in {None} \cup {ImportedPurchase(b, d) :
                                      b \in Imported, d \in {"pending", "stock_committed"}}}
    /\ items = [i \in Items |-> [cat |-> CHOOSE c \in Cats : TRUE, type |-> None, live |-> TRUE]]
    /\ names = CHOOSE f \in [Cats -> Names] : \A c, d \in Cats : f[c] = f[d] => c = d
    /\ generation = 0 /\ kept = None /\ today = 1 /\ ops = 0

ReportsNext ==
    \/ \E n \in 1 .. N :
          \/ \E b \in DOMAIN Bills, st \in {"draft", "saved", "confirmed"}, day \in 1 .. LastDay :
                Save(n, b, st, day) \/ Update(n, b, st, day)
          \/ \E x \in Payments \cup {None} : Pay(n, x)
          \/ \E f \in Follows : Transition(n, f[2])
          \/ Transition(n, "cancelled")
          \/ Dispatch(n) \/ Arrive(n) \/ Verify(n) \/ CommitStock(n) \/ Revert(n)
          \/ \E st \in {"cancelled", "deleted"} : Close(n, st)
    \/ \E i \in Items : Archive(i) \/ \E c \in Cats, t \in Types : Move(i, c, t)
    \/ \E c \in Cats, name \in Names : Rename(c, name)
    \/ \E p \in Viewed : View(p[1], p[2])
    \/ Day

ReportsSpec == ReportsInit /\ [][ReportsNext]_reportsVars

------------------------------------------------------------------------------
(* Properties *)

Periods == {p \in (1 .. LastDay) \X (1 .. LastDay) : p[1] <= p[2]}
Everything(p) == Lines(InPeriod(p[1], p[2]))
ChargedOn(X) == Added(LAMBDA r : Charges(r.line), X)
AmountOf(rows) == Sum(LAMBDA g : rows[g].amount, DOMAIN rows)
AddUp(rows, all) ==
    LET pairs == {<<g, rows[g]>> : g \in DOMAIN rows}
    IN  /\ Sum(LAMBDA r : r[2].amount, pairs) = all.amount
        /\ Sum(LAMBDA r : r[2].kg, pairs) = all.kg
        /\ Sum(LAMBDA r : r[2].units["bag"], pairs) = all.units["bag"]

\* The breakdowns of a period by supplier, item, type and category, its two
\* halves of a comparison, its days and the item reports add up to its summary,
\* whatever was archived, moved or renamed since, and while every bill is
\* confirmed so do the categories' own pages; a row weighs and counts in SQL what
\* it does in Python.  Imported rows in bg count as bags in Python only.
FiguresAgree ==
    /\ \A p \in Viewed :
          LET all == Summary(p[1], p[2], None)
          IN  /\ AddUp(SupplierRows(p[1], p[2]), all) /\ AddUp(ItemRows(p[1], p[2]), all)
              /\ AddUp(TypeRows(p[1], p[2]), all) /\ AddUp(CategoryRows(p[1], p[2]), all)
              /\ AmountOf(Mapping(p[1], p[2])) =
                    Sum(LAMBDA s : Summary(p[1], p[2], s).amount, Suppliers)
              /\ Sum(LAMBDA i : ItemReport(i, p[1], p[2]).amount, Items) = all.amount
    /\ \A p \in Periods :
          LET both == Comparison(p[1], p[2])
          IN  both.current.amount + both.prior.amount = Summary(both.from, p[2], None).amount
    /\ (\A n \in Recorded : po[n].status = "confirmed" /\ po[n].bill \notin Imported) =>
          Sum(LAMBDA c : CategoryTrade(c).amount, Cats) = Summary(1, LastDay, None).amount
    /\ \A m \in 1 .. ((LastDay - 1) \div MonthDays) + 1 :
          LET month == Month(m) IN month.pending <= month.amount
    /\ \A x \in Lines(Recorded) :
          LET r == RowOf(x)
          IN  /\ Amount(r) = MirrorAmount(r) /\ Weight(r) = MirrorWeight(r)
              /\ r.line.unit # "bg" => \A u \in {"bag", "box", "tin"} : QtyWhen(r, u) = MirrorQty(r, u)
              /\ (r.type # None /\ r.type \in {"bag", "kg"}) => Weight(r) = LineKg(r.line)

\* The profit of a period is the same by day, by item, by category and for its
\* month, and differs from the dashboard's by the charges of the lines that have
\* a selling rate; a broker's is that of his purchases, and a purchase's own page
\* shows its part of the dashboard's, less its charges and what its prices lose
\* when boxes and tins are stored without their weights.
Trimmed(n) == LineSum(LAMBDA l : Money(l) - Money(Stripped(l)), Bill(n))
ProfitsAgree ==
    /\ \A n \in Recorded :
          LET X == Lines({n})
          IN  (Margin(n) # None /\ po[n].bill \notin Imported) =>
                Margin(n) = Added(Selling, X) - Added(Amount, X) - ChargedOn(X) - Trimmed(n)
    /\ \A p \in Periods :
          LET X == Everything(p)
              daily == DailyProfit(p[1], p[2])
              profit == Sum(LAMBDA d : daily[d], DOMAIN daily)
              charged == {x \in X : RowOf(x).profit # None}
          IN  /\ Sum(LAMBDA i : ItemProfit(i, p[1], p[2]), Items) = profit
              /\ Sum(LAMBDA c : CategoryProfit(c, p[1], p[2]), Cats) = profit
              /\ SnapshotProfit(p[1], p[2]) = profit + ChargedOn(charged)
              /\ Sum(LAMBDA b : BrokerMetrics(b, p[1], p[2]).profit, Brokers)
                    = ProfitOf({x \in X : BillOf(x).broker # None})

\* A purchase that counts is on one of the payment lists at most, and on one
\* exactly if it is settled, due within days, overdue, partly paid or still
\* confirmed; SQL and Python, which select it one after the other, agree.  A
\* saved bill is a draft to the lists.
PaymentLists == {"due_soon", "overdue", "paid", "pending"}
ListsPartition ==
    \A n \in Recorded :
      LET on == {list \in PaymentLists : n \in Listed(list)}
          asked == \/ Remaining(n) = 0 \/ po[n].paid > 0 \/ po[n].status = "confirmed"
                   \/ po[n].due # None /\ po[n].due - today <= SoonDays
      IN  (Reported(n) /\ po[n].status # "saved" /\ po[n].total > 0) =>
            /\ Cardinality(on) <= 1
            /\ asked => Cardinality(on) = 1
            /\ "paid" \in on <=> Remaining(n) = 0

\* What the suppliers' ledgers say is owed is what remains of the purchases, no
\* balance is negative, and whoever is on a list of unpaid bills is in a ledger.
DebtsAgree ==
    /\ \A s \in Suppliers :
          LET rows == Ledger(s).rows
          IN  /\ Balance(s) = Sum(Remaining, DOMAIN rows)
              /\ \A n \in DOMAIN rows : rows[n] >= 0
    /\ \A n \in Listed("due_soon") \cup Listed("overdue") \cup Listed("pending") :
          Bill(n).supplier # None => Ledger(Bill(n).supplier).rows[n] > 0

\* The delivery pipeline and the dashboard tell undelivered purchases alike,
\* while no payment has put the lifecycle of a delivered one back.
PipelineAgrees ==
    (\A n \in Recorded : ~ po[n].touched) =>
        /\ Pipeline.amount = Sum(LAMBDA n : po[n].total, Undelivered)
        /\ \A n \in Recorded : po[n].delivered => po[n].delivery = "stock_committed"
        /\ Sum(LAMBDA d : Pipeline.count[d], Deliveries)
              = Cardinality({n \in Recorded : po[n].status # "deleted"})

\* A new bill is filled from a purchase that counts, the supplier's own if there
\* is one, and its price is the one the item's page shows for that supplier
\* while all his purchases are in a state of payment.
DefaultsAgree ==
    \A i \in Items, s \in Suppliers, b \in Brokers \cup {None} :
      LET n == LastDefaults(i, s, b)
          his == WithItem({m \in Recorded : Reported(m) /\ Bill(m).supplier = s}, i)
      IN  /\ n # None => Reported(n)
          /\ (\E m \in his : po[m].status \in SettledStatuses) =>
                /\ n # None /\ Bill(n).supplier = s
                /\ Newer(HeaderDefaults(s), n)
          /\ (b = None /\ his # {} /\ \A m \in his : po[m].status \in SettledStatuses) => n \in PriceFrom(i, s)

\* A dashboard that is served and not marked as degraded tells the purchases as
\* they are, up to the names of categories; a degraded one does, or tells nothing.
Figured(body) == [f \in DOMAIN body \ {"names"} |-> body[f]]
OverviewTrue ==
    \A p \in Viewed :
      LET now == Figured(Snapshot(p[1], p[2]))
      IN  \A old, slow \in BOOLEAN :
            LET answer == Served(p[1], p[2], old, slow)
            IN  \/ answer.body = None /\ answer.degraded
                \/ Figured(answer.body) = now

\* All that is computed from the bills of a period says the same of them.
ReportsAgree == FiguresAgree /\ ProfitsAgree /\ PipelineAgrees

\* Who owes is on one list and in one ledger, with the same amount.
DebtsListed == ListsPartition /\ DebtsAgree

\* What is kept or chosen from earlier bills, for the dashboard and for a new
\* bill, is as current as the bills.
KeptTrue == DefaultsAgree /\ OverviewTrue
=============================================================================
