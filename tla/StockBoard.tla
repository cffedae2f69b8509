----------------------------- MODULE StockBoard -----------------------------
(***************************************************************************)
(* What the stock screens say: the list with its status, truck and         *)
(* variance columns, the counters above it, the low-stock board and the    *)
(* alarms, computed from goods that come and go.                           *)
(*                                                                         *)
(* The same fact is computed in several places, in SQL and in Python, from *)
(* the purchases, from the movements or from the item's own columns; the   *)
(* properties compare them.  A request is one step here: StockLedger and   *)
(* PurchaseDelivery model what overlapping ones do to each other.          *)
(* Quantities are in thousandths of the stock unit (module Units).         *)
(***************************************************************************)
EXTENDS Units, FiniteSets, FiniteSetsExt, SequencesExt

CONSTANTS
    Items,
    Reorder,        \* Items -> CatalogItem.reorder_level
    Labelled,       \* items that have a barcode
    Perishable,     \* items of a perishable category
    EvictDays,      \* CatalogItem.eviction_days, of all items, or None
    Profiles,       \* pairs <<default_unit, default_kg_per_bag>> of items
    FirstProfile,   \* Items -> Profiles
    N,              \* purchases; they are numbered as they are recorded
    Orders,         \* what each may hold: triples of an item, a line and a status
    Handled,        \* the items the desk's requests are about
    Counts,         \* quantities counted, corrected or used
    Managed,        \* purchases whose payments and lifecycle the manager sets
    Disputes,       \* items with an open dispute or a rejected audit line; nothing
                    \*   in the code writes one
    Gaps,           \* how many days may pass at a time
    LastDay,        \* bound on the days
    MaxStock,       \* bound on an item's stock
    MaxOps,         \* bound on payments and lifecycle requests, and on the desk's
                    \*   requests, edits, reverts and scans, which count as two
    TruckDays, DelayDays,       \* 5 and 7 in the code
    Ages,                       \* [week, month, months]: 7, 30 and 60 days
    WindowMin, WindowMax, WindowPages, \* 50, 200 and 5 in the code
    HeaderSize, HeaderPages     \* 200 and 12

LineUnits == {"bag", "box", "tin", "litre", "kg", "piece", "other"}
Lines == [unit : LineUnits, qty : Nat, perUnit : Nat, weight : Nat, snap : Nat,
          received : Nat \cup {None}]
Setups == [unit : {"box", "bag", "kg", "tin", "piece"}, package : {"BOX", "SACK", "LOOSE", "TIN", "PIECE"},
           column : {"box", "bag", "kg", "tin", "piece"}, kgPerBag : Nat, size : Nat,
           sizeInKg : BOOLEAN, nameKg : Nat, boxName : BOOLEAN]
Closed == {"cancelled", "deleted"}
Statuses == Closed \cup
    {"draft", "confirmed", "in_transit", "arrived", "verification_pending", "verified",
     "added_to_stock", "completed", "paid"}
Purchases == [status : Statuses,
              delivery : {"pending", "arrived", "partial", "staff_verified", "stock_committed", "cancelled"},
              delivered : BOOLEAN, applied : BOOLEAN, reopened : BOOLEAN, added : Int,
              item : Items, line : Lines, day : Nat]

ASSUME BoardAssumption ==
    /\ N \in Nat /\ LastDay \in Nat /\ MaxOps \in Nat
    /\ Managed \subseteq 1 .. N
    /\ TruckDays \in Nat /\ DelayDays \in Nat /\ IsFiniteSet(Items)
    /\ {Ages.week, Ages.month, Ages.months} \subseteq Nat
    /\ 0 < Ages.week /\ Ages.week <= Ages.month /\ Ages.month <= Ages.months
    /\ {WindowMin, WindowMax, WindowPages, HeaderSize, HeaderPages} \subseteq Nat \ {0}
    /\ WindowPages >= 2
    /\ Gaps \subseteq Nat /\ Counts \subseteq Nat /\ Handled \subseteq Items
    /\ Reorder \in [Items -> Nat]
    /\ Profiles \subseteq {"box", "bag", "kg", "tin", "piece"} \X Nat
    /\ FirstProfile \in [Items -> Profiles]
    /\ Orders \in [1 .. N -> SUBSET (Items \X Lines \X {"draft", "confirmed"})]
ASSUME NoneAssumption == None \notin Int \cup BOOLEAN \cup Purchases

VARIABLES
    setup,      \* Items -> the unit columns of the item
    stock,      \* Items -> CatalogItem.current_stock
    opening,    \* Items -> opening_stock_qty, None before it is set
    adj,        \* Items -> [hand, received, expected, at]: sums of the adjustment
                \*   logs that are no purchases, and of the deliveries; the
                \*   expected_system_qty the last receipt has left; the day of
                \*   the latest adjustment
    last,       \* Items -> [po, at]: last_trade_purchase_id, last_purchase_at
    count,      \* Items -> difference_qty of the latest physical count
    used,       \* Items -> [day -> DailyUsageLog.used_qty, None if not logged]
    quick,      \* Items -> [day -> sum of StaffPurchaseLog.qty]
    po,         \* number -> the purchase, None if there is none yet.  Status
                \*   "confirmed" also stands for active, approved, ordered and
                \*   supplier_confirmed, "paid" for the other statuses of
                \*   payment; delivery "pending" for dispatched and in_transit,
                \*   "arrived" for staff_verifying, which no screen tells apart.
                \*   applied: it was committed once; added: what it has in
                \*   stock; reopened: the lifecycle has put its delivery back
                \*   while it was delivered (not a column)
    told,       \* notices of today: <<kind, item>>
    today,
    ops

vars == <<setup, stock, opening, adj, last, count, used, quick, po, told, today, ops>>

Days == 0 .. LastDay
Numbers == 1 .. N

Package == [box |-> "BOX", bag |-> "SACK", kg |-> "LOOSE", tin |-> "TIN", piece |-> "PIECE"]
Weight(p) == IF p[1] = "bag" THEN p[2] ELSE 0

\* _apply_canonical_unit_profile, when an item is created; column is stock_unit
Created(p) == [unit |-> p[1], package |-> Package[p[1]], column |-> p[1],
               kgPerBag |-> Weight(p), size |-> Weight(p), sizeInKg |-> p[1] = "bag",
               nameKg |-> 0, boxName |-> FALSE]

\* _sync_stock_fields_from_default_unit: the package follows the owner's unit,
\* the stock_unit of bags becomes kg
Edited(s, p) == [s EXCEPT
    !.unit = p[1], !.kgPerBag = Weight(p),
    !.package = IF p[1] = "piece" THEN @ ELSE Package[p[1]],
    !.column = IF p[1] = "bag" THEN "kg" ELSE IF p[1] = "piece" THEN @ ELSE p[1]]

Init ==
    /\ setup = [i \in Items |-> Created(FirstProfile[i])]
    /\ stock = [i \in Items |-> 0]
    /\ opening = [i \in Items |-> None]
    /\ adj = [i \in Items |-> [hand |-> 0, received |-> 0, expected |-> None, at |-> None]]
    /\ last = [i \in Items |-> [po |-> None, at |-> None]]
    /\ count = [i \in Items |-> None]
    /\ used = [i \in Items |-> [d \in Days |-> None]]
    /\ quick = [i \in Items |-> [d \in Days |-> 0]]
    /\ po = [n \in Numbers |-> None]
    /\ told = {}
    /\ today = 0
    /\ ops = 0

Recorded == {n \in Numbers : po[n] # None}
Live == {n \in Recorded : po[n].status \notin Closed}
Of(i) == {n \in Live : po[n].item = i}

\* A purchase's quantity as ordered and as its receipt would add it
Qty(n) == StockQty(setup[po[n].item], po[n].line)
Receipt(n) == CommitQty(setup[po[n].item], po[n].line)

Ordered(S) == SumFunction([n \in S |-> Qty(n)])
Abs(x) == IF x < 0 THEN - x ELSE x

(***************************************************************************)
(* What is computed for an item.                                           *)
(***************************************************************************)
\* stock_status
Status(i) ==
    CASE stock[i] <= 0 -> "out"
      [] stock[i] > 0 /\ Reorder[i] > 0 /\ 2 * stock[i] <= Reorder[i] -> "critical"
      [] \/ Reorder[i] > 0 /\ 2 * stock[i] > Reorder[i] /\ stock[i] <= Reorder[i]
         \/ Reorder[i] = 0 /\ 0 < stock[i] /\ stock[i] < 1000 -> "low"
      [] OTHER -> "healthy"

\* _stock_status_sql_filter: the rows a status filter leaves
Shown(f, i) ==
    LET half == 2 * stock[i] - Reorder[i]
    IN  CASE f = "all" -> TRUE
          [] f = "out" -> stock[i] <= 0
          [] f = "critical" -> Reorder[i] > 0 /\ stock[i] > 0 /\ half <= 0
          [] f = "low" -> \/ Reorder[i] > 0 /\ half > 0 /\ stock[i] <= Reorder[i]
                          \/ Reorder[i] <= 0 /\ stock[i] > 0 /\ stock[i] < 1000

Shortages == {i \in Items : \E f \in {"out", "critical", "low"} : Shown(f, i)}

\* compute_stock_alerts_summary: the counters above the list
Chips ==
    LET old(i) == last[i].at # None /\ EvictDays # None /\ today - last[i].at > EvictDays
    IN  [total |-> Cardinality(Items),
         out |-> Cardinality({i \in Items : stock[i] <= 0}),
         critical |-> Cardinality({i \in Items : stock[i] > 0 /\ Reorder[i] > 0
                                                 /\ 2 * stock[i] <= Reorder[i]}),
         low |-> Cardinality({i \in Items :
                    \/ stock[i] > 0 /\ Reorder[i] > 0 /\ stock[i] <= Reorder[i]
                       /\ 2 * stock[i] > Reorder[i]
                    \/ stock[i] > 0 /\ Reorder[i] <= 0 /\ stock[i] < 1000}),
         activeOut |-> Cardinality({i \in Items : stock[i] <= 0 /\
                          (last[i].at # None \/ (opening[i] # None /\ opening[i] > 0))}),
         unlabelled |-> Cardinality(Items \ Labelled),
         unlogged |-> Cardinality({i \in Items : used[i][today] = None}),
         eviction |-> Cardinality({i \in Items : i \in Perishable /\ stock[i] > 0 /\ old(i)})]

\* _needs_eviction, a column of the list
NeedsEviction(i) ==
    /\ i \in Perishable
    /\ stock[i] > 0
    /\ EvictDays # None
    /\ EvictDays > 0
    /\ last[i].at # None
    /\ today - last[i].at > EvictDays

\* _last_trade_meta_map: whether the last purchase is in stock, None if it is
\* cancelled or was never there
LastDelivered(i) ==
    IF last[i].po \in Live THEN po[last[i].po].delivery = "stock_committed" ELSE None

\* Mutant of Open: a purchase is open until it is closed.
OpenTillClosed(i) == Of(i)

\* _pending_order_meta_map: the purchases of the item that are still to come
Open(i) == {n \in Of(i) : po[n].delivery \notin {"stock_committed", "cancelled"}}

Pending(i) == Ordered(Open(i))

PendingDays(i) ==
    IF Open(i) = {} THEN 0 ELSE Max({today - po[n].day : n \in Open(i)})

\* _lifetime_purchase_qty_maps: the same from is_delivered, on the item's page
PendingLifetime(i) == Ordered({n \in Of(i) : ~ po[n].delivered})

\* movement_delivered_qty_map: by the movements or by the committed purchases,
\* whichever is more
DeliveredTotal(i) ==
    LET committed == {n \in Of(i) : po[n].delivery = "stock_committed"}
    IN  Max({adj[i].received, MapThenSumSet(Receipt, committed)})

\* _classify_delivery_indicator
Truck(i) ==
    LET fresh == last[i].at = None \/ today - last[i].at <= TruckDays
    IN  CASE Open(i) # {} -> "pending"
          [] Open(i) = {} /\ LastDelivered(i) = TRUE /\ fresh -> "delivered"
          [] Open(i) = {} /\ LastDelivered(i) = FALSE -> "pending"
          [] OTHER -> "none"

Sums(f, from) == SumFunctionOnSet(f, {d \in from .. today : f[d] \notin {None, 0}})
Received == {"stock_committed", "partial", "staff_verified"}

\* _period_purchased_map: what came since a day, as ordered, and what the
\* staff bought
Purchased(i, from) ==
    Ordered({n \in Of(i) : po[n].day >= from /\ po[n].delivery \in Received})
    + Sums(quick[i], from)

\* _catalog_item_ids_purchased_in_period: the list's filter "purchased"
PurchasedItems(from) ==
    {i \in Items : \/ \E n \in Of(i) : po[n].day >= from /\ po[n].delivery \in Received
                   \/ Sums(quick[i], from) > 0}

\* Mutant of Variance: usage, which has its adjustment, is not left out twice
\* but added back.
VarianceAdded(i) ==
    LET bought == Purchased(i, 0)
        gone == Sums(used[i], 0)
    IN  IF bought = 0 /\ gone = 0 /\ adj[i].hand = 0 THEN None
        ELSE stock[i] - (bought + gone + adj[i].hand)

\* _ledger_variance_map: stock less purchases, plus usage, less adjustments
\* by hand, among which are those of usage
Variance(i) ==
    LET bought == Purchased(i, 0)
        gone == Sums(used[i], 0)
    IN  IF bought = 0 /\ gone = 0 /\ adj[i].hand = 0 THEN None
        ELSE stock[i] - (bought - gone + adj[i].hand)

\* needs_verification: the variance, or else what is left of the purchases,
\* is off by more than a tenth of them
NeedsCheck(i, from) ==
    LET bought == Purchased(i, from)
        off == IF Variance(i) # None THEN Variance(i) ELSE stock[i] - bought
    IN  bought > 0 /\ 10 * Abs(off) > bought

\* _list_stock_page: a row of the list
Row(i, from) ==
    [status |-> Status(i),
     purchased |-> Purchased(i, from),
     used |-> Sums(used[i], from),
     variance |-> Variance(i),
     check |-> NeedsCheck(i, from),
     pending |-> Pending(i),
     pendingDays |-> PendingDays(i),
     delivered |-> DeliveredTotal(i),
     eviction |-> NeedsEviction(i),
     difference |-> count[i]]

\* get_stock_item: the page of an item
Detail(i, from) ==
    [Row(i, from) EXCEPT !.pending = IF PendingLifetime(i) > 0
                                     THEN PendingLifetime(i) ELSE @]

\* compute_low_stock_priority
OutOfStock(i) == Status(i) = "out" \/ stock[i] <= 0
Delayed(i) == Open(i) # {} /\ PendingDays(i) >= DelayDays
Mismatch(i) == count[i] # None /\ Abs(count[i]) > 1

\* The score in thousandths, without the share of usage
Score(i, check) ==
    LET gap == Max({0, Reorder[i] - stock[i]})
        diff == IF count[i] = None THEN 0 ELSE Min({2000, Abs(count[i])})
    IN  (IF OutOfStock(i) THEN 100000 ELSE 0)
        + (IF Reorder[i] > 0 THEN (35000 * gap) \div Max({1000, Reorder[i]}) ELSE 0)
        + (45000 * Min({14, PendingDays(i)})) \div 14
        + 15 * diff
        + (IF check THEN 28000 ELSE 0)

Band(i, check) ==
    IF OutOfStock(i) \/ Mismatch(i) \/ (Delayed(i) /\ PendingDays(i) >= 14) THEN "critical"
    ELSE IF Delayed(i) \/ check THEN "high" ELSE "normal"

\* _compute_delivery_indicator_counts: the trucks of all the rows a filter
\* leaves; part of the shell bundle, with a page, the counters and the log
TruckCounts(f) ==
    [kind \in {"pending", "delivered"} |->
        Cardinality({i \in Items : Shown(f, i) /\ Truck(i) = kind})]

\* warehouse_alerts_from_stock: the owner's home page
WarehouseAlerts ==
    [deliveries |-> Cardinality({n \in Live : ~ po[n].delivered}),
     low |-> Chips.low, critical |-> Chips.critical, eviction |-> Chips.eviction,
     unlogged |-> Chips.unlogged]

\* _opening_setup_summary and missing_opening_stock
OpeningSetup ==
    [pending |-> Cardinality({i \in Items : opening[i] = None}),
     completed |-> Cardinality({i \in Items : opening[i] # None})]

\* _query_opening_setup_items: the rows of both kinds, here in Python
SetupRows(kind, f) ==
    {i \in Items : /\ kind = "all" \/ (kind = "pending" <=> opening[i] = None)
                   /\ f = "all" \/ Status(i) = f}

\* usage_today: the items in stock whose usage nobody has logged
UsageMissing == {i \in Items : stock[i] > 0 /\ used[i][today] = None}

\* usage_summary counts logs, of items that are out of stock too
SummaryMissing ==
    Max({0, Cardinality({i \in Items : stock[i] > 0})
            - Cardinality({i \in Items : used[i][today] # None})})

StockOf(S) == SumFunctionOnSet(stock, {i \in S : stock[i] > 0})

\* compute_inventory_summary: by the column stock_unit
Inventory ==
    [u \in {"bag", "box", "tin", "kg"} |->
        StockOf({i \in Items : \/ setup[i].column = u
                              \/ (u = "kg" /\ setup[i].column \notin {"bag", "box", "tin"})})]

\* stock_totals: by default_unit, bags in kg too
Totals ==
    [u \in {"bag", "box", "tin", "kg"} |->
        StockOf({i \in Items : setup[i].unit = u})
        + IF u = "kg" THEN MapThenSumSet(LAMBDA i : (stock[i] * setup[i].kgPerBag) \div 1000,
                                         {i \in Items : setup[i].unit = "bag"})
          ELSE 0]

\* _idle_days_for_item, 999 if the item has never moved
UsedLately(i) == Sums(used[i], Max({0, today - Ages.week}))
Idle(i) ==
    LET moved == {adj[i].at, last[i].at} \ {None}
    IN  IF UsedLately(i) > 0 THEN 0
        ELSE IF moved = {} THEN 999
        ELSE today - Max(moved)

\* _is_dead_stock_item, by the last purchase alone
Dead(i) == /\ stock[i] > 0
           /\ UsedLately(i) = 0
           /\ last[i].at = None \/ today - last[i].at >= Ages.month

\* _movement_status: no item is without activity, as 999 days are dead
Movement(i) ==
    LET days == Idle(i)
    IN  CASE stock[i] <= 0 -> "out_of_stock"
          [] stock[i] > 0 /\ (Dead(i) \/ days >= Ages.months) -> "dead"
          [] stock[i] > 0 /\ ~ Dead(i) /\ UsedLately(i) > 0 -> "fast"
          [] stock[i] > 0 /\ ~ Dead(i) /\ UsedLately(i) = 0 /\ days < Ages.months ->
               IF days >= Ages.month THEN "very_slow"
               ELSE IF days >= Ages.week THEN "slow" ELSE "active"

\* _aging_bucket
Aging(i) ==
    LET days == Idle(i)
    IN  CASE stock[i] <= 0 -> "out"
          [] stock[i] > 0 /\ days >= Ages.months -> "60d"
          [] stock[i] > 0 /\ Ages.month <= days /\ days < Ages.months -> "30d"
          [] stock[i] > 0 /\ Ages.week <= days /\ days < Ages.month -> "7d"
          [] OTHER -> "healthy"

\* operational_reports_summary
MovementSummary ==
    LET of(kinds) == Cardinality({i \in Items : Movement(i) \in kinds})
    IN  [all |-> Cardinality({i \in Items : stock[i] > 0}),
         active |-> of({"active"}), slow |-> of({"slow", "very_slow"}),
         dead |-> of({"dead"}), fast |-> of({"fast"}),
         deadRows |-> Cardinality({i \in Items : Dead(i)})]

(***************************************************************************)
(* Pages.  The database may give rows of the same rank in any order, and   *)
(* in another one for the next page.                                       *)
(***************************************************************************)
Ranked(S, Below(_, _)) ==
    {q \in SetToSeqs(S) : \A j, k \in DOMAIN q : j < k => ~ Below(q[k], q[j])}

ByStock(S) == Ranked(S, LAMBDA i, j : stock[i] < stock[j])

\* _query_items: page k of the rows, under one of their orders
PageOf(q, k, size) == SubSeq(q, (k - 1) * size + 1, Min({k * size, Len(q)}))

\* Mutant of FetchPages: what is fetched does not grow with the page.
FetchPagesOnce(page, per) == 1

\* low_stock_operations: how many shortages a query fetches, and how many
\* queries precede the ranking by priority
FetchSize(per) == Min({WindowMax, Max({per, WindowMin})})
FetchPages(page, per) ==
    Min({WindowPages, Max({2, (page * per + FetchSize(per) - 1) \div FetchSize(per)})})

\* _fetch_low_stock_candidates: the rows of the first pages by stock.  Each
\* page is a query of its own: of equal stocks one may come twice, and another
\* not at all.
Fetches(size, pages) ==
    LET room == Min({size * pages, Cardinality(Shortages)})
    IN  {[p \in 1 .. room |-> q[(p - 1) \div size + 1][p]] :
            q \in [1 .. (room + size - 1) \div size -> ByStock(Shortages)]}

Place(q, i) == Min({k \in DOMAIN q : q[k] = i})

\* The score decides, the order of the fetch breaks a tie.
Ahead(first, i, j) ==
    \/ Score(i, FALSE) > Score(j, FALSE)
    \/ Score(i, FALSE) = Score(j, FALSE) /\ Place(first, i) < Place(first, j)

ByPriority(first) == Ranked(Range(first), LAMBDA i, j : Ahead(first, i, j))

\* What is fetched for a page, the same ranked, and the page of it
Fetched(page, per) == Fetches(FetchSize(per), FetchPages(page, per))

Window(page, per) == UNION {ByPriority(rows) : rows \in Fetched(page, per)}

BoardPage(page, per) == {PageOf(w, page, per) : w \in Window(page, per)}

\* item_is_disputed
Disputed(i) == Mismatch(i) \/ i \in Disputes

\* low_stock_operations_summary: the header of the board counts what its own,
\* longer fetch has brought.
HeaderOf(S) ==
    [attention |-> Cardinality({i \in S : OutOfStock(i) \/ Status(i) \in {"low", "critical"}}),
     out |-> Cardinality({i \in S : OutOfStock(i)}),
     pending |-> Cardinality({i \in S : Open(i) # {}}),
     delayed |-> Cardinality({i \in S : Delayed(i)}),
     mismatch |-> Cardinality({i \in S : Mismatch(i)}),
     disputed |-> Cardinality({i \in S : Disputed(i)})]

Header == {HeaderOf(Range(rows)) : rows \in Fetches(HeaderSize, HeaderPages)}

\* low_stock_operations: what a filter of the board leaves of the fetched rows
Keeps(f, i) ==
    CASE f = "all" -> TRUE
      [] f = "low" -> Status(i) \in {"low", "critical"} /\ ~ OutOfStock(i)
      [] f = "out" -> OutOfStock(i)
      [] f = "pending" -> Open(i) # {}
      [] f = "delayed" -> Delayed(i)
      [] f = "disputed" -> Disputed(i)
      [] f = "urgent" -> Band(i, FALSE) \in {"critical", "high"}

Filtered(f, rows) == {i \in Range(rows) : Keeps(f, i)}

(***************************************************************************)
(* Requests.                                                               *)
(***************************************************************************)
goods == <<stock, adj>>
counted == <<opening, count, used, quick>>

Asked == ops + 2 <= MaxOps /\ ops' = ops + 2
Moved == ops + 1 <= MaxOps /\ ops' = ops + 1

\* A movement by hand leaves an adjustment of its kind in the log.
ByHand(i, to) ==
    /\ to \in 0 .. MaxStock
    /\ stock' = [stock EXCEPT ![i] = to]
    /\ adj' = [adj EXCEPT ![i].hand = @ + to - stock[i], ![i].at = today]

\* update_catalog_item with a default_unit: the stock keeps its number
SetUp(i, p) ==
    /\ setup[i] # Edited(setup[i], p)
    /\ Asked
    /\ setup' = [setup EXCEPT ![i] = Edited(@, p)]
    /\ UNCHANGED <<goods, counted, last, po, told, today>>

\* The line as it is written: with its quantity in the stock unit of now
Written(i, l) == [l EXCEPT !.snap = Converted(setup[i], l)]

\* create_trade_purchase; only a confirmed purchase becomes the item's last
Record(n, i, l, status) ==
    /\ n \notin Recorded
    /\ \A m \in 1 .. (n - 1) : m \in Recorded
    /\ LineAllowed(setup[i], l)
    /\ po' = [po EXCEPT ![n] = [status |-> status, delivery |-> "pending",
                                delivered |-> FALSE, applied |-> FALSE, reopened |-> FALSE,
                                added |-> 0, item |-> i, line |-> Written(i, l), day |-> today]]
    /\ last' = IF status = "confirmed" THEN [last EXCEPT ![i].po = n] ELSE last
    /\ UNCHANGED <<setup, goods, counted, told, today, ops>>

\* update_trade_purchase of a purchase that was never committed: the lines
\* are written anew, the item they leave keeps its last purchase
Rewrite(n, i, l, status) ==
    /\ n \in Live
    /\ po[n].delivery # "stock_committed"
    /\ ~ po[n].applied
    /\ <<i, l.unit, l.qty>> # <<po[n].item, po[n].line.unit, po[n].line.qty>>
    /\ LineAllowed(setup[i], l)
    /\ Asked
    /\ po' = [po EXCEPT ![n].status = status, ![n].item = i, ![n].line = Written(i, l)]
    /\ last' = IF status = "confirmed" THEN [last EXCEPT ![i].po = n] ELSE last
    /\ UNCHANGED <<setup, goods, counted, told, today>>

Arrive(n) ==
    /\ n \in Live
    /\ po[n].delivery = "pending"
    /\ po' = [po EXCEPT ![n].delivery = "arrived"]
    /\ UNCHANGED <<setup, goods, counted, last, told, today, ops>>

\* verify_trade_purchase_delivery: r is what the staff has counted, None if
\* it did not name the line
Verify(n, r) ==
    LET short == r # None /\ r < po[n].line.qty
    IN  /\ n \in Live
        /\ po[n].delivery = "arrived"
        /\ po' = [po EXCEPT
             ![n].line.received = IF r = None THEN @ ELSE r,
             ![n].delivery = IF short THEN "partial" ELSE "staff_verified",
             ![n].status = IF short THEN "verification_pending" ELSE "verified"]
        /\ UNCHANGED <<setup, goods, counted, last, told, today, ops>>

\* commit_trade_purchase_delivery, also behind the lifecycle's added_to_stock:
\* the goods enter stock, once
Commit(n) ==
    LET i == po[n].item
        q == Receipt(n)
    IN  /\ n \in Live
        /\ po[n].delivery \in {"staff_verified", "partial"}
        /\ ~ po[n].applied
        /\ q > 0
        /\ stock[i] + q <= MaxStock
        /\ stock' = [stock EXCEPT ![i] = @ + q]
        /\ adj' = [adj EXCEPT ![i].received = @ + q, ![i].expected = stock[i] + q, ![i].at = today]
        /\ last' = [last EXCEPT ![i].at = today]
        /\ po' = [po EXCEPT ![n].delivery = "stock_committed", ![n].delivered = TRUE,
                            ![n].status = IF @ = "completed" THEN @ ELSE "added_to_stock",
                            ![n].applied = TRUE, ![n].added = q]
        /\ UNCHANGED <<setup, counted, told, today, ops>>

\* revert_confirmed_purchase_stock: what the lines come to now leaves stock
TakeBack(n) ==
    LET i == po[n].item
        q == IF po[n].delivered THEN Receipt(n) ELSE 0
    IN  /\ stock[i] >= q
        /\ stock' = [stock EXCEPT ![i] = @ - q]
        /\ adj' = IF q > 0 THEN [adj EXCEPT ![i].at = today] ELSE adj

Taken(n) == IF po[n].delivered THEN po[n].added - Receipt(n) ELSE po[n].added

\* patch_trade_purchase_delivery: back to pending; the item's last purchase
\* is left as it is
Revert(n) ==
    /\ n \in Live
    /\ po[n].delivered <=> po[n].delivery = "stock_committed"
    /\ po[n].delivery # "pending"
    /\ Asked
    /\ TakeBack(n)
    /\ po' = [po EXCEPT ![n].delivery = "pending", ![n].delivered = FALSE, ![n].added = Taken(n)]
    /\ UNCHANGED <<setup, counted, last, told, today>>

\* update_trade_purchase_payment and mark_trade_purchase_paid: the status is
\* derived from what was paid and is due (compute_status), one of the delivery
\* becoming "confirmed" again
Pay(n, status) ==
    /\ n \in Live
    /\ po[n].status # "draft"
    /\ status \in {"paid", IF po[n].status = "paid" THEN "paid" ELSE "confirmed"}
    /\ status # po[n].status
    /\ Moved
    /\ po' = [po EXCEPT ![n].status = status]
    /\ UNCHANGED <<setup, goods, counted, last, told, today>>

\* _PURCHASE_LIFECYCLE_ALLOWED, besides the move to cancelled
Follows == {<<"draft", "confirmed">>, <<"confirmed", "in_transit">>, <<"in_transit", "arrived">>,
            <<"arrived", "verification_pending">>, <<"arrived", "verified">>,
            <<"verification_pending", "verified">>, <<"verified", "added_to_stock">>,
            <<"added_to_stock", "completed">>}

Allowed(status) ==
    {f[2] : f \in {g \in Follows : g[1] = status}}
    \cup (IF \E f \in Follows : f[1] = status THEN {"cancelled"} ELSE {})

PutAt == [in_transit |-> "pending", arrived |-> "arrived",
          verification_pending |-> "arrived", verified |-> "staff_verified"]

\* transition_purchase_lifecycle: the status moves along its table and takes
\* delivery_status along; is_delivered, stock and the item's last purchase stay.
\* added_to_stock runs the commit, which is Commit unless the goods have been
\* entered before.
Transition(n, status) ==
    /\ n \in Live
    /\ status \in Allowed(po[n].status)
    /\ status = "added_to_stock" =>
         \/ po[n].delivery = "stock_committed"
         \/ po[n].delivery \in {"staff_verified", "partial"} /\ po[n].applied
    /\ Moved
    /\ po' = [po EXCEPT
         ![n].status = status,
         ![n].delivery = IF status \in DOMAIN PutAt THEN PutAt[status] ELSE @,
         ![n].reopened = @ \/ (po[n].delivered /\ status \in DOMAIN PutAt)]
    /\ UNCHANGED <<setup, goods, counted, last, told, today>>

\* refresh_catalog_last_trade_snapshots: the newest purchase that is neither
\* closed nor a draft, n being closed
Refreshed(i, n) ==
    LET others == {m \in Of(i) \ {n} : po[m].status # "draft"}
    IN  IF others = {} THEN [po |-> None, at |-> None]
        ELSE [last[i] EXCEPT !.po = CHOOSE m \in others :
                \A k \in others : po[k].day < po[m].day \/ (po[k].day = po[m].day /\ k <= m)]

\* cancel_trade_purchase and delete_trade_purchase, of cancelled ones too
Close(n, status) ==
    /\ n \in Recorded
    /\ po[n].status # "deleted"
    /\ TakeBack(n)
    /\ po' = [po EXCEPT ![n].status = status, ![n].delivery = "cancelled",
                        ![n].delivered = FALSE, ![n].added = Taken(n)]
    /\ last' = [last EXCEPT ![po[n].item] = Refreshed(po[n].item, n)]
    /\ UNCHANGED <<setup, counted, told, today, ops>>

\* create_staff_purchase_log, also behind the item's quick-purchase
QuickPurchase(i, q) ==
    /\ q > 0
    /\ stock[i] + q <= MaxStock
    /\ Asked
    /\ stock' = [stock EXCEPT ![i] = @ + q]
    /\ adj' = [adj EXCEPT ![i].expected = stock[i] + q, ![i].at = today]
    /\ quick' = [quick EXCEPT ![i][today] = @ + q]
    /\ UNCHANGED <<setup, opening, count, used, last, po, told, today>>

\* _purchased_today_map
DeliveredToday(i) == Ordered({n \in Of(i) : po[n].delivered /\ po[n].day = today})

\* usage_submit: the log of the day is overwritten, the stock goes down again
Use(i, q) ==
    LET came == DeliveredToday(i)
        before == Max({0, stock[i] - came})
    IN  /\ q <= before + came
        /\ Asked
        /\ ByHand(i, before + came - q)
        /\ used' = [used EXCEPT ![i][today] = q]
        /\ UNCHANGED <<setup, opening, count, quick, last, po, told, today>>

\* record_physical_stock_count: an observation
Count(i, q) ==
    /\ count[i] # q - stock[i]
    /\ Asked
    /\ count' = [count EXCEPT ![i] = q - stock[i]]
    /\ UNCHANGED <<setup, goods, opening, used, quick, last, po, told, today>>

\* _is_material_variance: two units, or one in fifty
Material(expected, found) ==
    \/ Abs(found - expected) >= 2000
    \/ expected > 0 /\ 50 * Abs(found - expected) >= expected

\* update_physical_stock: counted and booked; all kinds leave a count
Recount(i, q, kind) ==
    /\ Asked
    /\ ByHand(i, q)
    /\ count' = [count EXCEPT ![i] = q - stock[i]]
    /\ told' = IF /\ kind \in {"verification", "correction"}
                  /\ adj[i].expected # None
                  /\ Material(adj[i].expected, q)
               THEN told \cup {<<"stock_variance", i>>} ELSE told
    /\ UNCHANGED <<setup, opening, used, quick, last, po, today>>

\* set_opening_stock, by the owner
SetOpening(i, q) ==
    /\ Asked
    /\ ByHand(i, q)
    /\ opening' = [opening EXCEPT ![i] = q]
    /\ UNCHANGED <<setup, count, used, quick, last, po, told, today>>

\* run_low_stock_notification_scan; without an item below its level it stops
\* before it looks for late suppliers and wrong counts
Scan ==
    LET low == {i \in Items : Reorder[i] > 0 /\ stock[i] < Reorder[i]}
        news == {<<"low_stock", i>> : i \in low}
                \cup {<<"stock_mismatch", i>> : i \in {j \in Shortages : Mismatch(j)}}
                \cup {<<"supplier_delayed", i>> : i \in {j \in Shortages : Delayed(j)}}
    IN  /\ low # {}
        /\ ~ news \subseteq told
        /\ Asked
        /\ told' = told \cup news
        /\ UNCHANGED <<setup, goods, counted, last, po, today>>

NextDay(g) ==
    /\ today + g <= LastDay
    /\ today' = today + g
    /\ told' = {}
    /\ UNCHANGED <<setup, goods, counted, last, po, ops>>

Purchase(n) ==
    \/ \E o \in Orders[n] : Record(n, o[1], o[2], o[3]) \/ Rewrite(n, o[1], o[2], o[3])
    \/ Arrive(n)
    \/ n \in Live /\ \E r \in {None, po[n].line.qty \div 2} : Verify(n, r)
    \/ Commit(n)
    \/ Revert(n)
    \/ \E status \in Closed : Close(n, status)

Manager(n) ==
    \/ \E status \in {"paid", "confirmed"} : Pay(n, status)
    \/ \E status \in Statuses : Transition(n, status)

Desk(i) ==
    \/ \E p \in Profiles : SetUp(i, p)
    \/ \E q \in Counts :
         \/ QuickPurchase(i, q)
         \/ Use(i, q)
         \/ Count(i, q)
         \/ \E kind \in {"verification", "damaged", "correction", "sale"} : Recount(i, q, kind)
         \/ SetOpening(i, q)

Next ==
    \/ \E n \in Numbers : Purchase(n)
    \/ \E n \in Managed : Manager(n)
    \/ \E i \in Handled : Desk(i)
    \/ Scan
    \/ \E g \in Gaps : NextDay(g)

Spec == Init /\ [][Next]_vars

(***************************************************************************)
(* What the screens may be trusted with.                                   *)
(***************************************************************************)
\* A fetch holds all the shortages: in its first page, or in all its pages if
\* no two stocks are equal.
Fits(size, pages) ==
    \/ Cardinality(Shortages) <= size
    \/ /\ Cardinality(Shortages) <= size * pages
       /\ \A i, j \in Shortages : i # j => stock[i] # stock[j]

\* The low-stock board: while a fetch holds all the shortages, its header
\* counts as many as the list's counters, and under a filter the board counts
\* as many as the header, whatever page is asked for.
HeaderAgrees ==
    LET chips == Chips IN
    Fits(HeaderSize, HeaderPages) =>
      \A h \in Header :
        /\ h.attention = chips.out + chips.critical + chips.low
        /\ \A page, per \in {1, 2} :
             Fits(FetchSize(per), FetchPages(page, per)) =>
               \A rows \in Fetched(page, per), f \in {"out", "pending", "delayed", "disputed"} :
                 h[f] = Cardinality(Filtered(f, rows))

\* The status of a row, the filter that shows it and the counters above the
\* list are worked out apart, in Python, as an SQL filter and as an SQL count:
\* they divide the items in the same way, at every stock and reorder level,
\* and so does the header of the low-stock board.  So do the opening setup,
\* the usage forms and the home page; a truck is pending only while a delivery
\* is, unless the lifecycle has put a delivered purchase back; and the two
\* sums of the stock on hand agree until an item kept in bags has been edited.
CountsAgree ==
    LET missing == Cardinality(UsageMissing)
        chips == Chips
    IN  /\ \A f \in {"out", "critical", "low"} :
             LET S == {i \in Items : Status(i) = f}
             IN  S = {i \in Items : Shown(f, i)} /\ chips[f] = Cardinality(S)
        /\ HeaderAgrees
        /\ \A f \in {"all", "out", "critical", "low"} :
             SetupRows("pending", f) \cup SetupRows("completed", f) = {i \in Items : Shown(f, i)}
        /\ \A kind \in {"pending", "completed"} :
             OpeningSetup[kind] = Cardinality(SetupRows(kind, "all"))
        /\ SummaryMissing <= missing
        /\ missing <= WarehouseAlerts.unlogged
        /\ (\A n \in Live : ~ po[n].reopened) =>
             (WarehouseAlerts.deliveries = 0 <=> TruckCounts("all").pending = 0)
        /\ (\A i \in Items : setup[i].unit = setup[i].column) =>
             \A u \in {"bag", "box", "tin"} : Inventory[u] = Totals[u]

\* The movement report puts every stocked item in one of its groups, the dead
\* ones among its dead rows or idle for months, and it calls no item active
\* that the aging of the same page shows as idle.
MovementGroups ==
    /\ LET s == MovementSummary
       IN  s.all = s.active + s.slow + s.dead + s.fast /\ s.deadRows <= s.dead
    /\ \A i \in Items : Movement(i) \in {"active", "fast"} => Aging(i) = "healthy"

\* What has been received goes back as it came: a purchase whose quantity was
\* fixed when it was written has added its receipt while it is delivered and
\* nothing otherwise, however the owner changes the item's unit in between,
\* whatever the staff has counted, through receipt, revert, payment and
\* cancellation.  Left out are delivered purchases that the lifecycle has put
\* back, whose counts may be written again.
UnitStable ==
    \A n \in Recorded : po[n].line.snap > 0 /\ ~ po[n].reopened =>
        po[n].added = IF po[n].delivered THEN Receipt(n) ELSE 0

\* The list reads from delivery_status what is still to come, the item's page
\* reads it from is_delivered: both name the same quantity, so that the row and
\* the page agree, unless the lifecycle has put a delivered purchase back; the
\* days of waiting are those of a purchase that has nothing in stock, if its
\* quantity was fixed when it was written, and nobody is told of a late
\* supplier before a purchase is that old.
PendingAgrees ==
    \A i \in Items :
        /\ (\A n \in Of(i) : ~ po[n].reopened) =>
             Pending(i) = PendingLifetime(i) /\ Detail(i, today).pending = Pending(i)
        /\ PendingDays(i) > 0 =>
             \E n \in Of(i) : /\ today - po[n].day = PendingDays(i)
                              /\ po[n].line.snap > 0 /\ ~ po[n].reopened => po[n].added = 0
        /\ <<"supplier_delayed", i>> \in told =>
             \E n \in Recorded : today - po[n].day >= DelayDays

\* The variance of an item is what its receipts have added beyond the
\* purchases counted as received, and the usage of each day as last logged:
\* corrections, counts that are booked, opening stock and quick purchases
\* explain themselves.
VarianceTrue ==
    \A i \in Items : Variance(i) # None =>
        Variance(i) = SumFunction([n \in Recorded |-> IF po[n].item = i THEN po[n].added ELSE 0])
                      - (Purchased(i, 0) - Sums(quick[i], 0)) + Sums(used[i], 0)

\* The last purchase of an item, as long as it still holds the item, is none
\* that a cancel or delete request has closed (the lifecycle's own move to
\* cancelled refreshes nothing), and the truck goes dark on an item with a
\* confirmed purchase only when its last delivery is old.
TruckShown ==
    \A i \in Items :
        LET n == last[i].po
        IN  n # None /\ po[n].item = i =>
              \/ po[n].status = "cancelled" /\ po[n].delivery # "cancelled"
              \/ /\ n \in Live
                 /\ Truck(i) = "none" => last[i].at # None /\ today - last[i].at > TruckDays

\* The board fetches shortages by stock and ranks what it has fetched by
\* priority.  While one fetch of the first two pages' size holds them all, and
\* their stocks differ, every shortage is on exactly one page.
ShortagesListed ==
    \A per \in {1, 2} :
        /\ Cardinality(Shortages) <= 2 * FetchSize(per)
        /\ \A i, j \in Shortages : i # j => stock[i] # stock[j]
        => \A i \in Shortages :
             Cardinality({k \in 1 .. Cardinality(Items) :
                            \E q \in BoardPage(k, per) : i \in Range(q)}) = 1

\* The screens that classify, count and page the items agree with each other.
ScreensAgree == CountsAgree /\ MovementGroups /\ ShortagesListed

\* What the screens say is on its way is on its way, and no closed purchase is
\* an item's last one.
DeliveriesShown == PendingAgrees /\ TruckShown
==============================================================================
