-------------------------------- MODULE Units --------------------------------
(***************************************************************************)
(* Quantities of purchase lines in the units of the shop's stock.          *)
(*                                                                         *)
(* An item is tracked in bags, boxes, tins, pieces or loose kg, as its     *)
(* setup says; a supplier's line may come in another unit.  Quantities and *)
(* weights are integers, in thousandths: the database keeps three decimals. *)
(* A setup is a record                                                     *)
(*   [unit, package, kgPerBag, size, sizeInKg, nameKg, boxName]            *)
(* of CatalogItem's default_unit, package_type, default_kg_per_bag,        *)
(* package_size, package_measurement = "KG", the weight and the word BOX   *)
(* in its name; 0 and "" where the column is empty.  A line is a record    *)
(*   [unit, qty, perUnit, weight, snap, received]                          *)
(* with its kg_per_unit, total_weight, qty_in_stock_unit and received_qty. *)
(***************************************************************************)
EXTENDS Integers

CONSTANT None       \* received_qty of a line nobody has counted

\* derive_trade_unit_type, over the units that are spelled as below
TradeUnit(u) ==
    CASE u \in {"bag", "box", "tin", "litre", "kg"} -> u
      [] u = "piece" -> "pcs"
      [] OTHER -> "other"

\* _round_qty: half up to three decimals; n / d is a quantity in thousandths
Rounded(n, d) == IF n <= 0 THEN 0 ELSE (2 * n + d) \div (2 * d)

FirstPositive(a, b, c) == IF a > 0 THEN a ELSE IF b > 0 THEN b ELSE c

\* profile_from_catalog_item: the first rule that applies decides, the
\* owner's unit before the package
Rules(s) ==
    << <<"loose_kg", s.package = "LOOSE" \/ s.unit = "kg">>,
       <<"box", s.unit = "box">>,
       <<"box", s.unit \notin {"bag", "kg", "tin"} /\ (s.package = "BOX" \/ s.boxName)>>,
       <<"tin", s.unit = "tin">>,
       <<"wholesale_bag", s.unit = "bag" \/ s.package = "SACK">>,
       <<"retail_packet", \/ s.package = "PACKET"
                          \/ s.unit = "piece" /\ s.kgPerBag > 0
                          \/ s.unit = "piece" /\ s.size > 0 /\ s.sizeInKg>>,
       <<"tin", s.package = "TIN">>,
       <<"piece", TRUE>> >>

Mode(s) == LET rules == Rules(s)
               first == CHOOSE k \in DOMAIN rules :
                          rules[k][2] /\ \A j \in 1 .. (k - 1) : ~ rules[j][2]
           IN  rules[first][1]

\* The unit stock is kept in
StockUnit(s) ==
    CASE Mode(s) = "loose_kg" -> "kg"
      [] Mode(s) = "wholesale_bag" -> "bag"
      [] Mode(s) = "retail_packet" -> "piece"
      [] Mode(s) \in {"box", "tin"} -> Mode(s)
      [] OTHER -> s.unit

Weighed(s) == Mode(s) \in {"wholesale_bag", "retail_packet"}

\* line_unit_allowed and validate_purchase_line_unit: the pairs a purchase is
\* refused for; others pass even where nothing converts them
LineAllowed(s, l) ==
    LET m == Mode(s)
        t == TradeUnit(l.unit)
    IN  /\ m \in {"retail_packet", "loose_kg"} => t # "bag"
        /\ m = "wholesale_bag" => t # "pcs"
        /\ m = "box" => t \in {"box", "other"}
        /\ m = "tin" => t \in {"tin", "kg", "other"}

\* catalog_kg_per_bag, 0 if unknown
KgPer(s, l) ==
    LET own == FirstPositive(s.kgPerBag, s.size, s.nameKg)
    IN  IF Weighed(s) /\ own > 0 THEN own
        ELSE FirstPositive(l.perUnit, s.kgPerBag, IF s.sizeInKg THEN s.size ELSE 0)

\* line_kg_qty: a line's total weight stands for all of it
LineKg(s, l) ==
    CASE l.weight > 0 -> l.weight
      [] l.weight = 0 /\ l.unit = "kg" -> l.qty
      [] l.weight = 0 /\ l.unit = "bag" -> (l.qty * KgPer(s, l)) \div 1000
      [] OTHER -> 0

\* line_qty_in_stock_unit of a line that has no snapshot: 0 where no rule
\* converts the line's unit
Converted(s, l) ==
    LET st == TradeUnit(StockUnit(s))
        lt == TradeUnit(l.unit)
    IN  CASE l.qty <= 0 -> 0
          [] l.qty > 0 /\ (lt = st \/ {lt, st} \subseteq {"pcs", "other"}) -> l.qty
          [] l.qty > 0 /\ lt = "kg" /\ Weighed(s) ->
               IF KgPer(s, l) > 0 THEN Rounded(LineKg(s, l) * 1000, KgPer(s, l)) ELSE 0
          [] l.qty > 0 /\ lt = "bag" /\ st = "kg" -> Rounded(l.qty * KgPer(s, l), 1000)
          [] OTHER -> 0

\* Mutant of StockQty: the snapshot is not looked at.
StockQtyNow(s, l) == Converted(s, l)

\* line_qty_in_stock_unit: what was worked out when the line was written
\* stays, whatever becomes of the item's setup
StockQty(s, l) == IF l.snap > 0 THEN l.snap ELSE Converted(s, l)

\* line_qty_for_stock_commit: what a line adds to stock.  A line that has no
\* snapshot is converted at the received quantity, with its whole weight.
CommitQty(s, l) ==
    CASE l.received = None -> StockQty(s, l)
      [] l.received # None /\ l.snap > 0 /\ l.qty > 0 ->
           Rounded(l.snap * l.received, l.qty)
      [] OTHER -> StockQty(s, [l EXCEPT !.qty = l.received])
==============================================================================
