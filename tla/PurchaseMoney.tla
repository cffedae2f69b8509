---------------------------- MODULE PurchaseMoney ----------------------------
(***************************************************************************)
(* What a purchase costs and weighs: the lines and the header of a bill,   *)
(* the rows they are stored in, and the figures the reports read off the   *)
(* rows, once as the SQL expressions of trade_query compute them and once  *)
(* as their Python mirrors do.                                             *)
(*                                                                         *)
(* Money is in hundredths of a rupee, weights in kilograms, percentages    *)
(* are whole.  A bill is a record                                          *)
(*   [supplier, broker, days, discount, freight, included, billty,         *)
(*    delivered, mode, commission, lines]                                  *)
(* and a line a record                                                     *)
(*   [item, unit, named, qty, rate, kgPer, perKg, discount, tax, separate, *)
(*    freight, delivered, sell]                                            *)
(* with None for what is not given; named is the weight in the item's name. *)
(***************************************************************************)
EXTENDS Integers, Sequences, FiniteSetsExt

CONSTANT None

Given(x) == IF x = None THEN 0 ELSE x
First(a, b) == IF a # None THEN a ELSE b
Clamped(x, low, high) == Max({low, Min({x, high})})
Sum(f(_), S) == SumFunction([x \in S |-> f(x)])

\* derive_trade_unit_type, over the units that are spelled as below
UnitType(unit) ==
    CASE unit \in {"bag", "sack", "bg"} -> "bag"
      [] unit \in {"box", "tin", "litre", "pcs", "kg"} -> unit
      [] OTHER -> "other"

------------------------------------------------------------------------------
(* A line of the bill *)

\* Weight prices count where they agree with the price of the unit
WeightPriced(l) ==
    /\ Given(l.kgPer) > 0 /\ Given(l.perKg) > 0
    /\ l.kgPer * l.perKg - l.rate \in -5 .. 5
Gross(l) == l.qty * (IF WeightPriced(l) THEN l.kgPer * l.perKg ELSE l.rate)

Charges(l) == Given(l.delivered) + (IF l.separate THEN Given(l.freight) ELSE 0)

Money(l) ==
    (Gross(l) * (100 - Clamped(Given(l.discount), 0, 100))
              * (100 + Clamped(Given(l.tax), 0, 1000))) \div 10000

Profit(l) == IF l.sell = None THEN None ELSE l.qty * l.sell - Money(l) - Charges(l)

\* line_total_weight: the name stands in for the weight of a bag
LineKg(l) ==
    LET kgPer == IF Given(l.kgPer) > 0 THEN l.kgPer ELSE Given(l.named)
    IN  CASE UnitType(l.unit) = "bag" -> l.qty * kgPer
          [] UnitType(l.unit) = "kg"  -> l.qty
          [] UnitType(l.unit) \in {"box", "tin"} -> 0
          [] OTHER -> l.qty * Given(l.kgPer)

\* Boxes and tins are counted, never weighed
Stripped(l) == IF l.unit \in {"box", "tin"} THEN [l EXCEPT !.kgPer = None, !.perKg = None] ELSE l

------------------------------------------------------------------------------
(* The header *)

ItemCharges(b) == \E k \in DOMAIN b.lines : b.lines[k].freight # None \/ b.lines[k].delivered # None
LineSum(f(_), b) == Sum(LAMBDA k : f(b.lines[k]), DOMAIN b.lines)
QtyOf(b, units) == LineSum(LAMBDA l : IF l.unit \in units THEN l.qty ELSE 0, b)

\* _header_commission_rupees, of the amount after the header's discount
Commission(b, amount) ==
    LET rate == Max({0, Given(b.commission)})
    IN  CASE b.mode = "flat_invoice" -> rate
          [] b.mode = "flat_kg"  -> rate * LineSum(LineKg, b)
          [] b.mode = "flat_bag" -> rate * QtyOf(b, {"bag", "sack"})
          [] b.mode = "flat_box" -> rate * QtyOf(b, {"box"})
          [] b.mode = "flat_tin" -> rate * QtyOf(b, {"tin"})
          [] OTHER -> (amount * Min({rate, 100})) \div 100

\* compute_totals: the charges of the header count when no line has its own
Total(b) ==
    LET lines == LineSum(LAMBDA l : Money(l) + Charges(l), b)
        amount == (lines * (100 - Clamped(Given(b.discount), 0, 100))) \div 100
        header == (IF b.included THEN 0 ELSE Given(b.freight)) + Given(b.billty) + Given(b.delivered)
    IN  amount + Commission(b, amount) + (IF ItemCharges(b) THEN 0 ELSE header)

\* _collect_trade_purchase_validation_errors, for a bill that is saved
Valid(b) ==
    /\ b.lines # <<>>
    /\ \A k \in DOMAIN b.lines :
          /\ b.lines[k].qty > 0
          /\ Gross(b.lines[k]) > 0
          /\ \A j \in DOMAIN b.lines \ {k} :
                <<b.lines[j].item, b.lines[j].unit>> # <<b.lines[k].item, b.lines[k].unit>>

------------------------------------------------------------------------------
(* A row of trade_purchase_lines: the line as it is stored, or as an import *)
(* left it, without the columns that came later.                            *)

Row(l) ==
    LET s == Stripped(l)
    IN  [line |-> s, type |-> UnitType(s.unit), total |-> Money(s), profit |-> Profit(s),
         weight |-> IF LineKg(s) > 0 THEN LineKg(s) ELSE None]
ImportedRow(l) == [line |-> l, type |-> None, total |-> None, profit |-> None, weight |-> None]
Rows(b, imported) ==
    [k \in DOMAIN b.lines |-> IF imported THEN ImportedRow(b.lines[k]) ELSE Row(b.lines[k])]

\* trade_query: what the reports add up, in SQL
Amount(r) == First(r.total, Gross(r.line))
Selling(r) == r.line.qty * Given(r.line.sell)
RowProfit(r) == First(r.profit, Selling(r) - Amount(r))
LikeUnit(unit, type) ==
    CASE type = "bag" -> unit \in {"bag", "sack"}
      [] OTHER -> unit = type
QtyWhen(r, type) ==
    IF r.type = type \/ (r.type = None /\ LikeUnit(r.line.unit, type)) THEN r.line.qty ELSE 0
IsBag(r) == r.type = "bag" \/ (r.type = None /\ r.line.unit \in {"bag", "sack", "bg"})
IsLoose(r) == r.type = "kg" \/ (r.type = None /\ r.line.unit = "kg")
Weight(r) ==
    LET guess == IF IsBag(r) /\ Given(r.line.kgPer) > 0 THEN r.line.qty * r.line.kgPer
                 ELSE IF IsLoose(r) THEN r.line.qty ELSE 0
    IN  IF IsBag(r) \/ IsLoose(r) THEN First(r.weight, guess) ELSE 0

\* trade_report_line_mirror: the same in Python, for one row
MirrorType(r) == First(r.type, UnitType(r.line.unit))
MirrorAmount(r) == First(r.total, Gross(r.line))
MirrorQty(r, type) == IF MirrorType(r) = type THEN r.line.qty ELSE 0
MirrorWeight(r) ==
    CASE MirrorType(r) = "bag" -> First(r.weight, r.line.qty * Given(r.line.kgPer))
      [] MirrorType(r) = "kg"  -> First(r.weight, r.line.qty)
      [] OTHER -> 0

------------------------------------------------------------------------------
(* Statuses *)

\* _normalize_purchase_status: what the API calls a stored status
Normalized(st) ==
    CASE st = "saved" -> "draft"
      [] st = "confirmed" -> "active"
      [] st = "delivered" -> "added_to_stock"
      [] OTHER -> st

DueAfter(day, days) == IF days = None THEN None ELSE day + days

\* compute_status; soon is 3 days
ComputeStatus(st, total, paid, due, today, soon) ==
    IF st \in {"cancelled", "deleted", "draft"} THEN st ELSE
    CASE total <= 0 ->
            IF st \in {"saved", "paid", "partially_paid", "overdue"} THEN st ELSE "confirmed"
      [] total > 0 /\ paid >= total -> "paid"
      [] total > Max({paid, 0}) /\ due # None /\ today > due -> "overdue"
      [] total > Max({paid, 0}) /\ due # None /\ due - today \in 0 .. soon -> "due_soon"
      [] OTHER ->
            IF paid > 0 THEN "partially_paid"
            ELSE IF st \in {"saved", "partially_paid", "paid", "overdue", "due_soon"} THEN st
            ELSE "confirmed"
=============================================================================
