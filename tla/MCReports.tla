------------------------------ MODULE MCReports ------------------------------
(* Three bills of two items, one of them from an import, on two days.        *)
EXTENDS Reports, TLC
CONSTANTS rice, soap, staples, ghani, roy

L(item, unit, qty, rate, kgPer, perKg, sell) ==
    [item |-> item, unit |-> unit, named |-> None, qty |-> qty, rate |-> rate, kgPer |-> kgPer,
     perKg |-> perKg, discount |-> None, tax |-> None, separate |-> FALSE, freight |-> None,
     delivered |-> None, sell |-> sell]
B(lines) ==
    [supplier |-> ghani, broker |-> None, days |-> None, discount |-> None, freight |-> None,
     included |-> FALSE, billty |-> None, delivered |-> None, mode |-> "percent",
     commission |-> None, lines |-> lines]
McViewed == {<<1, 2>>}
McBills ==
  [mixed |-> [B(<<[L(rice, "bag", 2, 100, 50, 2, 130) EXCEPT !.discount = 10, !.freight = 20, !.separate = TRUE],
                  L(soap, "box", 1, 200, 5, 41, 220)>>)
                 EXCEPT !.broker = roy, !.days = 0, !.mode = "flat_bag", !.commission = 5],
   loose |-> [B(<<L(rice, "kg", 10, 30, None, None, 40)>>) EXCEPT !.days = 4, !.discount = 50, !.freight = 40,
                                                                !.commission = 20],
   old   |-> B(<<L(rice, "bg", 1, 100, 50, 2, None), L(soap, "box", 1, 80, None, None, 90)>>)]
=============================================================================
