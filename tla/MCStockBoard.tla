---------------------------- MODULE MCStockBoard ----------------------------
(* Two items kept in bags of 5 kg, one of which may become loose kg, and     *)
(* two purchases, the second one of rice.                                    *)
EXTENDS StockBoard, TLC
CONSTANTS rice, soap

McAges == [week |-> 1, month |-> 2, months |-> 3]
McReorder == rice :> 2000 @@ soap :> 0
McProfiles == {<<"bag", 5000>>, <<"kg", 0>>}
McFirst == rice :> <<"bag", 5000>> @@ soap :> <<"bag", 5000>>
L(unit, qty, weight) == [unit |-> unit, qty |-> qty, perUnit |-> 5000, weight |-> weight,
                         snap |-> 0, received |-> None]
McOrders == LET ofRice == <<rice, L("kg", 10000, 10000), "confirmed">>
                ofSoap(status) == <<soap, L("bag", 2000, 0), status>>
            IN  <<{ofRice, ofSoap("draft"), ofSoap("confirmed")}, {ofRice}>>
=============================================================================
