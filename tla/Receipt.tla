------------------------------- MODULE Receipt -------------------------------
(***************************************************************************)
(* What the warehouse expects of a purchase, whatever requests, races and  *)
(* retries lie behind it: its goods come into stock at most once, and if   *)
(* they go out again they go out whole and stay out.                       *)
(***************************************************************************)
EXTENDS Integers

CONSTANTS Purchases, Items

VARIABLES stage,    \* awaited, received or returned
          inStock   \* what the purchase has left in stock, per item

vars == <<stage, inStock>>

Nothing == [i \in Items |-> 0]

Init ==
    /\ stage = [p \in Purchases |-> "awaited"]
    /\ inStock = [p \in Purchases |-> Nothing]

Others(p) == \A q \in Purchases \ {p} : inStock'[q] = inStock[q]

Receive(p) ==
    /\ stage[p] = "awaited"
    /\ stage' = [stage EXCEPT ![p] = "received"]
    /\ inStock'[p] \in [Items -> Nat] \ {Nothing}
    /\ Others(p)

Return(p) ==
    /\ stage[p] = "received"
    /\ stage' = [stage EXCEPT ![p] = "returned"]
    /\ inStock'[p] = Nothing
    /\ Others(p)

Next == \E p \in Purchases : Receive(p) \/ Return(p)

Spec == Init /\ [][Next]_vars
===============================================================================
