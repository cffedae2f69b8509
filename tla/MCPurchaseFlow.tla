---------------------------- MODULE MCPurchaseFlow ----------------------------
(***************************************************************************)
(* Purchases on their way through the warehouse: the first is taken all    *)
(* the way by one session, over the second, which waits for its commit,    *)
(* two sessions race on copies they have loaded.  One of them is there,    *)
(* the other has been deleted long before.                                 *)
(***************************************************************************)
EXTENDS MCPurchaseDelivery

CONSTANTS tp2, s1, s2

RaceOps == {"commit", "revert", "cancel", "pay"}
FlowOps == RaceOps \cup {"dispatch", "arrive", "verify"}

MCOps == [s \in Sessions |-> [p \in Purchases |->
            IF p = tp2 THEN RaceOps ELSE IF s = s1 THEN FlowOps ELSE {}]]

Deleted == [Confirmed EXCEPT !.status = "deleted", !.delivery = "cancelled"]

MCInitRows == New \cup ToCommit \cup {Deleted}

FlowInit ==
    /\ Init
    /\ \/ tp[tp1] \in New /\ tp[tp2] = Deleted
       \/ tp[tp1] = Deleted /\ tp[tp2] \in ToCommit

\* Answers are written and never read, and no property of this run is about
\* them: states that differ in them alone need not be told apart.
FlowView == <<tp, goods, ready, req>>

FlowSpec == FlowInit /\ [][Next]_vars
===============================================================================
