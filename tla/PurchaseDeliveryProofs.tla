------------------------ MODULE PurchaseDeliveryProofs ------------------------
(***************************************************************************)
(* Proofs about PurchaseDelivery, for any purchases, items and sessions.   *)
(***************************************************************************)
EXTENDS PurchaseDelivery, TLAPS

(***************************************************************************)
(* Types, for every kind of request.                                       *)
(***************************************************************************)
\* What a line adds to stock is a natural number.
LEMMA LineQtyNat ==
    ASSUME NEW r \in Row, NEW i \in Items
    PROVE  LineQty(r, i) \in Nat
BY NoneAssumption DEF Row, LineQty

\* An UPDATE of changed columns leaves a row, column by column.
LEMMA MergedRow ==
    ASSUME NEW old \in Row, NEW new \in Row, NEW now \in Row
    PROVE  LET m == Merged(old, new, now)
           IN  /\ m \in Row
               /\ m.status = Column(old.status, new.status, now.status)
               /\ m.delivery = Column(old.delivery, new.delivery, now.delivery)
               /\ m.delivered = Column(old.delivered, new.delivered, now.delivered)
               /\ m.ordered = now.ordered
               /\ m.received = [i \in Items |->
                    Column(old.received[i], new.received[i], now.received[i])]
BY DEF Merged, Column, Row

\* The movements of a request keep stock natural and sums integral.
LEMMA MoveTyped ==
    ASSUME TypeOK, NEW kind, NEW p \in Purchases, NEW q \in [Items -> Int],
           Move(kind, p, q)
    PROVE  /\ stock' \in [Items -> Nat]
           /\ net' \in [Purchases -> [Items -> Int]]
<1> DEFINE change == [i \in Items |-> IF i \in Fresh(kind, p, q) THEN q[i] ELSE 0]
<1>1. change \in [Items -> Int]
  OBVIOUS
<1>2. /\ \A i \in Items : stock[i] + change[i] >= 0
      /\ stock' = [i \in Items |-> stock[i] + change[i]]
      /\ net' = [net EXCEPT ![p] = [i \in Items |-> net[p][i] + change[i]]]
  BY DEF Move
<1> HIDE DEF change
<1>3. stock' \in [Items -> Nat]
  BY <1>1, <1>2 DEF TypeOK
<1>4. [i \in Items |-> net[p][i] + change[i]] \in [Items -> Int]
  BY <1>1 DEF TypeOK
<1>5. net' \in [Purchases -> [Items -> Int]]
  BY <1>2, <1>4 DEF TypeOK
<1> QED
  BY <1>3, <1>5

\* So do a reversal and a receipt.
LEMMA TakeBackTyped ==
    ASSUME TypeOK, NEW p \in Purchases, NEW r \in Row, TakeBack(p, r)
    PROVE  /\ stock' \in [Items -> Nat]
           /\ net' \in [Purchases -> [Items -> Int]]
<1>1. [i \in Items |-> - LineQty(r, i)] \in [Items -> Int]
  BY LineQtyNat
<1> QED
  BY <1>1, MoveTyped DEF TakeBack

\* A served request and its copy are typed.
LEMMA ViewTyped ==
    ASSUME TypeOK, NEW s \in Sessions, req[s] # None
    PROVE  /\ req[s] \in Request
           /\ req[s].p \in Purchases
           /\ req[s].op \in AllOps
           /\ View(s) \in Row
           /\ tp[req[s].p] \in Row
<1>1. req[s] \in Request
  BY DEF TypeOK
<1> QED
  BY <1>1 DEF Request, View, TypeOK

\* Saving a row keeps the others and merges this one.
LEMMA SaveTyped ==
    ASSUME TypeOK, NEW s \in Sessions, req[s] # None, NEW new \in Row, Save(s, new)
    PROVE  /\ tp' \in [Purchases -> Row]
           /\ tp'[req[s].p] = Merged(View(s), new, tp[req[s].p])
           /\ \A p \in Purchases \ {req[s].p} : tp'[p] = tp[p]
BY ViewTyped, MergedRow DEF Save, TypeOK

\* An answer leaves the session free.
LEMMA SucceedTyped ==
    ASSUME TypeOK, NEW s \in Sessions, req[s] # None, Succeed(s)
    PROVE  /\ req' \in [Sessions -> Request \cup {None}]
           /\ answer' \in [Sessions -> (AllOps \X Purchases) \cup {None}]
BY ViewTyped DEF Succeed, TypeOK

\* A handler that moves goods, saves the row and answers keeps the types.
LEMMA HandlerTyped ==
    ASSUME TypeOK, NEW s \in Sessions, req[s] # None, NEW new \in Row,
           Save(s, new), Succeed(s), ready' = ready,
           stock' \in [Items -> Nat], net' \in [Purchases -> [Items -> Int]]
    PROVE  TypeOK'
BY SaveTyped, SucceedTyped DEF TypeOK

\* The rows the handlers write are rows.
LEMMA WrittenRows ==
    ASSUME NEW r \in Row
    PROVE  /\ \A d \in Deliveries : [r EXCEPT !.delivery = d] \in Row
           /\ \A st \in Statuses : [r EXCEPT !.status = st] \in Row
           /\ Committed(r) \in Row
           /\ [r EXCEPT !.delivered = FALSE, !.delivery = "pending"] \in Row
           /\ \A st \in Closed : [r EXCEPT !.status = st, !.delivered = FALSE,
                                           !.delivery = "cancelled"] \in Row
BY DEF Row, Deliveries, Statuses, Committed, Closed

\* So is the one the staff's counts make.
LEMMA EnteredRow ==
    ASSUME NEW r \in Row,
           NEW counted \in UNION {[D -> 0 .. MaxQty] : D \in SUBSET Lines(r)}
    PROVE  Entered(r, counted) \in Row
<1> PICK D \in SUBSET Lines(r) : counted \in [D -> 0 .. MaxQty]
  OBVIOUS
<1> DEFINE received == [i \in Items |-> IF i \in D THEN counted[i] ELSE r.received[i]]
<1>1. received \in [Items -> Nat \cup {None}]
  BY QtyAssumption DEF Row
<1>2. [i \in Items |-> IF i \in DOMAIN counted THEN counted[i] ELSE r.received[i]]
         = received
  OBVIOUS
<1>3. ASSUME NEW d \in Deliveries, NEW st \in Statuses
      PROVE  [r EXCEPT !.received = received, !.delivery = d, !.status = st] \in Row
  <2> HIDE DEF received
  <2> QED
    BY <1>1, <1>3 DEF Row
<1>4. {"partial", "staff_verified"} \subseteq Deliveries
      /\ {"verification_pending", "verified"} \subseteq Statuses
  BY DEF Deliveries, Statuses
<1> QED
  BY <1>2, <1>3, <1>4 DEF Entered

\* And the lines an edit leaves.
LEMMA KeptTyped ==
    ASSUME NEW r \in Row, NEW lines \in EditLines, NEW applied \in BOOLEAN
    PROVE  Kept(r, lines, applied) \in [Items -> Nat \cup {None}]
BY QtyAssumption DEF Kept, Row

\* Every status the lifecycle table leads to is one, with its delivery.
LEMMA TargetRow ==
    ASSUME NEW r \in Row, NEW status, NEW target \in Allowed(status)
    PROVE  /\ target \in Statuses
           /\ [r EXCEPT !.status = target,
                        !.delivery = DeliveryFor(target, r.delivery)] \in Row
<1>1. target \in Statuses
  BY DEF Allowed, Statuses
<1>2. DeliveryFor(target, r.delivery) \in Deliveries
  BY DEF DeliveryFor, Row, Deliveries
<1> QED
  BY <1>1, <1>2 DEF Row

\* The initial rows are typed.
LEMMA InitTyped == Init => TypeOK
BY RowsAssumption, QtyAssumption DEF Init, TypeOK

\* Loading copies a row.
LEMMA LoadTyped ==
    ASSUME TypeOK, NEW s \in Sessions, NEW op \in AllOps, NEW p \in Purchases,
           Load(s, op, p)
    PROVE  TypeOK'
<1>1. [op |-> op, p |-> p, row |-> tp[p], applied |-> Applied(p), gone |-> FALSE]
         \in Request
  BY DEF TypeOK, Request, Applied
<1> QED
  BY <1>1 DEF Load, TypeOK, goods

\* A verification saves the counts, and may go on as a commit.
LEMMA VerifyTyped ==
    ASSUME TypeOK, NEW s \in Sessions, Verify(s)
    PROVE  TypeOK'
<1>1. req[s] # None /\ View(s) \in Row /\ req[s] \in Request
  BY ViewTyped DEF Verify, Serves
<1>2. PICK counted \in UNION {[D -> 0 .. MaxQty] : D \in SUBSET Lines(View(s))} :
        LET new == Entered(View(s), counted)
        IN  /\ Save(s, new)
            /\ IF new.delivery = "staff_verified"
               THEN /\ req' = [req EXCEPT ![s].op = "commit", ![s].row = new]
                    /\ UNCHANGED answer
               ELSE Succeed(s)
  BY DEF Verify
<1> DEFINE new == Entered(View(s), counted)
<1>3. new \in Row
  BY <1>1, EnteredRow
<1>4. stock' = stock /\ net' = net /\ ready' = ready
  BY DEF Verify, goods
<1> HIDE DEF new
<1>5. CASE Succeed(s)
  BY <1>1, <1>2, <1>3, <1>4, <1>5, HandlerTyped DEF TypeOK, new
<1>6. CASE req' = [req EXCEPT ![s].op = "commit", ![s].row = new] /\ answer' = answer
  <2>1. [req[s] EXCEPT !.op = "commit", !.row = new] \in Request
    BY <1>1, <1>3 DEF Request, AllOps
  <2>2. req' \in [Sessions -> Request \cup {None}]
    BY <1>6, <2>1 DEF TypeOK
  <2>3. tp' \in [Purchases -> Row]
    BY <1>1, <1>2, <1>3, SaveTyped DEF new
  <2> QED
    BY <1>4, <1>6, <2>2, <2>3 DEF TypeOK
<1> QED
  BY <1>2, <1>5, <1>6 DEF new

\* An edit replaces the lines and moves the difference.
LEMMA EditTyped ==
    ASSUME TypeOK, NEW s \in Sessions, Edit(s)
    PROVE  TypeOK'
<1>1. req[s] # None /\ View(s) \in Row /\ req[s] \in Request /\ req[s].p \in Purchases
  BY ViewTyped DEF Edit, Serves
<1> DEFINE p == req[s].p
<1>2. PICK lines \in EditLines, status \in {"draft", "saved", "confirmed"},
          applied \in LookedUp(s) :
        LET new == [View(s) EXCEPT !.status = status, !.ordered = lines,
                                   !.received = Kept(View(s), lines, applied)]
        IN  /\ tp' = [tp EXCEPT ![p].status = Column(View(s).status, status, @),
                                ![p].ordered = new.ordered,
                                ![p].received = new.received]
            /\ IF View(s).delivered \/ applied
               THEN Move("adjust", p, [i \in Items |->
                                         LineQty(new, i) - LineQty(View(s), i)])
               ELSE UNCHANGED goods
  BY DEF Edit
<1> DEFINE kept == Kept(View(s), lines, applied)
           new == [View(s) EXCEPT !.status = status, !.ordered = lines, !.received = kept]
<1>3. applied \in BOOLEAN /\ lines \in [Items -> Nat] /\ status \in Statuses
  BY <1>1, QtyAssumption DEF LookedUp, Request, Applied, Statuses
<1>4. kept \in [Items -> Nat \cup {None}]
  BY <1>1, <1>3, KeptTyped
<1>5. new \in Row /\ new.ordered = lines /\ new.received = kept
  <2> HIDE DEF kept
  <2> QED
    BY <1>1, <1>3, <1>4 DEF Row
<1>6. stock' \in [Items -> Nat] /\ net' \in [Purchases -> [Items -> Int]]
  <2> DEFINE q == [i \in Items |-> LineQty(new, i) - LineQty(View(s), i)]
  <2>1. q \in [Items -> Int]
    <3> HIDE DEF new
    <3> QED
      BY <1>1, <1>5, LineQtyNat
  <2>2. CASE Move("adjust", p, q)
    <3> HIDE DEF q
    <3> QED
      BY <1>1, <2>1, <2>2, MoveTyped
  <2>3. CASE UNCHANGED goods
    BY <2>3 DEF goods, TypeOK
  <2> QED
    BY <1>2, <2>2, <2>3
<1>7. tp' \in [Purchases -> Row]
  <2> HIDE DEF kept
  <2>1. tp' = [tp EXCEPT ![p].status = Column(View(s).status, status, @),
                         ![p].ordered = lines, ![p].received = kept]
    BY <1>2, <1>5 DEF kept
  <2>2. Column(View(s).status, status, tp[p].status) \in Statuses
    BY <1>1, <1>3 DEF Column, Row, TypeOK
  <2> DEFINE c == Column(View(s).status, status, tp[p].status)
             row == [tp[p] EXCEPT !.status = c, !.ordered = lines, !.received = kept]
  <2>3. tp' = [tp EXCEPT ![p] = row]
    BY <1>1, <2>1 DEF TypeOK
  <2>4. row \in Row
    <3> HIDE DEF c
    <3> QED
      BY <1>1, <1>3, <1>4, <2>2 DEF Row, TypeOK, c
  <2> HIDE DEF row
  <2> QED
    BY <2>3, <2>4 DEF TypeOK
<1>8. req' \in [Sessions -> Request \cup {None}]
  <2>1. \A t \in Sessions : req[t] # None => [req[t] EXCEPT !.gone = TRUE] \in Request
    BY DEF TypeOK, Request
  <2> QED
    BY <2>1 DEF Edit, TypeOK
<1>9. answer' \in [Sessions -> (AllOps \X Purchases) \cup {None}]
  BY <1>1 DEF Edit, TypeOK, AllOps
<1> QED
  BY <1>6, <1>7, <1>8, <1>9 DEF Edit, TypeOK

\* Every other handler moves goods or none, and saves a row.
LEMMA TypeStep == TypeOK /\ [Next]_vars => TypeOK'
<1> SUFFICES ASSUME TypeOK, [Next]_vars PROVE TypeOK'
  OBVIOUS
<1>1. ASSUME NEW s \in Sessions, NEW p \in Purchases, NEW op \in Ops[s][p],
             Load(s, op, p)
      PROVE  TypeOK'
  BY <1>1, LoadTyped, OpsAssumption
<1>2. ASSUME NEW s \in Sessions, Abort(s) PROVE TypeOK'
  BY <1>2 DEF Abort, TypeOK, goods
<1>3. ASSUME NEW s \in Sessions, Finish(s) PROVE TypeOK'
  <2>1. req[s] # None /\ View(s) \in Row /\ req[s].p \in Purchases
    BY <1>3, ViewTyped DEF Finish, Serves, Dispatch, Arrive, Verify, Commit, Revert,
                           Cancel, Delete, Edit, Pay, Transition
  <2>2. ASSUME UNCHANGED goods
        PROVE  stock' \in [Items -> Nat] /\ net' \in [Purchases -> [Items -> Int]]
    BY <2>2 DEF goods, TypeOK
  <2>3. CASE Dispatch(s)
    <3>1. PICK d \in {"in_transit", "dispatched"} :
             Save(s, [View(s) EXCEPT !.delivery = d])
      BY <2>3 DEF Dispatch
    <3>2. [View(s) EXCEPT !.delivery = d] \in Row
      BY <2>1, WrittenRows DEF Deliveries
    <3> QED
      BY <2>1, <2>2, <2>3, <3>1, <3>2, HandlerTyped DEF Dispatch
  <2>4. CASE Arrive(s)
    <3>1. [View(s) EXCEPT !.delivery = "arrived"] \in Row
      BY <2>1, WrittenRows DEF Deliveries
    <3> QED
      BY <2>1, <2>2, <2>4, <3>1, HandlerTyped DEF Arrive
  <2>5. CASE Verify(s)
    BY <2>5, VerifyTyped
  <2>6. ASSUME CommitNew(s, Committed(View(s)))
        PROVE  /\ stock' \in [Items -> Nat] /\ net' \in [Purchases -> [Items -> Int]]
               /\ Save(s, Committed(View(s)))
    <3>1. Incoming(s) \in [Items -> Int]
      BY <2>1, LineQtyNat DEF Incoming
    <3> QED
      BY <2>1, <2>6, <3>1, MoveTyped DEF CommitNew
  <2>7. CASE Commit(s)
    <3>1. CASE CommitNew(s, Committed(View(s)))
      BY <2>1, <2>6, <2>7, <3>1, WrittenRows, HandlerTyped DEF Commit
    <3>2. CASE CommitAgain(s) /\ UNCHANGED tp
      BY <2>1, <2>2, <2>7, <3>2, SucceedTyped DEF Commit, CommitAgain, TypeOK
    <3> QED
      BY <2>7, <3>1, <3>2 DEF Commit
  <2>8. CASE Revert(s)
    <3>1. stock' \in [Items -> Nat] /\ net' \in [Purchases -> [Items -> Int]]
      BY <2>1, <2>2, <2>8, TakeBackTyped DEF Revert
    <3> QED
      BY <2>1, <2>8, <3>1, WrittenRows, HandlerTyped DEF Revert
  <2>9. CASE Cancel(s)
    <3>1. stock' \in [Items -> Nat] /\ net' \in [Purchases -> [Items -> Int]]
      BY <2>1, <2>2, <2>9, TakeBackTyped DEF Cancel
    <3> QED
      BY <2>1, <2>9, <3>1, WrittenRows, HandlerTyped DEF Cancel, CloseAs, Closed
  <2>10. CASE Delete(s)
    <3>1. stock' \in [Items -> Nat] /\ net' \in [Purchases -> [Items -> Int]]
      BY <2>1, <2>2, <2>10, TakeBackTyped DEF Delete
    <3> QED
      BY <2>1, <2>10, <3>1, WrittenRows, HandlerTyped DEF Delete, CloseAs, Closed
  <2>11. CASE Edit(s)
    BY <2>11, EditTyped
  <2>12. CASE Pay(s)
    <3>1. PICK status \in PaidStatuses(View(s).status) :
             Save(s, [View(s) EXCEPT !.status = status])
      BY <2>12 DEF Pay
    <3>2. status \in Statuses
      BY <2>1 DEF PaidStatuses, Statuses
    <3> QED
      BY <2>1, <2>2, <2>12, <3>1, <3>2, WrittenRows, HandlerTyped DEF Pay
  <2>13. CASE Transition(s)
    <3>1. PICK target \in Allowed(Normal(View(s).status)) :
             IF target = "added_to_stock" THEN AddToStock(s) ELSE MoveOn(s, target)
      BY <2>13 DEF Transition
    <3>2. CASE CommitNew(s, Committed(View(s)))
      BY <2>1, <2>6, <2>13, <3>2, WrittenRows, HandlerTyped DEF Transition
    <3>3. CASE /\ CommitAgain(s)
               /\ Save(s, [View(s) EXCEPT !.status = "added_to_stock"])
      <4>1. [View(s) EXCEPT !.status = "added_to_stock"] \in Row
        BY <2>1, WrittenRows DEF Statuses
      <4> QED
        BY <2>1, <2>2, <2>13, <3>3, <4>1, HandlerTyped DEF Transition, CommitAgain
    <3>4. CASE MoveOn(s, target)
      BY <2>1, <2>2, <2>13, <3>4, TargetRow, HandlerTyped DEF Transition, MoveOn
    <3> QED
      BY <3>1, <3>2, <3>3, <3>4 DEF AddToStock
  <2> QED
    BY <1>3, <2>3, <2>4, <2>5, <2>7, <2>8, <2>9, <2>10, <2>11, <2>12, <2>13 DEF Finish
<1>4. ASSUME NEW i \in Items, Sell(i) \/ SetUnit(i) PROVE TypeOK'
  BY <1>4 DEF Sell, SetUnit, TypeOK, goods
<1>5. ASSUME UNCHANGED vars PROVE TypeOK'
  BY <1>5 DEF vars, TypeOK
<1> QED
  BY <1>1, <1>2, <1>3, <1>4, <1>5 DEF Next

\* Rows, stock, requests and answers keep the types the code declares, for any
\* requests and any interleaving: a movement never makes stock negative
\* (stock_movement_service.py:234), and a handler that writes its changes over
\* those of another (trade_purchase_service.py:1818-2446) still leaves a row.
THEOREM TypeCorrect == Spec => []TypeOK
BY InitTyped, TypeStep, PTL DEF Spec

-----------------------------------------------------------------------------
(***************************************************************************)
(* Deliveries whose lines are held: whatever copies the requests work on,  *)
(* the receipt and its reversal are each there whole or not at all.        *)
(***************************************************************************)
\* A movement of a receipt or a reversal adds the keys of its new items.
LEMMA MoveAddsKeys ==
    ASSUME NEW kind \in {"apply", "revert"}, NEW p \in Purchases, NEW q,
           Move(kind, p, q)
    PROVE  \A k \in {"apply", "revert"}, o \in Purchases, i \in Items :
             Key(k, o, i, 0) \in keys'
               <=> \/ Key(k, o, i, 0) \in keys
                   \/ k = kind /\ o = p /\ i \in Fresh(kind, p, q)
<1>1. keys' = keys \cup {Key(kind, p, i, q[i]) : i \in Fresh(kind, p, q)}
  BY DEF Move
<1>2. \A i \in Items : Key(kind, p, i, q[i]) = <<kind, p, i, 0>>
  BY DEF Key
<1>3. Fresh(kind, p, q) \subseteq Items
  BY DEF Fresh
<1>4. keys' = keys \cup {<<kind, p, i, 0>> : i \in Fresh(kind, p, q)}
  BY <1>1, <1>2, <1>3
<1>5. \A k \in {"apply", "revert"}, o \in Purchases, i \in Items : Key(k, o, i, 0) = <<k, o, i, 0>>
  BY DEF Key
<1> HIDE DEF Fresh
<1> QED
  BY <1>4, <1>5

\* And changes the sums of its purchase by its new items.
LEMMA MoveAddsNet ==
    ASSUME TypeOK, NEW kind, NEW p \in Purchases, NEW q \in [Items -> Int],
           Move(kind, p, q)
    PROVE  /\ \A i \in Items : net'[p][i] =
                net[p][i] + (IF i \in Fresh(kind, p, q) THEN q[i] ELSE 0)
           /\ \A o \in Purchases \ {p} : net'[o] = net[o]
<1>1. net' = [net EXCEPT ![p] =
         [i \in Items |-> net[p][i] + (IF i \in Fresh(kind, p, q) THEN q[i] ELSE 0)]]
  BY DEF Move
<1> QED
  BY <1>1 DEF TypeOK

\* Over the row it was loaded from, an UPDATE leaves what the handler wrote.
LEMMA MergedAlone ==
    ASSUME NEW row \in Row, NEW new \in Row, new.ordered = row.ordered
    PROVE  Merged(row, new, row) = new
<1> DEFINE m == Merged(row, new, row)
<1>1. m \in Row /\ m.status = new.status /\ m.delivery = new.delivery
      /\ m.delivered = new.delivered /\ m.ordered = new.ordered
      /\ m.received = [i \in Items |-> new.received[i]]
  BY MergedRow DEF Column, Row
<1>2. m.received = new.received
  BY <1>1 DEF Row
<1>3. \A x \in Row : x = [status |-> x.status, delivery |-> x.delivery,
                        delivered |-> x.delivered, ordered |-> x.ordered,
                        received |-> x.received]
  BY DEF Row
<1> HIDE DEF m
<1>4. m = [status |-> m.status, delivery |-> m.delivery, delivered |-> m.delivered,
           ordered |-> m.ordered, received |-> m.received]
  BY <1>1, <1>3
<1> QED
  BY <1>1, <1>2, <1>3, <1>4 DEF m

\* Saving a row with the lines it was loaded with leaves the lines alone.
LEMMA SaveKeepsLines ==
    ASSUME ReceiptInv, NEW s \in Sessions, req[s] # None, NEW new \in Row,
           new.ordered = View(s).ordered, new.received = View(s).received,
           Save(s, new), Succeed(s), ready' = ready
    PROVE  LET old == tp[req[s].p]
               now == tp'[req[s].p]
           IN  /\ LinesInv'
               /\ \A p \in Purchases, i \in Items :
                     LineQty(tp[p], i)' = LineQty(tp[p], i)
               /\ \A t \in Sessions :
                     req'[t] # None => t # s /\ req'[t] = req[t]
               /\ \A p \in Purchases \ {req[s].p} : tp'[p] = tp[p]
               /\ now.delivered = Column(View(s).delivered, new.delivered, old.delivered)
               /\ now.delivery = Column(View(s).delivery, new.delivery, old.delivery)
               /\ Alone(req[s].p) => now = new
<1> DEFINE p == req[s].p
<1>1. /\ TypeOK /\ LinesInv
      /\ p \in Purchases /\ View(s) \in Row /\ tp[p] \in Row
  BY ViewTyped DEF ReceiptInv
<1>2. /\ tp' \in [Purchases -> Row]
      /\ tp'[p] = Merged(View(s), new, tp[p])
      /\ \A o \in Purchases \ {p} : tp'[o] = tp[o]
  BY <1>1, SaveTyped
<1>3. /\ tp'[p].delivered = Column(View(s).delivered, new.delivered, tp[p].delivered)
      /\ tp'[p].delivery = Column(View(s).delivery, new.delivery, tp[p].delivery)
      /\ tp'[p].ordered = tp[p].ordered
      /\ tp'[p].received = [i \in Items |-> Column(View(s).received[i],
                              new.received[i], tp[p].received[i])]
  BY <1>1, <1>2, MergedRow
<1>4. tp'[p].received = tp[p].received
  BY <1>1, <1>3 DEF Column, Row
<1>5. \A t \in Sessions : req'[t] # None => t # s /\ req'[t] = req[t]
  BY <1>1 DEF Succeed, TypeOK
<1>6. \A o \in Purchases :
         tp'[o].ordered = tp[o].ordered /\ tp'[o].received = tp[o].received
  BY <1>2, <1>3, <1>4
<1>7. LinesInv'
  <2>1. \A t \in Sessions : req[t] # None => req[t].p \in Purchases
    BY <1>1, ViewTyped
  <2>2. \A t \in Sessions : req[t] # None /\ Alone(req[t].p) /\ t # s => req[t].p # p
    BY <1>1 DEF LinesInv, Alone
  <2>3. \A t \in Sessions : req'[t] # None => View(t)' = View(t) /\ req'[t].p = req[t].p
    BY <1>5 DEF View
  <2>4. \A t \in Sessions : req'[t] # None /\ Alone(req[t].p) => View(t)' = tp'[req[t].p]
    BY <1>1, <1>2, <1>5, <2>1, <2>2, <2>3 DEF LinesInv
  <2> HIDE DEF Alone
  <2> QED
    BY <1>1, <1>5, <1>6, <2>1, <2>3, <2>4 DEF LinesInv
<1>8. \A o \in Purchases, i \in Items : LineQty(tp[o], i)' = LineQty(tp[o], i)
  BY <1>6 DEF LineQty
<1>9. Alone(p) => tp'[p] = new
  BY <1>1, <1>2, MergedAlone DEF LinesInv
<1> QED
  BY <1>2, <1>3, <1>5, <1>7, <1>8, <1>9

\* A handler that moves nothing and does not touch the delivery of goods.
LEMMA QuietStep ==
    ASSUME ReceiptInv, NEW s \in Sessions, req[s] # None, NEW new \in Row,
           new.ordered = View(s).ordered, new.received = View(s).received,
           Save(s, new), Succeed(s), ready' = ready, UNCHANGED goods,
           new.delivered = View(s).delivered,
           new.delivery \in {View(s).delivery, "pending", "dispatched", "in_transit",
                             "arrived", "cancelled"},
           View(s).delivery = "stock_committed" /\ View(s).delivered
             => new.delivery = "stock_committed",
           new.status \in Closed => ~ new.delivered
    PROVE  LinesInv' /\ WholeInv' /\ RowInv' /\ ViewInv'
<1> DEFINE p == req[s].p
<1>1. TypeOK /\ LinesInv /\ WholeInv /\ RowInv /\ ViewInv /\ p \in Purchases
  BY ViewTyped DEF ReceiptInv
<1>2. /\ LinesInv'
      /\ \A o \in Purchases, i \in Items : LineQty(tp[o], i)' = LineQty(tp[o], i)
      /\ \A t \in Sessions : req'[t] # None => t # s /\ req'[t] = req[t]
      /\ \A o \in Purchases \ {p} : tp'[o] = tp[o]
      /\ tp'[p].delivered = Column(View(s).delivered, new.delivered, tp[p].delivered)
      /\ tp'[p].delivery = Column(View(s).delivery, new.delivery, tp[p].delivery)
      /\ Alone(p) => tp'[p] = new
  BY SaveKeepsLines
<1>3. /\ \A o \in Purchases : tp'[o].delivered = tp[o].delivered
      /\ \A o \in Purchases : tp'[o].delivery = "stock_committed"
                                => tp[o].delivery = "stock_committed"
  BY <1>2 DEF Column
<1>4. \A o \in Purchases : /\ Applied(o)' = Applied(o)
                           /\ Reverted(o)' = Reverted(o)
  BY DEF goods, Applied, Reverted
<1>5. WholeInv'
  BY <1>1, <1>2, <1>4 DEF WholeInv, goods
<1>6. RowInv'
  <2>1. Alone(p) => View(s) = tp[p]
    BY <1>1 DEF LinesInv
  <2>2. Alone(p) /\ tp'[p].delivered => /\ tp'[p].delivery = "stock_committed"
                                       /\ tp'[p].status \notin Closed
    BY <1>1, <1>2, <2>1 DEF RowInv
  <2> HIDE DEF Alone, Closed
  <2> QED
    BY <1>1, <1>2, <1>3, <1>4, <2>2 DEF RowInv
<1>7. ViewInv'
  <2>1. \A t \in Sessions : req[t] # None => req[t].p \in Purchases
    BY <1>1, ViewTyped
  <2> QED
    BY <1>1, <1>2, <1>3, <1>4, <2>1 DEF ViewInv, View
<1> QED
  BY <1>2, <1>5, <1>6, <1>7

\* A step adds no keys, or the receipt's or the reversal's of one purchase.
SameKeys(p) == Applied(p)' = Applied(p) /\ Reverted(p)' = Reverted(p)

Forward(p) ==
    /\ Applied(p) => Applied(p)'
    /\ Reverted(p) => Reverted(p)'
    /\ Reverted(p)' => Applied(p)
    /\ \A o \in Purchases \ {p} : SameKeys(o)

SameLines == \A p \in Purchases, i \in Items : LineQty(tp[p], i)' = LineQty(tp[p], i)

\* What is received is not counted anew.
ReceivedLines ==
    \A p \in Purchases : Applied(p) /\ ~ Reverted(p) =>
        \A i \in Items : LineQty(tp[p], i)' = LineQty(tp[p], i)

\* What the movements of a receipt or a reversal do to keys and sums.
LEMMA GoodsStep ==
    ASSUME TypeOK, NEW kind \in {"apply", "revert"}, NEW p \in Purchases,
           NEW q \in [Items -> Int], Move(kind, p, q),
           NEW new, new = Fresh(kind, p, q)
    PROVE  /\ \A i \in Items : net'[p][i] = net[p][i] + (IF i \in new THEN q[i] ELSE 0)
           /\ \A o \in Purchases \ {p} : net'[o] = net[o] /\ SameKeys(o)
           /\ \A o \in Purchases \ {p}, i \in Items, k \in {"apply", "revert"} :
                 Key(k, o, i, 0) \in keys' <=> Key(k, o, i, 0) \in keys
           /\ \A i \in Items, k \in {"apply", "revert"} :
                 Key(k, p, i, 0) \in keys'
                   <=> Key(k, p, i, 0) \in keys \/ (k = kind /\ i \in new)
<1>1. \A k \in {"apply", "revert"}, o \in Purchases, i \in Items :
         Key(k, o, i, 0) \in keys'
           <=> \/ Key(k, o, i, 0) \in keys
               \/ k = kind /\ o = p /\ i \in new
  BY MoveAddsKeys
<1>2. \A o \in Purchases \ {p}, i \in Items, k \in {"apply", "revert"} :
         Key(k, o, i, 0) \in keys' <=> Key(k, o, i, 0) \in keys
  BY <1>1
<1>3. \A o \in Purchases \ {p} : SameKeys(o)
  <2> TAKE o \in Purchases \ {p}
  <2>1. Applied(o)' <=> \E i \in Items : Key("apply", o, i, 0) \in keys'
    BY DEF Applied, Key
  <2>2. Reverted(o)' <=> \E i \in Items : Key("revert", o, i, 0) \in keys'
    BY DEF Reverted, Key
  <2>3. Applied(o)' <=> Applied(o)
    BY <1>2, <2>1 DEF Applied
  <2>4. Reverted(o)' <=> Reverted(o)
    BY <1>2, <2>2 DEF Reverted
  <2> QED
    BY <2>3, <2>4 DEF SameKeys, Applied, Reverted
<1>4. /\ \A i \in Items : net'[p][i] = net[p][i] + (IF i \in new THEN q[i] ELSE 0)
      /\ \A o \in Purchases \ {p} : net'[o] = net[o]
  <2>1. /\ \A i \in Items : net'[p][i] =
             net[p][i] + (IF i \in Fresh(kind, p, q) THEN q[i] ELSE 0)
        /\ \A o \in Purchases \ {p} : net'[o] = net[o]
    BY ONLY TypeOK, Move(kind, p, q), p \in Purchases, q \in [Items -> Int], MoveAddsNet
  <2> QED
    BY <2>1
<1>5. \A i \in Items, k \in {"apply", "revert"} :
         Key(k, p, i, 0) \in keys'
           <=> Key(k, p, i, 0) \in keys \/ (k = kind /\ i \in new)
  BY <1>1
<1>6. \A o \in Purchases \ {p} : net'[o] = net[o] /\ SameKeys(o)
  BY <1>3, <1>4
<1> HIDE DEF SameKeys
<1> QED
  BY <1>2, <1>4, <1>5, <1>6

\* The first commit that finds no key receives every line.
LEMMA CommitStep ==
    ASSUME ReceiptInv, NEW s \in Sessions, req[s] # None,
           NEW p \in Purchases, p = req[s].p,
           CommitNew(s, Committed(View(s))), Succeed(s), ready' = ready
    PROVE  /\ LinesInv' /\ WholeInv' /\ RowInv' /\ ViewInv'
           /\ Forward(p) /\ SameLines
<1> DEFINE new == Committed(View(s))
           q == Incoming(s)
<1>1. TypeOK /\ LinesInv /\ WholeInv /\ RowInv /\ ViewInv
      /\ tp[p] \in Row /\ View(s) \in Row
  BY ViewTyped DEF ReceiptInv
<1>2. /\ new \in Row /\ new.ordered = View(s).ordered
      /\ new.received = View(s).received /\ new.delivered = TRUE
      /\ new.delivery = "stock_committed"
  BY <1>1, WrittenRows DEF Committed, Row
<1>3. /\ LinesInv'
      /\ SameLines
      /\ \A t \in Sessions : req'[t] # None => t # s /\ req'[t] = req[t]
      /\ \A o \in Purchases \ {p} : tp'[o] = tp[o]
      /\ tp'[p].delivered = Column(View(s).delivered, new.delivered, tp[p].delivered)
      /\ tp'[p].delivery = Column(View(s).delivery, new.delivery, tp[p].delivery)
      /\ Alone(p) => tp'[p] = new
  BY <1>2, SaveKeepsLines DEF CommitNew, SameLines
<1>4. ~ Applied(p) /\ View(s).delivery # "stock_committed"
  BY DEF CommitNew
<1>5. ~ Reverted(p) /\ ~ View(s).delivered
  BY <1>1, <1>4 DEF WholeInv, ViewInv
<1>6. tp'[p].delivered = TRUE /\ tp'[p].delivery = "stock_committed"
  BY <1>1, <1>2, <1>3, <1>4, <1>5 DEF Column
<1>7. \A i \in Items : q[i] = LineQty(tp[p], i) /\ LineQty(tp[p], i) \in Nat
  BY <1>1, LineQtyNat DEF Incoming, LineQty, LinesInv
<1>8. Fresh("apply", p, q) = {i \in Items : LineQty(tp[p], i) > 0}
  <2>1. \A i \in Items : Key("apply", p, i, q[i]) = Key("apply", p, i, 0)
    BY DEF Key
  <2> HIDE DEF q
  <2> QED
    BY <1>4, <1>7, <2>1 DEF Fresh, Applied
<1>9. q \in [Items -> Int] /\ Move("apply", p, q)
  BY <1>1, LineQtyNat DEF Incoming, CommitNew
<1>10. PICK j \in Items : LineQty(tp[p], j) > 0
  BY <1>7 DEF CommitNew
<1> HIDE DEF q
<1>11. /\ \A i \in Items : net'[p][i] = net[p][i]
             + (IF LineQty(tp[p], i) > 0 THEN q[i] ELSE 0)
       /\ \A o \in Purchases \ {p} : net'[o] = net[o] /\ SameKeys(o)
       /\ \A o \in Purchases \ {p}, i \in Items, k \in {"apply", "revert"} :
             Key(k, o, i, 0) \in keys' <=> Key(k, o, i, 0) \in keys
       /\ \A i \in Items : /\ Key("apply", p, i, 0) \in keys'
                                <=> LineQty(tp[p], i) > 0
                           /\ Key("revert", p, i, 0) \notin keys'
  BY <1>1, <1>4, <1>5, <1>8, <1>9, GoodsStep DEF Applied, Reverted
<1>12. Applied(p)' /\ ~ Reverted(p)'
  BY <1>10, <1>11 DEF Applied, Reverted, Key
<1>13. Forward(p)
  BY <1>4, <1>5, <1>11, <1>12 DEF Forward
<1>14. WholeInv'
  <2>1. ASSUME NEW o \in Purchases, o # p
        PROVE  /\ Reverted(o)' => Applied(o)'
               /\ ~ (Reverted(o)' /\ Alone(o)) => \A i \in Items :
                    /\ Key("apply", o, i, 0) \in keys'
                         <=> Applied(o)' /\ LineQty(tp[o], i) > 0
                    /\ Key("revert", o, i, 0) \in keys'
                         <=> Reverted(o)' /\ LineQty(tp[o], i) > 0
               /\ \A i \in Items :
                    /\ net'[o][i] = IF Applied(o)' /\ ~ Reverted(o)'
                                    THEN LineQty(tp[o], i) ELSE 0
    BY <1>1, <1>11, <2>1 DEF WholeInv, SameKeys
  <2>2. \A i \in Items : net'[p][i] = LineQty(tp[p], i)
    BY <1>1, <1>4, <1>7, <1>11 DEF WholeInv
  <2> QED
    BY <1>3, <1>11, <1>12, <2>1, <2>2 DEF WholeInv, SameLines, Key
<1>15. RowInv'
  <2>1. \A o \in Purchases \ {p} : tp'[o] = tp[o] /\ SameKeys(o)
    BY <1>3, <1>11
  <2>2. Alone(p) => tp'[p].status \notin Closed
    BY <1>1, <1>2, <1>3 DEF CommitNew, Committed, Closed, Row
  <2> HIDE DEF Alone, Closed
  <2> QED
    BY <1>1, <1>6, <1>12, <2>1, <2>2 DEF RowInv, SameKeys
<1>16. ViewInv'
  <2>1. \A t \in Sessions : req[t] # None => req[t].p \in Purchases
    BY <1>1, ViewTyped
  <2>2. \A t \in Sessions : req[t] # None /\ req[t].p = p => ~ View(t).delivered
    BY <1>1, <1>4 DEF ViewInv
  <2>3. ASSUME NEW t \in Sessions, req'[t] # None
        PROVE  /\ View(t)' = View(t) /\ req[t] # None /\ req'[t].p = req[t].p
               /\ View(t)'.delivered => Applied(req[t].p) /\ req[t].p # p
    BY <1>1, <1>3, <2>2, <2>3 DEF View, ViewInv
  <2> QED
    BY <1>1, <1>3, <1>11, <2>1, <2>3 DEF ViewInv, SameKeys, Applied
<1> QED
  BY <1>3, <1>13, <1>14, <1>15, <1>16

\* Whoever takes a delivery back takes all of it, unless that has been done.
LEMMA ReturnStep ==
    ASSUME ReceiptInv, NEW s \in Sessions, req[s] # None,
           NEW p \in Purchases, p = req[s].p,
           NEW new \in Row, new.ordered = View(s).ordered,
           new.received = View(s).received, new.delivered = FALSE,
           new.delivery \in {"pending", "cancelled"},
           View(s).delivered, TakeBack(p, View(s)),
           Save(s, new), Succeed(s), ready' = ready
    PROVE  /\ LinesInv' /\ WholeInv' /\ RowInv' /\ ViewInv'
           /\ Forward(p) /\ SameLines
<1> DEFINE q == [i \in Items |-> - LineQty(View(s), i)]
           back == {i \in Items : LineQty(tp[p], i) > 0 /\ ~ Reverted(p)}
<1>1. TypeOK /\ LinesInv /\ WholeInv /\ RowInv /\ ViewInv
      /\ tp[p] \in Row /\ View(s) \in Row
  BY ViewTyped DEF ReceiptInv
<1>2. /\ LinesInv'
      /\ SameLines
      /\ \A t \in Sessions : req'[t] # None => t # s /\ req'[t] = req[t]
      /\ \A o \in Purchases \ {p} : tp'[o] = tp[o]
      /\ tp'[p].delivered = Column(View(s).delivered, new.delivered, tp[p].delivered)
      /\ tp'[p].delivery = Column(View(s).delivery, new.delivery, tp[p].delivery)
  BY SaveKeepsLines DEF SameLines
<1>3. Applied(p) /\ ~ (Reverted(p) /\ Alone(p))
  BY <1>1 DEF ViewInv, LinesInv, RowInv
<1>4. tp'[p].delivered = FALSE /\ tp'[p].delivery # "stock_committed"
  BY <1>1, <1>2 DEF Column, ViewInv
<1>5. \A i \in Items : q[i] = - LineQty(tp[p], i) /\ LineQty(tp[p], i) \in Nat
  BY <1>1, LineQtyNat DEF LineQty, LinesInv
<1>6. Fresh("revert", p, q) = back
  <2>1. \A i \in Items : Key("revert", p, i, q[i]) = Key("revert", p, i, 0)
    BY DEF Key
  <2>2. \A i \in Items : Key("revert", p, i, 0) \in keys
                           <=> Reverted(p) /\ LineQty(tp[p], i) > 0
    BY <1>1, <1>3 DEF WholeInv
  <2> HIDE DEF q
  <2>3. \A i \in Items : i \in Fresh("revert", p, q) <=> i \in back
    BY <1>5, <2>1, <2>2 DEF Fresh
  <2> QED
    BY <2>3 DEF Fresh
<1>7. q \in [Items -> Int] /\ Move("revert", p, q)
  BY <1>1, LineQtyNat DEF TakeBack
<1>8. PICK j \in Items : LineQty(tp[p], j) > 0
  BY <1>1, <1>3 DEF WholeInv, Applied
<1> HIDE DEF q
<1>9. /\ \A i \in Items : net'[p][i] = net[p][i] + (IF i \in back THEN q[i] ELSE 0)
      /\ \A o \in Purchases \ {p} : net'[o] = net[o] /\ SameKeys(o)
      /\ \A o \in Purchases \ {p}, i \in Items, k \in {"apply", "revert"} :
            Key(k, o, i, 0) \in keys' <=> Key(k, o, i, 0) \in keys
      /\ \A i \in Items, k \in {"apply", "revert"} :
            Key(k, p, i, 0) \in keys'
              <=> Key(k, p, i, 0) \in keys \/ (k = "revert" /\ i \in back)
  <2> HIDE DEF back
  <2> QED
    BY <1>1, <1>6, <1>7, GoodsStep
<1>10. /\ \A i \in Items : Key("revert", p, i, 0) \in keys' <=> LineQty(tp[p], i) > 0
       /\ \A i \in Items : Key("apply", p, i, 0) \in keys' <=> LineQty(tp[p], i) > 0
  BY <1>1, <1>3, <1>9 DEF WholeInv
<1>11. Applied(p)' /\ Reverted(p)'
  BY <1>8, <1>10 DEF Applied, Reverted, Key
<1>12. Forward(p)
  BY <1>3, <1>9, <1>11 DEF Forward
<1>13. WholeInv'
  <2>1. ASSUME NEW o \in Purchases, o # p
        PROVE  /\ Reverted(o)' => Applied(o)'
               /\ ~ (Reverted(o)' /\ Alone(o)) => \A i \in Items :
                    /\ Key("apply", o, i, 0) \in keys'
                         <=> Applied(o)' /\ LineQty(tp[o], i) > 0
                    /\ Key("revert", o, i, 0) \in keys'
                         <=> Reverted(o)' /\ LineQty(tp[o], i) > 0
               /\ \A i \in Items :
                    /\ net'[o][i] = IF Applied(o)' /\ ~ Reverted(o)'
                                    THEN LineQty(tp[o], i) ELSE 0
    BY <1>1, <1>9, <2>1 DEF WholeInv, SameKeys
  <2>2. \A i \in Items : net'[p][i] = 0
    BY <1>1, <1>3, <1>5, <1>9 DEF WholeInv
  <2> QED
    BY <1>2, <1>10, <1>11, <2>1, <2>2 DEF WholeInv, SameLines, Key
<1>14. RowInv'
  <2>1. \A o \in Purchases \ {p} : tp'[o] = tp[o] /\ SameKeys(o)
    BY <1>2, <1>9
  <2> QED
    BY <1>1, <1>4, <1>11, <2>1 DEF RowInv, SameKeys
<1>15. ViewInv'
  <2>1. \A t \in Sessions : req[t] # None => req[t].p \in Purchases
    BY <1>1, ViewTyped
  <2>2. \A o \in Purchases : /\ Applied(o) => Applied(o)'
                             /\ tp'[o].delivery = "stock_committed"
                                  => tp[o].delivery = "stock_committed"
    BY <1>2, <1>4, <1>9, <1>11 DEF SameKeys
  <2> QED
    BY <1>1, <1>2, <2>1, <2>2 DEF ViewInv, View
<1> QED
  BY <1>2, <1>12, <1>13, <1>14, <1>15

\* A step that writes no row and no key leaves the invariant of the rows.
LEMMA RowsStay ==
    ASSUME ReceiptInv, UNCHANGED <<tp, net, keys, ready>>
    PROVE  /\ WholeInv' /\ RowInv' /\ SameLines
           /\ \A p \in Purchases : SameKeys(p)
           /\ \A p \in Purchases : Applied(p)' = Applied(p)
BY DEF ReceiptInv, WholeInv, RowInv, SameLines, SameKeys, Applied, Reverted, LineQty

\* Loading, aborting and what others do.
LEMMA OtherSteps ==
    ASSUME LinesHeld, ReceiptInv, TypeOK',
           \/ \E s \in Sessions : Abort(s)
           \/ \E s \in Sessions, p \in Purchases : \E op \in Ops[s][p] : Load(s, op, p)
           \/ \E s \in Sessions : Serves(s, "commit") /\ CommitAgain(s)
                                  /\ UNCHANGED <<tp, ready>> /\ Succeed(s)
           \/ \E i \in Items : Sell(i) \/ SetUnit(i)
           \/ UNCHANGED vars
    PROVE  /\ LinesInv' /\ WholeInv' /\ RowInv' /\ ViewInv'
           /\ \A p \in Purchases : SameKeys(p)
           /\ SameLines
<1>1. TypeOK /\ LinesInv /\ WholeInv /\ RowInv /\ ViewInv
  BY DEF ReceiptInv
<1>2. UNCHANGED <<tp, net, keys, ready>>
  BY <1>1 DEF Abort, Load, CommitAgain, Sell, SetUnit, vars, goods, LinesInv
<1>3. /\ WholeInv' /\ RowInv' /\ SameLines
      /\ \A p \in Purchases : SameKeys(p)
      /\ \A p \in Purchases : Applied(p)' = Applied(p)
  BY <1>2, RowsStay
<1>4. \A t \in Sessions : req[t] # None => req[t].p \in Purchases
  BY <1>1, ViewTyped
<1>5. ASSUME NEW t \in Sessions, req'[t] # None
      PROVE  \/ req[t] # None /\ req'[t] = req[t]
             \/ /\ req'[t].p \in Purchases /\ req'[t].op \in Ops[t][req'[t].p]
                /\ req'[t].row = tp[req'[t].p]
  BY <1>1, <1>5 DEF Abort, Load, Succeed, Sell, SetUnit, vars, TypeOK
<1>6. LinesInv'
  <2>1. \A t \in Sessions, p \in Purchases :
           Ops[t][p] \subseteq IF Alone(p) THEN CopyOps \cup {"verify"} ELSE CopyOps
    BY DEF LinesHeld
  <2> HIDE DEF Alone, CopyOps
  <2> QED
    BY <1>1, <1>2, <1>4, <1>5, <2>1 DEF LinesInv, View
<1>7. ViewInv'
  BY <1>1, <1>2, <1>3, <1>4, <1>5 DEF ViewInv, View, RowInv
<1> QED
  BY <1>3, <1>6, <1>7

Advances ==
    /\ ReceivedLines
    /\ \/ \A p \in Purchases : SameKeys(p)
       \/ \E p \in Purchases : Forward(p)

\* What every step of these requests preserves, and does.
Preserved == LinesInv' /\ WholeInv' /\ RowInv' /\ ViewInv' /\ Advances

\* Handlers that move nothing.
LEMMA QuietHandlers ==
    ASSUME ReceiptInv, NEW s \in Sessions, req[s] # None, View(s) \in Row,
           \/ Dispatch(s) \/ Arrive(s) \/ Pay(s)
           \/ Revert(s) /\ ~ View(s).delivered
           \/ Cancel(s) /\ ~ View(s).delivered
    PROVE  Preserved
<1> DEFINE quiet(new) ==
             /\ new \in Row /\ new.ordered = View(s).ordered
             /\ new.received = View(s).received
             /\ new.delivered = View(s).delivered
             /\ new.delivery \in {View(s).delivery, "pending", "dispatched", "in_transit",
                                  "arrived", "cancelled"}
             /\ View(s).delivery = "stock_committed" /\ View(s).delivered
                  => new.delivery = "stock_committed"
             /\ new.status \in Closed => ~ new.delivered
             /\ Save(s, new) /\ Succeed(s) /\ UNCHANGED goods /\ ready' = ready
<1>1. ASSUME NEW new, quiet(new) PROVE Preserved
  <2>1. LinesInv' /\ WholeInv' /\ RowInv' /\ ViewInv'
    BY <1>1, QuietStep
  <2>2. SameLines
    BY <1>1, SaveKeepsLines DEF SameLines
  <2>3. \A p \in Purchases : SameKeys(p)
    BY <1>1 DEF SameKeys, Applied, Reverted, goods
  <2> QED
    BY <2>1, <2>2, <2>3 DEF Preserved, Advances, SameLines, ReceivedLines
<1>2. CASE Dispatch(s)
  <2>1. PICK d \in {"in_transit", "dispatched"} :
           Save(s, [View(s) EXCEPT !.delivery = d])
    BY <1>2 DEF Dispatch
  <2>2. [View(s) EXCEPT !.delivery = d] \in Row
    BY WrittenRows DEF Deliveries
  <2>3. quiet([View(s) EXCEPT !.delivery = d])
    BY <1>2, <2>1, <2>2 DEF Dispatch, Row
  <2> QED
    BY <1>1, <2>3
<1>3. CASE Arrive(s)
  <2>1. [View(s) EXCEPT !.delivery = "arrived"] \in Row
    BY WrittenRows DEF Deliveries
  <2>2. quiet([View(s) EXCEPT !.delivery = "arrived"])
    BY <1>3, <2>1 DEF Arrive, Row
  <2> QED
    BY <1>1, <2>2
<1>4. CASE Pay(s)
  <2>1. PICK status \in PaidStatuses(View(s).status) :
           Save(s, [View(s) EXCEPT !.status = status])
    BY <1>4 DEF Pay
  <2>2. status \in Statuses
    BY DEF PaidStatuses, Statuses
  <2>3. quiet([View(s) EXCEPT !.status = status])
    BY <1>4, <2>1, <2>2, WrittenRows DEF Pay, Row, PaidStatuses, Closed
  <2> QED
    BY <1>1, <2>3
<1>5. CASE Revert(s) /\ ~ View(s).delivered
  <2>1. quiet([View(s) EXCEPT !.delivered = FALSE, !.delivery = "pending"])
    BY <1>5, WrittenRows DEF Revert, Row
  <2> QED
    BY <1>1, <2>1
<1>6. CASE Cancel(s) /\ ~ View(s).delivered
  <2>1. ~ WasDelivered(View(s))
    BY <1>6 DEF ReceiptInv, ViewInv, WasDelivered
  <2>2. quiet([View(s) EXCEPT !.status = "cancelled", !.delivered = FALSE,
                              !.delivery = "cancelled"])
    BY <1>6, <2>1, WrittenRows DEF Cancel, CloseAs, Closed, Row
  <2> QED
    BY <1>1, <2>2
<1> QED
  BY <1>2, <1>3, <1>4, <1>5, <1>6

\* Handlers that take a delivery back.
LEMMA ReturningHandlers ==
    ASSUME ReceiptInv, NEW s \in Sessions, req[s] # None, View(s) \in Row,
           Revert(s) \/ Cancel(s), View(s).delivered
    PROVE  Preserved
<1>1. PICK p \in Purchases : p = req[s].p
  BY ViewTyped DEF ReceiptInv
<1> DEFINE back(new) ==
             /\ new \in Row /\ new.ordered = View(s).ordered
             /\ new.received = View(s).received /\ new.delivered = FALSE
             /\ new.delivery \in {"pending", "cancelled"}
             /\ TakeBack(p, View(s)) /\ Save(s, new) /\ Succeed(s) /\ ready' = ready
<1>2. ASSUME NEW new, back(new) PROVE Preserved
  BY <1>1, <1>2, ReturnStep DEF Preserved, Advances, SameLines, ReceivedLines
<1>3. CASE Revert(s)
  <2>1. back([View(s) EXCEPT !.delivered = FALSE, !.delivery = "pending"])
    BY <1>1, <1>3, WrittenRows DEF Revert, Row
  <2> QED
    BY <1>2, <2>1
<1>4. CASE Cancel(s)
  <2>1. back([View(s) EXCEPT !.status = "cancelled", !.delivered = FALSE,
                             !.delivery = "cancelled"])
    BY <1>1, <1>4, WrittenRows DEF Cancel, CloseAs, Closed, WasDelivered, Row
  <2> QED
    BY <1>2, <2>1
<1> QED
  BY <1>3, <1>4

\* A count by a session alone finds goods that are not in stock.
LEMMA VerifyStep ==
    ASSUME ReceiptInv, TypeOK', NEW s \in Sessions, Verify(s), Alone(req[s].p)
    PROVE  Preserved
<1>1. PICK p \in Purchases : p = req[s].p
  BY ViewTyped DEF ReceiptInv, Verify, Serves
<1>2. /\ TypeOK /\ LinesInv /\ WholeInv /\ RowInv /\ ViewInv
      /\ req[s] # None /\ req[s] \in Request /\ View(s) \in Row
      /\ View(s) = tp[p] /\ View(s).delivery \in {"arrived", "staff_verifying"}
      /\ View(s).status \notin Closed
      /\ UNCHANGED <<stock, net, keys, ready>>
  BY <1>1, ViewTyped DEF ReceiptInv, LinesInv, Verify, Serves, goods
<1>3. ~ tp[p].delivered /\ (Applied(p) => Reverted(p))
  BY <1>1, <1>2 DEF RowInv
<1>4. PICK counted \in UNION {[D -> 0 .. MaxQty] : D \in SUBSET Lines(View(s))} :
        LET new == Entered(View(s), counted)
        IN  /\ Save(s, new)
            /\ IF new.delivery = "staff_verified"
               THEN /\ req' = [req EXCEPT ![s].op = "commit", ![s].row = new]
                    /\ UNCHANGED answer
               ELSE Succeed(s)
  BY DEF Verify
<1> DEFINE new == Entered(View(s), counted)
<1>5. /\ new \in Row /\ new.ordered = View(s).ordered /\ ~ new.delivered
      /\ new.delivery # "stock_committed"
  BY <1>1, <1>2, <1>3, EnteredRow DEF Entered, Row
<1> HIDE DEF new
<1>6. /\ tp'[p] = new
      /\ \A o \in Purchases \ {p} : tp'[o] = tp[o]
  BY <1>1, <1>2, <1>4, <1>5, SaveTyped, MergedAlone DEF new
<1>7. \A t \in Sessions \ {s} : req'[t] = req[t] /\ (req[t] # None => req[t].p # p)
  BY <1>1, <1>2, <1>4 DEF LinesInv, Alone, Succeed, TypeOK, new
<1>8. req'[s] # None => req'[s].p = p /\ req'[s].op = "commit" /\ View(s)' = new
  BY <1>1, <1>2, <1>4 DEF Succeed, TypeOK, View, Request, new
<1>9. \A t \in Sessions : req[t] # None => req[t].p \in Purchases
  BY <1>2, ViewTyped
<1>10. \A t \in Sessions \ {s} : req'[t] # None => View(t)' = View(t)
  BY <1>7 DEF View
<1>11. \A o \in Purchases : SameKeys(o)
  BY <1>2 DEF SameKeys, Applied, Reverted
<1>12. \A o \in Purchases \ {p}, i \in Items : LineQty(tp[o], i)' = LineQty(tp[o], i)
  BY <1>2, <1>6 DEF LineQty
<1>13. LinesInv'
  <2>1. Ops[s][p] # {} /\ "commit" \in CopyOps
    BY <1>1, <1>2 DEF LinesInv, CopyOps
  <2> HIDE DEF Alone, CopyOps
  <2> QED
    BY <1>1, <1>2, <1>6, <1>7, <1>8, <1>9, <1>10, <2>1 DEF LinesInv
<1>14. WholeInv'
  <2>1. Applied(p)' = Applied(p) /\ Reverted(p)' = Reverted(p)
    BY <1>11 DEF SameKeys
  <2>2. \A i \in Items : ~ Reverted(p)' =>
           /\ Key("apply", p, i, 0) \in keys'
                <=> Applied(p)' /\ LineQty(tp[p], i)' > 0
           /\ Key("revert", p, i, 0) \in keys'
                <=> Reverted(p)' /\ LineQty(tp[p], i)' > 0
    BY <1>2, <1>3, <2>1 DEF Applied, Reverted, Key
  <2>3. \A i \in Items : net'[p][i] = 0
    BY <1>2, <1>3 DEF WholeInv
  <2>4. ASSUME NEW o \in Purchases, o # p
        PROVE  /\ Reverted(o)' => Applied(o)'
               /\ ~ (Reverted(o)' /\ Alone(o)) => \A i \in Items :
                    /\ Key("apply", o, i, 0) \in keys'
                         <=> Applied(o)' /\ LineQty(tp[o], i)' > 0
                    /\ Key("revert", o, i, 0) \in keys'
                         <=> Reverted(o)' /\ LineQty(tp[o], i)' > 0
               /\ \A i \in Items : net'[o][i] = IF Applied(o)' /\ ~ Reverted(o)'
                                                THEN LineQty(tp[o], i)' ELSE 0
    BY <1>2, <1>11, <1>12, <2>4 DEF WholeInv, SameKeys
  <2>5. Reverted(p)' => Applied(p)'
    BY <1>2, <2>1 DEF WholeInv
  <2>6. \A i \in Items : net'[p][i] = IF Applied(p)' /\ ~ Reverted(p)'
                                     THEN LineQty(tp[p], i)' ELSE 0
    BY <1>3, <2>1, <2>3
  <2>7. /\ Reverted(p)' => Applied(p)'
        /\ ~ (Reverted(p)' /\ Alone(p)) => \A i \in Items :
             /\ Key("apply", p, i, 0) \in keys'
                  <=> Applied(p)' /\ LineQty(tp[p], i)' > 0
             /\ Key("revert", p, i, 0) \in keys'
                  <=> Reverted(p)' /\ LineQty(tp[p], i)' > 0
        /\ \A i \in Items : net'[p][i] = IF Applied(p)' /\ ~ Reverted(p)'
                                         THEN LineQty(tp[p], i)' ELSE 0
    BY <1>1, <2>2, <2>5, <2>6
  <2>8. \A k \in {"apply", "revert"}, o \in Purchases, i \in Items :
           Key(k, o, i, 0)' = Key(k, o, i, 0)
    BY DEF Key
  <2>9. \A o \in Purchases : Alone(o)' = Alone(o)
    BY DEF Alone
  <2> HIDE DEF Alone
  <2> QED
    BY <2>4, <2>7, <2>8, <2>9 DEF WholeInv
<1>15. RowInv'
  <2> HIDE DEF Alone, Closed
  <2> QED
    BY <1>2, <1>3, <1>5, <1>6, <1>11 DEF RowInv, SameKeys
<1>16. ViewInv'
  BY <1>2, <1>5, <1>6, <1>7, <1>8, <1>9, <1>10, <1>11 DEF ViewInv, SameKeys
<1>17. Advances
  BY <1>3, <1>11, <1>12 DEF Advances, ReceivedLines
<1> QED
  BY <1>13, <1>14, <1>15, <1>16, <1>17 DEF Preserved

\* Every step keeps the invariant.
LEMMA ReceiptStep ==
    LinesHeld /\ ReceiptInv /\ [Next]_vars => ReceiptInv' /\ Advances
<1> SUFFICES ASSUME LinesHeld, ReceiptInv, [Next]_vars
             PROVE  ReceiptInv' /\ Advances
  OBVIOUS
<1>1. TypeOK /\ LinesInv /\ TypeOK'
  BY TypeStep DEF ReceiptInv
<1>2. ASSUME NEW s \in Sessions, Finish(s) PROVE Preserved
  <2>1. req[s] # None /\ View(s) \in Row /\ req[s].p \in Purchases
        /\ req[s].op \in IF Alone(req[s].p) THEN CopyOps \cup {"verify"} ELSE CopyOps
    BY <1>1, <1>2, ViewTyped
       DEF Finish, Serves, Dispatch, Arrive, Verify, Commit, Revert,
           Cancel, Delete, Edit, Pay, Transition, LinesInv
  <2>2. \/ Dispatch(s) \/ Arrive(s) \/ Commit(s) \/ Revert(s) \/ Cancel(s) \/ Pay(s)
        \/ Verify(s) /\ Alone(req[s].p)
    BY <1>2, <2>1 DEF Finish, CopyOps, Serves, Verify, Delete, Edit, Transition
  <2>3. CASE Commit(s)
    <3>1. CASE CommitNew(s, Committed(View(s)))
      BY <2>1, <2>3, <3>1, CommitStep
         DEF Commit, Preserved, Advances, SameLines, ReceivedLines
    <3>2. CASE CommitAgain(s) /\ UNCHANGED tp
      BY <1>1, <2>3, <3>2, OtherSteps
         DEF Commit, Preserved, Advances, SameLines, ReceivedLines
    <3> QED
      BY <2>3, <3>1, <3>2 DEF Commit
  <2> QED
    BY <1>1, <2>1, <2>2, <2>3, QuietHandlers, ReturningHandlers, VerifyStep
<1>3. CASE \/ \E s \in Sessions : Abort(s)
           \/ \E s \in Sessions, p \in Purchases : \E op \in Ops[s][p] : Load(s, op, p)
           \/ \E i \in Items : Sell(i) \/ SetUnit(i)
           \/ UNCHANGED vars
  BY <1>1, <1>3, OtherSteps DEF Preserved, Advances, ReceiptInv, SameLines, ReceivedLines
<1>4. CASE \E s \in Sessions : Finish(s)
  BY <1>1, <1>2, <1>4 DEF Preserved, ReceiptInv
<1> QED
  BY <1>3, <1>4 DEF Next

\* At the start nothing has come in.
LEMMA InitReceipt == LinesHeld /\ Init => ReceiptInv
<1> SUFFICES ASSUME LinesHeld, Init PROVE ReceiptInv
  OBVIOUS
<1>1. TypeOK
  BY InitTyped
<1>2. \A p \in Purchases : tp[p] \in Row /\ ~ tp[p].delivered
                           /\ tp[p].delivery # "stock_committed"
  BY RowsAssumption DEF Init
<1>3. \A p \in Purchases : ~ Applied(p) /\ ~ Reverted(p)
  BY DEF Init, Applied, Reverted
<1> QED
  BY <1>1, <1>2, <1>3
     DEF Init, ReceiptInv, LinesInv, WholeInv, RowInv, ViewInv, LinesHeld

\* The inductive invariant of deliveries whose lines are held.
LEMMA ReceiptHolds == LinesHeld /\ Spec => []ReceiptInv
<1>1. CASE LinesHeld
  <2>1. Init => ReceiptInv
    BY <1>1, InitReceipt
  <2>2. ReceiptInv /\ [Next]_vars => ReceiptInv'
    BY <1>1, ReceiptStep
  <2> QED
    BY <2>1, <2>2, PTL DEF Spec
<1> QED
  BY <1>1

\* As long as lines are not edited, and are counted only while no other session
\* works on the purchase, and units are set up, the stock movements of a
\* purchase add up to what its row says, however many requests dispatch,
\* receive, revert, cancel and pay it on copies read before the others wrote
\* (stock_inventory.py:542-667, trade_purchase_service.py:1818-2384).
THEOREM NetFollowsRow == LinesHeld /\ Spec => []NetMatches
<1>1. ReceiptInv => NetMatches
  BY DEF ReceiptInv, WholeInv, RowInv, NetMatches
<1> QED
  BY <1>1, ReceiptHolds, PTL

\* Under the same condition no reversal takes out what the receipt did not
\* put in (stock_inventory.py:607-667).
THEOREM NothingOverdrawn == LinesHeld /\ Spec => []NeverOverdrawn
<1>1. ReceiptInv => NeverOverdrawn
  <2> SUFFICES ASSUME ReceiptInv, NEW p \in Purchases, NEW i \in Items
               PROVE  net[p][i] >= 0
    BY DEF NeverOverdrawn
  <2>1. LineQty(tp[p], i) \in Nat
    BY LineQtyNat DEF ReceiptInv, TypeOK
  <2>2. net[p][i] = IF Applied(p) /\ ~ Reverted(p) THEN LineQty(tp[p], i) ELSE 0
    BY DEF ReceiptInv, WholeInv
  <2> QED
    BY <2>1, <2>2
<1> QED
  BY <1>1, ReceiptHolds, PTL

\* And the row is delivered exactly in the delivery status from which the
\* delivery can be taken back (stock_inventory.py:542-667,
\* trade_purchase_service.py:2192-2384).
THEOREM DeliveredFromCommit == LinesHeld /\ Spec => []DeliveredCommittedAlone
<1>1. ReceiptInv => DeliveredCommittedAlone
  BY DEF ReceiptInv, RowInv, DeliveredCommittedAlone
<1> QED
  BY <1>1, ReceiptHolds, PTL

-----------------------------------------------------------------------------
(***************************************************************************)
(* Deliveries whose lines are held implement Receipt.                      *)
(***************************************************************************)
\* Where a purchase stands, as its keys say.
StageOf(p) == IF ~ Applied(p) THEN "awaited"
              ELSE IF Reverted(p) THEN "returned" ELSE "received"

\* The mapping of the refinement agrees with the keys.
LEMMA StageIs == ReceiptInv => stage = [p \in Purchases |-> StageOf(p)]
<1> SUFFICES ASSUME ReceiptInv
             PROVE  stage = [p \in Purchases |-> StageOf(p)]
  OBVIOUS
<1>1. \A p \in Purchases :
         (CASE ~ Applied(p) -> "awaited"
            [] Applied(p) /\ tp[p].delivered -> "received"
            [] OTHER -> "returned") = StageOf(p)
  BY DEF ReceiptInv, RowInv, StageOf
<1> QED
  BY <1>1 DEF stage

\* The first receipt, and the only reversal, of one purchase.
LEMMA ReceiptRefined ==
    ASSUME TypeOK, TypeOK', WholeInv, WholeInv', Advances,
           stage = [p \in Purchases |-> StageOf(p)],
           stage' = [p \in Purchases |-> StageOf(p)']
    PROVE  R!Next \/ UNCHANGED R!vars
<1>1. /\ TypeOK /\ TypeOK' /\ WholeInv /\ WholeInv'
      /\ ReceivedLines
  BY DEF Advances
<1>2. \A p \in Purchases, i \in Items : LineQty(tp[p], i)' \in Nat
  <2> TAKE p \in Purchases, i \in Items
  <2>1. tp'[p] \in Row
    BY <1>1 DEF TypeOK
  <2> QED
    BY <2>1, NoneAssumption DEF Row, LineQty
<1>3. net \in [Purchases -> [Items -> Int]] /\ net' \in [Purchases -> [Items -> Int]]
  BY <1>1 DEF TypeOK
<1>4. \A p \in Purchases, i \in Items :
         /\ net[p][i] = IF StageOf(p) = "received" THEN LineQty(tp[p], i) ELSE 0
         /\ net'[p][i] = IF StageOf(p)' = "received" THEN LineQty(tp[p], i)' ELSE 0
  BY <1>1 DEF WholeInv, StageOf
<1>5. ASSUME NEW p \in Purchases, StageOf(p)' = StageOf(p)
      PROVE  net'[p] = net[p]
  <2>1. StageOf(p) = "received" => \A i \in Items : LineQty(tp[p], i)' = LineQty(tp[p], i)
    BY <1>1 DEF ReceivedLines, StageOf
  <2> QED
    BY <1>3, <1>4, <1>5, <2>1
<1>6. \A p \in Purchases : SameKeys(p) => StageOf(p)' = StageOf(p)
  BY DEF SameKeys, StageOf
<1>7. CASE \A p \in Purchases : StageOf(p)' = StageOf(p)
  <2>1. net' = net
    BY <1>3, <1>5, <1>7
  <2>2. stage' = stage
    BY <1>7
  <2> QED
    BY <2>1, <2>2 DEF R!vars
<1>8. ASSUME NEW p \in Purchases, Forward(p), StageOf(p)' # StageOf(p)
      PROVE  R!Next
  <2>1. \A o \in Purchases \ {p} : StageOf(o)' = StageOf(o) /\ net'[o] = net[o]
    BY <1>5, <1>6, <1>8 DEF Forward
  <2>2. stage' = [stage EXCEPT ![p] = StageOf(p)'] /\ stage[p] = StageOf(p)
    BY <2>1
  <2>3. \/ StageOf(p) = "awaited" /\ StageOf(p)' = "received"
        \/ StageOf(p) = "received" /\ StageOf(p)' = "returned"
    BY <1>8 DEF Forward, StageOf
  <2>4. CASE StageOf(p) = "awaited" /\ StageOf(p)' = "received"
    <3>1. net'[p] \in [Items -> Nat]
      BY <1>2, <1>3, <1>4, <2>4
    <3>2. net'[p] # [i \in Items |-> 0]
      <4>1. Applied(p)'
        BY <2>4 DEF StageOf
      <4>2. PICK i \in Items : Key("apply", p, i, 0) \in keys'
        BY <4>1 DEF Applied, Key
      <4>3. LineQty(tp[p], i)' > 0
        BY <1>1, <2>4, <4>1, <4>2 DEF WholeInv, Key, StageOf
      <4> QED
        BY <1>4, <2>4, <4>3
    <3> QED
      BY <2>1, <2>2, <2>4, <3>1, <3>2 DEF R!Next, R!Receive, R!Others, R!Nothing
  <2>5. CASE StageOf(p) = "received" /\ StageOf(p)' = "returned"
    <3>1. net'[p] = [i \in Items |-> 0]
      BY <1>3, <1>4, <2>5
    <3> QED
      BY <2>1, <2>2, <2>5, <3>1 DEF R!Next, R!Return, R!Others, R!Nothing
  <2> QED
    BY <2>3, <2>4, <2>5
<1>9. CASE \E p \in Purchases : Forward(p)
  <2>1. PICK p \in Purchases : Forward(p)
    BY <1>9
  <2>2. CASE StageOf(p)' # StageOf(p)
    BY <1>8, <2>1, <2>2
  <2>3. CASE StageOf(p)' = StageOf(p)
    BY <1>6, <1>7, <2>1, <2>3 DEF Forward
  <2> QED
    BY <2>2, <2>3
<1> QED
  BY <1>6, <1>7, <1>9 DEF Advances

\* Whatever races on stale copies, the goods of a purchase come in at most
\* once, and if they go out they go out whole and stay out
\* (trade_purchase_service.py:1818-2384, stock_inventory.py:498-667).
THEOREM ImplementsReceipt == LinesHeld /\ Spec => ReceivedOnce
<1>1. LinesHeld /\ Init => R!Init
  <2> SUFFICES ASSUME LinesHeld, Init PROVE R!Init
    OBVIOUS
  <2>1. \A p \in Purchases : StageOf(p) = "awaited"
    BY DEF Init, StageOf, Applied
  <2>2. stage = [p \in Purchases |-> StageOf(p)]
    BY InitReceipt, StageIs
  <2> QED
    BY <2>1, <2>2 DEF Init, R!Init, R!Nothing
<1>2. LinesHeld /\ ReceiptInv /\ ReceiptInv' /\ [Next]_vars => [R!Next]_R!vars
  <2> SUFFICES ASSUME LinesHeld, ReceiptInv, ReceiptInv', [Next]_vars
               PROVE  R!Next \/ UNCHANGED R!vars
    OBVIOUS
  <2>1. Advances
    BY ReceiptStep
  <2>2. stage = [p \in Purchases |-> StageOf(p)]
    BY StageIs
  <2>3. stage' = [p \in Purchases |-> StageOf(p)']
    <3>1. \A p \in Purchases :
             (CASE ~ Applied(p) -> "awaited"
                [] Applied(p) /\ tp[p].delivered -> "received"
                [] OTHER -> "returned")' = StageOf(p)'
      BY DEF ReceiptInv, RowInv, StageOf
    <3> QED
      BY <3>1 DEF stage
  <2> QED
    BY <2>1, <2>2, <2>3, ReceiptRefined DEF ReceiptInv
<1>3. CASE LinesHeld
  <2>1. Init => R!Init
    BY <1>1, <1>3
  <2>2. ReceiptInv /\ ReceiptInv' /\ [Next]_vars => [R!Next]_R!vars
    BY <1>2, <1>3
  <2>3. Spec => []ReceiptInv
    BY <1>3, ReceiptHolds
  <2> QED
    BY <2>1, <2>2, <2>3, PTL DEF Spec, R!Spec, ReceivedOnce
<1> QED
  BY <1>3

-----------------------------------------------------------------------------
(***************************************************************************)
(* Purchases that are edited on their way to the stock, by one request at  *)
(* a time.                                                                 *)
(***************************************************************************)
\* A request that works on a purchase leaves all others alone.
OthersStay(p) ==
    \A o \in Purchases \ {p} :
        /\ tp'[o] = tp[o] /\ net'[o] = net[o] /\ SameKeys(o)
        /\ \A i \in Items, k \in {"apply", "revert"} :
             Key(k, o, i, 0) \in keys' <=> Key(k, o, i, 0) \in keys

\* What stays true of the purchase a request works on is true of all.
LEMMA OthersOnce ==
    ASSUME EditedInv, NEW p \in Purchases, OthersStay(p), ready' = ready, OnceInv(p)'
    PROVE  \A o \in Purchases : OnceInv(o)'
<1> SUFFICES ASSUME NEW o \in Purchases, o # p PROVE OnceInv(o)'
  OBVIOUS
<1>1. OnceInv(o)
  BY DEF EditedInv
<1>2. /\ tp'[o] = tp[o] /\ net'[o] = net[o]
      /\ Applied(o)' = Applied(o) /\ Reverted(o)' = Reverted(o)
      /\ \A i \in Items, k \in {"apply", "revert"} :
           Key(k, o, i, 0) \in keys' <=> Key(k, o, i, 0) \in keys
  BY DEF OthersStay, SameKeys
<1>3. \A i \in Items : LineQty(tp[o], i)' = LineQty(tp[o], i)
  BY <1>2 DEF LineQty
<1>4. \A i \in Items, k \in {"apply", "revert"} : Key(k, o, i, 0)' = Key(k, o, i, 0)
  BY DEF Key
<1> QED
  BY <1>1, <1>2, <1>3, <1>4 DEF OnceInv

\* Saving what was decided on the row itself writes it.
LEMMA SavedAlone ==
    ASSUME EditedInv, NEW s \in Sessions, req[s] # None, NEW new \in Row,
           new.ordered = View(s).ordered, Save(s, new)
    PROVE  tp' = [tp EXCEPT ![req[s].p] = new]
<1>1. TypeOK /\ req[s].p \in Purchases /\ tp[req[s].p] \in Row /\ View(s) = tp[req[s].p]
  BY ViewTyped DEF EditedInv, TurnInv
<1>2. Merged(View(s), new, tp[req[s].p]) = new
  BY <1>1, MergedAlone
<1> QED
  BY <1>1, <1>2 DEF Save, TypeOK

\* The next request about the purchase will find it as it is.
LEMMA TurnPasses ==
    ASSUME OneByOne, EditedInv, NEW s \in Sessions, req[s] # None,
           NEW p \in Purchases, p = req[s].p, OthersStay(p),
           \A t \in Sessions \ {s} : req'[t] = req[t],
           \/ req'[s] = None
           \/ /\ req'[s].p = p /\ req'[s].op = "commit" /\ req'[s].row = tp'[p]
              /\ req'[s].applied = req[s].applied /\ SameKeys(p)
    PROVE  TurnInv'
<1> SUFFICES ASSUME NEW t \in Sessions, req'[t] # None
             PROVE  (/\ Ops[t][req[t].p] # {} /\ req[t].op \in Ops[t][req[t].p] \cup {"commit"}
                     /\ View(t) = tp[req[t].p] /\ req[t].applied = Applied(req[t].p))'
  BY DEF TurnInv
<1>1. Ops[s][p] # {}
  BY DEF EditedInv, TurnInv
<1>2. CASE t = s
  BY <1>1, <1>2 DEF EditedInv, TurnInv, View, SameKeys
<1>3. CASE t # s
  <2>1. req'[t] = req[t] /\ req[t] # None
    BY <1>3
  <2>2. req[t].p \in Purchases /\ Ops[t][req[t].p] # {}
    BY <2>1, ViewTyped DEF EditedInv, TurnInv
  <2>3. req[t].p # p
    BY <1>1, <1>3, <2>2 DEF OneByOne, Alone
  <2> QED
    BY <2>1, <2>2, <2>3 DEF EditedInv, TurnInv, View, OthersStay, SameKeys
<1> QED
  BY <1>2, <1>3

\* What every step of the office preserves, and does.
EditedStep == (\A p \in Purchases : OnceInv(p)') /\ TurnInv' /\ Advances

\* A request that moves nothing: the lines of what has come in stay, and what
\* is in stock stays delivered.
LEMMA QuietOnce ==
    ASSUME OneByOne, EditedInv, NEW s \in Sessions, req[s] # None,
           NEW p \in Purchases, p = req[s].p, NEW new \in Row,
           tp' = [tp EXCEPT ![p] = new], UNCHANGED <<goods, ready>>,
           \A t \in Sessions \ {s} : req'[t] = req[t],
           \/ req'[s] = None
           \/ /\ req'[s].p = p /\ req'[s].op = "commit" /\ req'[s].row = new
              /\ req'[s].applied = req[s].applied,
           new.delivered = tp[p].delivered,
           new.delivery = "stock_committed" <=> tp[p].delivery = "stock_committed",
           Applied(p) => new.ordered = tp[p].ordered /\ new.received = tp[p].received,
           Reverted(p) => new.status \in Closed,
           tp[p].delivered /\ (\E t \in Sessions : "transition" \in Ops[t][p])
             => new.status \in {"added_to_stock", "completed", "cancelled"}
    PROVE  EditedStep
<1>1. TypeOK /\ OnceInv(p) /\ tp'[p] = new
  BY DEF EditedInv, TypeOK
<1>2. \A o \in Purchases : SameKeys(o)
  BY DEF SameKeys, Applied, Reverted, goods
<1>3. OthersStay(p)
  BY <1>1, <1>2 DEF OthersStay, goods, TypeOK
<1>4. Applied(p) => \A i \in Items : LineQty(tp[p], i)' = LineQty(tp[p], i)
  BY <1>1 DEF LineQty
<1>5. Applied(p)' = Applied(p) /\ Reverted(p)' = Reverted(p)
  BY <1>2 DEF SameKeys
<1>6. keys' = keys /\ net' = net /\ ready' = ready
  BY DEF goods
<1>7. \A i \in Items, k \in {"apply", "revert"} : Key(k, p, i, 0)' = Key(k, p, i, 0)
  BY DEF Key
<1>8. OnceInv(p)'
  <2>1. /\ Reverted(p)' => Applied(p)' /\ tp'[p].status \in Closed
        /\ tp'[p].delivered <=> Applied(p)' /\ ~ Reverted(p)'
        /\ tp'[p].delivered <=> tp'[p].delivery = "stock_committed"
        /\ tp'[p].delivered /\ (\E t \in Sessions : "transition" \in Ops[t][p])
             => tp'[p].status \in {"added_to_stock", "completed", "cancelled"}
        /\ Applied(p)' => ready' = Items
    BY <1>1, <1>5, <1>6 DEF OnceInv
  <2>2. ASSUME NEW i \in Items
        PROVE  /\ Key("apply", p, i, 0) \in keys' <=> Applied(p)' /\ LineQty(tp[p], i)' > 0
               /\ Key("revert", p, i, 0) \in keys' <=> Reverted(p)' /\ LineQty(tp[p], i)' > 0
               /\ net'[p][i] = IF tp'[p].delivered THEN LineQty(tp[p], i)' ELSE 0
    BY <1>1, <1>4, <1>5, <1>6 DEF OnceInv
  <2> QED
    BY <1>7, <2>1, <2>2 DEF OnceInv
<1>9. TurnInv'
  BY <1>1, <1>2, <1>3, TurnPasses
<1>10. Advances
  <2>1. \A o \in Purchases \ {p}, i \in Items : LineQty(tp[o], i)' = LineQty(tp[o], i)
    BY <1>3, <1>6 DEF OthersStay, LineQty
  <2>2. ReceivedLines
    BY <1>4, <2>1 DEF ReceivedLines
  <2> QED
    BY <1>2, <2>2 DEF Advances
<1> QED
  BY <1>3, <1>6, <1>8, <1>9, <1>10, OthersOnce DEF EditedStep

\* The first commit brings the lines in.
LEMMA CommitOnce ==
    ASSUME OneByOne, EditedInv, NEW s \in Sessions, req[s] # None,
           NEW p \in Purchases, p = req[s].p,
           CommitNew(s, Committed(View(s))), ready' = ready,
           req'[s] = None, \A t \in Sessions \ {s} : req'[t] = req[t]
    PROVE  EditedStep /\ tp'[p].delivered /\ \E i \in Items : net'[p][i] > 0
<1> DEFINE new == Committed(View(s))
           q == Incoming(s)
<1>1. /\ TypeOK /\ OnceInv(p) /\ View(s) = tp[p] /\ tp[p] \in Row
      /\ ready \subseteq Items /\ (NeedsUnit = {} => ready = Items)
  BY ViewTyped DEF EditedInv, TurnInv, TypeOK
<1>2. /\ new \in Row /\ new.ordered = tp[p].ordered
      /\ new.received = tp[p].received /\ new.delivered = TRUE
      /\ new.delivery = "stock_committed"
      /\ new.status \in {"added_to_stock", "completed"}
  <2>1. PICK r \in Row : r = View(s) /\ r = tp[p]
    BY <1>1
  <2>2. Committed(r) \in Row
    BY WrittenRows
  <2>3. /\ Committed(r).ordered = r.ordered /\ Committed(r).received = r.received
        /\ Committed(r).delivered = TRUE /\ Committed(r).delivery = "stock_committed"
        /\ Committed(r).status \in {"added_to_stock", "completed"}
    BY DEF Committed, Row
  <2> QED
    BY <2>1, <2>2, <2>3
<1>3. tp' = [tp EXCEPT ![p] = new]
  BY <1>1, <1>2, SavedAlone DEF CommitNew
<1> HIDE DEF new
<1>4. ~ Applied(p) /\ ~ Reverted(p) /\ ~ tp[p].delivered
  BY <1>1 DEF CommitNew, OnceInv
<1>5. \A i \in Items : q[i] = LineQty(tp[p], i) /\ LineQty(tp[p], i) \in Nat
  BY <1>1, LineQtyNat DEF Incoming
<1>6. PICK j \in Items : LineQty(tp[p], j) > 0
  BY <1>5 DEF CommitNew
<1>7. ready = Items
  <2>1. j \notin ready => LineQty(tp[p], j) = 0
    BY DEF LineQty
  <2>2. j \in ready
    BY <1>6, <2>1
  <2> QED
    BY <1>1, <2>2 DEF OneByOne
<1>8. Fresh("apply", p, q) = {i \in Items : LineQty(tp[p], i) > 0}
  <2>1. \A i \in Items : Key("apply", p, i, q[i]) = Key("apply", p, i, 0)
    BY DEF Key
  <2> HIDE DEF q
  <2> QED
    BY <1>4, <1>5, <2>1 DEF Fresh, Applied
<1>9. q \in [Items -> Int] /\ Move("apply", p, q)
  BY <1>1, LineQtyNat DEF Incoming, CommitNew
<1> HIDE DEF q
<1>10. /\ \A i \in Items : net'[p][i] = net[p][i]
             + (IF LineQty(tp[p], i) > 0 THEN q[i] ELSE 0)
       /\ \A o \in Purchases \ {p} : net'[o] = net[o] /\ SameKeys(o)
       /\ \A o \in Purchases \ {p}, i \in Items, k \in {"apply", "revert"} :
             Key(k, o, i, 0) \in keys' <=> Key(k, o, i, 0) \in keys
       /\ \A i \in Items : /\ Key("apply", p, i, 0) \in keys'
                                <=> LineQty(tp[p], i) > 0
                           /\ Key("revert", p, i, 0) \notin keys'
  BY <1>1, <1>4, <1>8, <1>9, GoodsStep DEF Applied, Reverted
<1>11. \A i \in Items, k \in {"apply", "revert"} : Key(k, p, i, 0)' = Key(k, p, i, 0)
  BY DEF Key
<1>12. Applied(p)' /\ ~ Reverted(p)'
  BY <1>6, <1>10, <1>11 DEF Applied, Reverted
<1>13. tp'[p] = new /\ \A o \in Purchases \ {p} : tp'[o] = tp[o]
  BY <1>1, <1>3 DEF TypeOK
<1>14. \A i \in Items : LineQty(tp[p], i)' = LineQty(tp[p], i)
  BY <1>2, <1>13 DEF LineQty
<1>15. \A i \in Items : net'[p][i] = LineQty(tp[p], i)
  BY <1>1, <1>4, <1>5, <1>10 DEF OnceInv
<1>16. OnceInv(p)'
  <2>1. ASSUME NEW i \in Items
        PROVE  /\ Key("apply", p, i, 0) \in keys' <=> Applied(p)' /\ LineQty(tp[p], i)' > 0
               /\ Key("revert", p, i, 0) \in keys' <=> Reverted(p)' /\ LineQty(tp[p], i)' > 0
               /\ net'[p][i] = IF tp'[p].delivered THEN LineQty(tp[p], i)' ELSE 0
    BY <1>2, <1>10, <1>12, <1>13, <1>14, <1>15
  <2> QED
    BY <1>2, <1>7, <1>11, <1>12, <1>13, <2>1 DEF OnceInv
<1>17. OthersStay(p)
  BY <1>10, <1>13 DEF OthersStay
<1>18. TurnInv'
  BY <1>17, TurnPasses
<1>19. Advances
  <2>1. Forward(p)
    BY <1>4, <1>10, <1>12 DEF Forward
  <2>2. \A o \in Purchases \ {p}, i \in Items : LineQty(tp[o], i)' = LineQty(tp[o], i)
    BY <1>13 DEF LineQty
  <2> QED
    BY <1>14, <2>1, <2>2 DEF Advances, ReceivedLines
<1> QED
  BY <1>2, <1>6, <1>13, <1>15, <1>16, <1>17, <1>18, <1>19, OthersOnce DEF EditedStep

\* Closing a delivered purchase takes out what it brought in.
LEMMA ReturnOnce ==
    ASSUME OneByOne, EditedInv, NEW s \in Sessions, req[s] # None,
           NEW p \in Purchases, p = req[s].p, NEW new \in Row,
           new.ordered = tp[p].ordered, new.received = tp[p].received,
           new.delivered = FALSE, new.delivery = "cancelled", new.status \in Closed,
           tp[p].delivered, TakeBack(p, View(s)), tp' = [tp EXCEPT ![p] = new],
           ready' = ready, req'[s] = None, \A t \in Sessions \ {s} : req'[t] = req[t]
    PROVE  EditedStep
<1> DEFINE q == [i \in Items |-> - LineQty(View(s), i)]
<1>1. TypeOK /\ OnceInv(p) /\ View(s) = tp[p] /\ tp[p] \in Row
  BY ViewTyped DEF EditedInv, TurnInv, TypeOK
<1>2. Applied(p) /\ ~ Reverted(p)
  BY <1>1 DEF OnceInv
<1>3. \A i \in Items : q[i] = - LineQty(tp[p], i) /\ LineQty(tp[p], i) \in Nat
  BY <1>1, LineQtyNat
<1>4. PICK j \in Items : LineQty(tp[p], j) > 0
  BY <1>1, <1>2 DEF OnceInv, Applied
<1>5. Fresh("revert", p, q) = {i \in Items : LineQty(tp[p], i) > 0}
  <2>1. \A i \in Items : Key("revert", p, i, q[i]) = Key("revert", p, i, 0)
    BY DEF Key
  <2> HIDE DEF q
  <2> QED
    BY <1>2, <1>3, <2>1 DEF Fresh, Reverted
<1>6. q \in [Items -> Int] /\ Move("revert", p, q)
  BY <1>1, LineQtyNat DEF TakeBack
<1> HIDE DEF q
<1>7. /\ \A i \in Items : net'[p][i] = net[p][i]
             + (IF LineQty(tp[p], i) > 0 THEN q[i] ELSE 0)
      /\ \A o \in Purchases \ {p} : net'[o] = net[o] /\ SameKeys(o)
      /\ \A o \in Purchases \ {p}, i \in Items, k \in {"apply", "revert"} :
            Key(k, o, i, 0) \in keys' <=> Key(k, o, i, 0) \in keys
      /\ \A i \in Items : /\ Key("apply", p, i, 0) \in keys'
                               <=> Key("apply", p, i, 0) \in keys
                          /\ Key("revert", p, i, 0) \in keys' <=> LineQty(tp[p], i) > 0
  BY <1>1, <1>2, <1>5, <1>6, GoodsStep DEF Reverted
<1>8. \A i \in Items, k \in {"apply", "revert"} : Key(k, p, i, 0)' = Key(k, p, i, 0)
  BY DEF Key
<1>9. Applied(p)' /\ Reverted(p)'
  BY <1>2, <1>4, <1>7, <1>8 DEF Applied, Reverted
<1>10. tp'[p] = new /\ \A o \in Purchases \ {p} : tp'[o] = tp[o]
  BY <1>1 DEF TypeOK
<1>11. \A i \in Items : LineQty(tp[p], i)' = LineQty(tp[p], i)
  BY <1>10 DEF LineQty
<1>12. \A i \in Items : net'[p][i] = 0
  BY <1>1, <1>3, <1>7 DEF OnceInv
<1>13. OnceInv(p)'
  <2>1. ASSUME NEW i \in Items
        PROVE  /\ Key("apply", p, i, 0) \in keys' <=> Applied(p)' /\ LineQty(tp[p], i)' > 0
               /\ Key("revert", p, i, 0) \in keys' <=> Reverted(p)' /\ LineQty(tp[p], i)' > 0
               /\ net'[p][i] = IF tp'[p].delivered THEN LineQty(tp[p], i)' ELSE 0
    BY <1>1, <1>2, <1>7, <1>9, <1>10, <1>11, <1>12 DEF OnceInv
  <2> QED
    BY <1>1, <1>2, <1>8, <1>9, <1>10, <2>1 DEF OnceInv
<1>14. OthersStay(p)
  BY <1>7, <1>10 DEF OthersStay
<1>15. TurnInv'
  BY <1>14, TurnPasses
<1>16. Advances
  <2>1. Forward(p)
    BY <1>2, <1>7, <1>9 DEF Forward
  <2>2. \A o \in Purchases \ {p}, i \in Items : LineQty(tp[o], i)' = LineQty(tp[o], i)
    BY <1>10 DEF LineQty
  <2> QED
    BY <1>11, <2>1, <2>2 DEF Advances, ReceivedLines
<1> QED
  BY <1>13, <1>14, <1>15, <1>16, OthersOnce DEF EditedStep

\* What has been taken back is not taken back again.
LEMMA NothingBack ==
    ASSUME EditedInv, NEW p \in Purchases, Reverted(p), TakeBack(p, tp[p])
    PROVE  UNCHANGED goods
<1> DEFINE q == [i \in Items |-> - LineQty(tp[p], i)]
<1>1. TypeOK /\ OnceInv(p) /\ tp[p] \in Row
  BY DEF EditedInv, TypeOK
<1>2. \A i \in Items : q[i] = - LineQty(tp[p], i) /\ LineQty(tp[p], i) \in Nat
  BY <1>1, LineQtyNat
<1>3. \A i \in Items : Key("revert", p, i, q[i]) = Key("revert", p, i, 0)
  BY DEF Key
<1>4. Move("revert", p, q)
  BY DEF TakeBack
<1> HIDE DEF q
<1>5. Fresh("revert", p, q) = {}
  BY <1>1, <1>2, <1>3 DEF Fresh, OnceInv
<1>6. /\ stock' = [i \in Items |-> stock[i] + 0]
      /\ net' = [net EXCEPT ![p] = [i \in Items |-> net[p][i] + 0]]
      /\ keys' = keys \cup {}
  BY <1>4, <1>5 DEF Move
<1>7. stock' = stock
  BY <1>1, <1>6 DEF TypeOK
<1>8. net' = net
  BY <1>1, <1>6 DEF TypeOK
<1> QED
  BY <1>6, <1>7, <1>8 DEF goods

\* A request at work has a purchase that the invariant speaks of.
LEMMA AtWork ==
    ASSUME OneByOne, EditedInv, NEW s \in Sessions, req[s] # None
    PROVE  LET p == req[s].p
           IN  /\ p \in Purchases /\ tp[p] \in Row /\ View(s) = tp[p] /\ TypeOK /\ OnceInv(p)
               /\ req[s].op \in Ops[s][p] \cup {"commit"} /\ req[s].applied = Applied(p)
               /\ (\E t \in Sessions : "transition" \in Ops[t][p]) => "transition" \in Ops[s][p]
<1>1. req[s].p \in Purchases /\ tp[req[s].p] \in Row /\ Ops[s][req[s].p] # {}
  BY ViewTyped DEF EditedInv, TurnInv
<1>2. \A t \in Sessions : "transition" \in Ops[t][req[s].p] => t = s
  BY <1>1 DEF OneByOne, Alone
<1> QED
  BY <1>1, <1>2 DEF EditedInv, TurnInv

\* The answer of a session frees it, and is the only one that changes.
LEMMA OneAnswer ==
    ASSUME TypeOK, NEW s \in Sessions, req[s] # None, Succeed(s)
    PROVE  /\ req'[s] = None /\ \A t \in Sessions \ {s} : req'[t] = req[t]
           /\ answer'[s] = <<req[s].op, req[s].p>>
           /\ \A t \in Sessions \ {s} : answer'[t] = answer[t]
BY DEF Succeed, TypeOK

\* A success that is told of a commit is one.
CommitTold ==
    \A s \in Sessions, p \in Purchases :
      answer'[s] = <<"commit", p>> /\ answer[s] = None
         => tp'[p].delivered /\ \E i \in Items : net'[p][i] > 0

\* Answers of other requests say nothing of commits.
LEMMA NotACommit ==
    ASSUME TypeOK, NEW s \in Sessions, req[s] # None,
           \/ answer' = answer
           \/ Succeed(s) /\ req[s].op # "commit"
           \/ \E op \in AllOps \ {"commit"} : answer' = [answer EXCEPT ![s] = <<op, req[s].p>>]
    PROVE  CommitTold
<1> SUFFICES ASSUME NEW t \in Sessions, NEW p \in Purchases,
                    answer'[t] = <<"commit", p>>, answer[t] = None
             PROVE  FALSE
  BY DEF CommitTold
<1>1. None # <<"commit", p>>
  BY NoneAssumption DEF AllOps
<1>2. answer'[t] = answer[t] \/ \E op \in AllOps \ {"commit"} : answer'[t] = <<op, req[s].p>>
  <2>1. req[s].op \in AllOps
    BY ViewTyped
  <2> QED
    BY <2>1 DEF Succeed, TypeOK
<1> QED
  BY <1>1, <1>2

\* A row is saved and nothing is moved.
LEMMA QuietSave ==
    ASSUME OneByOne, EditedInv, NEW s \in Sessions, req[s] # None,
           NEW p \in Purchases, p = req[s].p, NEW new \in Row,
           Save(s, new), Succeed(s), UNCHANGED <<goods, ready>>,
           new.ordered = tp[p].ordered, new.received = tp[p].received,
           new.delivered = tp[p].delivered,
           new.delivery = "stock_committed" <=> tp[p].delivery = "stock_committed",
           Reverted(p) => new.status \in Closed,
           tp[p].delivered /\ "transition" \in Ops[s][p]
             => new.status \in {"added_to_stock", "completed", "cancelled"}
    PROVE  EditedStep
<1>1. /\ tp[p] \in Row /\ View(s) = tp[p] /\ TypeOK
      /\ (\E t \in Sessions : "transition" \in Ops[t][p]) => "transition" \in Ops[s][p]
  BY AtWork
<1>2. tp' = [tp EXCEPT ![p] = new]
  BY <1>1, SavedAlone
<1>3. req'[s] = None /\ \A t \in Sessions \ {s} : req'[t] = req[t]
  BY <1>1, OneAnswer
<1> QED
  BY <1>1, <1>2, <1>3, QuietOnce

\* What the handlers write besides the columns they set.
LEMMA RowColumns ==
    ASSUME NEW r \in Row, NEW st \in Statuses, NEW d \in Deliveries, NEW f \in BOOLEAN
    PROVE  LET new == [r EXCEPT !.status = st, !.delivered = f, !.delivery = d]
           IN  /\ new \in Row /\ new.status = st /\ new.delivered = f /\ new.delivery = d
               /\ new.ordered = r.ordered /\ new.received = r.received
BY DEF Row

\* Dispatch and arrival find a purchase that is not in stock.
LEMMA UnderWay ==
    ASSUME OneByOne, EditedInv, NEW s \in Sessions, Dispatch(s) \/ Arrive(s)
    PROVE  EditedStep /\ CommitTold
<1>1. req[s] # None /\ req[s].op # "commit" /\ Succeed(s) /\ UNCHANGED <<goods, ready>>
      /\ View(s).status \notin Closed
      /\ View(s).delivery \in {"pending", "dispatched", "in_transit"}
  BY DEF Dispatch, Arrive, Serves
<1>2. PICK p \in Purchases : p = req[s].p /\ tp[p] \in Row /\ View(s) = tp[p] /\ TypeOK /\ OnceInv(p)
  BY <1>1, AtWork
<1>3. ~ tp[p].delivered /\ ~ Reverted(p)
  BY <1>1, <1>2 DEF OnceInv
<1>4. PICK d \in {"in_transit", "dispatched", "arrived"} : Save(s, [View(s) EXCEPT !.delivery = d])
  BY DEF Dispatch, Arrive
<1> DEFINE new == [tp[p] EXCEPT !.delivery = d]
<1>5. /\ new \in Row /\ new.ordered = tp[p].ordered /\ new.received = tp[p].received
      /\ new.delivered = tp[p].delivered /\ new.delivery = d
  BY <1>2, <1>4 DEF Row, Deliveries
<1>6. Save(s, new)
  BY <1>2, <1>4
<1> HIDE DEF new
<1>7. EditedStep
  BY <1>1, <1>2, <1>3, <1>5, <1>6, QuietSave DEF OnceInv
<1> QED
  BY <1>1, <1>2, <1>7, NotACommit

\* A payment of what is not moved along the lifecycle.
LEMMA PayOnce ==
    ASSUME OneByOne, EditedInv, NEW s \in Sessions, Pay(s)
    PROVE  EditedStep /\ CommitTold
<1>1. req[s] # None /\ req[s].op = "pay" /\ Succeed(s) /\ UNCHANGED <<goods, ready>>
      /\ View(s).status \notin Closed
  BY DEF Pay, Serves
<1>2. PICK p \in Purchases : /\ p = req[s].p /\ tp[p] \in Row /\ View(s) = tp[p] /\ TypeOK
                             /\ OnceInv(p) /\ "pay" \in Ops[s][p]
  BY <1>1, AtWork
<1>3. ~ Reverted(p) /\ "transition" \notin Ops[s][p]
  BY <1>1, <1>2 DEF OnceInv, OneByOne
<1>4. PICK st \in PaidStatuses(View(s).status) : Save(s, [View(s) EXCEPT !.status = st])
  BY DEF Pay
<1> DEFINE new == [tp[p] EXCEPT !.status = st]
<1>5. /\ new \in Row /\ new.ordered = tp[p].ordered /\ new.received = tp[p].received
      /\ new.delivered = tp[p].delivered /\ new.delivery = tp[p].delivery
  BY <1>2, <1>4 DEF Row, Statuses, PaidStatuses
<1>6. Save(s, new)
  BY <1>2, <1>4
<1> HIDE DEF new
<1>7. EditedStep
  BY <1>1, <1>2, <1>3, <1>5, <1>6, QuietSave
<1> QED
  BY <1>1, <1>2, <1>7, NotACommit

\* The staff counts what is not in stock, and may go on to the commit.
LEMMA VerifyOnce ==
    ASSUME OneByOne, EditedInv, NEW s \in Sessions, Verify(s)
    PROVE  EditedStep /\ CommitTold
<1>1. /\ req[s] # None /\ req[s].op = "verify" /\ UNCHANGED <<goods, ready>>
      /\ View(s).status \notin Closed /\ View(s).delivery \in {"arrived", "staff_verifying"}
  BY DEF Verify, Serves
<1>2. PICK p \in Purchases : p = req[s].p /\ tp[p] \in Row /\ View(s) = tp[p] /\ TypeOK /\ OnceInv(p)
  BY <1>1, AtWork
<1>3. ~ tp[p].delivered /\ ~ Reverted(p) /\ ~ Applied(p) /\ tp[p].delivery # "stock_committed"
  BY <1>1, <1>2 DEF OnceInv
<1>4. PICK counted \in UNION {[D -> 0 .. MaxQty] : D \in SUBSET Lines(View(s))} :
        LET new == Entered(View(s), counted)
        IN  /\ Save(s, new)
            /\ IF new.delivery = "staff_verified"
               THEN /\ req' = [req EXCEPT ![s].op = "commit", ![s].row = new]
                    /\ UNCHANGED answer
               ELSE Succeed(s)
  BY DEF Verify
<1> DEFINE new == Entered(View(s), counted)
<1>5. /\ new \in Row /\ new.ordered = tp[p].ordered /\ new.delivered = tp[p].delivered
      /\ new.delivery # "stock_committed"
  <2>1. PICK r \in Row : r = tp[p] /\ r = View(s)
    BY <1>2
  <2>2. counted \in UNION {[D -> 0 .. MaxQty] : D \in SUBSET Lines(r)}
    BY <2>1
  <2>3. Entered(r, counted) \in Row
    BY <2>2, EnteredRow
  <2>4. /\ Entered(r, counted).ordered = r.ordered
        /\ Entered(r, counted).delivered = r.delivered
        /\ Entered(r, counted).delivery \in {"partial", "staff_verified"}
    BY DEF Entered, Row
  <2> QED
    BY <1>3, <2>1, <2>3, <2>4
<1>6. \/ req' = [req EXCEPT ![s].op = "commit", ![s].row = new] /\ answer' = answer
      \/ Succeed(s)
  BY <1>4
<1>7. Save(s, new)
  BY <1>4
<1> HIDE DEF new
<1>8. tp' = [tp EXCEPT ![p] = new]
  BY <1>1, <1>2, <1>5, <1>7, SavedAlone
<1>9. req[s] \in Request
  BY <1>1, <1>2, ViewTyped
<1>10. /\ \A t \in Sessions \ {s} : req'[t] = req[t]
       /\ \/ req'[s] = None
          \/ /\ req'[s].p = p /\ req'[s].op = "commit" /\ req'[s].row = new
             /\ req'[s].applied = req[s].applied
  <2>1. CASE Succeed(s)
    BY <1>1, <1>2, <2>1, OneAnswer
  <2>2. CASE req' = [req EXCEPT ![s].op = "commit", ![s].row = new]
    BY <1>2, <1>9, <2>2 DEF TypeOK, Request
  <2> QED
    BY <1>6, <2>1, <2>2
<1>11. EditedStep
  BY <1>1, <1>2, <1>3, <1>5, <1>8, <1>10, QuietOnce
<1>12. CommitTold
  BY <1>1, <1>2, <1>6, NotACommit
<1> QED
  BY <1>11, <1>12

\* Closing takes out what is in stock, and nothing twice.
LEMMA CloseOnce ==
    ASSUME OneByOne, EditedInv, NEW s \in Sessions, Cancel(s) \/ Delete(s)
    PROVE  EditedStep /\ CommitTold
<1>1. req[s] # None /\ req[s].op # "commit" /\ Succeed(s) /\ ready' = ready
  BY DEF Cancel, Delete, Serves
<1>2. PICK p \in Purchases : /\ p = req[s].p /\ tp[p] \in Row /\ View(s) = tp[p] /\ TypeOK
                             /\ OnceInv(p) /\ req[s].applied = Applied(p)
  BY <1>1, AtWork
<1>3. PICK st \in Closed : CloseAs(s, st)
  BY DEF Cancel, Delete, Closed
<1> DEFINE new == [tp[p] EXCEPT !.status = st, !.delivered = FALSE, !.delivery = "cancelled"]
<1>4. /\ new \in Row /\ new.ordered = tp[p].ordered /\ new.received = tp[p].received
      /\ new.delivered = FALSE /\ new.delivery = "cancelled" /\ new.status = st
  <2>1. st \in Statuses /\ "cancelled" \in Deliveries /\ FALSE \in BOOLEAN
    BY DEF Closed, Statuses, Deliveries
  <2>2. PICK r \in Row : r = tp[p]
    BY <1>2
  <2>3. LET x == [r EXCEPT !.status = st, !.delivered = FALSE, !.delivery = "cancelled"]
        IN  /\ x \in Row /\ x.status = st /\ x.delivered = FALSE /\ x.delivery = "cancelled"
            /\ x.ordered = r.ordered /\ x.received = r.received
    BY <2>1 DEF Row
  <2> QED
    BY <2>2, <2>3
<1>5. Save(s, new)
  BY <1>2, <1>3 DEF CloseAs
<1>6. \/ TakeBack(p, tp[p]) /\ (tp[p].delivered \/ Applied(p))
      \/ UNCHANGED goods /\ ~ tp[p].delivered
  BY <1>2 DEF Cancel, Delete, WasDelivered, LookedUp, OnceInv
<1> HIDE DEF new
<1>7. tp' = [tp EXCEPT ![p] = new]
  BY <1>1, <1>2, <1>4, <1>5, SavedAlone
<1>8. req'[s] = None /\ \A t \in Sessions \ {s} : req'[t] = req[t]
  BY <1>1, <1>2, OneAnswer
<1>9. ASSUME tp[p].delivered PROVE EditedStep
  BY <1>1, <1>2, <1>3, <1>4, <1>6, <1>7, <1>8, <1>9, ReturnOnce
<1>10. ASSUME ~ tp[p].delivered PROVE EditedStep
  <2>1. /\ tp[p].delivery # "stock_committed" /\ new.delivery # "stock_committed"
        /\ Applied(p) => Reverted(p)
    BY <1>2, <1>4, <1>10 DEF OnceInv
  <2>2. UNCHANGED goods
    BY <1>6, <1>10, <2>1, NothingBack
  <2>3. new.delivered = tp[p].delivered /\ new.status \in Closed
    BY <1>2, <1>3, <1>4, <1>10 DEF Row
  <2> QED
    BY <1>1, <1>2, <1>4, <1>5, <1>10, <2>1, <2>2, <2>3, QuietSave
<1>11. CommitTold
  BY <1>1, <1>2, NotACommit
<1> QED
  BY <1>9, <1>10, <1>11

\* An edit meets a purchase that has never come in, and moves nothing.
LEMMA EditOnce ==
    ASSUME OneByOne, EditedInv, NEW s \in Sessions, Edit(s)
    PROVE  EditedStep /\ CommitTold
<1>1. req[s] # None /\ req[s].op = "edit" /\ ready' = ready /\ Editable(View(s))
  BY DEF Edit, Serves
<1>2. PICK p \in Purchases : /\ p = req[s].p /\ tp[p] \in Row /\ View(s) = tp[p] /\ TypeOK
                             /\ OnceInv(p) /\ req[s].applied = Applied(p)
  BY <1>1, AtWork
<1>3. ~ tp[p].delivered /\ ~ Reverted(p) /\ ~ Applied(p) /\ tp[p].delivery # "stock_committed"
  BY <1>1, <1>2 DEF OnceInv, Editable
<1>4. PICK lines \in EditLines, status \in {"draft", "saved", "confirmed"},
          applied \in LookedUp(s) :
        LET new == [View(s) EXCEPT !.status = status, !.ordered = lines,
                                   !.received = Kept(View(s), lines, applied)]
        IN  /\ tp' = [tp EXCEPT ![req[s].p].status = Column(View(s).status, status, @),
                                ![req[s].p].ordered = new.ordered,
                                ![req[s].p].received = new.received]
            /\ IF View(s).delivered \/ applied
               THEN Move("adjust", req[s].p, [i \in Items |->
                                         LineQty(new, i) - LineQty(View(s), i)])
               ELSE UNCHANGED goods
  BY DEF Edit
<1>5. applied = FALSE /\ UNCHANGED goods
  BY <1>2, <1>3, <1>4 DEF LookedUp
<1> DEFINE received == Kept(tp[p], lines, FALSE)
           st == Column(tp[p].status, status, tp[p].status)
           new == [tp[p] EXCEPT !.status = st, !.ordered = lines, !.received = received]
<1>6. lines \in [Items -> Nat] /\ received \in [Items -> Nat \cup {None}] /\ st \in Statuses
  BY <1>2, <1>4, KeptTyped, QtyAssumption DEF Column, Row, Statuses
<1>7. tp' = [tp EXCEPT ![p] = new]
  <2>1. PICK r \in Row : r = tp[p] /\ r = View(s)
    BY <1>2
  <2> HIDE DEF received, st
  <2>2. [r EXCEPT !.status = status, !.ordered = lines, !.received = received].ordered = lines
        /\ [r EXCEPT !.status = status, !.ordered = lines, !.received = received].received = received
    BY DEF Row
  <2>3. Kept(View(s), lines, applied) = received
    BY <1>5, <2>1 DEF received
  <2>4. Column(View(s).status, status, tp[p].status) = st
    BY <2>1 DEF st
  <2>5. tp' = [tp EXCEPT ![p].status = st, ![p].ordered = lines, ![p].received = received]
    BY <1>2, <1>4, <2>1, <2>2, <2>3, <2>4
  <2> QED
    BY <1>2, <2>5 DEF TypeOK
<1> HIDE DEF received, st
<1>8. new \in Row /\ new.delivered = tp[p].delivered /\ new.delivery = tp[p].delivery
  BY <1>2, <1>6 DEF Row
<1>9. req'[s] = None /\ \A t \in Sessions \ {s} : req'[t] = req[t]
  <2>1. \A t \in Sessions : req'[t] =
           (CASE t = s -> None
              [] t # s /\ req[t] # None /\ req[t].p = p -> [req[t] EXCEPT !.gone = TRUE]
              [] OTHER -> req[t])
    BY <1>2 DEF Edit
  <2>2. ASSUME NEW t \in Sessions, t # s PROVE ~ (req[t] # None /\ req[t].p = p)
    BY <1>1, <1>2, <2>2 DEF EditedInv, TurnInv, OneByOne, Alone
  <2> QED
    BY <2>1, <2>2, Zenon
<1> HIDE DEF new
<1>10. EditedStep
  BY <1>1, <1>2, <1>3, <1>5, <1>7, <1>8, <1>9, QuietOnce
<1>11. answer' = [answer EXCEPT ![s] = <<"edit", req[s].p>>] /\ "edit" \in AllOps \ {"commit"}
  BY DEF Edit, AllOps
<1>12. CommitTold
  BY <1>1, <1>2, <1>11, NotACommit
<1> QED
  BY <1>10, <1>12

\* A commit brings the lines in, or finds them in stock.
LEMMA CommitEither ==
    ASSUME OneByOne, EditedInv, NEW s \in Sessions, Commit(s)
    PROVE  EditedStep /\ CommitTold
<1>1. req[s] # None /\ req[s].op = "commit" /\ Succeed(s) /\ ready' = ready
  BY DEF Commit, Serves
<1>2. PICK p \in Purchases : p = req[s].p /\ tp[p] \in Row /\ View(s) = tp[p] /\ TypeOK /\ OnceInv(p)
  BY <1>1, AtWork
<1>3. /\ req'[s] = None /\ \A t \in Sessions \ {s} : req'[t] = req[t]
      /\ answer'[s] = <<"commit", p>> /\ \A t \in Sessions \ {s} : answer'[t] = answer[t]
  BY <1>1, <1>2, OneAnswer
<1>4. \A t \in Sessions, o \in Purchases :
         answer'[t] = <<"commit", o>> /\ answer[t] = None => o = p
  <2>1. \A o \in Purchases : None # <<"commit", o>>
    BY NoneAssumption DEF AllOps
  <2>2. \A t \in Sessions, o \in Purchases :
           answer'[t] = <<"commit", o>> /\ answer[t] = None => t = s
    BY <1>3, <2>1
  <2> QED
    BY <1>3, <2>2
<1>5. ASSUME CommitNew(s, Committed(View(s)))
      PROVE  EditedStep /\ tp'[p].delivered /\ \E i \in Items : net'[p][i] > 0
  BY <1>1, <1>2, <1>3, <1>5, CommitOnce
<1>6. ASSUME CommitAgain(s), UNCHANGED tp
      PROVE  EditedStep /\ tp'[p].delivered /\ \E i \in Items : net'[p][i] > 0
  <2>1. UNCHANGED goods /\ View(s).status \notin Closed
        /\ \/ View(s).delivery = "stock_committed"
           \/ View(s).delivery \in {"staff_verified", "partial"} /\ Applied(p)
    BY <1>2, <1>6 DEF CommitAgain
  <2>2. tp[p].delivered /\ Applied(p) /\ ~ Reverted(p)
    BY <1>2, <2>1 DEF OnceInv
  <2>3. tp' = [tp EXCEPT ![p] = tp[p]]
    BY <1>2, <1>6 DEF TypeOK
  <2>4. EditedStep
    <3>1. tp[p].delivered /\ (\E t \in Sessions : "transition" \in Ops[t][p])
             => tp[p].status \in {"added_to_stock", "completed", "cancelled"}
      BY <1>2 DEF OnceInv
    <3> QED
      BY <1>1, <1>2, <1>3, <2>1, <2>2, <2>3, <3>1, QuietOnce
  <2>5. PICK i \in Items : Key("apply", p, i, 0) \in keys
    BY <2>2 DEF Applied
  <2>6. net[p][i] > 0
    BY <1>2, <2>2, <2>5 DEF OnceInv
  <2> QED
    BY <1>6, <2>1, <2>2, <2>4, <2>6 DEF goods
<1>7. EditedStep /\ tp'[p].delivered /\ \E i \in Items : net'[p][i] > 0
  BY <1>5, <1>6 DEF Commit
<1> QED
  BY <1>4, <1>7 DEF CommitTold

\* The lifecycle table leads from the stock only to completed or cancelled.
LEMMA FromStock ==
    /\ \A st \in Closed \cup {"completed"} : Allowed(Normal(st)) = {}
    /\ Allowed(Normal("added_to_stock")) = {"completed", "cancelled"}
    /\ \A st \in Statuses : "added_to_stock" \in Allowed(Normal(st)) => st = "verified"
    /\ \A target \in {"completed", "cancelled"}, d \in Deliveries : DeliveryFor(target, d) = d
    /\ \A target \in Statuses, d \in Deliveries : d # "stock_committed" => DeliveryFor(target, d) # "stock_committed"
<1>1. \A st \in Closed \cup {"completed"} : Allowed(Normal(st)) = {}
  BY DEF Closed, Normal, Allowed
<1>2. Allowed(Normal("added_to_stock")) = {"completed", "cancelled"}
  BY DEF Normal, Allowed
<1>3. \A st \in Statuses : "added_to_stock" \in Allowed(Normal(st)) => st = "verified"
  BY DEF Statuses, Normal, Allowed
<1>4. \A target \in {"completed", "cancelled"}, d \in Deliveries : DeliveryFor(target, d) = d
  BY DEF DeliveryFor
<1>5. \A target \in Statuses, d \in Deliveries : d # "stock_committed" => DeliveryFor(target, d) # "stock_committed"
  BY DEF DeliveryFor
<1> QED
  BY <1>1, <1>2, <1>3, <1>4, <1>5

\* The manager moves the purchase along, into the stock if it is verified.
LEMMA TransitionOnce ==
    ASSUME OneByOne, EditedInv, NEW s \in Sessions, Transition(s)
    PROVE  EditedStep /\ CommitTold
<1>1. req[s] # None /\ req[s].op = "transition" /\ Succeed(s) /\ ready' = ready
  BY DEF Transition, Serves
<1>2. PICK p \in Purchases : /\ p = req[s].p /\ tp[p] \in Row /\ View(s) = tp[p] /\ TypeOK
                             /\ OnceInv(p) /\ "transition" \in Ops[s][p]
  BY <1>1, AtWork
<1>3. req'[s] = None /\ \A t \in Sessions \ {s} : req'[t] = req[t]
  BY <1>1, <1>2, OneAnswer
<1>4. PICK target \in Allowed(Normal(tp[p].status)) :
        IF target = "added_to_stock" THEN AddToStock(s) ELSE MoveOn(s, target)
  BY <1>2 DEF Transition
<1>5. tp[p].status \in Statuses /\ tp[p].delivery \in Deliveries
  BY <1>2 DEF Row
<1>6. tp[p].status \notin Closed \cup {"completed"} /\ ~ Reverted(p)
  BY <1>2, <1>4, FromStock DEF OnceInv
<1>7. ASSUME target = "added_to_stock" PROVE EditedStep
  <2>1. tp[p].status = "verified"
    BY <1>4, <1>5, <1>7, FromStock
  <2>2. ~ tp[p].delivered /\ ~ Applied(p) /\ tp[p].delivery # "stock_committed"
    BY <1>2, <1>6, <2>1 DEF OnceInv
  <2>3. CommitNew(s, Committed(View(s)))
    BY <1>2, <1>4, <1>7, <2>2 DEF AddToStock, CommitAgain
  <2> QED
    BY <1>1, <1>2, <1>3, <2>3, CommitOnce
<1>8. ASSUME target # "added_to_stock" PROVE EditedStep
  <2> DEFINE d == DeliveryFor(target, tp[p].delivery)
             new == [tp[p] EXCEPT !.status = target, !.delivery = d]
  <2>1. UNCHANGED goods /\ Save(s, new)
    BY <1>2, <1>4, <1>8 DEF MoveOn
  <2>2. /\ target \in Statuses /\ d \in Deliveries
        /\ new \in Row
    BY <1>2, <1>4, TargetRow DEF Row
  <2>3. d = "stock_committed" <=> tp[p].delivery = "stock_committed"
    <3>1. CASE tp[p].delivered
      <4>1. target \in {"completed", "cancelled"}
        BY <1>2, <1>4, <1>6, <3>1, FromStock DEF OnceInv, Closed
      <4> QED
        BY <1>5, <4>1, FromStock
    <3>2. CASE ~ tp[p].delivered
      BY <1>2, <1>5, <2>2, <3>2, FromStock DEF OnceInv
    <3> QED
      BY <3>1, <3>2
  <2>4. tp[p].delivered => target \in {"completed", "cancelled"}
    BY <1>2, <1>4, <1>6, FromStock DEF OnceInv, Closed
  <2>5. /\ new.ordered = tp[p].ordered /\ new.received = tp[p].received
        /\ new.delivered = tp[p].delivered /\ new.delivery = d /\ new.status = target
    <3> HIDE DEF d
    <3> QED
      BY <1>2, <2>2 DEF Row
  <2> HIDE DEF d, new
  <2> QED
    BY <1>1, <1>2, <1>6, <2>1, <2>2, <2>3, <2>4, <2>5, QuietSave
<1>9. CommitTold
  BY <1>1, <1>2, NotACommit
<1> QED
  BY <1>7, <1>8, <1>9

\* Loading, aborting and what others do.
LEMMA OthersOfEdited ==
    ASSUME OneByOne, EditedInv, TypeOK',
           \/ \E s \in Sessions : Abort(s)
           \/ \E s \in Sessions, p \in Purchases : \E op \in Ops[s][p] : Load(s, op, p)
           \/ \E i \in Items : Sell(i) \/ SetUnit(i)
           \/ UNCHANGED vars
    PROVE  EditedStep /\ CommitTold
<1>1. /\ TypeOK /\ TurnInv /\ \A p \in Purchases : OnceInv(p)
      /\ tp' = tp /\ net' = net /\ keys' = keys
  BY DEF EditedInv, Abort, Load, Sell, SetUnit, vars, goods
<1>2. /\ \A p \in Purchases : SameKeys(p)
      /\ \A p \in Purchases : Applied(p)' = Applied(p) /\ Reverted(p)' = Reverted(p)
  BY <1>1 DEF SameKeys, Applied, Reverted
<1>3. ready' = ready \/ \A p \in Purchases : ~ Applied(p)
  <2>1. CASE \E i \in Items : SetUnit(i)
    BY <1>1, <2>1 DEF SetUnit, OnceInv
  <2>2. CASE ready' = ready
    BY <2>2
  <2> QED
    BY <2>1, <2>2 DEF Abort, Load, Sell, vars
<1>4. \A p \in Purchases : OnceInv(p)'
  <2> TAKE p \in Purchases
  <2>1. \A i \in Items, k \in {"apply", "revert"} : Key(k, p, i, 0)' = Key(k, p, i, 0)
    BY DEF Key
  <2>2. CASE ready' = ready
    <3>1. \A i \in Items : LineQty(tp[p], i)' = LineQty(tp[p], i)
      BY <1>1, <2>2 DEF LineQty
    <3> QED
      BY <1>1, <1>2, <2>1, <2>2, <3>1 DEF OnceInv
  <2>3. CASE \A o \in Purchases : ~ Applied(o)
    <3>1. ~ Applied(p) /\ ~ Reverted(p) /\ ~ tp[p].delivered
      BY <1>1, <2>3 DEF OnceInv
    <3> QED
      BY <1>1, <1>2, <2>1, <3>1 DEF OnceInv
  <2> QED
    BY <1>3, <2>2, <2>3
<1>5. TurnInv'
  <2> SUFFICES ASSUME NEW t \in Sessions, req'[t] # None
               PROVE  (/\ Ops[t][req[t].p] # {} /\ req[t].op \in Ops[t][req[t].p] \cup {"commit"}
                       /\ View(t) = tp[req[t].p] /\ req[t].applied = Applied(req[t].p))'
    BY DEF TurnInv
  <2>1. CASE req'[t] = req[t]
    <3>1. req[t].p \in Purchases
      BY <1>1, <2>1, ViewTyped
    <3> QED
      BY <1>1, <1>2, <2>1, <3>1 DEF TurnInv, View
  <2>2. ASSUME NEW s \in Sessions, NEW p \in Purchases, NEW op \in Ops[s][p], Load(s, op, p), t = s
        PROVE  (/\ Ops[t][req[t].p] # {} /\ req[t].op \in Ops[t][req[t].p] \cup {"commit"}
                /\ View(t) = tp[req[t].p] /\ req[t].applied = Applied(req[t].p))'
    <3>1. req'[t] = [op |-> op, p |-> p, row |-> tp[p], applied |-> Applied(p), gone |-> FALSE]
      BY <1>1, <2>2 DEF Load, TypeOK
    <3>2. req'[t].op = op /\ req'[t].p = p /\ req'[t].row = tp[p] /\ req'[t].applied = Applied(p)
      BY <3>1
    <3> QED
      BY <1>1, <1>2, <2>2, <3>2 DEF View
  <2>3. \/ req'[t] = req[t]
        \/ \E s \in Sessions, p \in Purchases : \E op \in Ops[s][p] : Load(s, op, p) /\ t = s
    BY <1>1 DEF Abort, Load, Sell, SetUnit, vars, TypeOK
  <2> QED
    BY <2>1, <2>2, <2>3
<1>6. Advances
  <2>1. ReceivedLines
    BY <1>1, <1>3 DEF ReceivedLines, LineQty
  <2> QED
    BY <1>2, <2>1 DEF Advances
<1>7. CommitTold
  <2> SUFFICES ASSUME NEW t \in Sessions, NEW p \in Purchases,
                      answer'[t] = <<"commit", p>>, answer[t] = None
               PROVE  FALSE
    BY DEF CommitTold
  <2>1. None # <<"commit", p>>
    BY NoneAssumption DEF AllOps
  <2>2. answer'[t] = answer[t] \/ answer'[t] = None
    BY <1>1 DEF Abort, Load, Sell, SetUnit, vars, TypeOK
  <2> QED
    BY <2>1, <2>2
<1> QED
  BY <1>4, <1>5, <1>6, <1>7 DEF EditedStep

\* Every step keeps the invariant, and tells of commits only when they are.
LEMMA EditedNext ==
    OneByOne /\ EditedInv /\ [Next]_vars => EditedInv' /\ Advances /\ CommitTold
<1> SUFFICES ASSUME OneByOne, EditedInv, [Next]_vars
             PROVE  EditedInv' /\ Advances /\ CommitTold
  OBVIOUS
<1>1. TypeOK /\ TypeOK'
  BY TypeStep DEF EditedInv
<1>2. ASSUME NEW s \in Sessions, Finish(s) PROVE EditedStep /\ CommitTold
  <2>1. CASE Revert(s)
    <3>1. req[s] # None /\ req[s].op = "revert"
      BY <2>1 DEF Revert, Serves
    <3>2. req[s].p \in Purchases /\ "revert" \in Ops[s][req[s].p]
      BY <3>1, AtWork
    <3> QED
      BY <3>2 DEF OneByOne
  <2> QED
    BY <1>2, <2>1, UnderWay, PayOnce, VerifyOnce, CloseOnce, EditOnce, CommitEither, TransitionOnce
       DEF Finish
<1>3. EditedStep /\ CommitTold
  BY <1>1, <1>2, OthersOfEdited DEF Next
<1>4. (NeedsUnit = {} => ready = Items)'
  <2>1. ready' = ready \/ \E i \in Items : ready' = ready \cup {i}
    BY DEF Next, Finish, Dispatch, Arrive, Verify, Commit, Revert, Cancel, Delete, Edit, Pay,
           Transition, Abort, Load, Sell, SetUnit, vars
  <2> QED
    BY <2>1 DEF EditedInv
<1> QED
  BY <1>1, <1>3, <1>4 DEF EditedInv, EditedStep

\* At the start nothing has come in.
LEMMA InitEdited == OneByOne /\ Init => EditedInv
<1> SUFFICES ASSUME OneByOne, Init PROVE EditedInv
  OBVIOUS
<1>1. TypeOK
  BY InitTyped
<1>2. \A p \in Purchases : tp[p] \in Row /\ ~ tp[p].delivered
                           /\ tp[p].delivery # "stock_committed"
  BY RowsAssumption DEF Init
<1>3. \A p \in Purchases : ~ Applied(p) /\ ~ Reverted(p)
  BY DEF Init, Applied, Reverted
<1>4. \A p \in Purchases : OnceInv(p)
  BY <1>2, <1>3 DEF Init, OnceInv
<1>5. TurnInv /\ (NeedsUnit = {} => ready = Items)
  BY DEF Init, TurnInv
<1> QED
  BY <1>1, <1>4, <1>5 DEF EditedInv

\* What the invariant says of rows and of the whole receipts.
LEMMA EditedWhole ==
    EditedInv => TypeOK /\ NetMatches /\ WholeInv /\ stage = [p \in Purchases |-> StageOf(p)]
<1> SUFFICES ASSUME EditedInv
             PROVE  TypeOK /\ NetMatches /\ WholeInv /\ stage = [p \in Purchases |-> StageOf(p)]
  OBVIOUS
<1>1. TypeOK /\ \A p \in Purchases : OnceInv(p)
  BY DEF EditedInv
<1>2. NetMatches
  BY <1>1 DEF NetMatches, OnceInv
<1>3. WholeInv
  BY <1>1 DEF WholeInv, OnceInv
<1>4. \A p \in Purchases :
         (CASE ~ Applied(p) -> "awaited"
            [] Applied(p) /\ tp[p].delivered -> "received"
            [] OTHER -> "returned") = StageOf(p)
  <2> TAKE p \in Purchases
  <2>1. tp[p].delivered <=> Applied(p) /\ ~ Reverted(p)
    BY <1>1 DEF OnceInv
  <2> QED
    BY <2>1 DEF StageOf
<1>5. stage = [p \in Purchases |-> StageOf(p)]
  BY <1>4 DEF stage
<1> QED
  BY <1>1, <1>2, <1>3, <1>5

\* While one request at a time edits, receives, closes and pays or moves a
\* purchase that nobody reverts, rows and stock agree, a commit answered with
\* success has brought the goods in, and they come in once
\* (trade_purchase_service.py:1429-2450, stock_inventory.py:542-667).
THEOREM EditedHeld == OneByOne /\ Spec => EditedMatches
<1>1. OneByOne /\ Init => R!Init
  <2> SUFFICES ASSUME OneByOne, Init PROVE R!Init
    OBVIOUS
  <2>1. \A p \in Purchases : StageOf(p) = "awaited"
    BY DEF Init, StageOf, Applied
  <2>2. stage = [p \in Purchases |-> StageOf(p)]
    BY InitEdited, EditedWhole
  <2> QED
    BY <2>1, <2>2 DEF Init, R!Init, R!Nothing
<1>2. OneByOne /\ EditedInv /\ EditedInv' /\ [Next]_vars => [R!Next]_R!vars
  <2> SUFFICES ASSUME OneByOne, EditedInv, EditedInv', [Next]_vars
               PROVE  R!Next \/ UNCHANGED R!vars
    OBVIOUS
  <2>1. Advances
    BY EditedNext
  <2>2. TypeOK /\ WholeInv /\ stage = [p \in Purchases |-> StageOf(p)]
    BY EditedWhole
  <2>3. (TypeOK /\ NetMatches /\ WholeInv /\ stage = [p \in Purchases |-> StageOf(p)])'
    BY EditedWhole, PTL
  <2> QED
    BY <2>1, <2>2, <2>3, ReceiptRefined
<1>3. CASE OneByOne
  <2>1. Init => EditedInv /\ R!Init
    BY <1>1, <1>3, InitEdited
  <2>2. EditedInv /\ [Next]_vars => EditedInv'
    BY <1>3, EditedNext
  <2>3. EditedInv /\ EditedInv' /\ [Next]_vars => [R!Next]_R!vars
    BY <1>2, <1>3
  <2>4. EditedInv => NetMatches
    BY EditedWhole
  <2>5. EditedInv /\ [Next]_vars
          => [\A s \in Sessions, p \in Purchases :
                answer'[s] = <<"commit", p>> /\ answer[s] = None
                   => tp'[p].delivered /\ \E i \in Items : net'[p][i] > 0]_vars
    BY <1>3, EditedNext DEF CommitTold
  <2> QED
    BY <2>1, <2>2, <2>3, <2>4, <2>5, PTL
       DEF Spec, R!Spec, ReceivedOnce, EditedMatches, CommitAnswersTrue
<1> QED
  BY <1>3

-----------------------------------------------------------------------------
(***************************************************************************)
(* Purchases that were closed.                                             *)
(***************************************************************************)
DeletedOut == \A p \in Purchases : tp[p].status = "deleted" => ~ tp[p].delivered

\* A request that has the row as it is writes the columns it decided on.
LEMMA SavedColumns ==
    ASSUME OneByOne, EditedInv, NEW s \in Sessions, req[s] # None, NEW new, Save(s, new)
    PROVE  /\ \A p \in Purchases \ {req[s].p} : tp'[p] = tp[p]
           /\ tp'[req[s].p].status = new.status /\ tp'[req[s].p].delivered = new.delivered
<1>1. /\ req[s].p \in Purchases /\ tp[req[s].p] \in Row /\ View(s) = tp[req[s].p]
      /\ tp \in [Purchases -> Row]
  BY AtWork DEF TypeOK
<1>2. tp' = [tp EXCEPT ![req[s].p] = Merged(tp[req[s].p], new, tp[req[s].p])]
  BY <1>1 DEF Save
<1>3. /\ Merged(tp[req[s].p], new, tp[req[s].p]).status = new.status
      /\ Merged(tp[req[s].p], new, tp[req[s].p]).delivered = new.delivered
  BY <1>1 DEF Merged, Column, Row
<1> QED
  BY <1>1, <1>2, <1>3

\* Only a deletion deletes, and only what is not closed comes in.
LEMMA DeletedSave ==
    ASSUME OneByOne, EditedInv, DeletedOut, NEW s \in Sessions, req[s] # None, NEW new, Save(s, new),
           \/ ~ new.delivered
           \/ new.status # "deleted"
           \/ new.status = View(s).status /\ new.delivered = View(s).delivered
    PROVE  DeletedOut'
<1>1. PICK p : p = req[s].p
  OBVIOUS
<1>2. /\ p \in Purchases /\ View(s) = tp[p]
  BY <1>1, AtWork
<1>3. /\ \A o \in Purchases \ {p} : tp'[o] = tp[o]
      /\ tp'[p].status = new.status /\ tp'[p].delivered = new.delivered
  BY <1>1, SavedColumns
<1> QED
  BY <1>2, <1>3 DEF DeletedOut

LEMMA DeletedStep ==
    ASSUME OneByOne, EditedInv, DeletedOut, [Next]_vars
    PROVE  DeletedOut'
<1>1. ASSUME tp' = tp PROVE DeletedOut'
  BY <1>1 DEF DeletedOut
<1>2. ASSUME NEW s \in Sessions, Finish(s) PROVE DeletedOut'
  <2>1. req[s] # None
    BY <1>2 DEF Finish, Dispatch, Arrive, Verify, Commit, Revert, Cancel, Delete, Edit, Pay, Transition, Serves
  <2>2. PICK p \in Purchases : p = req[s].p /\ tp[p] \in Row /\ View(s) = tp[p] /\ tp \in [Purchases -> Row]
    BY <2>1, AtWork DEF TypeOK
  <2>3. ASSUME NEW new, Save(s, new), ~ new.delivered PROVE DeletedOut'
    BY <2>1, <2>3, DeletedSave
  <2>4. ASSUME NEW new, Save(s, new), new.status # "deleted" PROVE DeletedOut'
    BY <2>1, <2>4, DeletedSave
  <2>5. CASE Dispatch(s) \/ Arrive(s)
    <3>1. PICK d \in {"in_transit", "dispatched", "arrived"} : Save(s, [View(s) EXCEPT !.delivery = d])
      BY <2>5 DEF Dispatch, Arrive
    <3>2. [View(s) EXCEPT !.delivery = d].status # "deleted"
      BY <2>2, <2>5 DEF Dispatch, Arrive, Closed, Row
    <3> QED
      BY <3>1, <3>2, <2>4
  <2>6. CASE Verify(s)
    <3>1. PICK counted : Save(s, Entered(View(s), counted))
      BY <2>6 DEF Verify
    <3>2. Entered(View(s), counted).status # "deleted"
      BY <2>2 DEF Entered, Row
    <3> QED
      BY <3>1, <3>2, <2>4
  <2>7. ASSUME CommitNew(s, Committed(View(s))) PROVE DeletedOut'
    <3>1. Save(s, Committed(View(s)))
      BY <2>7 DEF CommitNew
    <3>2. Committed(View(s)).status # "deleted"
      BY <2>2 DEF Committed, Row
    <3> QED
      BY <3>1, <3>2, <2>4
  <2>8. CASE Commit(s)
    BY <1>1, <2>7, <2>8 DEF Commit
  <2>9. CASE Revert(s)
    <3>1. Save(s, [View(s) EXCEPT !.delivered = FALSE, !.delivery = "pending"])
      BY <2>9 DEF Revert
    <3>2. ~ [View(s) EXCEPT !.delivered = FALSE, !.delivery = "pending"].delivered
      BY <2>2 DEF Row
    <3> QED
      BY <3>1, <3>2, <2>3
  <2>10. CASE Cancel(s) \/ Delete(s)
    <3>1. PICK st : Save(s, [View(s) EXCEPT !.status = st, !.delivered = FALSE, !.delivery = "cancelled"])
      BY <2>10 DEF Cancel, Delete, CloseAs
    <3>2. ~ [View(s) EXCEPT !.status = st, !.delivered = FALSE, !.delivery = "cancelled"].delivered
      BY <2>2 DEF Row
    <3> QED
      BY <3>1, <3>2, <2>3
  <2>11. CASE Edit(s)
    <3>1. /\ \A o \in Purchases \ {p} : tp'[o] = tp[o]
          /\ tp'[p].status # "deleted"
      BY <2>2, <2>11 DEF Edit, Column, Editable, Closed, Row
    <3> QED
      BY <3>1 DEF DeletedOut
  <2>12. CASE Pay(s)
    <3>1. PICK st \in PaidStatuses(View(s).status) : Save(s, [View(s) EXCEPT !.status = st])
      BY <2>12 DEF Pay
    <3>2. [View(s) EXCEPT !.status = st].status # "deleted"
      BY <2>2 DEF PaidStatuses, Row
    <3> QED
      BY <3>1, <3>2, <2>4
  <2>13. CASE Transition(s)
    <3>1. PICK target \in Allowed(Normal(View(s).status)) :
             IF target = "added_to_stock" THEN AddToStock(s) ELSE MoveOn(s, target)
      BY <2>13 DEF Transition
    <3>2. target # "deleted"
      BY DEF Allowed
    <3>3. CASE target = "added_to_stock"
      <4>1. CASE CommitNew(s, Committed(View(s)))
        BY <2>7, <4>1
      <4>2. CASE Save(s, [View(s) EXCEPT !.status = "added_to_stock"])
        <5>1. [View(s) EXCEPT !.status = "added_to_stock"].status # "deleted"
          BY <2>2 DEF Row
        <5> QED
          BY <4>2, <5>1, <2>4
      <4> QED
        BY <3>1, <3>3, <4>1, <4>2 DEF AddToStock
    <3>4. CASE target # "added_to_stock"
      <4>1. Save(s, [View(s) EXCEPT !.status = target, !.delivery = DeliveryFor(target, @)])
        BY <3>1, <3>4 DEF MoveOn
      <4>2. [View(s) EXCEPT !.status = target, !.delivery = DeliveryFor(target, @)].status # "deleted"
        BY <2>2, <3>2 DEF Row
      <4> QED
        BY <4>1, <4>2, <2>4
    <3> QED
      BY <3>3, <3>4
  <2> QED
    BY <1>2, <2>5, <2>6, <2>8, <2>9, <2>10, <2>11, <2>12, <2>13 DEF Finish
<1> QED
  BY <1>1, <1>2 DEF Next, Load, Abort, Sell, SetUnit, vars

\* While a purchase's requests are served one after another, a cancel or delete
\* request leaves none of its goods in stock: a cancellation of what was
\* received, counted short, reverted or paid before, and either of what was
\* edited, counted and moved along the lifecycle before, or paid, as long as
\* nobody reverts it (trade_purchase_service.py:2327-2450).
THEOREM ClosedHoldsNothing == (LinesHeld \/ OneByOne) /\ Spec => []NoStockWhenClosedAlone
<1>1. CASE LinesHeld
  <2>1. ReceiptInv => NoStockWhenClosedAlone
    BY DEF ReceiptInv, WholeInv, RowInv, NoStockWhenClosedAlone, Closed
  <2> QED
    BY <1>1, <2>1, ReceiptHolds, PTL
<1>2. CASE OneByOne
  <2>1. Init => EditedInv /\ DeletedOut
    BY <1>2, InitEdited, RowsAssumption DEF Init, DeletedOut
  <2>2. EditedInv /\ DeletedOut /\ [Next]_vars => EditedInv' /\ DeletedOut'
    BY <1>2, EditedNext, DeletedStep
  <2>3. EditedInv /\ DeletedOut => NoStockWhenClosedAlone
    BY DEF EditedInv, OnceInv, DeletedOut, NoStockWhenClosedAlone
  <2> QED
    BY <2>1, <2>2, <2>3, PTL DEF Spec
<1> QED
  BY <1>1, <1>2
===============================================================================
