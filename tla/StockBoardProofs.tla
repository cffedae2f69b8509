-------------------------- MODULE StockBoardProofs --------------------------
(***************************************************************************)
(* What the stock list shows of purchases, for any items, unit setups,     *)
(* orders and requests: receipts are taken back as they came, what is said *)
(* to be on its way is on its way, no closed purchase is the last one, the *)
(* variance of an item is what it says, and the screens that classify,     *)
(* count and page the items agree.                                         *)
(***************************************************************************)
EXTENDS StockBoard, FiniteSetTheorems, SequenceTheorems, TLAPS

-----------------------------------------------------------------------------
(***************************************************************************)
(* Sums over finite sets (SumFunctionOnSet of the module Functions).       *)
(***************************************************************************)
\* A sum over a set picks an element and goes on with the rest.
Picked(s) == CHOOSE x \in s : TRUE
SumStep(f, g, s) == IF s = {} THEN 0 ELSE f[Picked(s)] + g[s \ {Picked(s)}]
Summing(f, S, g) == g = [s \in SUBSET S |-> SumStep(f, g, s)]

LEMMA SumIs ==
  ASSUME NEW f, NEW S
  PROVE  SumFunctionOnSet(f, S) = (CHOOSE g : Summing(f, S, g))[S]
BY DEF SumFunctionOnSet, FoldFunctionOnSet, MapThenFoldSet, Summing, SumStep, Picked

\* Of finite sets with a property one has no smaller one with it.
LEMMA Smallest ==
  ASSUME NEW S, NEW Bad, Bad \subseteq FiniteSubsetsOf(S), Bad # {}
  PROVE  \E U \in Bad : /\ U \subseteq S /\ IsFiniteSet(U)
                        /\ \A V \in SUBSET U : V # U => V \notin Bad /\ V \in FiniteSubsetsOf(S)
<1>1. PICK U \in Bad : \A V \in Bad : <<V, U>> \notin StrictSubsetOrdering(S)
  <2>1. IsWellFoundedOn(StrictSubsetOrdering(S), FiniteSubsetsOf(S))
    BY FS_StrictSubsetOrderingWellFounded
  <2> QED BY <2>1, WFMin
<1>2. U \subseteq S /\ IsFiniteSet(U)
  BY DEF FiniteSubsetsOf
<1>3. ASSUME NEW V \in SUBSET U, V # U
      PROVE  V \notin Bad /\ V \in FiniteSubsetsOf(S)
  <2>1. IsFiniteSet(V) /\ V \subseteq S
    BY <1>2, FS_Subset
  <2>2. <<V, U>> \in StrictSubsetOrdering(S)
    BY <1>2, <1>3, <2>1 DEF StrictSubsetOrdering
  <2> QED BY <1>1, <2>1, <2>2 DEF FiniteSubsetsOf
<1> QED BY <1>2, <1>3

LEMMA PickedIn ==
  ASSUME NEW s, s # {}
  PROVE  Picked(s) \in s /\ s \ {Picked(s)} \subseteq s /\ s \ {Picked(s)} # s
<1>1. \E x \in s : TRUE
  OBVIOUS
<1>2. Picked(s) \in s
  BY <1>1 DEF Picked
<1> QED BY <1>2

\* Sums of one function agree on the sets they share.
LEMMA SummingsAgree ==
  ASSUME NEW f, NEW S, NEW g, NEW T, NEW h, Summing(f, S, g), Summing(f, T, h),
         NEW s, s \subseteq S, s \subseteq T, IsFiniteSet(s)
  PROVE  g[s] = h[s]
<1> DEFINE Bad == {u \in FiniteSubsetsOf(s) : g[u] # h[u]}
<1>1. Bad = {}
  <2> SUFFICES ASSUME Bad # {} PROVE FALSE
    OBVIOUS
  <2>0. Bad \subseteq FiniteSubsetsOf(s)
    OBVIOUS
  <2>1. PICK u \in Bad : u \subseteq s /\ \A v \in SUBSET u : v # u => v \notin Bad /\ v \in FiniteSubsetsOf(s)
    <3> HIDE DEF Bad
    <3> QED BY <2>0, Smallest
  <2>2. g[u] = SumStep(f, g, u) /\ h[u] = SumStep(f, h, u)
    BY <2>1 DEF Summing
  <2>3. CASE u = {}
    BY <2>2, <2>3 DEF SumStep
  <2>4. CASE u # {}
    <3>1. g[u \ {Picked(u)}] = h[u \ {Picked(u)}]
      BY <2>1, <2>4, PickedIn
    <3> QED BY <2>2, <2>4, <3>1 DEF SumStep
  <2> QED BY <2>3, <2>4
<1> QED BY <1>1 DEF FiniteSubsetsOf

LEMMA SummingExists ==
  ASSUME NEW f, NEW S, IsFiniteSet(S)
  PROVE  \E g : Summing(f, S, g)
<1> DEFINE Bad == {u \in FiniteSubsetsOf(S) : ~\E g : Summing(f, u, g)}
<1>1. Bad = {}
  <2> SUFFICES ASSUME Bad # {} PROVE FALSE
    OBVIOUS
  <2>0. Bad \subseteq FiniteSubsetsOf(S)
    OBVIOUS
  <2>1. PICK u \in Bad : /\ u \subseteq S /\ IsFiniteSet(u)
                         /\ \A v \in SUBSET u : v # u => v \notin Bad /\ v \in FiniteSubsetsOf(S)
    <3> HIDE DEF Bad
    <3> QED BY <2>0, Smallest
  <2> DEFINE G(v) == CHOOSE g : Summing(f, v, g)
             H == [v \in SUBSET u |-> G(v)[v]]
             K == [v \in SUBSET u |-> IF v = u THEN SumStep(f, H, u) ELSE H[v]]
  <2>2. \A v \in SUBSET u : v # u => Summing(f, v, G(v))
    BY <2>1
  <2> HIDE DEF G
  <2>3. ASSUME NEW v \in SUBSET u, v # {}
        PROVE  v \ {Picked(v)} \in SUBSET u /\ v \ {Picked(v)} # u
    BY <2>3, PickedIn
  <2>4. ASSUME NEW v \in SUBSET u, v # u
        PROVE  H[v] = SumStep(f, H, v)
    <3>1. G(v)[v] = SumStep(f, G(v), v)
      BY <2>2, <2>4 DEF Summing
    <3>2. CASE v = {}
      BY <3>1, <3>2 DEF SumStep
    <3>3. CASE v # {}
      <4> DEFINE w == v \ {Picked(v)}
      <4>1. w \in SUBSET u /\ w # u /\ w \subseteq v /\ IsFiniteSet(w)
        BY <2>1, <2>3, <3>3, FS_Subset
      <4>2. G(v)[w] = G(w)[w]
        BY <2>2, <2>4, <4>1, SummingsAgree
      <4>3. H[w] = G(v)[w]
        BY <4>1, <4>2
      <4> QED BY <3>1, <3>3, <4>3 DEF SumStep
    <3> QED BY <3>2, <3>3
  <2>5. \A v \in SUBSET u : SumStep(f, K, v) = SumStep(f, H, v)
    BY <2>3 DEF SumStep
  <2>6. \A v \in SUBSET u : K[v] = SumStep(f, K, v)
    BY <2>4, <2>5
  <2>7. K = [v \in SUBSET u |-> SumStep(f, K, v)]
    <3>1. K = [v \in SUBSET u |-> K[v]]
      OBVIOUS
    <3> HIDE DEF K
    <3> QED BY <2>6, <3>1
  <2> QED BY <2>7 DEF Summing
<1> QED BY <1>1 DEF FiniteSubsetsOf

LEMMA SumUnfolds ==
  ASSUME NEW f, NEW S, IsFiniteSet(S)
  PROVE  /\ S = {} => SumFunctionOnSet(f, S) = 0
         /\ S # {} => SumFunctionOnSet(f, S) = f[Picked(S)] + SumFunctionOnSet(f, S \ {Picked(S)})
<1> DEFINE G(v) == CHOOSE g : Summing(f, v, g)
<1>1. \A v : IsFiniteSet(v) => Summing(f, v, G(v)) /\ SumFunctionOnSet(f, v) = G(v)[v]
  BY SummingExists, SumIs
<1> HIDE DEF G
<1>2. G(S)[S] = SumStep(f, G(S), S)
  BY <1>1 DEF Summing
<1>3. CASE S # {}
  <2>1. IsFiniteSet(S \ {Picked(S)})
    BY FS_Subset
  <2>2. G(S)[S \ {Picked(S)}] = G(S \ {Picked(S)})[S \ {Picked(S)}]
    BY <1>1, <2>1, SummingsAgree
  <2> QED BY <1>1, <1>2, <1>3, <2>1, <2>2 DEF SumStep
<1> QED BY <1>1, <1>2, <1>3 DEF SumStep

LEMMA SumInt ==
  ASSUME NEW f, NEW S, IsFiniteSet(S), \A x \in S : f[x] \in Int
  PROVE  SumFunctionOnSet(f, S) \in Int
<1> DEFINE Bad == {u \in FiniteSubsetsOf(S) : SumFunctionOnSet(f, u) \notin Int}
<1>1. Bad = {}
  <2> SUFFICES ASSUME Bad # {} PROVE FALSE
    OBVIOUS
  <2>0. Bad \subseteq FiniteSubsetsOf(S)
    OBVIOUS
  <2>1. PICK u \in Bad : /\ u \subseteq S /\ IsFiniteSet(u)
                         /\ \A v \in SUBSET u : v # u => v \notin Bad /\ v \in FiniteSubsetsOf(S)
    <3> HIDE DEF Bad
    <3> QED BY <2>0, Smallest
  <2>2. CASE u = {}
    <3>1. SumFunctionOnSet(f, u) = 0
      BY <2>1, <2>2, SumUnfolds
    <3> QED BY <2>1, <3>1
  <2>3. CASE u # {}
    <3>1. SumFunctionOnSet(f, u \ {Picked(u)}) \in Int /\ f[Picked(u)] \in Int
      BY <2>1, <2>3, PickedIn
    <3>2. SumFunctionOnSet(f, u) = f[Picked(u)] + SumFunctionOnSet(f, u \ {Picked(u)})
      BY <2>1, <2>3, SumUnfolds
    <3> QED BY <3>1, <3>2
  <2> QED BY <2>2, <2>3
<1> QED BY <1>1 DEF FiniteSubsetsOf

\* The order of the summands does not matter.
LEMMA SumWithout ==
  ASSUME NEW f, NEW S, IsFiniteSet(S), \A x \in S : f[x] \in Int, NEW a \in S
  PROVE  SumFunctionOnSet(f, S) = f[a] + SumFunctionOnSet(f, S \ {a})
<1> DEFINE Takes(u) == \A b \in u : SumFunctionOnSet(f, u) = f[b] + SumFunctionOnSet(f, u \ {b})
           Bad == {u \in FiniteSubsetsOf(S) : ~Takes(u)}
<1>1. Bad = {}
  <2> SUFFICES ASSUME Bad # {} PROVE FALSE
    OBVIOUS
  <2>0. Bad \subseteq FiniteSubsetsOf(S)
    OBVIOUS
  <2>1. PICK u \in Bad : /\ u \subseteq S /\ IsFiniteSet(u)
                         /\ \A v \in SUBSET u : v # u => v \notin Bad /\ v \in FiniteSubsetsOf(S)
    <3> HIDE DEF Bad
    <3> QED BY <2>0, Smallest
  <2>2. PICK b \in u : SumFunctionOnSet(f, u) # f[b] + SumFunctionOnSet(f, u \ {b})
    BY <2>1
  <2> DEFINE p == Picked(u)
  <2>3. p \in u /\ u # {}
    BY PickedIn
  <2> HIDE DEF p
  <2>4. SumFunctionOnSet(f, u) = f[p] + SumFunctionOnSet(f, u \ {p})
    BY <2>1, <2>3, SumUnfolds DEF p
  <2>5. p # b
    BY <2>2, <2>4
  <2>6. /\ u \ {p} \in SUBSET u /\ u \ {p} # u /\ b \in u \ {p}
        /\ u \ {b} \in SUBSET u /\ u \ {b} # u /\ p \in u \ {b}
    BY <2>3, <2>5
  <2>7. Takes(u \ {p}) /\ Takes(u \ {b})
    BY <2>1, <2>6
  <2>8. (u \ {p}) \ {b} = (u \ {b}) \ {p}
    OBVIOUS
  <2> DEFINE rest == SumFunctionOnSet(f, (u \ {b}) \ {p})
  <2>9. SumFunctionOnSet(f, u \ {p}) = f[b] + rest
    BY <2>6, <2>7, <2>8
  <2>10. SumFunctionOnSet(f, u \ {b}) = f[p] + rest
    BY <2>6, <2>7
  <2>11. rest \in Int /\ f[p] \in Int /\ f[b] \in Int
    <3>1. IsFiniteSet((u \ {b}) \ {p}) /\ (u \ {b}) \ {p} \subseteq S
      BY <2>1, FS_Subset
    <3> QED BY <2>1, <2>3, <3>1, SumInt
  <2> HIDE DEF rest
  <2> QED BY <2>2, <2>4, <2>9, <2>10, <2>11
<1> QED BY <1>1 DEF FiniteSubsetsOf

\* What has the same summands has the same sum, and nothing comes to nothing.
LEMMA SumSame ==
  ASSUME NEW f, NEW g, NEW S, IsFiniteSet(S), \A x \in S : f[x] \in Int /\ g[x] = f[x]
  PROVE  SumFunctionOnSet(g, S) = SumFunctionOnSet(f, S)
<1> DEFINE Bad == {u \in FiniteSubsetsOf(S) : SumFunctionOnSet(g, u) # SumFunctionOnSet(f, u)}
<1>1. Bad = {}
  <2> SUFFICES ASSUME Bad # {} PROVE FALSE
    OBVIOUS
  <2>0. Bad \subseteq FiniteSubsetsOf(S)
    OBVIOUS
  <2>1. PICK u \in Bad : /\ u \subseteq S /\ IsFiniteSet(u)
                         /\ \A v \in SUBSET u : v # u => v \notin Bad /\ v \in FiniteSubsetsOf(S)
    <3> HIDE DEF Bad
    <3> QED BY <2>0, Smallest
  <2>2. CASE u = {}
    BY <2>1, <2>2, SumUnfolds
  <2>3. CASE u # {}
    <3>1. /\ SumFunctionOnSet(g, u \ {Picked(u)}) = SumFunctionOnSet(f, u \ {Picked(u)})
          /\ g[Picked(u)] = f[Picked(u)]
      BY <2>1, <2>3, PickedIn
    <3> QED BY <2>1, <2>3, <3>1, SumUnfolds
  <2> QED BY <2>2, <2>3
<1> QED BY <1>1 DEF FiniteSubsetsOf

\* One summand changes.
LEMMA SumChanged ==
  ASSUME NEW f, NEW g, NEW S, IsFiniteSet(S), NEW a \in S,
         \A x \in S : f[x] \in Int /\ g[x] \in Int /\ (x # a => g[x] = f[x])
  PROVE  SumFunctionOnSet(g, S) = SumFunctionOnSet(f, S) + g[a] - f[a]
<1>1. IsFiniteSet(S \ {a}) /\ SumFunctionOnSet(f, S \ {a}) \in Int
  BY FS_Subset, SumInt
<1>2. SumFunctionOnSet(g, S \ {a}) = SumFunctionOnSet(f, S \ {a})
  BY <1>1, SumSame
<1>3. /\ SumFunctionOnSet(f, S) = f[a] + SumFunctionOnSet(f, S \ {a})
      /\ SumFunctionOnSet(g, S) = g[a] + SumFunctionOnSet(g, S \ {a})
  BY SumWithout
<1> QED BY <1>1, <1>2, <1>3

\* Zeros may be left out.
LEMMA SumOfSome ==
  ASSUME NEW f, NEW S, IsFiniteSet(S), \A x \in S : f[x] \in Int,
         NEW T, T \subseteq S, \A x \in S \ T : f[x] = 0
  PROVE  SumFunctionOnSet(f, T) = SumFunctionOnSet(f, S)
<1> DEFINE Bad == {u \in FiniteSubsetsOf(S) : T \subseteq u /\ SumFunctionOnSet(f, u) # SumFunctionOnSet(f, T)}
<1>1. Bad = {}
  <2> SUFFICES ASSUME Bad # {} PROVE FALSE
    OBVIOUS
  <2>0. Bad \subseteq FiniteSubsetsOf(S)
    OBVIOUS
  <2>1. PICK u \in Bad : /\ u \subseteq S /\ IsFiniteSet(u)
                         /\ \A v \in SUBSET u : v # u => v \notin Bad /\ v \in FiniteSubsetsOf(S)
    <3>1. Bad # {}
      OBVIOUS
    <3> HIDE DEF Bad
    <3> QED BY ONLY <2>0, <3>1, Smallest
  <2>2. PICK b \in u : b \notin T
    <3>1. T \subseteq u /\ u # T
      BY <2>1
    <3> QED BY <3>1
  <2>3. SumFunctionOnSet(f, u \ {b}) = SumFunctionOnSet(f, T)
    BY <2>1, <2>2
  <2>4. SumFunctionOnSet(f, u) = 0 + SumFunctionOnSet(f, u \ {b})
    BY <2>1, <2>2, SumWithout
  <2>5. SumFunctionOnSet(f, T) \in Int
    BY FS_Subset, SumInt
  <2> QED BY <2>1, <2>3, <2>4, <2>5
<1> QED BY <1>1 DEF FiniteSubsetsOf

\* Sums are added term by term.
LEMMA SumPlus ==
  ASSUME NEW f, NEW g, NEW h, NEW S, IsFiniteSet(S),
         \A x \in S : f[x] \in Int /\ g[x] \in Int /\ h[x] = f[x] + g[x]
  PROVE  SumFunctionOnSet(h, S) = SumFunctionOnSet(f, S) + SumFunctionOnSet(g, S)
<1> DEFINE Bad == {u \in FiniteSubsetsOf(S) :
                     SumFunctionOnSet(h, u) # SumFunctionOnSet(f, u) + SumFunctionOnSet(g, u)}
<1>1. Bad = {}
  <2> SUFFICES ASSUME Bad # {} PROVE FALSE
    OBVIOUS
  <2>0. Bad \subseteq FiniteSubsetsOf(S)
    OBVIOUS
  <2>1. PICK u \in Bad : /\ u \subseteq S /\ IsFiniteSet(u)
                         /\ \A v \in SUBSET u : v # u => v \notin Bad /\ v \in FiniteSubsetsOf(S)
    <3> HIDE DEF Bad
    <3> QED BY <2>0, Smallest
  <2>2. CASE u = {}
    <3>1. \A k \in {f, g, h} : SumFunctionOnSet(k, u) = 0
      BY <2>1, <2>2, SumUnfolds
    <3> QED BY <2>1, <3>1
  <2>3. CASE u # {}
    <3> DEFINE v == u \ {Picked(u)}
    <3>1. /\ v \in SUBSET u /\ v # u /\ Picked(u) \in u /\ IsFiniteSet(v)
      BY <2>1, <2>3, PickedIn, FS_Subset
    <3>2. SumFunctionOnSet(h, v) = SumFunctionOnSet(f, v) + SumFunctionOnSet(g, v)
      BY <2>1, <3>1
    <3>3. SumFunctionOnSet(f, v) \in Int /\ SumFunctionOnSet(g, v) \in Int
      BY <2>1, <3>1, SumInt
    <3>4. \A k \in {f, g, h} : SumFunctionOnSet(k, u) = k[Picked(u)] + SumFunctionOnSet(k, v)
      BY <2>1, <2>3, SumUnfolds
    <3>5. /\ h[Picked(u)] = f[Picked(u)] + g[Picked(u)]
          /\ f[Picked(u)] \in Int /\ g[Picked(u)] \in Int
      BY <2>1, <3>1
    <3> HIDE DEF v
    <3> QED BY <2>1, <3>2, <3>3, <3>4, <3>5
  <2> QED BY <2>2, <2>3
<1> QED BY <1>1 DEF FiniteSubsetsOf

-----------------------------------------------------------------------------
(***************************************************************************)
(* The invariant.                                                          *)
(***************************************************************************)
BoardTyped ==
  /\ setup \in [Items -> Setups]
  /\ last \in [Items -> [po : Numbers \cup {None}, at : Nat \cup {None}]]
  /\ po \in [Numbers -> Purchases \cup {None}]
  /\ today \in Nat

\* is_delivered and delivery_status say the same until the lifecycle puts a
\* delivered purchase back, and what is cancelled is closed.
InStep(q) == ~q.reopened => (q.delivered <=> q.delivery = "stock_committed")

FlagsAgree ==
  \A n \in Recorded : InStep(po[n]) /\ (po[n].delivery = "cancelled" => po[n].status \in Closed)

\* A purchase that no cancel or delete request has closed.
Stands(q) == q.status \notin Closed \/ (q.status = "cancelled" /\ q.delivery # "cancelled")

\* A purchase whose receipt was never booked has added nothing and is not delivered
\* (purchase_delivery_stock_already_applied).
NothingUnapplied == \A n \in Recorded : ~po[n].applied => po[n].added = 0 /\ ~po[n].delivered

LastLive ==
  \A i \in Items : last[i].po # None =>
    /\ last[i].po \in Recorded
    /\ po[last[i].po].item = i => Stands(po[last[i].po])

LateTold ==
  \A i \in Items : <<"supplier_delayed", i>> \in told =>
    \E n \in Recorded : today - po[n].day >= DelayDays

BoardInv == BoardTyped /\ FlagsAgree /\ NothingUnapplied /\ UnitStable /\ LastLive /\ LateTold

-----------------------------------------------------------------------------
(***************************************************************************)
(* Quantities, whatever the unit of the line and of the item.              *)
(***************************************************************************)
LEMMA RoundedNat ==
  ASSUME NEW n \in Int, NEW d \in Nat, d > 0
  PROVE  Rounded(n, d) \in Nat
<1>1. CASE n <= 0
  BY <1>1 DEF Rounded
<1>2. CASE n > 0
  <2>1. 2 * n + d \in Nat /\ 2 * d \in Nat /\ 2 * d > 0
    BY <1>2
  <2>2. \A a, b \in Nat : b > 0 => a \div b \in Nat
    OBVIOUS
  <2>3. (2 * n + d) \div (2 * d) \in Nat
    BY <2>1, <2>2
  <2> QED BY <1>2, <2>3 DEF Rounded
<1> QED BY <1>1, <1>2

LEMMA KgPerNat ==
  ASSUME NEW s \in Setups, NEW l \in Lines
  PROVE  KgPer(s, l) \in Nat
BY DEF KgPer, FirstPositive, Setups, Lines

LEMMA LineKgNat ==
  ASSUME NEW s \in Setups, NEW l \in Lines
  PROVE  LineKg(s, l) \in Nat
<1>1. KgPer(s, l) \in Nat /\ l.qty \in Nat /\ l.weight \in Nat
  BY KgPerNat DEF Lines
<1>2. (l.qty * KgPer(s, l)) \div 1000 \in Nat
  <2>1. \A a \in Nat : a \div 1000 \in Nat
    OBVIOUS
  <2>2. l.qty * KgPer(s, l) \in Nat
    BY <1>1
  <2> QED BY <2>1, <2>2
<1> QED BY <1>1, <1>2 DEF LineKg

LEMMA ConvertedNat ==
  ASSUME NEW s \in Setups, NEW l \in Lines
  PROVE  Converted(s, l) \in Nat
<1>1. KgPer(s, l) \in Nat /\ LineKg(s, l) \in Nat /\ l.qty \in Nat
  BY KgPerNat, LineKgNat DEF Lines
<1>2. KgPer(s, l) > 0 => Rounded(LineKg(s, l) * 1000, KgPer(s, l)) \in Nat
  <2>1. LineKg(s, l) * 1000 \in Int
    BY <1>1
  <2> QED BY <1>1, <2>1, RoundedNat
<1>3. Rounded(l.qty * KgPer(s, l), 1000) \in Nat
  <2>1. l.qty * KgPer(s, l) \in Int
    BY <1>1
  <2> QED BY <2>1, RoundedNat
<1> QED BY <1>1, <1>2, <1>3 DEF Converted

LEMMA CommitQtyNat ==
  ASSUME NEW s \in Setups, NEW l \in Lines
  PROVE  CommitQty(s, l) \in Nat
<1>1. l.snap \in Nat /\ l.qty \in Nat /\ l.received \in Nat \cup {None}
  BY DEF Lines
<1>2. StockQty(s, l) \in Nat
  BY <1>1, ConvertedNat DEF StockQty
<1>3. ASSUME l.received # None
      PROVE  StockQty(s, [l EXCEPT !.qty = l.received]) \in Nat
  <2>1. [l EXCEPT !.qty = l.received] \in Lines
    BY <1>1, <1>3 DEF Lines
  <2> DEFINE m == [l EXCEPT !.qty = l.received]
  <2>2. m.snap \in Nat /\ Converted(s, m) \in Nat
    BY <2>1, ConvertedNat DEF Lines
  <2> QED BY <2>2 DEF StockQty
<1>4. ASSUME l.received # None, l.qty > 0
      PROVE  Rounded(l.snap * l.received, l.qty) \in Nat
  <2>1. l.snap * l.received \in Int
    BY <1>1, <1>4
  <2> QED BY <1>1, <1>4, <2>1, RoundedNat
<1> QED BY <1>2, <1>3, <1>4 DEF CommitQty

\* Once a line has its quantity, the item's setup does not matter any more.
LEMMA SnapshotDecides ==
  ASSUME NEW s, NEW t, NEW l \in Lines, l.snap > 0
  PROVE  CommitQty(s, l) = CommitQty(t, l)
<1>1. StockQty(s, l) = l.snap /\ StockQty(t, l) = l.snap
  BY DEF StockQty
<1>2. [l EXCEPT !.qty = l.received].snap = l.snap
  BY DEF Lines
<1>3. /\ StockQty(s, [l EXCEPT !.qty = l.received]) = l.snap
      /\ StockQty(t, [l EXCEPT !.qty = l.received]) = l.snap
  BY <1>2 DEF StockQty
<1> QED BY <1>1, <1>3 DEF CommitQty

LEMMA SetupsKept ==
  ASSUME NEW p \in Profiles
  PROVE  /\ Created(p) \in Setups
         /\ \A s \in Setups : Edited(s, p) \in Setups
<1>1. /\ p[1] \in {"box", "bag", "kg", "tin", "piece"} /\ p[2] \in Nat
      /\ Package[p[1]] \in {"BOX", "SACK", "LOOSE", "TIN", "PIECE"} /\ Weight(p) \in Nat
  BY BoardAssumption DEF Package, Weight
<1>2. Created(p) \in Setups
  BY <1>1 DEF Created, Setups
<1>3. ASSUME NEW s \in Setups
      PROVE  Edited(s, p) \in Setups
  BY <1>1 DEF Edited, Setups
<1> QED BY <1>2, <1>3

LEMMA WrittenLines ==
  ASSUME BoardTyped, NEW i \in Items, NEW l \in Lines
  PROVE  Written(i, l) \in Lines
<1>1. Converted(setup[i], l) \in Nat
  BY ConvertedNat DEF BoardTyped
<1> QED BY <1>1 DEF Written, Lines

LEMMA Finite == IsFiniteSet(Numbers) /\ IsFiniteSet(Days)
<1>1. 1 \in Int /\ N \in Int /\ 0 \in Int /\ LastDay \in Int
  BY BoardAssumption
<1> QED BY <1>1, FS_Interval DEF Numbers, Days

LEMMA FiniteHasMax ==
  ASSUME NEW S, S \subseteq Int, IsFiniteSet(S), S # {}
  PROVE  Max(S) \in S /\ \A x \in S : Max(S) >= x
<1> DEFINE HasMax(U) == \E x \in U : \A y \in U : x >= y
           Bad == {U \in FiniteSubsetsOf(S) : U # {} /\ ~HasMax(U)}
<1>1. Bad = {}
  <2> SUFFICES ASSUME Bad # {} PROVE FALSE
    OBVIOUS
  <2>0. Bad \subseteq FiniteSubsetsOf(S)
    OBVIOUS
  <2>1. PICK U \in Bad : /\ U \subseteq S /\ IsFiniteSet(U)
                         /\ \A V \in SUBSET U : V # U => V \notin Bad /\ V \in FiniteSubsetsOf(S)
    <3> HIDE DEF Bad
    <3> QED BY <2>0, Smallest
  <2>2. U \subseteq S /\ IsFiniteSet(U) /\ U # {} /\ ~HasMax(U)
    BY <2>1
  <2>3. PICK x \in U : TRUE
    BY <2>2
  <2> DEFINE V == U \ {x}
  <2>4. V \in SUBSET U /\ V # U
    BY <2>3
  <2>5. V = {} \/ HasMax(V)
    BY <2>1, <2>4
  <2>6. CASE V = {}
    <3>1. U = {x} /\ x \in Int
      BY <2>2, <2>3, <2>6
    <3> QED BY <2>2, <3>1
  <2>7. CASE HasMax(V)
    <3>1. PICK m \in V : \A y \in V : m >= y
      BY <2>7
    <3>2. \A y \in U : y = x \/ y \in V
      OBVIOUS
    <3>3. m \in Int /\ x \in Int /\ m \in U /\ x \in U /\ \A y \in U : y \in Int
      BY <2>2, <2>3, <3>1
    <3>4. CASE m >= x
      BY <2>2, <3>1, <3>2, <3>3, <3>4
    <3>5. CASE ~(m >= x)
      <4>1. \A y \in U : x >= y
        BY <3>1, <3>2, <3>3, <3>5
      <4> QED BY <2>2, <2>3, <4>1
    <3> QED BY <3>4, <3>5
  <2> QED BY <2>5, <2>6, <2>7
<1>2. HasMax(S)
  BY <1>1 DEF FiniteSubsetsOf
<1> QED BY <1>2 DEF Max

-----------------------------------------------------------------------------
(***************************************************************************)
(* The steps.                                                              *)
(***************************************************************************)
LEMMA ReceiptInt ==
  ASSUME BoardTyped, NEW n \in Recorded
  PROVE  Receipt(n) \in Int /\ po[n] \in Purchases
<1>1. po[n] \in Purchases
  BY DEF BoardTyped, Recorded
<1>2. po[n].line \in Lines /\ setup[po[n].item] \in Setups
  BY <1>1 DEF BoardTyped, Purchases
<1> QED BY <1>1, <1>2, CommitQtyNat DEF Receipt

\* A request that writes the row of one purchase, and perhaps last purchases.
LEMMA RowKeeps ==
  ASSUME BoardInv, NEW n \in Numbers, NEW q \in Purchases,
         po' = [po EXCEPT ![n] = q], UNCHANGED <<setup, today, told>>,
         last' \in [Items -> [po : Numbers \cup {None}, at : Nat \cup {None}]],
         InStep(q), q.delivery = "cancelled" => q.status \in Closed,
         ~q.applied => q.added = 0 /\ ~q.delivered,
         q.line.snap > 0 /\ ~q.reopened =>
           q.added = IF q.delivered THEN CommitQty(setup[q.item], q.line) ELSE 0,
         n \in Recorded => q.day = po[n].day,
         \A i \in Items : \/ last'[i].po = None
                          \/ last'[i].po = n /\ Stands(q)
                          \/ last'[i].po \in Recorded \ {n} /\ Stands(po[last'[i].po])
                          \/ /\ last'[i].po = last[i].po
                             /\ n \notin Recorded \/ Stands(q) \/ q.item # i
  PROVE  BoardInv'
<1>1. /\ BoardTyped /\ FlagsAgree /\ NothingUnapplied /\ UnitStable /\ LastLive /\ LateTold
      /\ None \notin Purchases
  BY NoneAssumption DEF BoardInv
<1>2. /\ po'[n] = q /\ q # None
      /\ \A m \in Numbers \ {n} : po'[m] = po[m]
      /\ Recorded' = Recorded \cup {n} /\ Recorded \subseteq Numbers
  BY <1>1 DEF BoardTyped, Recorded
<1>3. BoardTyped'
  BY <1>1 DEF BoardTyped
<1>4. FlagsAgree'
  BY <1>1, <1>2 DEF FlagsAgree
<1>5. NothingUnapplied'
  BY <1>1, <1>2 DEF NothingUnapplied
<1>6. UnitStable'
  <2> SUFFICES ASSUME NEW m \in Recorded', po'[m].line.snap > 0, ~po'[m].reopened
               PROVE  po'[m].added = IF po'[m].delivered
                                     THEN CommitQty(setup'[po'[m].item], po'[m].line) ELSE 0
    BY DEF UnitStable, Receipt
  <2>1. CASE m = n
    BY <1>2, <2>1
  <2>2. CASE m # n
    BY <1>1, <1>2, <2>2 DEF UnitStable, Receipt
  <2> QED BY <2>1, <2>2
<1>7. LastLive'
  <2> SUFFICES ASSUME NEW i \in Items, last'[i].po # None
               PROVE  /\ last'[i].po \in Recorded'
                      /\ po'[last'[i].po].item = i => Stands(po'[last'[i].po])
    BY DEF LastLive
  <2>1. CASE last'[i].po = n /\ Stands(q)
    BY <1>2, <2>1
  <2>2. CASE last'[i].po \in Recorded \ {n} /\ Stands(po[last'[i].po])
    BY <1>2, <2>2
  <2>3. CASE /\ last'[i].po = last[i].po
             /\ n \notin Recorded \/ Stands(q) \/ q.item # i
    <3>1. /\ last[i].po \in Recorded
          /\ po[last[i].po].item = i => Stands(po[last[i].po])
      BY <1>1, <2>3 DEF LastLive
    <3> QED BY <1>2, <2>3, <3>1
  <2> QED BY <2>1, <2>2, <2>3
<1>8. LateTold'
  <2> SUFFICES ASSUME NEW i \in Items, <<"supplier_delayed", i>> \in told'
               PROVE  \E m \in Recorded' : today' - po'[m].day >= DelayDays
    BY DEF LateTold
  <2>1. PICK m \in Recorded : today - po[m].day >= DelayDays
    BY <1>1 DEF LateTold
  <2>2. po'[m].day = po[m].day
    BY <1>2, <2>1
  <2> QED BY <1>2, <2>1, <2>2
<1> QED BY <1>3, <1>4, <1>5, <1>6, <1>7, <1>8 DEF BoardInv

\* The last purchase of an item becomes n.
LEMMA NamedLast ==
  ASSUME BoardTyped, NEW n \in Numbers, NEW i \in Items, NEW status,
         last' = IF status = "confirmed" THEN [last EXCEPT ![i].po = n] ELSE last
  PROVE  /\ last' \in [Items -> [po : Numbers \cup {None}, at : Nat \cup {None}]]
         /\ \A j \in Items : last'[j].po = last[j].po \/ last'[j].po = n
<1>1. [last[i] EXCEPT !.po = n] \in [po : Numbers \cup {None}, at : Nat \cup {None}]
      /\ [last[i] EXCEPT !.po = n].po = n
  BY DEF BoardTyped
<1> QED BY <1>1 DEF BoardTyped

LEMMA RecordKeeps ==
  ASSUME BoardInv, NEW n \in Numbers, NEW o \in Orders[n], NEW status \in {"draft", "confirmed"},
         Record(n, o[1], o[2], status)
  PROVE  BoardInv'
<1>1. BoardTyped
  BY DEF BoardInv
<1>2. PICK i \in Items, l \in Lines : i = o[1] /\ l = o[2]
  BY BoardAssumption DEF Numbers
<1>3. PICK q : q = [status |-> status, delivery |-> "pending", delivered |-> FALSE, applied |-> FALSE,
                    reopened |-> FALSE, added |-> 0, item |-> i, line |-> Written(i, l), day |-> today]
  OBVIOUS
<1>4. q \in Purchases
  BY <1>1, <1>3, WrittenLines DEF Purchases, Statuses, BoardTyped
<1>5. /\ po' = [po EXCEPT ![n] = q] /\ n \notin Recorded
      /\ UNCHANGED <<setup, today, told>>
      /\ last' = IF status = "confirmed" THEN [last EXCEPT ![i].po = n] ELSE last
  BY <1>2, <1>3 DEF Record
<1>6. /\ last' \in [Items -> [po : Numbers \cup {None}, at : Nat \cup {None}]]
      /\ \A j \in Items : last'[j].po = last[j].po \/ last'[j].po = n
  BY <1>1, <1>5, NamedLast
<1>7. InStep(q) /\ Stands(q) /\ q.delivery # "cancelled" /\ q.added = 0 /\ ~q.delivered
  BY <1>3 DEF InStep, Stands, Closed
<1> QED BY <1>4, <1>5, <1>6, <1>7, RowKeeps

\* An order is written anew before it has ever been in stock.
LEMMA RewriteKeeps ==
  ASSUME BoardInv, NEW n \in Numbers, NEW o \in Orders[n], NEW status \in {"draft", "confirmed"},
         Rewrite(n, o[1], o[2], status)
  PROVE  BoardInv'
<1>1. BoardTyped /\ FlagsAgree /\ NothingUnapplied
  BY DEF BoardInv
<1>2. PICK i \in Items, l \in Lines : i = o[1] /\ l = o[2]
  BY BoardAssumption DEF Numbers
<1>3. /\ n \in Recorded /\ po[n].status \notin Closed
      /\ po[n].delivery # "stock_committed" /\ ~po[n].applied
      /\ po' = [po EXCEPT ![n].status = status, ![n].item = i, ![n].line = Written(i, l)]
      /\ UNCHANGED <<setup, today, told>>
      /\ last' = IF status = "confirmed" THEN [last EXCEPT ![i].po = n] ELSE last
  BY <1>2 DEF Rewrite, Live
<1>4. po[n] \in Purchases
  BY <1>1, <1>3, ReceiptInt
<1>5. PICK q : q = [po[n] EXCEPT !.status = status, !.item = i, !.line = Written(i, l)]
  OBVIOUS
<1>6. /\ q \in Purchases /\ q.status = status /\ q.delivered = po[n].delivered /\ q.delivery = po[n].delivery
      /\ q.applied = po[n].applied /\ q.added = po[n].added /\ q.day = po[n].day /\ q.reopened = po[n].reopened
  <2>1. Written(i, l) \in Lines
    BY <1>1, WrittenLines
  <2> QED BY <1>4, <1>5, <2>1 DEF Purchases, Statuses
<1>7. po' = [po EXCEPT ![n] = q]
  BY <1>1, <1>3, <1>4, <1>5 DEF BoardTyped, Purchases
<1>8. /\ last' \in [Items -> [po : Numbers \cup {None}, at : Nat \cup {None}]]
      /\ \A j \in Items : last'[j].po = last[j].po \/ last'[j].po = n
  BY <1>1, <1>3, NamedLast
<1>9. q.added = 0 /\ ~q.delivered /\ Stands(q) /\ InStep(q) /\ q.delivery # "cancelled"
  BY <1>1, <1>3, <1>4, <1>6 DEF FlagsAgree, InStep, Stands, Closed, NothingUnapplied, Purchases
<1> QED BY <1>3, <1>6, <1>7, <1>8, <1>9, RowKeeps

LEMMA ArriveKeeps ==
  ASSUME BoardInv, NEW n \in Numbers, Arrive(n)
  PROVE  BoardInv'
<1>1. BoardTyped /\ FlagsAgree /\ NothingUnapplied /\ UnitStable
  BY DEF BoardInv
<1>2. /\ n \in Recorded /\ po[n].status \notin Closed /\ po[n].delivery = "pending"
      /\ po' = [po EXCEPT ![n] = [po[n] EXCEPT !.delivery = "arrived"]]
      /\ UNCHANGED <<setup, today, told, last>>
  BY DEF Arrive, Live
<1>3. PICK q : q = [po[n] EXCEPT !.delivery = "arrived"]
  OBVIOUS
<1>4. po[n] \in Purchases
  BY <1>1, <1>2, ReceiptInt
<1>5. /\ q \in Purchases /\ q.delivery = "arrived" /\ q.status = po[n].status /\ q.delivered = po[n].delivered
      /\ q.applied = po[n].applied /\ q.added = po[n].added /\ q.line = po[n].line /\ q.item = po[n].item
      /\ q.day = po[n].day /\ q.reopened = po[n].reopened
  BY <1>3, <1>4 DEF Purchases
<1>6. ~q.reopened => ~q.delivered
  BY <1>1, <1>2, <1>5 DEF FlagsAgree, InStep
<1>7. q.line.snap > 0 /\ ~q.reopened => q.added = 0
  BY <1>1, <1>2, <1>5, <1>6 DEF UnitStable
<1>8. ~q.applied => q.added = 0 /\ ~q.delivered
  BY <1>1, <1>2, <1>5 DEF NothingUnapplied
<1>9. last' \in [Items -> [po : Numbers \cup {None}, at : Nat \cup {None}]]
  BY <1>1, <1>2 DEF BoardTyped
<1>10. po' = [po EXCEPT ![n] = q] /\ q.delivery = "arrived" /\ Stands(q) /\ InStep(q)
  BY <1>2, <1>3, <1>5, <1>6 DEF InStep, Stands
<1> QED BY <1>2, <1>5, <1>6, <1>7, <1>8, <1>9, <1>10, RowKeeps

\* The staff's counts change what a receipt will add, not what is in stock.
LEMMA VerifiedRow ==
  ASSUME BoardTyped, NEW n \in Live, NEW r \in {None, po[n].line.qty \div 2}, Verify(n, r)
  PROVE  \E q \in Purchases :
           /\ po' = [po EXCEPT ![n] = q]
           /\ q.delivery \in {"partial", "staff_verified"} /\ q.status \in {"verification_pending", "verified"}
           /\ q.delivered = po[n].delivered /\ q.applied = po[n].applied /\ q.added = po[n].added
           /\ q.line.snap = po[n].line.snap /\ q.item = po[n].item /\ q.day = po[n].day
           /\ q.reopened = po[n].reopened
<1>1. n \in Recorded /\ po[n] \in Purchases
  BY ReceiptInt DEF Live
<1>2. PICK delivery \in {"partial", "staff_verified"}, received \in Nat \cup {None},
           status \in {"verification_pending", "verified"} :
        po' = [po EXCEPT ![n].line.received = received, ![n].delivery = delivery, ![n].status = status]
  <2>1. po[n].line \in Lines
    BY <1>1 DEF Purchases
  <2>2. po[n].line.qty \in Nat /\ po[n].line.received \in Nat \cup {None}
    BY <2>1 DEF Lines
  <2>3. \A a \in Nat : a \div 2 \in Nat
    OBVIOUS
  <2>4. r \in Nat \cup {None}
    BY <2>2, <2>3
  <2>5. PICK received : received = IF r = None THEN po[n].line.received ELSE r
    OBVIOUS
  <2>6. received \in Nat \cup {None}
    BY <2>2, <2>4, <2>5
  <2>7. PICK delivery : delivery = IF r # None /\ r < po[n].line.qty THEN "partial" ELSE "staff_verified"
    OBVIOUS
  <2>8. PICK status : status = IF r # None /\ r < po[n].line.qty THEN "verification_pending" ELSE "verified"
    OBVIOUS
  <2>9. po' = [po EXCEPT ![n].line.received = received, ![n].delivery = delivery, ![n].status = status]
    BY <2>5, <2>7, <2>8 DEF Verify
  <2> QED BY <2>6, <2>7, <2>8, <2>9
<1>3. PICK line : line = [po[n].line EXCEPT !.received = received]
  OBVIOUS
<1>4. line \in Lines /\ line.snap = po[n].line.snap
  <2>1. po[n].line \in Lines
    BY <1>1 DEF Purchases
  <2> QED BY <1>3, <2>1 DEF Lines
<1>5. PICK q : q = [po[n] EXCEPT !.line = line, !.delivery = delivery, !.status = status]
  OBVIOUS
<1>6. /\ q \in Purchases /\ q.delivery = delivery /\ q.status = status /\ q.delivered = po[n].delivered
      /\ q.applied = po[n].applied /\ q.added = po[n].added /\ q.line = line /\ q.item = po[n].item
      /\ q.day = po[n].day /\ q.reopened = po[n].reopened
  BY <1>1, <1>2, <1>4, <1>5 DEF Purchases, Statuses
<1>7. po' = [po EXCEPT ![n] = q]
  BY <1>1, <1>2, <1>3, <1>5 DEF BoardTyped, Purchases
<1> QED BY <1>2, <1>4, <1>6, <1>7

LEMMA VerifyKeeps ==
  ASSUME BoardInv, NEW n \in Live, NEW r \in {None, po[n].line.qty \div 2}, Verify(n, r)
  PROVE  BoardInv'
<1>1. BoardTyped /\ FlagsAgree /\ NothingUnapplied /\ UnitStable
  BY DEF BoardInv
<1>2. /\ n \in Recorded /\ n \in Numbers /\ po[n].status \notin Closed /\ po[n].delivery = "arrived"
      /\ UNCHANGED <<setup, today, told, last>>
  BY DEF Verify, Live, Recorded
<1>3. PICK q \in Purchases :
           /\ po' = [po EXCEPT ![n] = q]
           /\ q.delivery \in {"partial", "staff_verified"} /\ q.status \in {"verification_pending", "verified"}
           /\ q.delivered = po[n].delivered /\ q.applied = po[n].applied /\ q.added = po[n].added
           /\ q.line.snap = po[n].line.snap /\ q.item = po[n].item /\ q.day = po[n].day
           /\ q.reopened = po[n].reopened
  BY <1>1, VerifiedRow
<1>4. ~q.reopened => ~q.delivered
  BY <1>1, <1>2, <1>3 DEF FlagsAgree, InStep
<1>5. q.line.snap > 0 /\ ~q.reopened => q.added = 0
  BY <1>1, <1>2, <1>3, <1>4 DEF UnitStable
<1>6. ~q.applied => q.added = 0 /\ ~q.delivered
  BY <1>1, <1>2, <1>3 DEF NothingUnapplied
<1>7. last' \in [Items -> [po : Numbers \cup {None}, at : Nat \cup {None}]]
  BY <1>1, <1>2 DEF BoardTyped
<1>8. InStep(q) /\ Stands(q) /\ q.delivery # "cancelled"
  BY <1>3, <1>4 DEF InStep, Stands, Closed
<1> QED BY <1>2, <1>3, <1>4, <1>5, <1>6, <1>7, <1>8, RowKeeps

LEMMA CommitKeeps ==
  ASSUME BoardInv, NEW n \in Numbers, Commit(n)
  PROVE  BoardInv'
<1>1. BoardTyped /\ FlagsAgree /\ NothingUnapplied /\ UnitStable
  BY DEF BoardInv
<1>2. PICK i, c, status :
        /\ i = po[n].item /\ c = Receipt(n)
        /\ status = IF po[n].status = "completed" THEN po[n].status ELSE "added_to_stock"
  OBVIOUS
<1>3. /\ n \in Recorded /\ po[n].status \notin Closed /\ ~po[n].applied
      /\ last' = [last EXCEPT ![i].at = today]
      /\ po' = [po EXCEPT ![n].delivery = "stock_committed", ![n].delivered = TRUE,
                          ![n].status = status, ![n].applied = TRUE, ![n].added = c]
      /\ UNCHANGED <<setup, today, told>>
  BY <1>2 DEF Commit, Live
<1>4. po[n] \in Purchases /\ c \in Int /\ i \in Items
  BY <1>1, <1>2, <1>3, ReceiptInt DEF Purchases
<1>5. PICK q : q = [po[n] EXCEPT !.delivery = "stock_committed", !.delivered = TRUE,
                                 !.status = status, !.applied = TRUE, !.added = c]
  OBVIOUS
<1>6. /\ q \in Purchases /\ q.delivery = "stock_committed" /\ q.status = status /\ q.delivered = TRUE
      /\ q.applied = TRUE /\ q.added = c /\ q.line = po[n].line /\ q.item = po[n].item
      /\ q.day = po[n].day
  BY <1>2, <1>4, <1>5 DEF Purchases, Statuses
<1>7. po' = [po EXCEPT ![n] = q]
  BY <1>1, <1>3, <1>4, <1>5 DEF BoardTyped, Purchases
<1>8. q.added = CommitQty(setup[q.item], q.line)
  BY <1>2, <1>6 DEF Receipt
<1>9. /\ last' \in [Items -> [po : Numbers \cup {None}, at : Nat \cup {None}]]
      /\ \A j \in Items : last'[j].po = last[j].po
  <2>1. [last[i] EXCEPT !.at = today] \in [po : Numbers \cup {None}, at : Nat \cup {None}]
        /\ [last[i] EXCEPT !.at = today].po = last[i].po
    BY <1>1, <1>4 DEF BoardTyped
  <2> QED BY <1>1, <1>3, <2>1 DEF BoardTyped
<1>10. Stands(q) /\ InStep(q) /\ q.delivery # "cancelled"
  BY <1>2, <1>6 DEF Stands, InStep, Closed
<1> QED BY <1>3, <1>6, <1>7, <1>8, <1>9, <1>10, RowKeeps

\* What is taken back of a purchase whose line has its quantity is all of it.
LEMMA TakenBack ==
  ASSUME BoardInv, NEW n \in Recorded
  PROVE  /\ Taken(n) \in Int
         /\ po[n].line.snap > 0 /\ ~po[n].reopened => Taken(n) = 0
         /\ ~po[n].applied => Taken(n) = 0
<1>1. BoardTyped /\ FlagsAgree /\ NothingUnapplied /\ UnitStable
  BY DEF BoardInv
<1>2. po[n] \in Purchases /\ po[n].added \in Int /\ Receipt(n) \in Int
  BY <1>1, ReceiptInt DEF Purchases
<1>3. po[n].line.snap > 0 /\ ~po[n].reopened => po[n].added = IF po[n].delivered THEN Receipt(n) ELSE 0
  BY <1>1 DEF UnitStable
<1>4. CASE po[n].delivered
  <2>1. Taken(n) = po[n].added - Receipt(n)
    BY <1>4 DEF Taken
  <2>2. po[n].applied
    BY <1>1, <1>4 DEF NothingUnapplied
  <2> QED BY <1>2, <1>3, <1>4, <2>1, <2>2
<1>5. CASE ~po[n].delivered
  <2>1. Taken(n) = po[n].added
    BY <1>5 DEF Taken
  <2> QED BY <1>1, <1>2, <1>3, <1>5, <2>1 DEF NothingUnapplied
<1> QED BY <1>4, <1>5

LEMMA RevertKeeps ==
  ASSUME BoardInv, NEW n \in Numbers, Revert(n)
  PROVE  BoardInv'
<1>1. BoardTyped /\ FlagsAgree /\ NothingUnapplied
  BY DEF BoardInv
<1>2. PICK added : added = Taken(n)
  OBVIOUS
<1>3. /\ n \in Recorded /\ po[n].status \notin Closed
      /\ po' = [po EXCEPT ![n].delivery = "pending", ![n].delivered = FALSE, ![n].added = added]
      /\ UNCHANGED <<setup, today, told, last>>
  BY <1>2 DEF Revert, Live
<1>4. po[n] \in Purchases
  BY <1>1, <1>3, ReceiptInt
<1>5. PICK q : q = [po[n] EXCEPT !.delivery = "pending", !.delivered = FALSE, !.added = added]
  OBVIOUS
<1>6. added \in Int /\ (po[n].line.snap > 0 /\ ~po[n].reopened => added = 0) /\ (~po[n].applied => added = 0)
  BY <1>2, <1>3, TakenBack
<1>7. /\ q \in Purchases /\ q.delivery = "pending" /\ q.status = po[n].status /\ ~q.delivered
      /\ q.applied = po[n].applied /\ q.added = added /\ q.line = po[n].line
      /\ q.day = po[n].day /\ q.reopened = po[n].reopened
  BY <1>4, <1>5, <1>6 DEF Purchases
<1>8. po' = [po EXCEPT ![n] = q]
  BY <1>1, <1>3, <1>4, <1>5 DEF BoardTyped, Purchases
<1>9. last' \in [Items -> [po : Numbers \cup {None}, at : Nat \cup {None}]]
  BY <1>1, <1>3 DEF BoardTyped
<1>10. Stands(q) /\ InStep(q) /\ q.delivery \notin {"cancelled", "stock_committed"}
  BY <1>3, <1>7 DEF Stands, InStep
<1> QED BY <1>3, <1>6, <1>7, <1>8, <1>9, <1>10, RowKeeps

\* Of any purchases there is a newest, by day and then by number.
LEMMA NewestExists ==
  ASSUME BoardTyped, NEW S, S \subseteq Recorded, S # {}
  PROVE  \E m \in S : \A k \in S : po[k].day < po[m].day \/ (po[k].day = po[m].day /\ k <= m)
<1>1. \A k \in S : k \in Numbers /\ k \in Int /\ po[k].day \in Int
  BY ReceiptInt, BoardAssumption DEF Recorded, Numbers, Purchases
<1>2. IsFiniteSet(S)
  <2>1. S \subseteq Numbers
    BY <1>1
  <2> QED BY <2>1, Finite, FS_Subset
<1> DEFINE D == {po[k].day : k \in S}
<1>3. D \subseteq Int /\ D # {} /\ IsFiniteSet(D)
  <2>1. [k \in S |-> po[k].day] \in Surjection(S, D)
    BY DEF Surjection
  <2>2. IsFiniteSet(D)
    BY <1>2, <2>1, FS_Surjection
  <2> QED BY <1>1, <2>2
<1>4. PICK d \in D : \A x \in D : d >= x
  <2> HIDE DEF D
  <2> QED BY <1>3, FiniteHasMax
<1> DEFINE T == {k \in S : po[k].day = d}
<1>5. T \subseteq Int /\ T # {} /\ IsFiniteSet(T)
  BY <1>1, <1>2, FS_Subset
<1>6. PICK m \in T : \A k \in T : m >= k
  <2> HIDE DEF T
  <2> QED BY <1>5, FiniteHasMax
<1>7. \A k \in S : po[k].day < d \/ k \in T
  <2> SUFFICES ASSUME NEW k \in S PROVE po[k].day < d \/ po[k].day = d
    OBVIOUS
  <2>1. po[k].day \in D /\ po[k].day \in Int /\ d \in Int
    BY <1>1, <1>3
  <2> HIDE DEF D
  <2>2. d >= po[k].day
    BY <1>4, <2>1
  <2> QED BY <2>1, <2>2
<1> QED BY <1>1, <1>6, <1>7

\* A purchase that is closed leaves its item with another that is not.
LEMMA CloseKeeps ==
  ASSUME BoardInv, NEW n \in Numbers, NEW status \in Closed, Close(n, status)
  PROVE  BoardInv'
<1>1. BoardTyped /\ FlagsAgree /\ NothingUnapplied
  BY DEF BoardInv
<1>2. PICK added, i : added = Taken(n) /\ i = po[n].item
  OBVIOUS
<1>3. /\ n \in Recorded
      /\ po' = [po EXCEPT ![n].status = status, ![n].delivery = "cancelled",
                          ![n].delivered = FALSE, ![n].added = added]
      /\ last' = [last EXCEPT ![i] = Refreshed(i, n)]
      /\ UNCHANGED <<setup, today, told>>
  BY <1>2 DEF Close, Live
<1>4. po[n] \in Purchases /\ i \in Items
  BY <1>1, <1>2, <1>3, ReceiptInt DEF Purchases
<1>5. PICK q : q = [po[n] EXCEPT !.status = status, !.delivery = "cancelled",
                                 !.delivered = FALSE, !.added = added]
  OBVIOUS
<1>6. added \in Int /\ (po[n].line.snap > 0 /\ ~po[n].reopened => added = 0) /\ (~po[n].applied => added = 0)
  BY <1>2, <1>3, TakenBack
<1>7. /\ q \in Purchases /\ q.delivery = "cancelled" /\ q.status = status /\ ~q.delivered
      /\ q.applied = po[n].applied /\ q.added = added /\ q.line = po[n].line
      /\ q.day = po[n].day /\ q.item = i /\ q.reopened = po[n].reopened
  BY <1>2, <1>4, <1>5, <1>6 DEF Purchases, Statuses
<1>8. po' = [po EXCEPT ![n] = q]
  BY <1>1, <1>3, <1>4, <1>5 DEF BoardTyped, Purchases
<1>9. /\ Refreshed(i, n) \in [po : Numbers \cup {None}, at : Nat \cup {None}]
      /\ \/ Refreshed(i, n).po = None
         \/ Refreshed(i, n).po \in Recorded \ {n} /\ Stands(po[Refreshed(i, n).po])
  <2> DEFINE others == {m \in Of(i) \ {n} : po[m].status # "draft"}
  <2>1. CASE others = {}
    BY <2>1 DEF Refreshed
  <2>2. CASE others # {}
    <3>1. others \subseteq Recorded \ {n} /\ \A m \in others : m \in Numbers /\ Stands(po[m])
      BY DEF Of, Live, Recorded, Stands
    <3> DEFINE Latest(m) == \A k \in others : po[k].day < po[m].day \/ (po[k].day = po[m].day /\ k <= m)
    <3>2. \E m \in others : Latest(m)
      <4> HIDE DEF others
      <4> QED BY <1>1, <2>2, <3>1, NewestExists
    <3>3. PICK m : m = CHOOSE x \in others : Latest(x)
      OBVIOUS
    <3>4. m \in others
      BY <3>2, <3>3
    <3>5. Refreshed(i, n) = [last[i] EXCEPT !.po = m]
      BY <2>2, <3>3 DEF Refreshed
    <3>6. last[i] \in [po : Numbers \cup {None}, at : Nat \cup {None}]
      BY <1>1, <1>4 DEF BoardTyped
    <3> HIDE DEF others
    <3>7. /\ [last[i] EXCEPT !.po = m] \in [po : Numbers \cup {None}, at : Nat \cup {None}]
          /\ [last[i] EXCEPT !.po = m].po = m
      BY <3>1, <3>4, <3>6
    <3> QED BY <3>1, <3>4, <3>5, <3>7
  <2> QED BY <2>1, <2>2
<1>10. PICK f : f = Refreshed(i, n)
  OBVIOUS
<1>11. /\ last' \in [Items -> [po : Numbers \cup {None}, at : Nat \cup {None}]]
       /\ last'[i] = f /\ \A j \in Items \ {i} : last'[j] = last[j]
  BY <1>1, <1>3, <1>4, <1>9, <1>10 DEF BoardTyped
<1>12. \A j \in Items : \/ last'[j].po = None
                        \/ last'[j].po \in Recorded \ {n} /\ Stands(po[last'[j].po])
                        \/ last'[j].po = last[j].po /\ q.item # j
  BY <1>7, <1>9, <1>10, <1>11
<1>13. InStep(q)
  BY <1>7 DEF InStep
<1>14. /\ q.delivery = "cancelled" => q.status \in Closed
       /\ ~q.applied => q.added = 0 /\ ~q.delivered
       /\ q.line.snap > 0 /\ ~q.reopened => q.added = IF q.delivered THEN CommitQty(setup[q.item], q.line) ELSE 0
       /\ q.day = po[n].day /\ UNCHANGED <<setup, today, told>>
  BY <1>3, <1>6, <1>7
<1>15. last' \in [Items -> [po : Numbers \cup {None}, at : Nat \cup {None}]] /\ q \in Purchases
  BY <1>7, <1>11
<1>16. \A j \in Items : \/ last'[j].po = None
                        \/ last'[j].po = n /\ Stands(q)
                        \/ last'[j].po \in Recorded \ {n} /\ Stands(po[last'[j].po])
                        \/ /\ last'[j].po = last[j].po
                           /\ n \notin Recorded \/ Stands(q) \/ q.item # j
  BY <1>12
<1> QED BY <1>8, <1>13, <1>14, <1>15, <1>16, RowKeeps

\* Payments and the lifecycle write the status, the lifecycle delivery_status
\* with it; what was received and what is in stock stays.
LEMMA ManagedRow ==
  ASSUME BoardTyped, FlagsAgree, NEW n \in Numbers, NEW status \in Statuses, Pay(n, status) \/ Transition(n, status)
  PROVE  /\ n \in Live /\ UNCHANGED <<setup, stock, adj, opening, count, used, quick, last, told, today>>
         /\ \E q \in Purchases :
              /\ po' = [po EXCEPT ![n] = q]
              /\ q.delivered = po[n].delivered /\ q.applied = po[n].applied /\ q.added = po[n].added
              /\ q.line = po[n].line /\ q.item = po[n].item /\ q.day = po[n].day
              /\ InStep(q) /\ Stands(q) /\ q.delivery # "cancelled" /\ (po[n].reopened => q.reopened)
<1>1. /\ n \in Live /\ n \in Recorded /\ po[n].status \notin Closed
      /\ UNCHANGED <<setup, stock, adj, opening, count, used, quick, last, told, today>>
  BY DEF Pay, Transition, Live, goods, counted
<1>2. po[n] \in Purchases
  BY <1>1, ReceiptInt
<1>3. InStep(po[n]) /\ po[n].delivery # "cancelled"
  BY <1>1 DEF FlagsAgree
<1>4. CASE Pay(n, status)
  <2>1. po' = [po EXCEPT ![n].status = status] /\ status \in {"paid", "confirmed"}
    BY <1>4 DEF Pay
  <2>2. PICK q : q = [po[n] EXCEPT !.status = status]
    OBVIOUS
  <2>3. /\ q \in Purchases /\ q.status = status /\ q.delivery = po[n].delivery /\ q.delivered = po[n].delivered
        /\ q.applied = po[n].applied /\ q.added = po[n].added /\ q.reopened = po[n].reopened
        /\ q.line = po[n].line /\ q.item = po[n].item /\ q.day = po[n].day
    BY <1>2, <2>2 DEF Purchases
  <2>4. po' = [po EXCEPT ![n] = q]
    BY <1>2, <2>1, <2>2 DEF BoardTyped, Purchases
  <2>5. InStep(q) /\ Stands(q)
    BY <1>3, <2>1, <2>3 DEF InStep, Stands, Closed
  <2> QED BY <1>1, <1>3, <2>3, <2>4, <2>5
<1>5. CASE Transition(n, status)
  <2>1. PICK delivery, reopened :
          /\ delivery = IF status \in DOMAIN PutAt THEN PutAt[status] ELSE po[n].delivery
          /\ reopened = (po[n].reopened \/ (po[n].delivered /\ status \in DOMAIN PutAt))
    OBVIOUS
  <2>2. po' = [po EXCEPT ![n].status = status, ![n].delivery = delivery, ![n].reopened = reopened]
    BY <1>5, <2>1 DEF Transition
  <2>3. /\ reopened \in BOOLEAN
        /\ delivery \in {"pending", "arrived", "partial", "staff_verified", "stock_committed"}
        /\ status \in DOMAIN PutAt => delivery # "stock_committed"
    BY <1>2, <1>3, <2>1 DEF PutAt, Purchases
  <2>4. PICK q : q = [po[n] EXCEPT !.status = status, !.delivery = delivery, !.reopened = reopened]
    OBVIOUS
  <2>5. /\ q \in Purchases /\ q.status = status /\ q.delivery = delivery /\ q.delivered = po[n].delivered
        /\ q.applied = po[n].applied /\ q.added = po[n].added /\ q.reopened = reopened
        /\ q.line = po[n].line /\ q.item = po[n].item /\ q.day = po[n].day
    BY <1>2, <2>3, <2>4 DEF Purchases
  <2>6. po' = [po EXCEPT ![n] = q]
    BY <1>2, <2>2, <2>4 DEF BoardTyped, Purchases
  <2>7. status # "deleted"
    BY <1>5 DEF Transition, Allowed, Follows
  <2>8. InStep(q)
    <3>1. CASE status \in DOMAIN PutAt
      BY <1>2, <2>1, <2>3, <2>5, <3>1 DEF InStep, Purchases
    <3>2. CASE status \notin DOMAIN PutAt
      BY <1>2, <1>3, <2>1, <2>5, <3>2 DEF InStep, Purchases
    <3> QED BY <3>1, <3>2
  <2>9. Stands(q)
    BY <2>3, <2>5, <2>7 DEF Stands, Closed
  <2>10. po[n].reopened => q.reopened
    BY <2>1, <2>5
  <2> QED BY <1>1, <2>3, <2>5, <2>6, <2>8, <2>9, <2>10
<1> QED BY <1>4, <1>5

LEMMA ManagerKeeps ==
  ASSUME BoardInv, NEW n \in Numbers, NEW status \in Statuses, Pay(n, status) \/ Transition(n, status)
  PROVE  BoardInv'
<1>1. BoardTyped /\ FlagsAgree /\ NothingUnapplied /\ UnitStable
  BY DEF BoardInv
<1>2. n \in Live /\ n \in Recorded /\ UNCHANGED <<setup, last, told, today>>
  BY <1>1, ManagedRow DEF Live
<1>3. PICK q \in Purchases :
              /\ po' = [po EXCEPT ![n] = q]
              /\ q.delivered = po[n].delivered /\ q.applied = po[n].applied /\ q.added = po[n].added
              /\ q.line = po[n].line /\ q.item = po[n].item /\ q.day = po[n].day
              /\ InStep(q) /\ Stands(q) /\ q.delivery # "cancelled" /\ (po[n].reopened => q.reopened)
  BY <1>1, ManagedRow
<1>4. ~q.applied => q.added = 0 /\ ~q.delivered
  BY <1>1, <1>2, <1>3 DEF NothingUnapplied
<1>5. q.line.snap > 0 /\ ~q.reopened => q.added = IF q.delivered THEN CommitQty(setup[q.item], q.line) ELSE 0
  BY <1>1, <1>2, <1>3 DEF UnitStable, Receipt
<1>6. last' \in [Items -> [po : Numbers \cup {None}, at : Nat \cup {None}]]
  BY <1>1, <1>2 DEF BoardTyped
<1> QED BY <1>2, <1>3, <1>4, <1>5, <1>6, RowKeeps

\* The owner changes an item's unit: what is in stock stays as it was written.
LEMMA SetUpKeeps ==
  ASSUME BoardInv, NEW i \in Items, NEW p \in Profiles, SetUp(i, p)
  PROVE  BoardInv'
<1>1. BoardTyped /\ FlagsAgree /\ NothingUnapplied /\ UnitStable /\ LastLive /\ LateTold
  BY DEF BoardInv
<1>2. UNCHANGED <<po, last, told, today>> /\ setup' = [setup EXCEPT ![i] = Edited(setup[i], p)]
  BY DEF SetUp
<1>3. BoardTyped'
  <2>1. Edited(setup[i], p) \in Setups
    BY <1>1, SetupsKept DEF BoardTyped
  <2> QED BY <1>1, <1>2, <2>1 DEF BoardTyped
<1>4. FlagsAgree' /\ NothingUnapplied' /\ LastLive' /\ LateTold'
  BY <1>1, <1>2 DEF FlagsAgree, NothingUnapplied, LastLive, LateTold, Recorded
<1>5. UnitStable'
  <2> SUFFICES ASSUME NEW n \in Recorded', po'[n].line.snap > 0, ~po'[n].reopened
               PROVE  po'[n].added = IF po'[n].delivered
                                     THEN CommitQty(setup'[po'[n].item], po'[n].line) ELSE 0
    BY DEF UnitStable, Receipt
  <2>1. n \in Recorded
    BY <1>2 DEF Recorded
  <2>2. po[n].added = IF po[n].delivered THEN CommitQty(setup[po[n].item], po[n].line) ELSE 0
    BY <1>1, <1>2, <2>1 DEF UnitStable, Receipt
  <2>3. po[n].line \in Lines
    BY <1>1, <2>1, ReceiptInt DEF Purchases
  <2>4. CommitQty(setup'[po[n].item], po[n].line) = CommitQty(setup[po[n].item], po[n].line)
    BY <1>2, <2>3, SnapshotDecides
  <2> QED BY <1>2, <2>2, <2>4
<1> QED BY <1>3, <1>4, <1>5 DEF BoardInv

\* Requests about counts, usage and stock touch no purchase.
LEMMA DeskKeeps ==
  ASSUME BoardInv, UNCHANGED <<setup, po, last, today>>,
         \A i \in Items : <<"supplier_delayed", i>> \in told' =>
           \/ <<"supplier_delayed", i>> \in told
           \/ \E n \in Recorded : today - po[n].day >= DelayDays
  PROVE  BoardInv'
<1>1. BoardTyped' /\ FlagsAgree' /\ NothingUnapplied' /\ LastLive' /\ UnitStable'
  BY DEF BoardInv, BoardTyped, FlagsAgree, NothingUnapplied, LastLive, UnitStable, Recorded, Receipt
<1>2. LateTold'
  BY DEF BoardInv, LateTold, Recorded
<1> QED BY <1>1, <1>2 DEF BoardInv

\* The oldest of the orders that are still to come.
LEMMA OldestPending ==
  ASSUME BoardTyped, NEW i \in Items, Open(i) # {}
  PROVE  /\ \E n \in Open(i) : today - po[n].day = PendingDays(i)
         /\ PendingDays(i) \in Int
<1> DEFINE D == {today - po[n].day : n \in Open(i)}
<1>1. Open(i) \subseteq Recorded /\ Open(i) \subseteq Numbers
  BY DEF Open, Of, Live, Recorded
<1>2. \A n \in Open(i) : po[n].day \in Int /\ today \in Int
  BY <1>1, ReceiptInt DEF Purchases, BoardTyped
<1>3. IsFiniteSet(D)
  <2>1. [n \in Open(i) |-> today - po[n].day] \in Surjection(Open(i), D)
    BY DEF Surjection
  <2>2. IsFiniteSet(Open(i))
    BY <1>1, Finite, FS_Subset
  <2> QED BY <2>1, <2>2, FS_Surjection
<1>4. D \subseteq Int /\ D # {}
  BY <1>2
<1>5. Max(D) \in D
  <2> HIDE DEF D
  <2> QED BY <1>3, <1>4, FiniteHasMax
<1>6. PendingDays(i) = Max(D)
  BY DEF PendingDays
<1> QED BY <1>2, <1>5, <1>6

LEMMA ScanKeeps ==
  ASSUME BoardInv, Scan
  PROVE  BoardInv'
<1>1. BoardTyped
  BY DEF BoardInv
<1>2. UNCHANGED <<setup, po, last, today>>
  BY DEF Scan
<1>3. ASSUME NEW i \in Items, <<"supplier_delayed", i>> \in told', <<"supplier_delayed", i>> \notin told
      PROVE  \E n \in Recorded : today - po[n].day >= DelayDays
  <2>1. Delayed(i)
    BY <1>3 DEF Scan
  <2>2. PICK n \in Open(i) : today - po[n].day = PendingDays(i)
    BY <1>1, <2>1, OldestPending DEF Delayed
  <2>3. n \in Recorded
    BY DEF Open, Of, Live
  <2> QED BY <2>1, <2>2, <2>3 DEF Delayed
<1> QED BY <1>2, <1>3, DeskKeeps

LEMMA NextDayKeeps ==
  ASSUME BoardInv, NEW g \in Gaps, NextDay(g)
  PROVE  BoardInv'
<1>1. /\ UNCHANGED <<setup, po, last>> /\ told' = {} /\ today' = today + g /\ g \in Nat
  BY BoardAssumption DEF NextDay
<1>2. BoardTyped' /\ FlagsAgree' /\ NothingUnapplied' /\ LastLive' /\ UnitStable'
  BY <1>1 DEF BoardInv, BoardTyped, FlagsAgree, NothingUnapplied, LastLive, UnitStable, Recorded, Receipt
<1>3. LateTold'
  BY <1>1 DEF LateTold
<1> QED BY <1>2, <1>3 DEF BoardInv

LEMMA BoardInit == Init => BoardInv
<1> SUFFICES ASSUME Init PROVE BoardInv
  OBVIOUS
<1>1. Recorded = {} /\ today = 0 /\ told = {} /\ \A i \in Items : last[i] = [po |-> None, at |-> None]
  BY DEF Init, Recorded
<1>2. BoardTyped
  <2>1. \A i \in Items : Created(FirstProfile[i]) \in Setups
    BY BoardAssumption, SetupsKept
  <2> QED BY <2>1 DEF Init, BoardTyped
<1>3. FlagsAgree /\ NothingUnapplied /\ UnitStable /\ LastLive /\ LateTold
  BY <1>1 DEF FlagsAgree, NothingUnapplied, UnitStable, LastLive, LateTold
<1> QED BY <1>2, <1>3 DEF BoardInv

LEMMA BoardStep ==
  ASSUME BoardInv, [Next]_vars
  PROVE  BoardInv'
<1>1. ASSUME NEW n \in Numbers, Purchase(n)
      PROVE  BoardInv'
  <2>1. ASSUME NEW o \in Orders[n],
               Record(n, o[1], o[2], o[3]) \/ Rewrite(n, o[1], o[2], o[3])
        PROVE  BoardInv'
    <3>1. o[3] \in {"draft", "confirmed"}
      BY BoardAssumption DEF Numbers
    <3> QED BY <2>1, <3>1, RecordKeeps, RewriteKeeps
  <2>2. CASE n \in Live /\ \E r \in {None, po[n].line.qty \div 2} : Verify(n, r)
    BY <2>2, VerifyKeeps
  <2> QED BY <1>1, <2>1, <2>2, ArriveKeeps, CommitKeeps, RevertKeeps, CloseKeeps DEF Purchase
<1>4. ASSUME NEW n \in Managed, Manager(n)
      PROVE  BoardInv'
  <2>1. n \in Numbers
    BY BoardAssumption DEF Numbers
  <2>2. {"paid", "confirmed"} \subseteq Statuses
    BY DEF Statuses
  <2> QED BY <1>4, <2>1, <2>2, ManagerKeeps DEF Manager
<1>2. ASSUME NEW i \in Handled, Desk(i)
      PROVE  BoardInv'
  <2> i \in Items
    BY BoardAssumption
  <2>1. CASE \E p \in Profiles : SetUp(i, p)
    BY <2>1, SetUpKeeps
  <2>2. ASSUME NEW q \in Counts, QuickPurchase(i, q) \/ Use(i, q) \/ Count(i, q) \/ SetOpening(i, q)
        PROVE  BoardInv'
    <3>1. UNCHANGED <<setup, po, last, today, told>>
      BY <2>2 DEF QuickPurchase, Use, Count, SetOpening
    <3> QED BY <3>1, DeskKeeps
  <2>3. ASSUME NEW q \in Counts, NEW kind, Recount(i, q, kind)
        PROVE  BoardInv'
    <3>1. UNCHANGED <<setup, po, last, today>>
          /\ told' \subseteq told \cup {<<"stock_variance", i>>}
      BY <2>3 DEF Recount
    <3>2. \A j \in Items : <<"supplier_delayed", j>> \in told' => <<"supplier_delayed", j>> \in told
      BY <3>1
    <3> QED BY <3>1, <3>2, DeskKeeps
  <2> QED BY <1>2, <2>1, <2>2, <2>3 DEF Desk
<1>3. CASE UNCHANGED vars
  BY <1>3, DeskKeeps DEF vars
<1> QED BY <1>1, <1>2, <1>3, <1>4, ScanKeeps, NextDayKeeps DEF Next

LEMMA BoardInvariant == Spec => []BoardInv
<1>1. BoardInv /\ [Next]_vars => BoardInv'
  BY BoardStep
<1> QED BY <1>1, BoardInit, PTL DEF Spec

-----------------------------------------------------------------------------
(***************************************************************************)
(* What follows.                                                           *)
(***************************************************************************)
\* A purchase whose quantity was fixed when it was written has added exactly
\* its receipt while it is delivered and nothing otherwise, for any units,
\* weights and counts, however the owner sets the item up in between and
\* whatever is paid, until the lifecycle puts the delivered purchase back
\* (trade_unit_type.py, commit_trade_purchase_delivery and
\* revert_confirmed_purchase_stock).
THEOREM ReceiptsStable == Spec => []UnitStable
<1>1. BoardInv => UnitStable
  BY DEF BoardInv
<1> QED BY <1>1, BoardInvariant, PTL

LEMMA PendingFollows ==
  ASSUME BoardInv
  PROVE  PendingAgrees
<1>1. BoardTyped /\ FlagsAgree /\ UnitStable /\ LateTold
  BY DEF BoardInv
<1>2. ASSUME NEW i \in Items, \A n \in Of(i) : ~po[n].reopened
      PROVE  Pending(i) = PendingLifetime(i) /\ Detail(i, today).pending = Pending(i)
  <2>1. \A n \in Of(i) : n \in Recorded /\ po[n] \in Purchases /\ po[n].status \notin Closed
    BY <1>1, ReceiptInt DEF Of, Live
  <2>2. \A n \in Of(i) : po[n].delivery \notin {"stock_committed", "cancelled"} <=> ~po[n].delivered
    BY <1>1, <1>2, <2>1 DEF FlagsAgree, InStep
  <2>3. Open(i) = {n \in Of(i) : ~po[n].delivered}
    BY <2>2 DEF Open
  <2>4. Pending(i) = PendingLifetime(i)
    BY <2>3 DEF Pending, PendingLifetime
  <2> QED BY <2>4 DEF Detail, Row
<1>3. ASSUME NEW i \in Items, PendingDays(i) > 0
      PROVE  \E n \in Of(i) : /\ today - po[n].day = PendingDays(i)
                              /\ po[n].line.snap > 0 /\ ~po[n].reopened => po[n].added = 0
  <2>1. Open(i) # {}
    BY <1>3 DEF PendingDays
  <2>2. PICK n \in Open(i) : today - po[n].day = PendingDays(i)
    BY <1>1, <2>1, OldestPending
  <2>3. n \in Of(i) /\ n \in Recorded /\ (~po[n].reopened => ~po[n].delivered)
    BY <1>1 DEF Open, Of, Live, FlagsAgree, InStep
  <2>4. po[n].line.snap > 0 /\ ~po[n].reopened => po[n].added = 0
    BY <1>1, <2>3 DEF UnitStable
  <2> QED BY <2>2, <2>3, <2>4
<1>4. ASSUME NEW i \in Items, <<"supplier_delayed", i>> \in told
      PROVE  \E n \in Recorded : today - po[n].day >= DelayDays
  BY <1>1, <1>4 DEF LateTold
<1> SUFFICES ASSUME NEW i \in Items
             PROVE  /\ (\A n \in Of(i) : ~po[n].reopened) =>
                         Pending(i) = PendingLifetime(i) /\ Detail(i, today).pending = Pending(i)
                    /\ PendingDays(i) > 0 =>
                         \E n \in Of(i) : /\ today - po[n].day = PendingDays(i)
                                          /\ po[n].line.snap > 0 /\ ~po[n].reopened => po[n].added = 0
                    /\ <<"supplier_delayed", i>> \in told =>
                         \E n \in Recorded : today - po[n].day >= DelayDays
  BY DEF PendingAgrees
<1> QED BY <1>2, <1>3, <1>4

LEMMA TruckFollows ==
  ASSUME BoardInv
  PROVE  TruckShown
<1>1. BoardTyped /\ LastLive
  BY DEF BoardInv
<1> SUFFICES ASSUME NEW i \in Items, last[i].po # None, po[last[i].po].item = i,
                    ~(po[last[i].po].status = "cancelled" /\ po[last[i].po].delivery # "cancelled")
             PROVE  /\ last[i].po \in Live
                    /\ Truck(i) = "none" => last[i].at # None /\ today - last[i].at > TruckDays
  BY DEF TruckShown
<1>2. last[i].po \in Live
  BY <1>1 DEF LastLive, Live, Stands
<1>3. ASSUME Truck(i) = "none"
      PROVE  last[i].at # None /\ today - last[i].at > TruckDays
  <2>1. Open(i) = {}
    BY <1>3 DEF Truck
  <2>2. LastDelivered(i) \in BOOLEAN
    BY <1>2 DEF LastDelivered
  <2>3. ~(last[i].at = None \/ today - last[i].at <= TruckDays)
    BY <1>3, <2>1, <2>2 DEF Truck
  <2>4. last[i].at \in Nat \cup {None} /\ today \in Nat /\ TruckDays \in Nat
    BY <1>1, BoardAssumption DEF BoardTyped
  <2> QED BY <2>3, <2>4
<1> QED BY <1>2, <1>3

\* The list and the item's page name the same goods on their way, although one
\* reads delivery_status and the other is_delivered, for every item of which
\* the lifecycle has put no delivered purchase back; nobody is told of a late
\* supplier without an order that old; no purchase that a cancel or delete
\* request has closed and that still holds an item is its last one, and the
\* truck of a live one goes dark only when the last delivery is old: for any
\* items, orders, payments and lifecycle requests (stock_list.py,
\* _pending_order_meta_map and _classify_delivery_indicator).
THEOREM DeliveriesTrue == Spec => []DeliveriesShown
<1>1. BoardInv => DeliveriesShown
  BY PendingFollows, TruckFollows DEF DeliveriesShown
<1> QED BY <1>1, BoardInvariant, PTL

-----------------------------------------------------------------------------
(***************************************************************************)
(* The books of an item: its stock is what corrections by hand, receipts   *)
(* and quick purchases have made it.                                       *)
(***************************************************************************)
\* What a purchase has added to an item, and all purchases.
Share(r, i) == IF r # None /\ r.item = i THEN r.added ELSE 0
AddedTo(i) == [n \in Numbers |-> Share(po[n], i)]
AddedSum(i) == SumFunctionOnSet(AddedTo(i), Numbers)
QuickSum(i) == SumFunctionOnSet(quick[i], Days)

Sheets == [hand : Int, received : Int, expected : Int \cup {None}, at : Nat \cup {None}]

BooksTyped ==
  /\ stock \in [Items -> Int]
  /\ adj \in [Items -> Sheets]
  /\ used \in [Items -> [Days -> Nat \cup {None}]]
  /\ quick \in [Items -> [Days -> Nat]]
  /\ today \in Days

Explained == \A i \in Items : stock[i] = adj[i].hand + AddedSum(i) + QuickSum(i)

\* Nothing is bought on a day to come.
NotAhead == \A i \in Items : \A d \in Days : d > today => quick[i][d] = 0

Books == BooksTyped /\ Explained /\ NotAhead

LEMMA ShareInt ==
  ASSUME NEW r \in Purchases \cup {None}, NEW i
  PROVE  Share(r, i) \in Int
BY DEF Share, Purchases

LEMMA AddedInt ==
  ASSUME BoardTyped, NEW i
  PROVE  /\ AddedSum(i) \in Int
         /\ \A n \in Numbers : AddedTo(i)[n] = Share(po[n], i) /\ AddedTo(i)[n] \in Int
<1>1. \A n \in Numbers : AddedTo(i)[n] = Share(po[n], i) /\ AddedTo(i)[n] \in Int
  BY ShareInt DEF AddedTo, BoardTyped
<1> HIDE DEF AddedTo
<1> QED BY <1>1, Finite, SumInt DEF AddedSum

LEMMA QuickInt ==
  ASSUME BooksTyped, NEW i \in Items
  PROVE  QuickSum(i) \in Int
<1>1. \A d \in Days : quick[i][d] \in Int
  BY DEF BooksTyped
<1> QED BY <1>1, Finite, SumInt DEF QuickSum

\* One purchase is written: the sums change by what it adds.
LEMMA RowAdds ==
  ASSUME BoardTyped, BoardTyped', NEW n \in Numbers, \A m \in Numbers \ {n} : po'[m] = po[m], NEW i
  PROVE  AddedSum(i)' = AddedSum(i) + Share(po'[n], i) - Share(po[n], i)
<1> DEFINE f == AddedTo(i)
           g == AddedTo(i)'
<1>1. \A m \in Numbers : f[m] = Share(po[m], i) /\ f[m] \in Int
  BY AddedInt
<1>2. \A m \in Numbers : g[m] = Share(po'[m], i) /\ g[m] \in Int
  BY ShareInt DEF AddedTo, BoardTyped, Numbers
<1>3. AddedSum(i) = SumFunctionOnSet(f, Numbers) /\ AddedSum(i)' = SumFunctionOnSet(g, Numbers)
  BY DEF AddedSum, Numbers
<1> HIDE DEF f, g
<1>4. \A m \in Numbers : f[m] \in Int /\ g[m] \in Int /\ (m # n => g[m] = f[m])
  BY <1>1, <1>2
<1>5. SumFunctionOnSet(g, Numbers) = SumFunctionOnSet(f, Numbers) + g[n] - f[n]
  BY <1>4, Finite, SumChanged
<1> QED BY <1>1, <1>2, <1>3, <1>5

LEMMA QuickKept ==
  ASSUME UNCHANGED quick, NEW i
  PROVE  QuickSum(i)' = QuickSum(i)
BY DEF QuickSum, Days

\* A request that leaves stock and counts alone, and writes one purchase at
\* most, without changing what it has added to any item.
LEMMA StockKept ==
  ASSUME BoardTyped, BoardTyped', Books, UNCHANGED <<stock, adj, used, quick, today>>,
         NEW n \in Numbers, \A m \in Numbers \ {n} : po'[m] = po[m],
         \A i \in Items : Share(po'[n], i) = Share(po[n], i)
  PROVE  Books'
<1>1. BooksTyped' /\ NotAhead'
  BY DEF Books, BooksTyped, NotAhead, Days
<1>2. Explained'
  <2> SUFFICES ASSUME NEW i \in Items
               PROVE  stock'[i] = adj'[i].hand + AddedSum(i)' + QuickSum(i)'
    BY DEF Explained
  <2>1. stock[i] = adj[i].hand + AddedSum(i) + QuickSum(i)
    BY DEF Books, Explained
  <2>2. AddedSum(i) \in Int /\ Share(po[n], i) \in Int
    BY AddedInt, ShareInt DEF BoardTyped
  <2>3. AddedSum(i)' = AddedSum(i)
    BY <2>2, RowAdds
  <2>4. QuickSum(i)' = QuickSum(i)
    BY QuickKept
  <2> QED BY <2>1, <2>3, <2>4
<1> QED BY <1>1, <1>2 DEF Books

\* A purchase of the item moves its stock by what it has added.
LEMMA ReceiptMoves ==
  ASSUME BoardTyped, BoardTyped', Books, UNCHANGED <<used, quick, today>>,
         NEW n \in Recorded, n \in Recorded', po'[n].item = po[n].item,
         \A m \in Numbers \ {n} : po'[m] = po[m],
         NEW i, i = po[n].item,
         stock' = [stock EXCEPT ![i] = stock[i] + po'[n].added - po[n].added],
         NEW u \in Sheets, u.hand = adj[i].hand, adj' = [adj EXCEPT ![i] = u]
  PROVE  Books'
<1>1. /\ n \in Numbers /\ po[n] \in Purchases /\ po'[n] \in Purchases /\ i \in Items
      /\ po[n].added \in Int /\ po'[n].added \in Int /\ None \notin Purchases
  <2>1. n \in Numbers /\ po[n] # None /\ po'[n] # None
    BY DEF Recorded, Numbers
  <2>2. po[n] \in Purchases /\ po'[n] \in Purchases
    BY <2>1 DEF BoardTyped, Numbers
  <2> QED BY <2>1, <2>2, NoneAssumption DEF Purchases
<1>2. BooksTyped
  BY DEF Books
<1>3. BooksTyped'
  <2>1. stock[i] + po'[n].added - po[n].added \in Int
    BY <1>1, <1>2 DEF BooksTyped
  <2>2. stock' \in [Items -> Int] /\ adj' \in [Items -> Sheets]
    BY <1>2, <2>1 DEF BooksTyped
  <2> QED BY <1>2, <2>2 DEF BooksTyped, Days, Sheets
<1>4. Explained'
  <2> SUFFICES ASSUME NEW j \in Items
               PROVE  stock'[j] = adj'[j].hand + AddedSum(j)' + QuickSum(j)'
    BY DEF Explained
  <2>1. stock[j] = adj[j].hand + AddedSum(j) + QuickSum(j)
    BY DEF Books, Explained
  <2>2. /\ AddedSum(j)' = AddedSum(j) + Share(po'[n], j) - Share(po[n], j)
        /\ AddedSum(j) \in Int /\ QuickSum(j) \in Int /\ QuickSum(j)' = QuickSum(j)
        /\ adj[j].hand \in Int /\ stock[j] \in Int
    BY <1>1, <1>2, RowAdds, AddedInt, QuickInt, QuickKept DEF BooksTyped, Sheets
  <2>3. CASE j = i
    <3>1. Share(po'[n], j) = po'[n].added /\ Share(po[n], j) = po[n].added
      BY <1>1, <2>3 DEF Share
    <3>2. stock'[j] = stock[j] + po'[n].added - po[n].added /\ adj'[j].hand = adj[j].hand
      BY <1>2, <2>3 DEF BooksTyped
    <3> QED BY <1>1, <2>1, <2>2, <3>1, <3>2
  <2>4. CASE j # i
    <3>1. Share(po'[n], j) = 0 /\ Share(po[n], j) = 0
      BY <1>1, <2>4 DEF Share
    <3>2. stock'[j] = stock[j] /\ adj'[j] = adj[j]
      BY <1>2, <2>4 DEF BooksTyped
    <3> QED BY <1>1, <2>1, <2>2, <3>1, <3>2
  <2> QED BY <2>3, <2>4
<1>5. NotAhead'
  BY DEF Books, NotAhead, Days
<1> QED BY <1>3, <1>4, <1>5 DEF Books

\* A movement by hand enters the books as such.
LEMMA HandMoves ==
  ASSUME BoardTyped, BoardTyped', Books, UNCHANGED <<po, quick, today>>,
         used' \in [Items -> [Days -> Nat \cup {None}]],
         NEW i \in Items, NEW to \in Int, ByHand(i, to)
  PROVE  Books'
<1>1. BooksTyped
  BY DEF Books
<1>2. PICK hand : hand = adj[i].hand + to - stock[i]
  OBVIOUS
<1>3. PICK u : u = [adj[i] EXCEPT !.hand = hand, !.at = today]
  OBVIOUS
<1>4. /\ u \in Sheets /\ u.hand = adj[i].hand + to - stock[i]
      /\ adj[i].hand \in Int /\ stock[i] \in Int
  <2>1. adj[i] \in Sheets /\ stock[i] \in Int /\ today \in Nat
    BY <1>1 DEF BooksTyped, BoardTyped
  <2>2. hand \in Int
    BY <1>2, <2>1 DEF Sheets
  <2> QED BY <1>2, <1>3, <2>1, <2>2 DEF Sheets
<1>5. stock' = [stock EXCEPT ![i] = to] /\ adj' = [adj EXCEPT ![i] = u]
  BY <1>1, <1>2, <1>3 DEF ByHand, BooksTyped, Sheets
<1>6. BooksTyped'
  <2>1. stock' \in [Items -> Int] /\ adj' \in [Items -> Sheets]
    BY <1>1, <1>4, <1>5 DEF BooksTyped
  <2> QED BY <1>1, <2>1 DEF BooksTyped, Days, Sheets
<1>7. Explained'
  <2> SUFFICES ASSUME NEW j \in Items
               PROVE  stock'[j] = adj'[j].hand + AddedSum(j)' + QuickSum(j)'
    BY DEF Explained
  <2>1. stock[j] = adj[j].hand + AddedSum(j) + QuickSum(j)
    BY DEF Books, Explained
  <2>2. AddedSum(j)' = AddedSum(j) /\ QuickSum(j)' = QuickSum(j)
    BY DEF AddedSum, AddedTo, QuickSum, Numbers, Days
  <2>3. AddedSum(j) \in Int /\ QuickSum(j) \in Int
    BY <1>1, AddedInt, QuickInt
  <2>4. CASE j = i
    <3>1. stock'[j] = to /\ adj'[j].hand = adj[j].hand + to - stock[j]
      BY <1>1, <1>4, <1>5, <2>4 DEF BooksTyped
    <3> QED BY <1>4, <2>1, <2>2, <2>3, <2>4, <3>1
  <2>5. CASE j # i
    <3>1. stock'[j] = stock[j] /\ adj'[j] = adj[j]
      BY <1>1, <1>5, <2>5 DEF BooksTyped
    <3> QED BY <2>1, <2>2, <3>1
  <2> QED BY <2>4, <2>5
<1>8. NotAhead'
  BY DEF Books, NotAhead, Days
<1> QED BY <1>6, <1>7, <1>8 DEF Books

-----------------------------------------------------------------------------
(***************************************************************************)
(* Every request keeps the books.                                          *)
(***************************************************************************)
LEMMA WrittenBooks ==
  ASSUME BoardInv, BoardInv', Books, NEW n \in Numbers, NEW o \in Orders[n], NEW status,
         Record(n, o[1], o[2], status) \/ Rewrite(n, o[1], o[2], status)
  PROVE  Books'
<1>1. /\ BoardTyped /\ BoardTyped' /\ NothingUnapplied /\ NothingUnapplied'
      /\ po \in [Numbers -> Purchases \cup {None}]
  BY DEF BoardInv, BoardTyped
<1>2. /\ UNCHANGED <<stock, adj, used, quick, today>> /\ \A m \in Numbers \ {n} : po'[m] = po[m]
  BY <1>1 DEF Record, Rewrite, goods, counted
<1>3. \A i \in Items : Share(po[n], i) = 0 /\ Share(po'[n], i) = 0
  <2>1. CASE Record(n, o[1], o[2], status)
    <3>1. po[n] = None /\ po'[n].added = 0
      BY <1>1, <2>1 DEF Record, Recorded
    <3> QED BY <3>1 DEF Share
  <2>2. CASE Rewrite(n, o[1], o[2], status)
    <3>1. n \in Recorded /\ ~po[n].applied
      BY <2>2 DEF Rewrite, Live
    <3>2. po[n].added = 0 /\ po[n] \in Purchases
      BY <1>1, <3>1, ReceiptInt DEF NothingUnapplied
    <3>3. po'[n].added = 0
      BY <1>1, <2>2, <3>2 DEF Rewrite, Purchases
    <3> QED BY <3>2, <3>3 DEF Share
  <2> QED BY <2>1, <2>2
<1> QED BY <1>1, <1>2, <1>3, StockKept

LEMMA ArrivedBooks ==
  ASSUME BoardInv, BoardInv', Books, NEW n \in Numbers, Arrive(n)
  PROVE  Books'
<1>1. BoardTyped /\ BoardTyped' /\ po \in [Numbers -> Purchases \cup {None}] /\ None \notin Purchases
  BY NoneAssumption DEF BoardInv, BoardTyped
<1>2. UNCHANGED <<stock, adj, used, quick, today>> /\ n \in Recorded
  BY DEF Arrive, goods, counted, Live
<1>3. po[n] \in Purchases
  BY <1>1, <1>2, ReceiptInt
<1>4. PICK q : q = [po[n] EXCEPT !.delivery = "arrived"]
  OBVIOUS
<1>5. q \in Purchases /\ q.item = po[n].item /\ q.added = po[n].added
  BY <1>3, <1>4 DEF Purchases
<1>6. po'[n] = q /\ \A m \in Numbers \ {n} : po'[m] = po[m]
  BY <1>1, <1>4 DEF Arrive
<1>7. \A i \in Items : Share(po'[n], i) = Share(po[n], i)
  BY <1>1, <1>3, <1>5, <1>6 DEF Share
<1> QED BY <1>1, <1>2, <1>6, <1>7, StockKept

LEMMA VerifiedBooks ==
  ASSUME BoardInv, BoardInv', Books, NEW n \in Live, NEW r \in {None, po[n].line.qty \div 2}, Verify(n, r)
  PROVE  Books'
<1>1. BoardTyped /\ BoardTyped' /\ po \in [Numbers -> Purchases \cup {None}] /\ None \notin Purchases
  BY NoneAssumption DEF BoardInv, BoardTyped
<1>2. UNCHANGED <<stock, adj, used, quick, today>> /\ n \in Recorded /\ n \in Numbers
  BY DEF Verify, goods, counted, Live, Recorded
<1>3. po[n] \in Purchases
  BY <1>1, <1>2, ReceiptInt
<1>4. PICK q \in Purchases : po' = [po EXCEPT ![n] = q] /\ q.item = po[n].item /\ q.added = po[n].added
  BY <1>1, VerifiedRow
<1>5. po'[n] = q /\ \A m \in Numbers \ {n} : po'[m] = po[m]
  BY <1>1, <1>2, <1>4
<1>6. \A i \in Items : Share(po'[n], i) = Share(po[n], i)
  BY <1>1, <1>3, <1>4, <1>5 DEF Share
<1> QED BY <1>1, <1>2, <1>5, <1>6, StockKept

LEMMA CommittedBooks ==
  ASSUME BoardInv, BoardInv', Books, NEW n \in Numbers, Commit(n)
  PROVE  Books'
<1>1. /\ BoardTyped /\ BoardTyped' /\ NothingUnapplied /\ BooksTyped
      /\ po \in [Numbers -> Purchases \cup {None}] /\ None \notin Purchases
  BY NoneAssumption DEF BoardInv, BoardTyped, Books
<1>2. PICK i, c, status :
        /\ i = po[n].item /\ c = Receipt(n)
        /\ status = IF po[n].status = "completed" THEN po[n].status ELSE "added_to_stock"
  OBVIOUS
<1>3. /\ UNCHANGED <<used, quick, today>> /\ n \in Recorded /\ ~po[n].applied
      /\ stock' = [stock EXCEPT ![i] = @ + c]
      /\ adj' = [adj EXCEPT ![i].received = @ + c, ![i].expected = stock[i] + c, ![i].at = today]
      /\ po' = [po EXCEPT ![n].delivery = "stock_committed", ![n].delivered = TRUE,
                          ![n].status = status, ![n].applied = TRUE, ![n].added = c]
  BY <1>2 DEF Commit, counted, Live
<1>4. po[n] \in Purchases /\ c \in Int /\ i \in Items /\ po[n].added = 0
  BY <1>1, <1>2, <1>3, ReceiptInt DEF Purchases, NothingUnapplied
<1>5. PICK q : q = [po[n] EXCEPT !.delivery = "stock_committed", !.delivered = TRUE,
                                 !.status = status, !.applied = TRUE, !.added = c]
  OBVIOUS
<1>6. q \in Purchases /\ q.item = po[n].item /\ q.added = c
  BY <1>2, <1>4, <1>5 DEF Purchases, Statuses
<1>7. po'[n] = q /\ n \in Recorded' /\ \A m \in Numbers \ {n} : po'[m] = po[m]
  BY <1>1, <1>3, <1>5, <1>6 DEF Recorded, Numbers
<1>8. PICK received, expected : received = adj[i].received + c /\ expected = stock[i] + c
  OBVIOUS
<1>9. PICK u : u = [adj[i] EXCEPT !.received = received, !.expected = expected, !.at = today]
  OBVIOUS
<1>10. u \in Sheets /\ u.hand = adj[i].hand /\ adj' = [adj EXCEPT ![i] = u]
  <2>1. adj[i] \in Sheets /\ stock[i] \in Int /\ today \in Nat
    BY <1>1, <1>4 DEF BooksTyped, BoardTyped
  <2>2. received \in Int /\ expected \in Int
    BY <1>4, <1>8, <2>1 DEF Sheets
  <2> QED BY <1>1, <1>3, <1>8, <1>9, <2>1, <2>2 DEF Sheets, BooksTyped
<1>11. stock' = [stock EXCEPT ![i] = stock[i] + po'[n].added - po[n].added]
  <2>1. stock[i] \in Int
    BY <1>1, <1>4 DEF BooksTyped
  <2>2. stock[i] + c = stock[i] + po'[n].added - po[n].added
    BY <1>4, <1>6, <1>7, <2>1
  <2> QED BY <1>3, <2>2
<1>12. po'[n].item = po[n].item
  BY <1>6, <1>7
<1>13. UNCHANGED <<used, quick, today>> /\ n \in Recorded /\ i = po[n].item
  BY <1>2, <1>3
<1> QED BY <1>1, <1>7, <1>10, <1>11, <1>12, <1>13, ReceiptMoves

\* What is taken back leaves the stock and the purchase alike.
LEMMA TakenBooks ==
  ASSUME BoardInv, BoardInv', Books, NEW n \in Recorded, TakeBack(n), UNCHANGED <<used, quick, today>>,
         NEW q \in Purchases, q.item = po[n].item, q.added = Taken(n), po' = [po EXCEPT ![n] = q]
  PROVE  Books'
<1>1. /\ BoardTyped /\ BoardTyped' /\ BooksTyped
      /\ po \in [Numbers -> Purchases \cup {None}] /\ None \notin Purchases
  BY NoneAssumption DEF BoardInv, BoardTyped, Books
<1>2. PICK i, c : i = po[n].item /\ c = IF po[n].delivered THEN Receipt(n) ELSE 0
  OBVIOUS
<1>3. po[n] \in Purchases /\ c \in Int /\ i \in Items /\ po[n].added \in Int /\ n \in Numbers
  BY <1>1, <1>2, ReceiptInt DEF Purchases, Recorded
<1>4. /\ stock' = [stock EXCEPT ![i] = @ - c]
      /\ adj' = IF c > 0 THEN [adj EXCEPT ![i].at = today] ELSE adj
  BY <1>2 DEF TakeBack
<1>5. po'[n] = q /\ n \in Recorded' /\ \A m \in Numbers \ {n} : po'[m] = po[m]
  BY <1>1, <1>3 DEF Recorded, Numbers
<1>6. Taken(n) = po[n].added - c
  BY <1>2, <1>3 DEF Taken
<1>7. stock' = [stock EXCEPT ![i] = stock[i] + po'[n].added - po[n].added]
  <2>1. stock[i] \in Int
    BY <1>1, <1>3 DEF BooksTyped
  <2>2. stock[i] - c = stock[i] + po'[n].added - po[n].added
    BY <1>3, <1>5, <1>6, <2>1
  <2> QED BY <1>4, <2>2
<1>8. PICK u : u = IF c > 0 THEN [adj[i] EXCEPT !.at = today] ELSE adj[i]
  OBVIOUS
<1>9. u \in Sheets /\ u.hand = adj[i].hand /\ adj' = [adj EXCEPT ![i] = u]
  <2>1. adj[i] \in Sheets /\ today \in Nat
    BY <1>1, <1>3 DEF BooksTyped, BoardTyped
  <2> QED BY <1>1, <1>4, <1>8, <2>1 DEF Sheets, BooksTyped
<1> QED BY <1>1, <1>2, <1>5, <1>7, <1>9, ReceiptMoves

LEMMA RevertedBooks ==
  ASSUME BoardInv, BoardInv', Books, NEW n \in Numbers, Revert(n)
  PROVE  Books'
<1>1. BoardTyped /\ po \in [Numbers -> Purchases \cup {None}]
  BY DEF BoardInv, BoardTyped
<1>2. PICK added : added = Taken(n)
  OBVIOUS
<1>3. /\ n \in Recorded /\ TakeBack(n) /\ UNCHANGED <<used, quick, today>>
      /\ po' = [po EXCEPT ![n].delivery = "pending", ![n].delivered = FALSE, ![n].added = added]
  BY <1>2 DEF Revert, counted, Live
<1>4. po[n] \in Purchases /\ added \in Int
  BY <1>1, <1>2, <1>3, ReceiptInt, TakenBack
<1>5. PICK q : q = [po[n] EXCEPT !.delivery = "pending", !.delivered = FALSE, !.added = added]
  OBVIOUS
<1>6. q \in Purchases /\ q.item = po[n].item /\ q.added = Taken(n)
  BY <1>2, <1>4, <1>5 DEF Purchases
<1>7. po' = [po EXCEPT ![n] = q]
  BY <1>1, <1>3, <1>4, <1>5 DEF Purchases
<1> QED BY <1>3, <1>6, <1>7, TakenBooks

LEMMA ClosedBooks ==
  ASSUME BoardInv, BoardInv', Books, NEW n \in Numbers, NEW status \in Closed, Close(n, status)
  PROVE  Books'
<1>1. BoardTyped /\ po \in [Numbers -> Purchases \cup {None}]
  BY DEF BoardInv, BoardTyped
<1>2. PICK added : added = Taken(n)
  OBVIOUS
<1>3. /\ n \in Recorded /\ TakeBack(n) /\ UNCHANGED <<used, quick, today>>
      /\ po' = [po EXCEPT ![n].status = status, ![n].delivery = "cancelled",
                          ![n].delivered = FALSE, ![n].added = added]
  BY <1>2 DEF Close, counted
<1>4. po[n] \in Purchases /\ added \in Int
  BY <1>1, <1>2, <1>3, ReceiptInt, TakenBack
<1>5. PICK q : q = [po[n] EXCEPT !.status = status, !.delivery = "cancelled",
                                 !.delivered = FALSE, !.added = added]
  OBVIOUS
<1>6. q \in Purchases /\ q.item = po[n].item /\ q.added = Taken(n)
  BY <1>2, <1>4, <1>5 DEF Purchases, Statuses
<1>7. po' = [po EXCEPT ![n] = q]
  BY <1>1, <1>3, <1>4, <1>5 DEF Purchases
<1> QED BY <1>3, <1>6, <1>7, TakenBooks

\* Payments and the lifecycle move no goods.
LEMMA ManagedBooks ==
  ASSUME BoardInv, BoardInv', Books, NEW n \in Numbers, NEW status \in Statuses,
         Pay(n, status) \/ Transition(n, status)
  PROVE  Books'
<1>1. BoardTyped /\ BoardTyped' /\ FlagsAgree /\ po \in [Numbers -> Purchases \cup {None}] /\ None \notin Purchases
  BY NoneAssumption DEF BoardInv, BoardTyped
<1>2. n \in Recorded /\ UNCHANGED <<stock, adj, used, quick, today>>
  BY <1>1, ManagedRow DEF Live
<1>3. po[n] \in Purchases
  BY <1>1, <1>2, ReceiptInt
<1>4. PICK q \in Purchases : po' = [po EXCEPT ![n] = q] /\ q.item = po[n].item /\ q.added = po[n].added
  BY <1>1, ManagedRow
<1>5. po'[n] = q /\ \A m \in Numbers \ {n} : po'[m] = po[m]
  BY <1>1, <1>4
<1>6. \A i \in Items : Share(po'[n], i) = Share(po[n], i)
  BY <1>1, <1>3, <1>4, <1>5 DEF Share
<1> QED BY <1>1, <1>2, <1>5, <1>6, StockKept

\* What a sum of orders comes to is a number.
LEMMA OrderedInt ==
  ASSUME BoardTyped, NEW S, S \subseteq Recorded
  PROVE  Ordered(S) \in Int
<1> DEFINE f == [n \in S |-> Qty(n)]
<1>1. \A n \in S : f[n] \in Int
  <2> SUFFICES ASSUME NEW n \in S PROVE Qty(n) \in Int
    OBVIOUS
  <2>1. po[n] \in Purchases
    BY ReceiptInt
  <2>2. po[n].line \in Lines /\ setup[po[n].item] \in Setups
    BY <2>1 DEF BoardTyped, Purchases
  <2>3. Converted(setup[po[n].item], po[n].line) \in Nat /\ po[n].line.snap \in Nat
    BY <2>2, ConvertedNat DEF Lines
  <2> QED BY <2>3 DEF Qty, StockQty
<1>2. IsFiniteSet(S)
  BY Finite, FS_Subset DEF Recorded
<1>3. Ordered(S) = SumFunctionOnSet(f, S)
  BY DEF Ordered, SumFunction
<1> HIDE DEF f
<1> QED BY <1>1, <1>2, <1>3, SumInt

LEMMA QuickBooks ==
  ASSUME BoardInv, BoardInv', Books, NEW i \in Items, NEW q \in Counts, QuickPurchase(i, q)
  PROVE  Books'
<1>1. BoardTyped /\ BoardTyped' /\ BooksTyped /\ Explained /\ NotAhead /\ q \in Nat
  BY BoardAssumption DEF BoardInv, Books
<1>2. PICK expected, bought : expected = stock[i] + q /\ bought = quick[i][today] + q
  OBVIOUS
<1>3. PICK u, b : /\ u = [adj[i] EXCEPT !.expected = expected, !.at = today]
                  /\ b = [quick[i] EXCEPT ![today] = bought]
  OBVIOUS
<1>4. /\ stock' = [stock EXCEPT ![i] = stock[i] + q]
      /\ adj' = [adj EXCEPT ![i] = u] /\ quick' = [quick EXCEPT ![i] = b]
      /\ UNCHANGED <<used, po, today>>
  BY <1>1, <1>2, <1>3 DEF QuickPurchase, BooksTyped
<1>5. /\ stock[i] \in Int /\ adj[i] \in Sheets /\ quick[i] \in [Days -> Nat]
      /\ today \in Nat /\ today \in Days
  BY <1>1 DEF BooksTyped, BoardTyped
<1>6. u \in Sheets /\ u.hand = adj[i].hand
  <2>1. expected \in Int
    BY <1>1, <1>2, <1>5
  <2> QED BY <1>3, <1>5, <2>1 DEF Sheets
<1>7. /\ b \in [Days -> Nat] /\ b[today] = quick[i][today] + q
      /\ \A d \in Days \ {today} : b[d] = quick[i][d]
  <2>1. bought \in Nat
    BY <1>1, <1>2, <1>5
  <2> QED BY <1>2, <1>3, <1>5, <2>1
<1>8. BooksTyped'
  <2>1. stock' \in [Items -> Int] /\ adj' \in [Items -> Sheets] /\ quick' \in [Items -> [Days -> Nat]]
    BY <1>1, <1>4, <1>5, <1>6, <1>7 DEF BooksTyped
  <2> QED BY <1>1, <1>4, <2>1 DEF BooksTyped, Days, Sheets
<1>9. NotAhead'
  <2> SUFFICES ASSUME NEW j \in Items, NEW d \in Days, d > today
               PROVE  quick'[j][d] = 0
    BY <1>4 DEF NotAhead, Days
  <2>1. quick[j][d] = 0 /\ d # today
    BY <1>1, <1>5 DEF NotAhead, Days
  <2> QED BY <1>1, <1>4, <1>7, <2>1 DEF BooksTyped
<1>10. Explained'
  <2> SUFFICES ASSUME NEW j \in Items
               PROVE  stock'[j] = adj'[j].hand + AddedSum(j)' + QuickSum(j)'
    BY DEF Explained
  <2>1. stock[j] = adj[j].hand + AddedSum(j) + QuickSum(j)
    BY <1>1 DEF Explained
  <2>2. AddedSum(j)' = AddedSum(j)
    BY <1>4 DEF AddedSum, AddedTo, Numbers
  <2>3. AddedSum(j) \in Int /\ QuickSum(j) \in Int
    BY <1>1, AddedInt, QuickInt
  <2>4. QuickSum(j)' = SumFunctionOnSet(quick'[j], Days)
    BY DEF QuickSum, Days
  <2>5. CASE j = i
    <3>1. quick'[j] = b /\ stock'[j] = stock[j] + q /\ adj'[j].hand = adj[j].hand
      BY <1>1, <1>4, <1>6, <2>5 DEF BooksTyped
    <3>2. SumFunctionOnSet(b, Days) = SumFunctionOnSet(quick[i], Days) + b[today] - quick[i][today]
      <4> DEFINE f == quick[i]
      <4>1. \A d \in Days : f[d] \in Int /\ b[d] \in Int /\ (d # today => b[d] = f[d])
        BY <1>5, <1>7
      <4> HIDE DEF f
      <4>2. SumFunctionOnSet(b, Days) = SumFunctionOnSet(f, Days) + b[today] - f[today]
        BY <1>5, <4>1, Finite, SumChanged
      <4> QED BY <4>2 DEF f
    <3>3. quick[i][today] \in Int /\ adj[j].hand \in Int /\ stock[j] \in Int
      BY <1>5, <2>5 DEF Sheets
    <3>4. QuickSum(j)' = QuickSum(j) + q
      BY <1>1, <1>7, <2>3, <2>4, <2>5, <3>1, <3>2, <3>3 DEF QuickSum
    <3> QED BY <1>1, <2>1, <2>2, <2>3, <3>1, <3>3, <3>4
  <2>6. CASE j # i
    <3>1. quick'[j] = quick[j] /\ stock'[j] = stock[j] /\ adj'[j] = adj[j]
      BY <1>1, <1>4, <2>6 DEF BooksTyped
    <3> QED BY <2>1, <2>2, <2>4, <3>1 DEF QuickSum
  <2> QED BY <2>5, <2>6
<1> QED BY <1>8, <1>9, <1>10 DEF Books

LEMMA UsedBooks ==
  ASSUME BoardInv, BoardInv', Books, NEW i \in Items, NEW q \in Counts, Use(i, q)
  PROVE  Books'
<1>1. BoardTyped /\ BoardTyped' /\ BooksTyped /\ q \in Nat
  BY BoardAssumption DEF BoardInv, Books
<1>2. PICK came, before : came = DeliveredToday(i) /\ before = Max({0, stock[i] - came})
  OBVIOUS
<1>3. /\ ByHand(i, before + came - q) /\ used' = [used EXCEPT ![i][today] = q]
      /\ UNCHANGED <<po, quick, today>>
  BY <1>2 DEF Use
<1>4. came \in Int
  <2> DEFINE T == {n \in Of(i) : po[n].delivered /\ po[n].day = today}
  <2>1. T \subseteq Recorded
    BY DEF Of, Live
  <2> HIDE DEF T
  <2>2. Ordered(T) \in Int
    BY <1>1, <2>1, OrderedInt
  <2> QED BY <1>2, <2>2 DEF DeliveredToday, T
<1>5. before \in Int
  <2>1. PICK rest \in Int : rest = stock[i] - came
    BY <1>1, <1>4 DEF BooksTyped
  <2> DEFINE T == {0, rest}
  <2>2. T = {0} \cup {rest} /\ T \subseteq Int /\ T # {}
    OBVIOUS
  <2>3. IsFiniteSet({0} \cup {rest})
    <3>1. IsFiniteSet({0})
      BY FS_Singleton
    <3> QED BY <3>1, FS_AddElement
  <2> HIDE DEF T
  <2>4. Max(T) \in T
    BY <2>2, <2>3, FiniteHasMax
  <2>5. before = Max(T)
    BY <1>2, <2>1 DEF T
  <2> QED BY <2>2, <2>4, <2>5
<1>6. used' \in [Items -> [Days -> Nat \cup {None}]]
  <2>1. PICK f : f = [used[i] EXCEPT ![today] = q]
    OBVIOUS
  <2>2. f \in [Days -> Nat \cup {None}]
    BY <1>1, <2>1 DEF BooksTyped
  <2> QED BY <1>1, <1>3, <2>1, <2>2 DEF BooksTyped
<1>7. before + came - q \in Int
  BY <1>1, <1>4, <1>5
<1> QED BY <1>1, <1>3, <1>6, <1>7, HandMoves

\* Counts that are booked and the opening stock.
LEMMA CountedBooks ==
  ASSUME BoardInv, BoardInv', Books, NEW i \in Items, NEW q \in Counts,
         SetOpening(i, q) \/ \E kind : Recount(i, q, kind)
  PROVE  Books'
<1>1. BoardTyped /\ BoardTyped' /\ q \in Int /\ used \in [Items -> [Days -> Nat \cup {None}]]
  BY BoardAssumption DEF BoardInv, Books, BooksTyped
<1>2. ByHand(i, q) /\ UNCHANGED <<po, used, quick, today>>
  BY DEF SetOpening, Recount
<1> QED BY <1>1, <1>2, HandMoves

LEMMA OtherBooks ==
  ASSUME BoardInv, BoardInv', Books, UNCHANGED <<stock, adj, used, quick, po, today>>
  PROVE  Books'
BY DEF Books, BooksTyped, Explained, NotAhead, AddedSum, AddedTo, QuickSum, Days, Numbers, Sheets

LEMMA NextDayBooks ==
  ASSUME BoardInv, BoardInv', Books, NEW g \in Gaps, NextDay(g)
  PROVE  Books'
<1>1. /\ UNCHANGED <<stock, adj, used, quick, po>> /\ today' = today + g /\ today' <= LastDay /\ g \in Nat
      /\ today \in Nat /\ today \in Days
  BY BoardAssumption DEF NextDay, goods, counted, BoardInv, BoardTyped, Books, BooksTyped
<1>2. today' \in Days /\ today' >= today
  BY <1>1, BoardAssumption DEF Days
<1>3. BooksTyped'
  BY <1>1, <1>2 DEF Books, BooksTyped, Days, Sheets
<1>4. Explained'
  BY <1>1 DEF Books, Explained, AddedSum, AddedTo, QuickSum, Days, Numbers
<1>5. NotAhead'
  <2> SUFFICES ASSUME NEW i \in Items, NEW d \in Days, d > today'
               PROVE  quick[i][d] = 0
    BY <1>1 DEF NotAhead, Days
  <2>1. d > today
    BY <1>1, <1>2 DEF Days
  <2> QED BY <2>1 DEF Books, NotAhead
<1> QED BY <1>3, <1>4, <1>5 DEF Books

LEMMA BooksInit == Init => Books
<1> SUFFICES ASSUME Init PROVE Books
  OBVIOUS
<1>1. BoardTyped
  BY BoardInit DEF BoardInv
<1>2. BooksTyped
  BY BoardAssumption DEF Init, BooksTyped, Days, Sheets
<1>3. NotAhead
  BY DEF Init, NotAhead
<1>4. Explained
  <2> SUFFICES ASSUME NEW i \in Items
               PROVE  stock[i] = adj[i].hand + AddedSum(i) + QuickSum(i)
    BY DEF Explained
  <2>1. \A n \in Numbers : AddedTo(i)[n] = 0
    BY DEF Init, AddedTo, Share
  <2>2. \A d \in Days : quick[i][d] = 0
    BY DEF Init
  <2>3. IsFiniteSet({}) /\ SumFunctionOnSet(AddedTo(i), {}) = 0 /\ SumFunctionOnSet(quick[i], {}) = 0
    BY FS_EmptySet, SumUnfolds
  <2>4. SumFunctionOnSet(AddedTo(i), {}) = SumFunctionOnSet(AddedTo(i), Numbers)
    <3> DEFINE f == AddedTo(i)
    <3>1. \A n \in Numbers : f[n] = 0 /\ f[n] \in Int
      BY <2>1
    <3> HIDE DEF f
    <3>2. SumFunctionOnSet(f, {}) = SumFunctionOnSet(f, Numbers)
      BY <3>1, Finite, SumOfSome
    <3> QED BY <3>2 DEF f
  <2>5. SumFunctionOnSet(quick[i], {}) = SumFunctionOnSet(quick[i], Days)
    <3> DEFINE f == quick[i]
    <3>1. \A d \in Days : f[d] = 0 /\ f[d] \in Int
      BY <2>2
    <3> HIDE DEF f
    <3>2. SumFunctionOnSet(f, {}) = SumFunctionOnSet(f, Days)
      BY <3>1, Finite, SumOfSome
    <3> QED BY <3>2 DEF f
  <2>6. AddedSum(i) = 0 /\ QuickSum(i) = 0
    BY <2>3, <2>4, <2>5 DEF AddedSum, QuickSum
  <2>7. stock[i] = 0 /\ adj[i].hand = 0
    BY DEF Init
  <2> QED BY <2>6, <2>7
<1> QED BY <1>2, <1>3, <1>4 DEF Books

LEMMA BooksStep ==
  ASSUME BoardInv, Books, [Next]_vars
  PROVE  Books'
<1>1. BoardInv'
  BY BoardStep
<1>2. ASSUME NEW n \in Numbers, Purchase(n)
      PROVE  Books'
  <2>1. ASSUME NEW o \in Orders[n],
               Record(n, o[1], o[2], o[3]) \/ Rewrite(n, o[1], o[2], o[3])
        PROVE  Books'
    BY <1>1, <2>1, WrittenBooks
  <2>2. CASE n \in Live /\ \E r \in {None, po[n].line.qty \div 2} : Verify(n, r)
    BY <1>1, <2>2, VerifiedBooks
  <2> QED BY <1>1, <1>2, <2>1, <2>2, ArrivedBooks, CommittedBooks, RevertedBooks, ClosedBooks DEF Purchase
<1>3. ASSUME NEW i \in Handled, Desk(i)
      PROVE  Books'
  <2> i \in Items
    BY BoardAssumption
  <2>1. CASE \E p \in Profiles : SetUp(i, p)
    <3>1. UNCHANGED <<stock, adj, used, quick, po, today>>
      BY <2>1 DEF SetUp, goods, counted
    <3> QED BY <1>1, <3>1, OtherBooks
  <2>2. ASSUME NEW q \in Counts, Count(i, q)
        PROVE  Books'
    <3>1. UNCHANGED <<stock, adj, used, quick, po, today>>
      BY <2>2 DEF Count, goods
    <3> QED BY <1>1, <3>1, OtherBooks
  <2> QED BY <1>1, <1>3, <2>1, <2>2, QuickBooks, UsedBooks, CountedBooks DEF Desk
<1>4. CASE Scan
  <2>1. UNCHANGED <<stock, adj, used, quick, po, today>>
    BY <1>4 DEF Scan, goods, counted
  <2> QED BY <1>1, <2>1, OtherBooks
<1>5. CASE UNCHANGED vars
  <2>1. UNCHANGED <<stock, adj, used, quick, po, today>>
    BY <1>5 DEF vars
  <2> QED BY <1>1, <2>1, OtherBooks
<1>6. ASSUME NEW n \in Managed, Manager(n)
      PROVE  Books'
  <2>1. n \in Numbers
    BY BoardAssumption DEF Numbers
  <2>2. {"paid", "confirmed"} \subseteq Statuses
    BY DEF Statuses
  <2> QED BY <1>1, <1>6, <2>1, <2>2, ManagedBooks DEF Manager
<1> QED BY <1>1, <1>2, <1>3, <1>4, <1>5, <1>6, NextDayBooks DEF Next

LEMMA BooksInvariant == Spec => [](BoardInv /\ Books)
<1>1. Init => BoardInv /\ Books
  BY BoardInit, BooksInit
<1>2. BoardInv /\ Books /\ [Next]_vars => (BoardInv /\ Books)'
  BY BoardStep, BooksStep
<1> QED BY <1>1, <1>2, PTL DEF Spec

\* The sum over the purchases there are is the one over all numbers.
LEMMA RecordedSum ==
  ASSUME BoardTyped, NEW i
  PROVE  SumFunction([n \in Recorded |-> IF po[n].item = i THEN po[n].added ELSE 0]) = AddedSum(i)
<1> DEFINE f == AddedTo(i)
           g == [n \in Recorded |-> IF po[n].item = i THEN po[n].added ELSE 0]
<1>1. \A n \in Numbers : f[n] = Share(po[n], i) /\ f[n] \in Int
  BY AddedInt
<1>2. Recorded \subseteq Numbers /\ \A n \in Numbers \ Recorded : f[n] = 0
  BY <1>1 DEF Recorded, Share
<1>3. \A n \in Recorded : g[n] = f[n] /\ f[n] \in Int
  BY <1>1, <1>2 DEF Recorded, Share
<1>4. SumFunction(g) = SumFunctionOnSet(g, Recorded) /\ AddedSum(i) = SumFunctionOnSet(f, Numbers)
  BY DEF SumFunction, AddedSum
<1> HIDE DEF f, g
<1>5. IsFiniteSet(Recorded)
  BY <1>2, Finite, FS_Subset
<1>6. SumFunctionOnSet(g, Recorded) = SumFunctionOnSet(f, Recorded)
  BY <1>3, <1>5, SumSame
<1>7. SumFunctionOnSet(f, Recorded) = SumFunctionOnSet(f, Numbers)
  BY <1>1, <1>2, Finite, SumOfSome
<1>8. SumFunction(g) = AddedSum(i)
  BY <1>4, <1>6, <1>7
<1> QED BY <1>8 DEF g

\* Up to today everything has been bought that will have been bought.
LEMMA QuickToToday ==
  ASSUME Books, NEW i \in Items
  PROVE  Sums(quick[i], 0) = QuickSum(i)
<1> DEFINE f == quick[i]
           T == {d \in 0 .. today : f[d] \notin {None, 0}}
<1>1. \A d \in Days : f[d] \in Int
  BY DEF Books, BooksTyped
<1>2. T \subseteq Days
  BY BoardAssumption DEF Books, BooksTyped, Days
<1>3. \A d \in Days \ T : f[d] = 0
  <2> SUFFICES ASSUME NEW d \in Days, d \notin T PROVE f[d] = 0
    OBVIOUS
  <2>1. CASE d > today
    BY <2>1 DEF Books, NotAhead
  <2>2. CASE ~(d > today)
    <3>1. d \in 0 .. today
      BY <2>2, BoardAssumption DEF Books, BooksTyped, Days
    <3> QED BY <1>1, <3>1, NoneAssumption
  <2> QED BY <2>1, <2>2
<1>4. Sums(f, 0) = SumFunctionOnSet(f, T) /\ QuickSum(i) = SumFunctionOnSet(f, Days)
  BY DEF Sums, QuickSum
<1> HIDE DEF f, T
<1>5. SumFunctionOnSet(f, T) = SumFunctionOnSet(f, Days)
  BY <1>1, <1>2, <1>3, Finite, SumOfSome
<1>6. Sums(f, 0) = QuickSum(i)
  BY <1>4, <1>5
<1> QED BY <1>6 DEF f

LEMMA UsedInt ==
  ASSUME Books, NEW i \in Items
  PROVE  Sums(used[i], 0) \in Int
<1> DEFINE f == used[i]
           T == {d \in 0 .. today : f[d] \notin {None, 0}}
<1>1. T \subseteq Days
  BY BoardAssumption DEF Books, BooksTyped, Days
<1>2. \A d \in T : f[d] \in Int
  BY <1>1 DEF Books, BooksTyped
<1>3. Sums(f, 0) = SumFunctionOnSet(f, T)
  BY DEF Sums
<1> HIDE DEF f, T
<1>4. IsFiniteSet(T)
  BY <1>1, Finite, FS_Subset
<1>5. Sums(f, 0) \in Int
  BY <1>2, <1>3, <1>4, SumInt
<1> QED BY <1>5 DEF f

\* The variance column of an item, whenever it shows a number, is what
\* receipts have added beyond the purchases counted as received, and the usage
\* logged: for any items, units, orders, counts and requests, whatever was
\* corrected, set up or bought by hand (_ledger_variance_map in stock_list.py).
THEOREM VarianceExplained == Spec => []VarianceTrue
<1>1. ASSUME BoardInv, Books
      PROVE  VarianceTrue
  <2> SUFFICES ASSUME NEW i \in Items, Variance(i) # None
               PROVE  Variance(i) =
                        SumFunction([n \in Recorded |-> IF po[n].item = i THEN po[n].added ELSE 0])
                        - (Purchased(i, 0) - Sums(quick[i], 0)) + Sums(used[i], 0)
    BY DEF VarianceTrue
  <2>1. BoardTyped /\ BooksTyped
    BY <1>1 DEF BoardInv, Books
  <2>2. PICK received : received = Ordered({n \in Of(i) : po[n].day >= 0 /\ po[n].delivery \in Received})
    OBVIOUS
  <2>3. received \in Int
    <3> DEFINE T == {n \in Of(i) : po[n].day >= 0 /\ po[n].delivery \in Received}
    <3>1. T \subseteq Recorded
      BY DEF Of, Live
    <3> HIDE DEF T
    <3>2. Ordered(T) \in Int
      BY <2>1, <3>1, OrderedInt
    <3> QED BY <2>2, <3>2 DEF T
  <2>4. Purchased(i, 0) = received + QuickSum(i) /\ Sums(quick[i], 0) = QuickSum(i)
    BY <1>1, <2>2, QuickToToday DEF Purchased
  <2>5. Variance(i) = stock[i] - (Purchased(i, 0) - Sums(used[i], 0) + adj[i].hand)
    BY DEF Variance
  <2>6. stock[i] = adj[i].hand + AddedSum(i) + QuickSum(i)
    BY <1>1 DEF Books, Explained
  <2>7. /\ adj[i].hand \in Int /\ AddedSum(i) \in Int /\ QuickSum(i) \in Int
        /\ Sums(used[i], 0) \in Int
    BY <1>1, <2>1, AddedInt, QuickInt, UsedInt DEF BooksTyped, Sheets
  <2>8. SumFunction([n \in Recorded |-> IF po[n].item = i THEN po[n].added ELSE 0]) = AddedSum(i)
    BY <2>1, RecordedSum
  <2> QED BY <2>3, <2>4, <2>5, <2>6, <2>7, <2>8
<1> QED BY <1>1, BooksInvariant, PTL

-----------------------------------------------------------------------------
(***************************************************************************)
(* The screens agree: levels, counters and groups.                         *)
(***************************************************************************)
\* The counted differences are integers.
LEMMA CountsTyped == Spec => [](count \in [Items -> Int \cup {None}])
<1> DEFINE Typed == count \in [Items -> Int \cup {None}]
<1>1. Init => Typed
  BY DEF Init
<1>2. Typed /\ BoardInv /\ Books /\ [Next]_vars => Typed'
  <2> SUFFICES ASSUME Typed, BoardInv, Books, [Next]_vars PROVE Typed'
    OBVIOUS
  <2>1. ASSUME NEW n \in Numbers, Purchase(n)
        PROVE  count' = count
    BY <2>1 DEF Purchase, Record, Rewrite, Arrive, Verify, Commit, Revert, Close, counted
  <2>2. ASSUME NEW i \in Handled, Desk(i)
        PROVE  Typed'
    <3>1. i \in Items /\ Counts \subseteq Int /\ stock[i] \in Int
      BY BoardAssumption DEF Books, BooksTyped
    <3>2. count' = count \/ \E q \in Counts : count' = [count EXCEPT ![i] = q - stock[i]]
      BY <2>2 DEF Desk, SetUp, QuickPurchase, Use, Count, Recount, SetOpening, counted
    <3>3. CASE count' = count
      BY <3>3
    <3>4. ASSUME NEW q \in Counts, count' = [count EXCEPT ![i] = q - stock[i]]
          PROVE  Typed'
      <4>1. q - stock[i] \in Int
        BY <3>1
      <4> QED BY <3>1, <3>4, <4>1
    <3> QED BY <3>2, <3>3, <3>4
  <2>3. CASE Scan \/ (\E g \in Gaps : NextDay(g)) \/ UNCHANGED vars
    BY <2>3 DEF Scan, NextDay, vars, counted
  <2>4. ASSUME NEW n \in Managed, Manager(n)
        PROVE  count' = count
    BY <2>4 DEF Manager, Pay, Transition, counted
  <2> QED BY <2>1, <2>2, <2>3, <2>4 DEF Next
<1> QED BY <1>1, <1>2, BooksInvariant, PTL DEF Spec

\* An item is out, critical, low or healthy, by its stock and its reorder level.
IsOut(i) == stock[i] <= 0
IsCritical(i) == stock[i] > 0 /\ Reorder[i] > 0 /\ 2 * stock[i] <= Reorder[i]
IsLow(i) ==
  /\ stock[i] > 0
  /\ \/ Reorder[i] > 0 /\ 2 * stock[i] > Reorder[i] /\ stock[i] <= Reorder[i]
     \/ Reorder[i] = 0 /\ stock[i] < 1000

\* The row's status and the filters of the list draw the same lines.
LEMMA Levels ==
  ASSUME BooksTyped, NEW i \in Items
  PROVE  /\ Status(i) = "out" <=> IsOut(i)
         /\ Status(i) = "critical" <=> IsCritical(i)
         /\ Status(i) = "low" <=> IsLow(i)
         /\ Shown("all", i)
         /\ Shown("out", i) <=> IsOut(i)
         /\ Shown("critical", i) <=> IsCritical(i)
         /\ Shown("low", i) <=> IsLow(i)
         /\ ~(IsOut(i) /\ IsCritical(i)) /\ ~(IsOut(i) /\ IsLow(i)) /\ ~(IsCritical(i) /\ IsLow(i))
<1>1. stock[i] \in Int /\ Reorder[i] \in Nat
  BY BoardAssumption DEF BooksTyped
<1>2. PICK s \in Int, r \in Nat : s = stock[i] /\ r = Reorder[i]
  BY <1>1
<1>3. /\ Shown("all", i)
      /\ Shown("out", i) <=> IsOut(i)
      /\ Shown("critical", i) <=> IsCritical(i)
      /\ Shown("low", i) <=> IsLow(i)
  BY <1>2 DEF Shown, IsOut, IsCritical, IsLow
<1>4. ~(IsOut(i) /\ IsCritical(i)) /\ ~(IsOut(i) /\ IsLow(i)) /\ ~(IsCritical(i) /\ IsLow(i))
  BY <1>2 DEF IsOut, IsCritical, IsLow
<1> DEFINE O == stock[i] <= 0
           C == stock[i] > 0 /\ Reorder[i] > 0 /\ 2 * stock[i] <= Reorder[i]
           L == \/ Reorder[i] > 0 /\ 2 * stock[i] > Reorder[i] /\ stock[i] <= Reorder[i]
                \/ Reorder[i] = 0 /\ 0 < stock[i] /\ stock[i] < 1000
<1>5. Status(i) = CASE O -> "out" [] C -> "critical" [] L -> "low" [] OTHER -> "healthy"
  BY DEF Status
<1>6. ~(O /\ C) /\ (L /\ ~O => ~C /\ IsLow(i)) /\ (IsLow(i) => L /\ ~O) /\ (O <=> IsOut(i)) /\ (C <=> IsCritical(i))
  BY <1>2 DEF IsOut, IsCritical, IsLow
<1>7. O => ~L
  BY <1>2
<1> HIDE DEF O, C, L
<1>8. CASE O
  <2>1. Status(i) = "out"
    BY <1>5, <1>6, <1>7, <1>8
  <2> QED BY <1>3, <1>4, <1>6, <1>8, <2>1
<1>9. CASE C
  <2>1. Status(i) = "critical"
    BY <1>5, <1>6, <1>7, <1>9
  <2> QED BY <1>3, <1>4, <1>6, <1>9, <2>1
<1>10. CASE L
  <2>1. Status(i) = "low"
    BY <1>5, <1>6, <1>7, <1>10
  <2> QED BY <1>3, <1>4, <1>6, <1>7, <1>10, <2>1
<1>11. CASE ~O /\ ~C /\ ~L
  <2>1. Status(i) = "healthy"
    BY <1>5, <1>11
  <2> QED BY <1>3, <1>4, <1>6, <1>11, <2>1
<1> QED BY <1>8, <1>9, <1>10, <1>11

\* Finite sets without a common element count together.
LEMMA TwoParts ==
  ASSUME NEW A, IsFiniteSet(A), NEW B, IsFiniteSet(B), A \cap B = {}
  PROVE  /\ IsFiniteSet(A \cup B) /\ Cardinality(A \cup B) = Cardinality(A) + Cardinality(B)
         /\ Cardinality(A) \in Nat /\ Cardinality(B) \in Nat
<1>1. /\ IsFiniteSet(A \cup B)
      /\ Cardinality(A \cup B) = Cardinality(A) + Cardinality(B) - Cardinality(A \cap B)
  BY FS_Union
<1>2. Cardinality(A \cap B) = 0 /\ Cardinality(A) \in Nat /\ Cardinality(B) \in Nat
  BY FS_EmptySet, FS_CardinalityType
<1> QED BY <1>1, <1>2

\* A set of items is finite.
LEMMA ItemsFinite ==
  ASSUME NEW S, S \subseteq Items
  PROVE  IsFiniteSet(S) /\ Cardinality(S) \in Nat /\ Cardinality(S) <= Cardinality(Items)
<1>1. IsFiniteSet(Items) /\ S \in SUBSET Items
  BY BoardAssumption
<1> QED BY <1>1, FS_Subset, FS_CardinalityType

\* The counters above the list count its rows, and the board's header all of them.
LEMMA LevelsCounted ==
  ASSUME BooksTyped
  PROVE  /\ \A f \in {"out", "critical", "low"} :
              LET S == {i \in Items : Status(i) = f}
              IN  S = {i \in Items : Shown(f, i)} /\ Chips[f] = Cardinality(S)
         /\ Cardinality(Shortages) = Chips.out + Chips.critical + Chips.low
         /\ \A i \in Items : i \in Shortages <=> IsOut(i) \/ IsCritical(i) \/ IsLow(i)
<1> DEFINE out == {i \in Items : IsOut(i)}
           critical == {i \in Items : IsCritical(i)}
           low == {i \in Items : IsLow(i)}
<1>1. Chips.out = Cardinality(out) /\ Chips.critical = Cardinality(critical) /\ Chips.low = Cardinality(low)
  <2>1. \A i \in Items : stock[i] \in Int /\ Reorder[i] \in Nat
    BY BoardAssumption DEF BooksTyped
  <2>2. out = {i \in Items : stock[i] <= 0}
    BY DEF IsOut
  <2>3. critical = {i \in Items : stock[i] > 0 /\ Reorder[i] > 0 /\ 2 * stock[i] <= Reorder[i]}
    BY DEF IsCritical
  <2>4. low = {i \in Items :
                 \/ stock[i] > 0 /\ Reorder[i] > 0 /\ stock[i] <= Reorder[i] /\ 2 * stock[i] > Reorder[i]
                 \/ stock[i] > 0 /\ Reorder[i] <= 0 /\ stock[i] < 1000}
    BY <2>1 DEF IsLow
  <2> HIDE DEF out, critical, low
  <2>5. Chips.out = Cardinality(out)
    BY <2>2 DEF Chips
  <2>6. Chips.critical = Cardinality(critical)
    BY <2>3 DEF Chips
  <2>7. Chips.low = Cardinality(low)
    BY <2>4 DEF Chips
  <2> QED BY <2>5, <2>6, <2>7
<1>2. /\ {i \in Items : Status(i) = "out"} = out /\ {i \in Items : Shown("out", i)} = out
      /\ {i \in Items : Status(i) = "critical"} = critical /\ {i \in Items : Shown("critical", i)} = critical
      /\ {i \in Items : Status(i) = "low"} = low /\ {i \in Items : Shown("low", i)} = low
  BY Levels
<1>3. Shortages = (out \cup critical) \cup low
  BY Levels DEF Shortages
<1>4. out \cap critical = {} /\ (out \cup critical) \cap low = {}
  BY Levels
<1>5. IsFiniteSet(out) /\ IsFiniteSet(critical) /\ IsFiniteSet(low)
  BY ItemsFinite
<1>6. \A i \in Items : i \in Shortages <=> IsOut(i) \/ IsCritical(i) \/ IsLow(i)
  BY <1>3
<1> HIDE DEF out, critical, low
<1>7. IsFiniteSet(out \cup critical) /\ Cardinality(out \cup critical) = Cardinality(out) + Cardinality(critical)
  BY <1>4, <1>5, TwoParts
<1>8. Cardinality(Shortages) = Cardinality(out) + Cardinality(critical) + Cardinality(low)
  BY <1>3, <1>4, <1>5, <1>7, TwoParts
<1>9. ASSUME NEW f \in {"out", "critical", "low"}
      PROVE  LET S == {i \in Items : Status(i) = f}
             IN  S = {i \in Items : Shown(f, i)} /\ Chips[f] = Cardinality(S)
  <2>1. CASE f = "out"
    BY <1>1, <1>2, <2>1
  <2>2. CASE f = "critical"
    BY <1>1, <1>2, <2>2
  <2>3. CASE f = "low"
    BY <1>1, <1>2, <2>3
  <2> QED BY <2>1, <2>2, <2>3
<1> QED BY <1>1, <1>6, <1>8, <1>9

\* The opening setup divides the rows of every filter.
LEMMA SetupDivides ==
  ASSUME BooksTyped
  PROVE  /\ \A f \in {"all", "out", "critical", "low"} :
              SetupRows("pending", f) \cup SetupRows("completed", f) = {i \in Items : Shown(f, i)}
         /\ \A kind \in {"pending", "completed"} :
              OpeningSetup[kind] = Cardinality(SetupRows(kind, "all"))
<1>1. ASSUME NEW f \in {"all", "out", "critical", "low"}
      PROVE  SetupRows("pending", f) \cup SetupRows("completed", f) = {i \in Items : Shown(f, i)}
  <2>1. \A i \in Items : (f = "all" \/ Status(i) = f) <=> Shown(f, i)
    <3>1. CASE f = "all"
      BY <3>1, Levels
    <3>2. CASE f = "out"
      BY <3>2, Levels
    <3>3. CASE f = "critical"
      BY <3>3, Levels
    <3>4. CASE f = "low"
      BY <3>4, Levels
    <3> QED BY <3>1, <3>2, <3>3, <3>4
  <2>2. /\ SetupRows("pending", f) = {i \in Items : opening[i] = None /\ Shown(f, i)}
        /\ SetupRows("completed", f) = {i \in Items : opening[i] # None /\ Shown(f, i)}
    BY <2>1 DEF SetupRows
  <2> QED BY <2>2
<1>2. /\ SetupRows("pending", "all") = {i \in Items : opening[i] = None}
      /\ SetupRows("completed", "all") = {i \in Items : opening[i] # None}
  BY DEF SetupRows
<1>3. /\ OpeningSetup["pending"] = Cardinality(SetupRows("pending", "all"))
      /\ OpeningSetup["completed"] = Cardinality(SetupRows("completed", "all"))
  BY <1>2 DEF OpeningSetup
<1>4. ASSUME NEW kind \in {"pending", "completed"}
      PROVE  OpeningSetup[kind] = Cardinality(SetupRows(kind, "all"))
  BY <1>3
<1> QED BY <1>1, <1>4

\* A max of two integers.
LEMMA MaxOfTwo ==
  ASSUME NEW a \in Int, NEW b \in Int
  PROVE  /\ Max({a, b}) = IF a >= b THEN a ELSE b
         /\ Min({a, b}) = IF a <= b THEN a ELSE b
<1>1. PICK m \in Int : m = IF a >= b THEN a ELSE b
  OBVIOUS
<1>2. m \in {a, b} /\ \A y \in {a, b} : m >= y
  BY <1>1
<1>3. Max({a, b}) \in {a, b} /\ \A y \in {a, b} : Max({a, b}) >= y
  BY <1>2 DEF Max
<1>4. PICK k \in Int : k = IF a <= b THEN a ELSE b
  OBVIOUS
<1>5. k \in {a, b} /\ \A y \in {a, b} : k <= y
  BY <1>4
<1>6. Min({a, b}) \in {a, b} /\ \A y \in {a, b} : Min({a, b}) <= y
  BY <1>5 DEF Min
<1> QED BY <1>1, <1>2, <1>3, <1>4, <1>5, <1>6

\* The summary of the usage forms misses no more items than the forms, and these
\* no more than the home page says.
LEMMA MissingOrdered ==
  SummaryMissing <= Cardinality(UsageMissing) /\ Cardinality(UsageMissing) <= WarehouseAlerts.unlogged
<1> DEFINE there == {i \in Items : stock[i] > 0}
           logged == {i \in Items : used[i][today] # None}
           unlogged == {i \in Items : used[i][today] = None}
<1>1. UsageMissing = there \cap unlogged /\ there \subseteq UsageMissing \cup logged /\ UsageMissing \subseteq unlogged
  BY DEF UsageMissing
<1>2. WarehouseAlerts.unlogged = Cardinality(unlogged)
  BY DEF WarehouseAlerts, Chips
<1>3. SummaryMissing = Max({0, Cardinality(there) - Cardinality(logged)})
  BY DEF SummaryMissing
<1>4. there \subseteq Items /\ logged \subseteq Items /\ unlogged \subseteq Items /\ UsageMissing \subseteq Items
      /\ UsageMissing \cup logged \subseteq Items /\ UsageMissing \cap logged = {}
  BY DEF UsageMissing
<1> HIDE DEF there, logged, unlogged
<1>5. /\ IsFiniteSet(unlogged) /\ IsFiniteSet(logged) /\ IsFiniteSet(UsageMissing)
      /\ Cardinality(there) \in Nat /\ Cardinality(logged) \in Nat /\ Cardinality(UsageMissing) \in Nat
      /\ Cardinality(unlogged) \in Nat
  BY <1>4, ItemsFinite
<1>6. Cardinality(UsageMissing) <= Cardinality(unlogged)
  BY <1>1, <1>5, FS_Subset
<1>7. IsFiniteSet(UsageMissing \cup logged)
      /\ Cardinality(UsageMissing \cup logged) = Cardinality(UsageMissing) + Cardinality(logged)
  BY <1>4, <1>5, TwoParts
<1>8. Cardinality(there) <= Cardinality(UsageMissing) + Cardinality(logged)
  BY <1>1, <1>7, FS_Subset
<1>9. Cardinality(there) - Cardinality(logged) \in Int /\ 0 \in Int
  BY <1>5
<1>10. SummaryMissing <= Cardinality(UsageMissing)
  BY <1>3, <1>5, <1>8, <1>9, MaxOfTwo
<1> QED BY <1>2, <1>6, <1>10

\* A truck is pending while a delivery is.
LEMMA TrucksCounted ==
  ASSUME BoardInv, \A n \in Live : ~po[n].reopened
  PROVE  WarehouseAlerts.deliveries = 0 <=> TruckCounts("all").pending = 0
<1> DEFINE late == {n \in Live : ~po[n].delivered}
           trucks == {i \in Items : Truck(i) = "pending"}
<1>1. /\ \A n \in Live : n \in Numbers /\ po[n] \in Purchases /\ po[n].item \in Items /\ po[n].delivered \in BOOLEAN
      /\ None \notin BOOLEAN
  BY NoneAssumption DEF BoardInv, BoardTyped, Live, Recorded, Purchases
<1>2. \A n \in Live : po[n].delivered <=> po[n].delivery = "stock_committed"
  BY DEF BoardInv, FlagsAgree, InStep, Live
<1>3. \A n \in Live : po[n].delivery # "cancelled"
  BY DEF BoardInv, FlagsAgree, Live
<1>4. \A n \in late : po[n].item \in trucks
  <2> SUFFICES ASSUME NEW n \in late PROVE po[n].item \in trucks
    OBVIOUS
  <2>1. n \in Open(po[n].item) /\ po[n].item \in Items
    BY <1>1, <1>2, <1>3 DEF Open, Of
  <2>2. Truck(po[n].item) = "pending"
    BY <2>1 DEF Truck
  <2> QED BY <2>1, <2>2
<1>5. \A i \in trucks : late # {}
  <2> SUFFICES ASSUME NEW i \in trucks PROVE late # {}
    OBVIOUS
  <2>1. CASE Open(i) # {}
    <3>1. PICK n \in Live : po[n].delivery \notin {"stock_committed", "cancelled"}
      BY <2>1 DEF Open, Of
    <3> QED BY <1>2, <3>1
  <2>2. CASE Open(i) = {}
    <3>1. LastDelivered(i) = FALSE
      BY <2>2 DEF Truck
    <3>2. last[i].po \in Live /\ po[last[i].po].delivery # "stock_committed"
      BY <1>1, <3>1 DEF LastDelivered
    <3> QED BY <1>2, <3>2
  <2> QED BY <2>1, <2>2
<1>6. WarehouseAlerts.deliveries = Cardinality(late)
  BY DEF WarehouseAlerts
<1>7. TruckCounts("all").pending = Cardinality(trucks)
  <2>1. trucks = {i \in Items : Shown("all", i) /\ Truck(i) = "pending"}
    BY DEF Shown
  <2> HIDE DEF trucks
  <2> QED BY <2>1 DEF TruckCounts
<1>8. IsFiniteSet(late) /\ IsFiniteSet(trucks)
  <2>1. late \subseteq Numbers
    BY <1>1
  <2>2. trucks \subseteq Items
    OBVIOUS
  <2> QED BY <2>1, <2>2, Finite, FS_Subset, ItemsFinite
<1>9. late = {} <=> trucks = {}
  BY <1>4, <1>5
<1> HIDE DEF late, trucks
<1> QED BY <1>6, <1>7, <1>8, <1>9, FS_EmptySet

\* Stock on hand by stock unit and by default unit, while no item has been edited.
LEMMA TotalsAgree ==
  ASSUME BooksTyped, \A i \in Items : setup[i].unit = setup[i].column, NEW u \in {"bag", "box", "tin"}
  PROVE  Inventory[u] = Totals[u]
<1>1. PICK S : S = {i \in Items : setup[i].unit = u}
  OBVIOUS
<1>2. PICK T : T = {i \in S : stock[i] > 0}
  OBVIOUS
<1>3. T \subseteq Items /\ \A i \in T : stock[i] \in Int
  BY <1>1, <1>2 DEF BooksTyped
<1>4. StockOf(S) = SumFunctionOnSet(stock, T) /\ StockOf(S) \in Int
  BY <1>2, <1>3, ItemsFinite, SumInt DEF StockOf
<1>5. S = {i \in Items : \/ setup[i].column = u
                         \/ (u = "kg" /\ setup[i].column \notin {"bag", "box", "tin"})}
  BY <1>1
<1>6. Inventory[u] = StockOf(S)
  BY <1>5 DEF Inventory
<1>7. Totals[u] = StockOf(S) + 0
  BY <1>1 DEF Totals
<1> QED BY <1>4, <1>6, <1>7

\* A sum of naturals is one.
LEMMA SumNat ==
  ASSUME NEW f, NEW S, IsFiniteSet(S), \A x \in S : f[x] \in Nat
  PROVE  SumFunctionOnSet(f, S) \in Nat
<1> DEFINE Bad == {u \in FiniteSubsetsOf(S) : SumFunctionOnSet(f, u) \notin Nat}
<1>1. Bad = {}
  <2> SUFFICES ASSUME Bad # {} PROVE FALSE
    OBVIOUS
  <2>1. Bad \subseteq FiniteSubsetsOf(S)
    OBVIOUS
  <2>2. PICK u \in Bad : /\ u \subseteq S /\ IsFiniteSet(u)
                         /\ \A v \in SUBSET u : v # u => v \notin Bad /\ v \in FiniteSubsetsOf(S)
    <3> HIDE DEF Bad
    <3> QED BY <2>1, Smallest
  <2>3. u # {}
    <3>1. SumFunctionOnSet(f, u) \notin Nat
      BY <2>2
    <3>2. u = {} => SumFunctionOnSet(f, u) = 0
      BY <2>2, SumUnfolds
    <3> QED BY <3>1, <3>2
  <2>4. PICK p : p = Picked(u)
    OBVIOUS
  <2>5. p \in u /\ u \ {p} \in SUBSET u /\ u \ {p} # u
    BY <2>3, <2>4, PickedIn
  <2>6. SumFunctionOnSet(f, u \ {p}) \in Nat
    BY <2>2, <2>5
  <2>7. SumFunctionOnSet(f, u) = f[p] + SumFunctionOnSet(f, u \ {p})
    BY <2>2, <2>3, <2>4, SumUnfolds
  <2>8. f[p] \in Nat
    BY <2>2, <2>5
  <2> QED BY <2>6, <2>7, <2>8
<1>2. S \in FiniteSubsetsOf(S)
  BY DEF FiniteSubsetsOf
<1> QED BY <1>1, <1>2

\* What was used lately is a quantity.
LEMMA UsedLatelyNat ==
  ASSUME Books, NEW i \in Items
  PROVE  UsedLately(i) \in Nat
<1>1. today \in Int /\ Ages.week \in Int /\ today \in Days
  BY BoardAssumption DEF Books, BooksTyped, Days
<1>2. PICK from \in Nat : from = Max({0, today - Ages.week})
  BY <1>1, MaxOfTwo
<1>3. PICK f : f = used[i]
  OBVIOUS
<1>4. PICK T : T = {d \in from .. today : f[d] \notin {None, 0}}
  OBVIOUS
<1>5. T \subseteq Days
  BY <1>1, <1>2, <1>4, BoardAssumption DEF Days
<1>6. \A d \in T : f[d] \in Nat
  BY <1>3, <1>4, <1>5 DEF Books, BooksTyped
<1>7. SumFunctionOnSet(f, T) \in Nat
  BY <1>5, <1>6, Finite, FS_Subset, SumNat
<1> QED BY <1>2, <1>3, <1>4, <1>7 DEF UsedLately, Sums

\* An item is idle for some days, and for none if it was used lately.
LEMMA IdleDays ==
  ASSUME BoardInv, Books, NEW i \in Items
  PROVE  Idle(i) \in Int /\ (UsedLately(i) > 0 => Idle(i) = 0)
<1>1. UsedLately(i) \in Nat /\ today \in Int
  BY UsedLatelyNat DEF Books, BooksTyped, Days
<1>2. PICK moved : moved = {adj[i].at, last[i].at} \ {None}
  OBVIOUS
<1>3. moved \subseteq Int
  BY <1>2 DEF BoardInv, BoardTyped, Books, BooksTyped, Sheets
<1>4. IsFiniteSet(moved)
  <2>1. IsFiniteSet({adj[i].at, last[i].at})
    <3>1. IsFiniteSet({adj[i].at}) /\ {adj[i].at, last[i].at} = {adj[i].at} \cup {last[i].at}
      BY FS_Singleton
    <3> QED BY <3>1, FS_AddElement
  <2>2. moved \in SUBSET {adj[i].at, last[i].at}
    BY <1>2
  <2> QED BY <2>1, <2>2, FS_Subset
<1>5. moved # {} => Max(moved) \in Int
  BY <1>3, <1>4, FiniteHasMax
<1>6. Idle(i) = IF UsedLately(i) > 0 THEN 0 ELSE IF moved = {} THEN 999 ELSE today - Max(moved)
  BY <1>2 DEF Idle
<1> QED BY <1>1, <1>5, <1>6

\* How an item in stock moves, and what its age is then.
LEMMA MovementIs ==
  ASSUME BoardInv, Books, NEW i \in Items
  PROVE  /\ stock[i] > 0 <=> Movement(i) \in {"active", "slow", "very_slow", "dead", "fast"}
         /\ Dead(i) => Movement(i) = "dead"
         /\ Movement(i) \in {"active", "fast"} => Aging(i) = "healthy"
<1>1. stock[i] \in Int /\ UsedLately(i) \in Nat /\ Idle(i) \in Int /\ (UsedLately(i) > 0 => Idle(i) = 0)
  BY IdleDays, UsedLatelyNat DEF Books, BooksTyped
<1>2. /\ Ages.week \in Nat /\ Ages.month \in Nat /\ Ages.months \in Nat
      /\ 0 < Ages.week /\ Ages.week <= Ages.month /\ Ages.month <= Ages.months
  BY BoardAssumption
<1> DEFINE days == Idle(i)
           G1 == stock[i] <= 0
           G2 == stock[i] > 0 /\ (Dead(i) \/ days >= Ages.months)
           G3 == stock[i] > 0 /\ ~ Dead(i) /\ UsedLately(i) > 0
           G4 == stock[i] > 0 /\ ~ Dead(i) /\ UsedLately(i) = 0 /\ days < Ages.months
           Slow == IF days >= Ages.month THEN "very_slow" ELSE IF days >= Ages.week THEN "slow" ELSE "active"
<1>3. Movement(i) = CASE G1 -> "out_of_stock" [] G2 -> "dead" [] G3 -> "fast" [] G4 -> Slow
  BY DEF Movement
<1>4. /\ G1 \/ G2 \/ G3 \/ G4
      /\ ~(G1 /\ G2) /\ ~(G1 /\ G3) /\ ~(G1 /\ G4) /\ ~(G2 /\ G3) /\ ~(G2 /\ G4) /\ ~(G3 /\ G4)
      /\ G1 <=> ~(stock[i] > 0)
  BY <1>1, <1>2
<1>5. Dead(i) => G2
  BY DEF Dead
<1>6. Slow \in {"active", "slow", "very_slow"} /\ (Slow = "active" => days < Ages.week)
  BY <1>1, <1>2
<1>7. stock[i] > 0 /\ days < Ages.week => Aging(i) = "healthy"
  <2> SUFFICES ASSUME stock[i] > 0, days < Ages.week PROVE Aging(i) = "healthy"
    OBVIOUS
  <2>1. ~(stock[i] <= 0) /\ ~(days >= Ages.months) /\ ~(Ages.month <= days) /\ ~(Ages.week <= days)
    BY <1>1, <1>2
  <2> HIDE DEF G1, G2, G3, G4, Slow
  <2> QED BY <2>1 DEF Aging
<1>8. G3 => days < Ages.week
  BY <1>1, <1>2
<1> HIDE DEF days, G1, G2, G3, G4, Slow
<1>9. CASE G1
  <2>1. Movement(i) = "out_of_stock"
    BY <1>3, <1>4, <1>9
  <2> QED BY <1>4, <1>5, <1>9, <2>1
<1>10. CASE G2
  <2>1. Movement(i) = "dead"
    BY <1>3, <1>4, <1>10
  <2> QED BY <1>4, <1>5, <1>10, <2>1
<1>11. CASE G3
  <2>1. Movement(i) = "fast"
    BY <1>3, <1>4, <1>11
  <2> QED BY <1>4, <1>5, <1>7, <1>8, <1>11, <2>1
<1>12. CASE G4
  <2>1. Movement(i) = Slow
    BY <1>3, <1>4, <1>12
  <2> QED BY <1>4, <1>5, <1>6, <1>7, <1>12, <2>1
<1> QED BY <1>4, <1>9, <1>10, <1>11, <1>12

\* The groups of the movement report add up.
LEMMA MovementFollows ==
  ASSUME BoardInv, Books
  PROVE  MovementGroups
<1> DEFINE Kind(kinds) == {i \in Items : Movement(i) \in kinds}
<1>1. PICK active, slow, dead, fast : /\ active = Kind({"active"}) /\ slow = Kind({"slow", "very_slow"})
                                     /\ dead = Kind({"dead"}) /\ fast = Kind({"fast"})
  OBVIOUS
<1>2. PICK all, deadRows : all = {i \in Items : stock[i] > 0} /\ deadRows = {i \in Items : Dead(i)}
  OBVIOUS
<1>3. all = ((active \cup slow) \cup dead) \cup fast
  BY <1>1, <1>2, MovementIs
<1>4. active \cap slow = {} /\ (active \cup slow) \cap dead = {} /\ ((active \cup slow) \cup dead) \cap fast = {}
  BY <1>1
<1>5. deadRows \subseteq dead
  BY <1>1, <1>2, MovementIs
<1>6. IsFiniteSet(active) /\ IsFiniteSet(slow) /\ IsFiniteSet(dead) /\ IsFiniteSet(fast)
  <2>1. active \subseteq Items /\ slow \subseteq Items /\ dead \subseteq Items /\ fast \subseteq Items
    BY <1>1
  <2> QED BY <2>1, ItemsFinite
<1>7. IsFiniteSet(active \cup slow) /\ Cardinality(active \cup slow) = Cardinality(active) + Cardinality(slow)
  BY <1>4, <1>6, TwoParts
<1>8. /\ IsFiniteSet((active \cup slow) \cup dead)
      /\ Cardinality((active \cup slow) \cup dead) = Cardinality(active \cup slow) + Cardinality(dead)
  BY <1>4, <1>6, <1>7, TwoParts
<1>9. Cardinality(all) = Cardinality((active \cup slow) \cup dead) + Cardinality(fast)
  BY <1>3, <1>4, <1>6, <1>8, TwoParts
<1>10. Cardinality(deadRows) <= Cardinality(dead)
  BY <1>5, <1>6, FS_Subset
<1>11. /\ MovementSummary.all = Cardinality(all) /\ MovementSummary.deadRows = Cardinality(deadRows)
       /\ MovementSummary.active = Cardinality(active) /\ MovementSummary.slow = Cardinality(slow)
       /\ MovementSummary.dead = Cardinality(dead) /\ MovementSummary.fast = Cardinality(fast)
  BY <1>1, <1>2 DEF MovementSummary
<1>12. MovementSummary.all = MovementSummary.active + MovementSummary.slow + MovementSummary.dead + MovementSummary.fast
       /\ MovementSummary.deadRows <= MovementSummary.dead
  BY <1>7, <1>8, <1>9, <1>10, <1>11
<1>13. \A i \in Items : Movement(i) \in {"active", "fast"} => Aging(i) = "healthy"
  BY MovementIs
<1> QED BY <1>12, <1>13 DEF MovementGroups

-----------------------------------------------------------------------------
(***************************************************************************)
(* Pages.  A finite set has exactly one sequence in a strict order: the    *)
(* place of an element is the number of elements before it, plus one.      *)
(***************************************************************************)
\* R is a strict total order of S.
StrictOrder(S, R) ==
  /\ \A x \in S : <<x, x>> \notin R
  /\ \A x, y \in S : x # y => <<x, y>> \in R \/ <<y, x>> \in R
  /\ \A x, y, z \in S : <<x, y>> \in R /\ <<y, z>> \in R => <<x, z>> \in R

InOrder(S, R) == {q \in SetToSeqs(S) : \A j, k \in DOMAIN q : j < k => <<q[k], q[j]>> \notin R}

Before(S, R, x) == {y \in S : <<y, x>> \in R}
Rank(S, R, x) == Cardinality(Before(S, R, x)) + 1

LEMMA RanksDiffer ==
  ASSUME NEW S, IsFiniteSet(S), NEW R, StrictOrder(S, R)
  PROVE  /\ \A x \in S : Rank(S, R, x) \in 1 .. Cardinality(S)
         /\ \A x, y \in S : <<x, y>> \in R => Rank(S, R, x) < Rank(S, R, y)
<1>1. \A x \in S : IsFiniteSet(Before(S, R, x)) /\ Cardinality(Before(S, R, x)) \in Nat
  <2> SUFFICES ASSUME NEW x \in S PROVE IsFiniteSet(Before(S, R, x)) /\ Cardinality(Before(S, R, x)) \in Nat
    OBVIOUS
  <2>1. Before(S, R, x) \in SUBSET S
    BY DEF Before
  <2> QED BY <2>1, FS_Subset, FS_CardinalityType
<1>2. ASSUME NEW x \in S
      PROVE  Rank(S, R, x) \in 1 .. Cardinality(S)
  <2>1. Before(S, R, x) \cup {x} \in SUBSET S /\ x \notin Before(S, R, x)
    BY DEF Before, StrictOrder
  <2>2. Cardinality(Before(S, R, x) \cup {x}) = Cardinality(Before(S, R, x)) + 1
    BY <1>1, <2>1, FS_AddElement
  <2>3. Cardinality(Before(S, R, x) \cup {x}) <= Cardinality(S) /\ Cardinality(S) \in Nat
    BY <2>1, FS_Subset, FS_CardinalityType
  <2> QED BY <1>1, <2>2, <2>3 DEF Rank
<1>3. ASSUME NEW x \in S, NEW y \in S, <<x, y>> \in R
      PROVE  Rank(S, R, x) < Rank(S, R, y)
  <2>1. Before(S, R, x) \in SUBSET Before(S, R, y) /\ x \in Before(S, R, y) /\ x \notin Before(S, R, x)
    BY <1>3 DEF Before, StrictOrder
  <2>2. /\ Cardinality(Before(S, R, x)) <= Cardinality(Before(S, R, y))
        /\ Cardinality(Before(S, R, y)) = Cardinality(Before(S, R, x)) => Before(S, R, y) = Before(S, R, x)
    BY <1>1, <2>1, FS_Subset
  <2>3. Cardinality(Before(S, R, x)) # Cardinality(Before(S, R, y))
    BY <2>1, <2>2
  <2> QED BY <1>1, <2>2, <2>3 DEF Rank
<1> QED BY <1>2, <1>3

\* Every rank is taken.
LEMMA RanksTaken ==
  ASSUME NEW S, IsFiniteSet(S), NEW R, StrictOrder(S, R), NEW k \in 1 .. Cardinality(S)
  PROVE  \E x \in S : Rank(S, R, x) = k
<1> DEFINE T == 1 .. Cardinality(S)
           f == [x \in S |-> Rank(S, R, x)]
<1>1. f \in Injection(S, T)
  <2>1. f \in [S -> T]
    BY RanksDiffer
  <2>2. ASSUME NEW x \in S, NEW y \in S, f[x] = f[y]
        PROVE  x = y
    <3>1. Rank(S, R, x) = Rank(S, R, y) /\ Rank(S, R, x) \in Int
      BY <2>2, RanksDiffer
    <3>2. <<x, y>> \notin R /\ <<y, x>> \notin R
      <4>1. <<x, y>> \in R => Rank(S, R, x) < Rank(S, R, y)
        BY RanksDiffer
      <4>2. <<y, x>> \in R => Rank(S, R, y) < Rank(S, R, x)
        BY RanksDiffer
      <4> QED BY <3>1, <4>1, <4>2
    <3> QED BY <3>2 DEF StrictOrder
  <2> QED BY <2>1, <2>2 DEF Injection, IsInjective
<1>2. Cardinality(S) \in Nat /\ IsFiniteSet(T) /\ Cardinality(T) = Cardinality(S)
  <2>1. Cardinality(S) \in Nat
    BY FS_CardinalityType
  <2>2. 1 \in Int /\ Cardinality(S) \in Int
    BY <2>1
  <2>3. IsFiniteSet(T) /\ Cardinality(T) = IF 1 > Cardinality(S) THEN 0 ELSE Cardinality(S) - 1 + 1
    BY <2>2, FS_Interval
  <2> QED BY <2>1, <2>3
<1>3. f \in Surjection(S, T)
  <2> HIDE DEF f, T
  <2> QED BY <1>1, <1>2, FS_Injection
<1>4. \E x \in S : f[x] = k
  BY <1>3 DEF Surjection
<1> QED BY <1>4

\* There is a sequence in order.
LEMMA OrderExists ==
  ASSUME NEW S, IsFiniteSet(S), NEW R, StrictOrder(S, R)
  PROVE  InOrder(S, R) # {}
<1> DEFINE D == 1 .. Cardinality(S)
           q == [k \in D |-> CHOOSE x \in S : Rank(S, R, x) = k]
<1>1. \A k \in D : q[k] \in S /\ Rank(S, R, q[k]) = k
  BY RanksTaken
<1>2. q \in [D -> S] /\ DOMAIN q = D
  BY <1>1
<1>3. D \subseteq Int
  OBVIOUS
<1> HIDE DEF q, D
<1>4. \A j, k \in D : j # k => q[j] # q[k]
  BY <1>1
<1>5. \A j, k \in D : j < k => <<q[k], q[j]>> \notin R
  <2> SUFFICES ASSUME NEW j \in D, NEW k \in D, j < k, <<q[k], q[j]>> \in R
               PROVE  FALSE
    OBVIOUS
  <2>1. Rank(S, R, q[k]) < Rank(S, R, q[j])
    BY <1>1, RanksDiffer
  <2> QED BY <1>1, <1>3, <2>1
<1>6. q \in SetToSeqs(S)
  BY <1>2, <1>4 DEF SetToSeqs, D
<1> QED BY <1>2, <1>5, <1>6 DEF InOrder

\* In such a sequence everybody is in the place his rank says.
LEMMA PlaceIsRank ==
  ASSUME NEW S, IsFiniteSet(S), NEW R, StrictOrder(S, R), NEW q \in InOrder(S, R)
  PROVE  /\ DOMAIN q = 1 .. Cardinality(S) /\ q \in [1 .. Cardinality(S) -> S]
         /\ \A k \in 1 .. Cardinality(S) : Rank(S, R, q[k]) = k
<1>1. Cardinality(S) \in Nat
  BY FS_CardinalityType
<1> DEFINE D == 1 .. Cardinality(S)
<1>2. q \in [D -> S] /\ DOMAIN q = D /\ (\A j, k \in D : j # k => q[j] # q[k])
      /\ \A j, k \in D : j < k => <<q[k], q[j]>> \notin R
  BY DEF InOrder, SetToSeqs
<1>3. D \subseteq Int
  OBVIOUS
<1> HIDE DEF D
<1>4. \A j, k \in D : j < k => <<q[j], q[k]>> \in R
  <2> SUFFICES ASSUME NEW j \in D, NEW k \in D, j < k
               PROVE  <<q[j], q[k]>> \in R
    OBVIOUS
  <2>1. j # k
    BY <1>3
  <2>2. q[j] \in S /\ q[k] \in S /\ q[j] # q[k] /\ <<q[k], q[j]>> \notin R
    BY <1>2, <2>1
  <2> QED BY <2>2 DEF StrictOrder
<1>5. \A j, k \in D : j < k => Rank(S, R, q[j]) < Rank(S, R, q[k])
  BY <1>2, <1>4, RanksDiffer
<1>6. ASSUME NEW k \in D
      PROVE  Rank(S, R, q[k]) = k
  <2> DEFINE before == Before(S, R, q[k])
             E == 1 .. (k - 1)
             g == [j \in E |-> q[j]]
  <2>1. E \subseteq D /\ \A j \in E : j < k /\ j \in Int
    BY <1>1, <1>3 DEF D
  <2>2. before \subseteq {q[j] : j \in D}
    <3>1. {q[j] : j \in D} \in SUBSET S /\ IsFiniteSet({q[j] : j \in D}) /\ Cardinality({q[j] : j \in D}) = Cardinality(S)
      <4> DEFINE T == {q[j] : j \in D}
      <4>1. q \in Injection(D, T) /\ q \in Surjection(D, T)
        BY <1>2 DEF Injection, IsInjective, Surjection
      <4>2. IsFiniteSet(D) /\ Cardinality(D) = Cardinality(S)
        <5>1. 1 \in Int /\ Cardinality(S) \in Int
          BY <1>1
        <5>2. IsFiniteSet(D) /\ Cardinality(D) = IF 1 > Cardinality(S) THEN 0 ELSE Cardinality(S) - 1 + 1
          BY <5>1, FS_Interval DEF D
        <5> QED BY <1>1, <5>2
      <4>3. IsFiniteSet(T) /\ Cardinality(T) = Cardinality(D)
        <5> HIDE DEF T
        <5> QED BY <4>1, <4>2, FS_Surjection
      <4> QED BY <1>2, <4>2, <4>3
    <3>2. {q[j] : j \in D} = S
      BY <3>1, FS_Subset
    <3> QED BY <3>2 DEF Before
  <2>3. before = {q[j] : j \in E}
    <3>1. \A j \in E : q[j] \in before
      BY <1>2, <1>4, <2>1 DEF Before
    <3>2. ASSUME NEW y \in before
          PROVE  y \in {q[j] : j \in E}
      <4>1. PICK j \in D : y = q[j]
        BY <2>2
      <4>2. <<q[j], q[k]>> \in R
        BY <4>1 DEF Before
      <4>3. j < k
        <5>1. j # k
          BY <1>2, <4>2 DEF StrictOrder
        <5>2. ~(k < j)
          BY <1>2, <4>2
        <5> QED BY <1>3, <5>1, <5>2
      <4>4. j \in E
        BY <1>1, <1>3, <4>3 DEF D
      <4> QED BY <4>1, <4>4
    <3> QED BY <3>1, <3>2
  <2>4. g \in Injection(E, before) /\ g \in Surjection(E, before)
    <3>1. g \in [E -> before] /\ \A y \in before : \E j \in E : g[j] = y
      BY <2>3
    <3>2. \A i, j \in E : g[i] = g[j] => i = j
      BY <1>2, <2>1
    <3> QED BY <3>1, <3>2 DEF Injection, IsInjective, Surjection
  <2>5. IsFiniteSet(E) /\ Cardinality(E) = k - 1
    <3>1. k \in Int /\ 1 <= k /\ 1 \in Int /\ k - 1 \in Int
      BY <1>1, <1>3 DEF D
    <3>2. IsFiniteSet(E) /\ Cardinality(E) = IF 1 > k - 1 THEN 0 ELSE k - 1 - 1 + 1
      BY <3>1, FS_Interval
    <3> QED BY <3>1, <3>2
  <2>6. Cardinality(before) = Cardinality(E)
    <3> HIDE DEF before, E, g
    <3> QED BY <2>4, <2>5, FS_Surjection
  <2>7. k \in Int
    BY <1>3
  <2> QED BY <2>5, <2>6, <2>7 DEF Rank
<1> QED BY <1>2, <1>6 DEF D

\* A strict total order of a finite set has one row, in which everybody stands once.
LEMMA OneRow ==
  ASSUME NEW S, IsFiniteSet(S), NEW R, StrictOrder(S, R)
  PROVE  \E q : /\ InOrder(S, R) = {q}
                /\ q \in [1 .. Cardinality(S) -> S] /\ q \in SetToSeqs(S)
                /\ \A x \in S : \E k \in 1 .. Cardinality(S) :
                     q[k] = x /\ \A j \in 1 .. Cardinality(S) : q[j] = x => j = k
<1>1. PICK q : q \in InOrder(S, R)
  BY OrderExists
<1>2. q \in SetToSeqs(S)
  BY <1>1 DEF InOrder
<1>3. ASSUME NEW r \in InOrder(S, R)
      PROVE  /\ DOMAIN r = 1 .. Cardinality(S) /\ r \in [1 .. Cardinality(S) -> S]
             /\ \A k \in 1 .. Cardinality(S) : Rank(S, R, r[k]) = k
  BY <1>3, PlaceIsRank
<1>4. ASSUME NEW x \in S, NEW y \in S, Rank(S, R, x) = Rank(S, R, y)
      PROVE  x = y
  <2>1. Rank(S, R, x) \in Int
    BY RanksDiffer
  <2>2. <<x, y>> \notin R /\ <<y, x>> \notin R
    <3>1. <<x, y>> \in R => Rank(S, R, x) < Rank(S, R, y)
      BY RanksDiffer
    <3>2. <<y, x>> \in R => Rank(S, R, y) < Rank(S, R, x)
      BY RanksDiffer
    <3> QED BY <1>4, <2>1, <3>1, <3>2
  <2> QED BY <2>2 DEF StrictOrder
<1>5. ASSUME NEW r \in InOrder(S, R)
      PROVE  r = q
  <2>1. \A k \in 1 .. Cardinality(S) : r[k] = q[k]
    <3> SUFFICES ASSUME NEW k \in 1 .. Cardinality(S) PROVE r[k] = q[k]
      OBVIOUS
    <3>1. r[k] \in S /\ q[k] \in S /\ Rank(S, R, r[k]) = Rank(S, R, q[k])
      BY <1>1, <1>3, <1>5
    <3> QED BY <1>4, <3>1
  <2>2. PICK D : D = 1 .. Cardinality(S)
    OBVIOUS
  <2>3. r \in [D -> S] /\ q \in [D -> S] /\ \A k \in D : r[k] = q[k]
    BY <1>1, <1>3, <1>5, <2>1, <2>2
  <2> QED BY ONLY <2>3
<1>6. ASSUME NEW x \in S
      PROVE  \E k \in 1 .. Cardinality(S) : q[k] = x /\ \A j \in 1 .. Cardinality(S) : q[j] = x => j = k
  <2>1. PICK k : k = Rank(S, R, x)
    OBVIOUS
  <2>2. k \in 1 .. Cardinality(S)
    BY <2>1, RanksDiffer
  <2>3. q[k] \in S /\ Rank(S, R, q[k]) = Rank(S, R, x)
    BY <1>1, <1>3, <2>1, <2>2
  <2>4. q[k] = x
    BY <1>4, <2>3
  <2>5. \A j \in 1 .. Cardinality(S) : q[j] = x => j = k
    BY <1>1, <1>3, <2>1
  <2> QED BY <2>2, <2>4, <2>5
<1> QED BY <1>1, <1>2, <1>3, <1>5, <1>6

\* The row as a sequence.
LEMMA RowIsSequence ==
  ASSUME NEW S, NEW q \in [1 .. Cardinality(S) -> S], IsFiniteSet(S),
         \A x \in S : \E k \in 1 .. Cardinality(S) : q[k] = x
  PROVE  /\ q \in Seq(S) /\ Len(q) = Cardinality(S) /\ DOMAIN q = 1 .. Cardinality(S)
         /\ Range(q) = S /\ SubSeq(q, 1, Len(q)) = q
<1>1. Cardinality(S) \in Nat
  BY FS_CardinalityType
<1>2. PICK n \in Nat : n = Cardinality(S)
  BY <1>1
<1>3. q \in Seq(S) /\ Len(q) = n
  BY <1>2
<1>4. SubSeq(q, 1, Len(q)) = q
  BY <1>3, SubSeqFull
<1>5. Range(q) = S
  BY DEF Range
<1> QED BY <1>2, <1>3, <1>4, <1>5

\* An item is on the page of its place and on no other.
LEMMA PageOfItem ==
  ASSUME NEW S, NEW w \in Seq(S), NEW k \in Nat, k >= 1, NEW per \in Nat, per >= 1, NEW i
  PROVE  i \in Range(PageOf(w, k, per)) <=>
           \E p \in 1 .. Len(w) : w[p] = i /\ (k - 1) * per < p /\ p <= k * per
<1>1. PICK n \in Int : n = Len(w) /\ n >= 0
  <2>1. Len(w) \in Nat
    BY LenProperties
  <2> QED BY <2>1
<1>2. PICK from \in Int, to \in Int : from = (k - 1) * per /\ to = k * per
  OBVIOUS
<1>3. from >= 0 /\ to >= 0
  BY <1>2
<1>4. PICK upto \in Int : upto = IF to <= n THEN to ELSE n
  BY <1>1, <1>2
<1>5. upto = IF to <= n THEN to ELSE n
  BY <1>4
<1>0. Min({to, n}) = upto
  BY ONLY to \in Int, n \in Int, <1>5, MaxOfTwo
<1>6. from + 1 \in Int /\ \A x \in (from + 1) .. upto : w[x] \in S
  BY <1>1, <1>3, <1>5
<1>7. PICK page : page = SubSeq(w, from + 1, upto)
  OBVIOUS
<1>8. /\ page \in Seq(S)
      /\ Len(page) = IF from + 1 <= upto THEN upto - (from + 1) + 1 ELSE 0
      /\ \A x \in 1 .. upto - (from + 1) + 1 : page[x] = w[from + 1 + x - 1]
  BY <1>6, <1>7, SubSeqProperties
<1>9. PageOf(w, k, per) = page
  BY <1>0, <1>1, <1>2, <1>7 DEF PageOf
<1>10. DOMAIN page = 1 .. Len(page)
  BY <1>8
<1>11. Range(page) = {page[x] : x \in 1 .. Len(page)}
  BY <1>10 DEF Range
<1>12. ASSUME i \in Range(page)
       PROVE  \E p \in 1 .. n : w[p] = i /\ from < p /\ p <= to
  <2>1. PICK x \in 1 .. Len(page) : page[x] = i
    BY <1>11, <1>12
  <2>2. from + 1 <= upto /\ x \in 1 .. upto - (from + 1) + 1 /\ x \in Int
    BY <1>8, <2>1
  <2>3. from + x \in 1 .. n /\ from < from + x /\ from + x <= to /\ from + 1 + x - 1 = from + x
    BY <1>3, <1>5, <2>2
  <2> QED BY <1>8, <2>1, <2>2, <2>3
<1>13. ASSUME NEW p \in 1 .. n, w[p] = i, from < p, p <= to
       PROVE  i \in Range(page)
  <2>1. PICK x \in Int : x = p - from
    OBVIOUS
  <2>2. from + 1 <= upto /\ x \in 1 .. upto - (from + 1) + 1 /\ x \in 1 .. Len(page) /\ from + 1 + x - 1 = p
    BY <1>3, <1>5, <1>8, <1>13, <2>1
  <2>3. page[x] = i
    BY <1>8, <1>13, <2>2
  <2> QED BY <1>11, <2>2, <2>3
<1> QED BY <1>1, <1>2, <1>9, <1>12, <1>13

\* The score of an item is a number.
LEMMA ScoreInt ==
  ASSUME BoardTyped, BooksTyped, count \in [Items -> Int \cup {None}], NEW i \in Items
  PROVE  Score(i, FALSE) \in Int
<1>1. PICK s \in Int, r \in Int : s = stock[i] /\ r = Reorder[i]
  BY BoardAssumption DEF BooksTyped
<1>2. PICK gap \in Int : gap = Max({0, r - s})
  <2>1. r - s \in Int /\ 0 \in Int
    OBVIOUS
  <2> QED BY ONLY <2>1, MaxOfTwo
<1>3. PICK d \in Int : d = PendingDays(i)
  <2>1. CASE Open(i) = {}
    <3>1. PendingDays(i) = 0
      BY <2>1 DEF PendingDays
    <3> QED BY <3>1
  <2>2. CASE Open(i) # {}
    BY <2>2, OldestPending
  <2> QED BY <2>1, <2>2
<1>4. PICK late \in Int : late = Min({14, d})
  <2>1. 14 \in Int /\ d \in Int
    OBVIOUS
  <2> QED BY ONLY <2>1, MaxOfTwo
<1>5. PICK diff \in Int : diff = IF count[i] = None THEN 0 ELSE Min({2000, Abs(count[i])})
  <2>1. CASE count[i] = None
    BY <2>1
  <2>2. CASE count[i] # None
    <3>1. PICK c \in Int : c = count[i]
      BY <2>2
    <3>2. PICK a \in Int : a = Abs(c)
      BY DEF Abs
    <3>3. 2000 \in Int /\ a \in Int
      OBVIOUS
    <3>4. Min({2000, a}) = IF 2000 <= a THEN 2000 ELSE a
      BY ONLY <3>3, MaxOfTwo
    <3> QED BY <2>2, <3>1, <3>2, <3>4
  <2> QED BY <2>1, <2>2
<1>6. PICK most \in Int : most = Max({1000, r}) /\ most > 0
  <2>1. 1000 \in Int /\ r \in Int
    OBVIOUS
  <2>2. Max({1000, r}) = IF 1000 >= r THEN 1000 ELSE r
    BY ONLY <2>1, MaxOfTwo
  <2> QED BY <2>2
<1>7. PICK x \in Int, y \in Int, z \in Int :
        /\ x = IF OutOfStock(i) THEN 100000 ELSE 0
        /\ y = IF r > 0 THEN (35000 * gap) \div most ELSE 0
        /\ z = (45000 * late) \div 14
  <2>1. (35000 * gap) \div most \in Int
    <3>1. PICK a \in Int : a = 35000 * gap
      OBVIOUS
    <3>2. a \div most \in Int
      BY <1>6
    <3> QED BY <3>1, <3>2
  <2>2. (45000 * late) \div 14 \in Int
    OBVIOUS
  <2> QED BY <2>1, <2>2
<1>8. Score(i, FALSE) = x + y + z + 15 * diff + 0
  BY <1>1, <1>2, <1>3, <1>4, <1>5, <1>6, <1>7 DEF Score
<1>9. PICK t \in Int : t = x + y + z + 15 * diff + 0
  OBVIOUS
<1> QED BY <1>8, <1>9

\* The priority orders what has been fetched in a row.
LEMMA PriorityOrders ==
  ASSUME NEW S, S \subseteq Items, \A i \in S : Score(i, FALSE) \in Int,
         NEW q \in [1 .. Cardinality(S) -> S],
         \A x \in S : \E k \in 1 .. Cardinality(S) :
           q[k] = x /\ \A j \in 1 .. Cardinality(S) : q[j] = x => j = k,
         NEW R, R = {o \in S \X S : Ahead(q, o[1], o[2])}
  PROVE  StrictOrder(S, R)
<1>1. ASSUME NEW i \in S
      PROVE  Place(q, i) \in Int /\ q[Place(q, i)] = i
  <2>1. PICK k \in 1 .. Cardinality(S) : q[k] = i /\ \A j \in 1 .. Cardinality(S) : q[j] = i => j = k
    OBVIOUS
  <2>2. {j \in DOMAIN q : q[j] = i} = {k} /\ k \in Int
    BY <2>1
  <2>3. Min({k}) = k
    BY <2>2 DEF Min
  <2>4. Place(q, i) = k
    BY <2>2, <2>3 DEF Place
  <2> QED BY <2>1, <2>2, <2>4
<1>2. \A i, j \in S : <<i, j>> \in R <=> Ahead(q, i, j)
  OBVIOUS
<1>3. ASSUME NEW i \in S, NEW j \in S, i # j
      PROVE  Place(q, i) # Place(q, j)
  BY <1>1, <1>3
<1> DEFINE sc(i) == Score(i, FALSE)
           pl(i) == Place(q, i)
<1>4. \A i, j \in S : <<i, j>> \in R <=> sc(i) > sc(j) \/ (sc(i) = sc(j) /\ pl(i) < pl(j))
  BY <1>2 DEF Ahead
<1>5. \A i \in S : sc(i) \in Int /\ pl(i) \in Int
  BY <1>1
<1>6. \A i, j \in S : i # j => pl(i) # pl(j)
  BY <1>3
<1> HIDE DEF sc, pl
<1>7. \A x \in S : <<x, x>> \notin R
  BY <1>4, <1>5
<1>8. \A x, y \in S : x # y => <<x, y>> \in R \/ <<y, x>> \in R
  BY <1>4, <1>5, <1>6
<1>9. \A x, y, z \in S : <<x, y>> \in R /\ <<y, z>> \in R => <<x, z>> \in R
  BY <1>4, <1>5
<1> QED BY <1>7, <1>8, <1>9 DEF StrictOrder

\* A fetch of the board has rows, and two of them at least.
LEMMA FetchSizes ==
  ASSUME NEW per \in Nat, per >= 1
  PROVE  /\ FetchSize(per) \in Nat /\ FetchSize(per) >= 1
         /\ \A page \in Nat : FetchPages(page, per) \in Nat /\ FetchPages(page, per) >= 2
<1>1. PICK least \in Int, most \in Int, limit \in Int :
        /\ least = WindowMin /\ most = WindowMax /\ limit = WindowPages
        /\ least > 0 /\ most > 0 /\ limit >= 2
  BY BoardAssumption
<1>2. PICK wide \in Int : wide = Max({per, least}) /\ wide > 0
  <2>1. per \in Int /\ least \in Int
    OBVIOUS
  <2>2. Max({per, least}) = IF per >= least THEN per ELSE least
    BY ONLY <2>1, MaxOfTwo
  <2> QED BY <1>1, <2>2
<1>3. PICK fetch \in Int : fetch = Min({most, wide}) /\ fetch > 0
  <2>1. Min({most, wide}) = IF most <= wide THEN most ELSE wide
    BY ONLY most \in Int, wide \in Int, MaxOfTwo
  <2> QED BY <1>1, <1>2, <2>1
<1>4. FetchSize(per) = fetch
  BY <1>1, <1>2, <1>3 DEF FetchSize
<1>5. ASSUME NEW page \in Nat
      PROVE  FetchPages(page, per) \in Nat /\ FetchPages(page, per) >= 2
  <2>1. PICK pages \in Int : pages = (page * per + fetch - 1) \div fetch
    <3>1. PICK a \in Int : a = page * per + fetch - 1
      OBVIOUS
    <3>2. a \div fetch \in Int
      BY <1>3
    <3> QED BY <3>1, <3>2
  <2>2. PICK many \in Int : many = Max({2, pages}) /\ many >= 2
    <3>1. 2 \in Int
      OBVIOUS
    <3>2. Max({2, pages}) = IF 2 >= pages THEN 2 ELSE pages
      BY ONLY <3>1, pages \in Int, MaxOfTwo
    <3> QED BY <3>2
  <2>3. PICK times \in Int : times = Min({limit, many}) /\ times >= 2
    <3>1. Min({limit, many}) = IF limit <= many THEN limit ELSE many
      BY ONLY limit \in Int, many \in Int, MaxOfTwo
    <3> QED BY <1>1, <2>2, <3>1
  <2>4. FetchPages(page, per) = times
    BY <1>1, <1>4, <2>1, <2>2, <2>3 DEF FetchPages
  <2> QED BY <2>3, <2>4
<1> QED BY <1>3, <1>4, <1>5

\* Every row is in one of the pages.
LEMMA PageOfRow ==
  ASSUME NEW size \in Nat, size >= 1, NEW n \in Nat, NEW p \in 1 .. n
  PROVE  /\ (p - 1) \div size + 1 \in 1 .. (n + size - 1) \div size
         /\ p <= size => (p - 1) \div size = 0
<1>1. PICK x \in Nat, y \in Nat : x = p - 1 /\ y = n + size - 1 /\ x < n
  OBVIOUS
<1>2. ASSUME NEW z \in Nat
      PROVE  z \div size \in Nat /\ size * (z \div size) <= z /\ z < size * (z \div size) + size
  BY <1>2
<1>3. PICK a \in Nat : a = x \div size /\ size * a <= x /\ x < size * a + size
  BY <1>2
<1>4. PICK m \in Nat : m = y \div size /\ size * m <= y /\ y < size * m + size
  BY <1>2
<1>5. a < m
  <2> SUFFICES ASSUME a >= m PROVE FALSE
    OBVIOUS
  <2>1. size * a >= size * m
    OBVIOUS
  <2>2. PICK u \in Nat, v \in Nat : u = size * a /\ v = size * m
    OBVIOUS
  <2> QED BY <1>1, <1>3, <1>4, <2>1, <2>2
<1>6. ASSUME p <= size
      PROVE  a = 0
  <2> SUFFICES ASSUME a >= 1 PROVE FALSE
    OBVIOUS
  <2>1. size * a >= size
    OBVIOUS
  <2>2. PICK u \in Nat : u = size * a
    OBVIOUS
  <2> QED BY <1>1, <1>3, <1>6, <2>1, <2>2
<1> QED BY <1>1, <1>3, <1>4, <1>5, <1>6

\* A sequence of a finite set holds all of it.
LEMMA SequenceHolds ==
  ASSUME NEW S, IsFiniteSet(S), NEW q \in SetToSeqs(S)
  PROVE  q \in [1 .. Cardinality(S) -> S] /\ {q[k] : k \in 1 .. Cardinality(S)} = S
<1> DEFINE D == 1 .. Cardinality(S)
<1>1. q \in [D -> S] /\ \A j, k \in D : j # k => q[j] # q[k]
  BY DEF SetToSeqs
<1>2. IsFiniteSet(D) /\ Cardinality(D) = Cardinality(S) /\ Cardinality(S) \in Nat
  <2>1. Cardinality(S) \in Nat
    BY FS_CardinalityType
  <2>2. 1 \in Int /\ Cardinality(S) \in Int
    BY <2>1
  <2>3. IsFiniteSet(D) /\ Cardinality(D) = IF 1 > Cardinality(S) THEN 0 ELSE Cardinality(S) - 1 + 1
    BY <2>2, FS_Interval
  <2> QED BY <2>1, <2>3
<1> HIDE DEF D
<1>3. q \in Injection(D, S)
  BY <1>1 DEF Injection, IsInjective
<1>4. q \in Surjection(D, S)
  BY <1>2, <1>3, FS_Injection
<1>5. {q[k] : k \in D} = S
  BY <1>1, <1>4 DEF Surjection
<1> QED BY <1>1, <1>5 DEF D

LEMMA ShortagesFinite == Shortages \subseteq Items /\ IsFiniteSet(Shortages) /\ Cardinality(Shortages) \in Nat
<1>1. Shortages \subseteq Items
  BY DEF Shortages
<1> QED BY <1>1, ItemsFinite

\* What is fetched takes each of its rows from one of the orders by stock.
LEMMA FetchedRows ==
  ASSUME NEW size \in Nat, size >= 1, NEW pages \in Nat, pages >= 1,
         NEW n \in Nat, n = Cardinality(Shortages), n <= size * pages, NEW rows \in Fetches(size, pages)
  PROVE  /\ rows = [p \in 1 .. n |-> rows[p]]
         /\ \A p \in 1 .. n : \E r \in ByStock(Shortages) : rows[p] = r[p]
         /\ n <= size /\ n > 0 => \E r \in ByStock(Shortages) : \A p \in 1 .. n : rows[p] = r[p]
<1>1. PICK most \in Nat : most = size * pages
  OBVIOUS
<1>2. Min({most, n}) = n
  <2>1. Min({most, n}) = IF most <= n THEN most ELSE n
    <3>1. most \in Int /\ n \in Int
      OBVIOUS
    <3> QED BY ONLY <3>1, MaxOfTwo
  <2> QED BY <1>1, <2>1
<1>3. Fetches(size, pages) = {[p \in 1 .. n |-> q[(p - 1) \div size + 1][p]] :
                                 q \in [1 .. (n + size - 1) \div size -> ByStock(Shortages)]}
  <2>1. PICK room : room = Min({size * pages, Cardinality(Shortages)})
    OBVIOUS
  <2>2. Fetches(size, pages) = {[p \in 1 .. room |-> q[(p - 1) \div size + 1][p]] :
                                   q \in [1 .. (room + size - 1) \div size -> ByStock(Shortages)]}
    BY <2>1 DEF Fetches
  <2>3. room = n
    BY <1>1, <1>2, <2>1
  <2> QED BY <2>2, <2>3
<1>4. PICK q \in [1 .. (n + size - 1) \div size -> ByStock(Shortages)] :
        rows = [p \in 1 .. n |-> q[(p - 1) \div size + 1][p]]
  BY <1>3
<1>5. ASSUME NEW p \in 1 .. n
      PROVE  /\ rows[p] = q[(p - 1) \div size + 1][p] /\ q[(p - 1) \div size + 1] \in ByStock(Shortages)
             /\ p <= size => (p - 1) \div size + 1 = 1
  <2>1. PICK k : k = (p - 1) \div size + 1
    OBVIOUS
  <2>2. k \in 1 .. (n + size - 1) \div size
    BY <2>1, PageOfRow
  <2>3. p <= size => k = 1
    <3>1. p <= size => (p - 1) \div size = 0
      BY PageOfRow
    <3> QED BY <2>1, <3>1
  <2>4. q[k] \in ByStock(Shortages)
    BY <2>2
  <2>5. rows[p] = q[k][p]
    BY <1>4, <2>1
  <2> QED BY <2>1, <2>3, <2>4, <2>5
<1>6. ASSUME n <= size, n > 0
      PROVE  \E r \in ByStock(Shortages) : \A p \in 1 .. n : rows[p] = r[p]
  <2>1. \A p \in 1 .. n : p <= size
    BY <1>6
  <2>2. \A p \in 1 .. n : rows[p] = q[1][p]
    BY <1>5, <2>1
  <2>3. q[1] \in ByStock(Shortages)
    <3>1. 1 \in 1 .. n
      BY <1>6
    <3> QED BY <1>5, <2>1, <3>1
  <2> QED BY <2>2, <2>3
<1>7. rows = [p \in 1 .. n |-> rows[p]]
  BY <1>4
<1> QED BY <1>5, <1>6, <1>7

\* Shortages of different stock have one order, and what is fetched of them is in it.
LEMMA OneOrder ==
  ASSUME BooksTyped, \A i, j \in Shortages : i # j => stock[i] # stock[j]
  PROVE  \E q \in [1 .. Cardinality(Shortages) -> Shortages] :
           /\ ByStock(Shortages) = {q}
           /\ \A x \in Shortages : \E k \in 1 .. Cardinality(Shortages) :
                q[k] = x /\ \A j \in 1 .. Cardinality(Shortages) : q[j] = x => j = k
<1>1. PICK S : S = Shortages
  OBVIOUS
<1>2. S \subseteq Items /\ IsFiniteSet(S)
  BY <1>1, ShortagesFinite
<1>3. \A i \in S : stock[i] \in Int
  BY <1>2 DEF BooksTyped
<1>4. PICK R : R = {o \in S \X S : stock[o[1]] < stock[o[2]]}
  OBVIOUS
<1>5. \A i, j \in S : <<i, j>> \in R <=> stock[i] < stock[j]
  BY <1>4
<1>6. StrictOrder(S, R)
  <2>1. \A i, j \in S : i # j => stock[i] # stock[j]
    BY <1>1
  <2>2. \A x \in S : <<x, x>> \notin R
    BY <1>3, <1>5
  <2>3. \A x, y \in S : x # y => <<x, y>> \in R \/ <<y, x>> \in R
    BY <1>3, <1>5, <2>1
  <2>4. \A x, y, z \in S : <<x, y>> \in R /\ <<y, z>> \in R => <<x, z>> \in R
    BY <1>3, <1>5
  <2> QED BY <2>2, <2>3, <2>4 DEF StrictOrder
<1>7. PICK q : /\ InOrder(S, R) = {q}
               /\ q \in [1 .. Cardinality(S) -> S]
               /\ \A x \in S : \E k \in 1 .. Cardinality(S) :
                    q[k] = x /\ \A j \in 1 .. Cardinality(S) : q[j] = x => j = k
  BY <1>2, <1>6, OneRow
<1>8. ByStock(S) = {q}
  <2>1. ByStock(S) = {r \in SetToSeqs(S) : \A j, k \in DOMAIN r : j < k => ~(stock[r[k]] < stock[r[j]])}
    BY DEF ByStock, Ranked
  <2>2. \A r \in SetToSeqs(S) : \A j, k \in DOMAIN r : r[j] \in S /\ r[k] \in S
    BY DEF SetToSeqs
  <2>3. ByStock(S) = InOrder(S, R)
    BY <1>5, <2>1, <2>2 DEF InOrder
  <2> QED BY <1>7, <2>3
<1>9. q \in [1 .. Cardinality(Shortages) -> Shortages]
  BY <1>1, <1>7
<1> QED
  <2> WITNESS q \in [1 .. Cardinality(Shortages) -> Shortages]
  <2> QED BY <1>1, <1>7, <1>8

LEMMA FetchedAlike ==
  ASSUME NEW size \in Nat, size >= 1, NEW pages \in Nat, pages >= 1,
         Cardinality(Shortages) <= size * pages,
         NEW q \in [1 .. Cardinality(Shortages) -> Shortages], ByStock(Shortages) = {q},
         NEW rows \in Fetches(size, pages)
  PROVE  rows = q
<1>1. PICK n \in Nat : n = Cardinality(Shortages)
  BY ShortagesFinite
<1>2. rows = [p \in 1 .. n |-> rows[p]] /\ \A p \in 1 .. n : rows[p] = q[p]
  BY <1>1, FetchedRows
<1>3. q = [p \in 1 .. n |-> q[p]]
  BY <1>1
<1> QED BY <1>2, <1>3

\* There is something to fetch.
LEMMA FetchExists ==
  ASSUME NEW size \in Nat, NEW pages \in Nat, NEW q \in ByStock(Shortages)
  PROVE  Fetches(size, pages) # {}
<1>1. PICK room : room = Min({size * pages, Cardinality(Shortages)})
  OBVIOUS
<1>2. PICK f : f = [k \in 1 .. (room + size - 1) \div size |-> q]
  OBVIOUS
<1>3. f \in [1 .. (room + size - 1) \div size -> ByStock(Shortages)]
  BY <1>2
<1>4. [p \in 1 .. room |-> f[(p - 1) \div size + 1][p]] \in Fetches(size, pages)
  BY <1>1, <1>3 DEF Fetches
<1> QED BY <1>4

\* A fetch that holds all the shortages brings each of them.
LEMMA AllFetched ==
  ASSUME BooksTyped, NEW size \in Nat, size >= 1, NEW pages \in Nat, pages >= 1, Fits(size, pages),
         NEW rows \in Fetches(size, pages)
  PROVE  Range(rows) = Shortages
<1>1. PICK n \in Nat : n = Cardinality(Shortages)
  BY ShortagesFinite
<1>2. n <= size * pages
  <2>1. PICK most \in Nat : most = size * pages
    OBVIOUS
  <2>2. size <= most
    <3>1. size * pages >= size * 1
      OBVIOUS
    <3> QED BY <2>1, <3>1
  <2> QED BY <1>1, <2>1, <2>2 DEF Fits
<1>3. rows = [p \in 1 .. n |-> rows[p]]
  BY <1>1, <1>2, FetchedRows
<1>4. Range(rows) = {rows[p] : p \in 1 .. n}
  BY <1>3 DEF Range
<1>5. \A r \in ByStock(Shortages) : {r[p] : p \in 1 .. n} = Shortages
  <2>1. ByStock(Shortages) \subseteq SetToSeqs(Shortages)
    BY DEF ByStock, Ranked
  <2> QED BY <1>1, <2>1, ShortagesFinite, SequenceHolds
<1>6. CASE n = 0
  <2>1. Shortages = {}
    BY <1>1, <1>6, ShortagesFinite, FS_EmptySet
  <2> QED BY <1>4, <1>6, <2>1
<1>7. CASE n > 0 /\ n <= size
  <2>1. PICK r \in ByStock(Shortages) : \A p \in 1 .. n : rows[p] = r[p]
    BY <1>1, <1>2, <1>7, FetchedRows
  <2>2. {rows[p] : p \in 1 .. n} = {r[p] : p \in 1 .. n}
    BY <2>1
  <2> QED BY <1>4, <1>5, <2>1, <2>2
<1>8. CASE ~(n <= size)
  <2>1. \A i, j \in Shortages : i # j => stock[i] # stock[j]
    BY <1>1, <1>8 DEF Fits
  <2>2. PICK q \in [1 .. Cardinality(Shortages) -> Shortages] : ByStock(Shortages) = {q}
    BY <2>1, OneOrder
  <2>3. rows = q
    BY <1>1, <1>2, <2>2, FetchedAlike
  <2> QED BY <1>4, <1>5, <2>2, <2>3
<1> QED BY <1>6, <1>7, <1>8

\* The header of a fetch that holds all the shortages counts them all, and what
\* the board's filters leave.
LEMMA HeaderFollows ==
  ASSUME BooksTyped
  PROVE  HeaderAgrees
<1> SUFFICES ASSUME Fits(HeaderSize, HeaderPages), NEW h \in Header
             PROVE  /\ h.attention = Chips.out + Chips.critical + Chips.low
                    /\ \A page, per \in {1, 2} :
                         Fits(FetchSize(per), FetchPages(page, per)) =>
                           \A rows \in Fetched(page, per), f \in {"out", "pending", "delayed", "disputed"} :
                             h[f] = Cardinality(Filtered(f, rows))
  BY DEF HeaderAgrees
<1>1. h = HeaderOf(Shortages)
  <2>1. PICK first \in Fetches(HeaderSize, HeaderPages) : h = HeaderOf(Range(first))
    BY DEF Header
  <2>2. HeaderSize \in Nat /\ HeaderSize >= 1 /\ HeaderPages \in Nat /\ HeaderPages >= 1
    BY BoardAssumption
  <2>3. Range(first) = Shortages
    BY <2>2, AllFetched
  <2> QED BY <2>1, <2>3
<1>2. h.attention = Cardinality(Shortages)
  <2>1. \A i \in Shortages : i \in Items /\ (IsOut(i) \/ IsCritical(i) \/ IsLow(i))
    BY LevelsCounted, ShortagesFinite
  <2>2. \A i \in Shortages : OutOfStock(i) \/ Status(i) \in {"low", "critical"}
    BY <2>1, Levels DEF OutOfStock
  <2>3. {i \in Shortages : OutOfStock(i) \/ Status(i) \in {"low", "critical"}} = Shortages
    BY <2>2
  <2> QED BY <1>1, <2>3 DEF HeaderOf
<1>3. ASSUME NEW page \in {1, 2}, NEW per \in {1, 2}, Fits(FetchSize(per), FetchPages(page, per)),
             NEW rows \in Fetched(page, per), NEW f \in {"out", "pending", "delayed", "disputed"}
      PROVE  h[f] = Cardinality(Filtered(f, rows))
  <2>1. /\ FetchSize(per) \in Nat /\ FetchSize(per) >= 1
        /\ FetchPages(page, per) \in Nat /\ FetchPages(page, per) >= 1
    <3>1. per \in Nat /\ per >= 1 /\ page \in Nat
      OBVIOUS
    <3>2. FetchPages(page, per) \in Nat /\ FetchPages(page, per) >= 2
      BY <3>1, FetchSizes
    <3> QED BY <3>1, <3>2, FetchSizes
  <2>2. Range(rows) = Shortages
    BY <1>3, <2>1, AllFetched DEF Fetched
  <2>3. /\ \A i : Keeps("out", i) = OutOfStock(i)
        /\ \A i : Keeps("pending", i) = (Open(i) # {})
        /\ \A i : Keeps("delayed", i) = Delayed(i)
        /\ \A i : Keeps("disputed", i) = Disputed(i)
    BY DEF Keeps
  <2>4. CASE f = "out"
    BY <1>1, <2>2, <2>3, <2>4 DEF HeaderOf, Filtered
  <2>5. CASE f = "pending"
    BY <1>1, <2>2, <2>3, <2>5 DEF HeaderOf, Filtered
  <2>6. CASE f = "delayed"
    BY <1>1, <2>2, <2>3, <2>6 DEF HeaderOf, Filtered
  <2>7. CASE f = "disputed"
    BY <1>1, <2>2, <2>3, <2>7 DEF HeaderOf, Filtered
  <2> QED BY <2>4, <2>5, <2>6, <2>7
<1> QED BY <1>2, <1>3, LevelsCounted

\* The counters and the lists they stand for agree.
LEMMA CountsFollow ==
  ASSUME BoardInv, Books
  PROVE  CountsAgree
<1>1. BooksTyped
  BY DEF Books
<1> QED BY <1>1, LevelsCounted, HeaderFollows, SetupDivides, MissingOrdered, TrucksCounted, TotalsAgree DEF CountsAgree

\* While two fetches hold all the shortages, and their stocks differ, there is one
\* list of them, whatever page is asked for.
LEMMA OneList ==
  ASSUME BoardTyped, BooksTyped, count \in [Items -> Int \cup {None}],
         NEW per \in Nat, per >= 1, Cardinality(Shortages) <= 2 * FetchSize(per),
         \A i, j \in Shortages : i # j => stock[i] # stock[j]
  PROVE  \E w \in [1 .. Cardinality(Shortages) -> Shortages] :
           /\ \A page \in Nat : page >= 1 => Window(page, per) = {w}
           /\ \A x \in Shortages : \E k \in 1 .. Cardinality(Shortages) :
                w[k] = x /\ \A j \in 1 .. Cardinality(Shortages) : w[j] = x => j = k
<1>1. PICK S : S = Shortages
  OBVIOUS
<1>2. S \subseteq Items /\ IsFiniteSet(S) /\ Cardinality(S) \in Nat
  BY <1>1, ShortagesFinite
<1>3. PICK q \in [1 .. Cardinality(Shortages) -> Shortages] :
        /\ ByStock(Shortages) = {q}
        /\ \A x \in Shortages : \E k \in 1 .. Cardinality(Shortages) :
             q[k] = x /\ \A j \in 1 .. Cardinality(Shortages) : q[j] = x => j = k
  BY OneOrder
<1>4. Range(q) = S
  BY <1>1, <1>2, <1>3, RowIsSequence
<1>5. PICK P : P = {o \in S \X S : Ahead(q, o[1], o[2])}
  OBVIOUS
<1>6. \A i, j \in S : <<i, j>> \in P <=> Ahead(q, i, j)
  BY <1>5
<1>7. StrictOrder(S, P)
  <2>1. \A i \in S : Score(i, FALSE) \in Int
    BY <1>2, ScoreInt
  <2> QED BY <1>1, <1>2, <1>3, <1>5, <2>1, PriorityOrders
<1>8. PICK w : /\ InOrder(S, P) = {w}
               /\ w \in [1 .. Cardinality(S) -> S]
               /\ \A x \in S : \E k \in 1 .. Cardinality(S) :
                    w[k] = x /\ \A j \in 1 .. Cardinality(S) : w[j] = x => j = k
  BY <1>2, <1>7, OneRow
<1>9. ByPriority(q) = {w}
  <2>1. ByPriority(q) = {r \in SetToSeqs(S) : \A j, k \in DOMAIN r : j < k => ~Ahead(q, r[k], r[j])}
    BY <1>4 DEF ByPriority, Ranked
  <2>2. \A r \in SetToSeqs(S) : \A j, k \in DOMAIN r : r[j] \in S /\ r[k] \in S
    BY DEF SetToSeqs
  <2>3. ByPriority(q) = InOrder(S, P)
    BY <1>6, <2>1, <2>2 DEF InOrder
  <2> QED BY <1>8, <2>3
<1>10. ASSUME NEW page \in Nat, page >= 1
       PROVE  Window(page, per) = {w}
  <2>1. PICK size \in Nat, pages \in Nat :
          size = FetchSize(per) /\ size >= 1 /\ pages = FetchPages(page, per) /\ pages >= 2
    BY FetchSizes
  <2>2. Cardinality(Shortages) <= size * pages
    <3>1. size * pages >= size * 2
      BY <2>1
    <3>2. PICK most \in Nat : most = size * pages
      OBVIOUS
    <3> QED BY <1>1, <1>2, <2>1, <3>1, <3>2
  <2>3. pages >= 1
    BY <2>1
  <2>4. \A rows \in Fetches(size, pages) : rows = q
    BY <1>3, <2>1, <2>2, <2>3, FetchedAlike
  <2>5. Fetches(size, pages) # {}
    BY <1>3, FetchExists
  <2>6. Fetched(page, per) = {q}
    BY <2>1, <2>4, <2>5 DEF Fetched
  <2>7. Window(page, per) = UNION {ByPriority(rows) : rows \in {q}}
    BY <2>6 DEF Window
  <2> QED BY <1>9, <2>7
<1>11. w \in [1 .. Cardinality(Shortages) -> Shortages]
  BY <1>1, <1>8
<1>12. \A x \in Shortages : \E k \in 1 .. Cardinality(Shortages) :
         w[k] = x /\ \A j \in 1 .. Cardinality(Shortages) : w[j] = x => j = k
  BY <1>1, <1>8
<1> QED
  <2> WITNESS w \in [1 .. Cardinality(Shortages) -> Shortages]
  <2> QED BY <1>10, <1>12

\* While two fetches hold all the shortages, each of them is on one page.
LEMMA ShortagesFollow ==
  ASSUME BoardTyped, BooksTyped, count \in [Items -> Int \cup {None}]
  PROVE  ShortagesListed
<1> SUFFICES ASSUME NEW per \in {1, 2},
                    Cardinality(Shortages) <= 2 * FetchSize(per),
                    \A i, j \in Shortages : i # j => stock[i] # stock[j],
                    NEW i \in Shortages
             PROVE  Cardinality({k \in 1 .. Cardinality(Items) :
                                   \E q \in BoardPage(k, per) : i \in Range(q)}) = 1
  BY DEF ShortagesListed
<1>1. per \in Nat /\ per >= 1
  OBVIOUS
<1>2. PICK n \in Nat, m \in Nat : n = Cardinality(Shortages) /\ m = Cardinality(Items) /\ n <= m
  <2>1. Shortages \subseteq Items /\ Items \subseteq Items
    BY DEF Shortages
  <2> QED BY <2>1, ItemsFinite
<1>3. IsFiniteSet(Shortages)
  <2>1. Shortages \subseteq Items
    BY DEF Shortages
  <2> QED BY <2>1, ItemsFinite
<1>4. PICK w \in [1 .. n -> Shortages] :
        /\ \A page \in Nat : page >= 1 => Window(page, per) = {w}
        /\ \A x \in Shortages : \E k \in 1 .. n : w[k] = x /\ \A j \in 1 .. n : w[j] = x => j = k
  <2>1. \E w \in [1 .. Cardinality(Shortages) -> Shortages] :
          /\ \A page \in Nat : page >= 1 => Window(page, per) = {w}
          /\ \A x \in Shortages : \E k \in 1 .. Cardinality(Shortages) :
               w[k] = x /\ \A j \in 1 .. Cardinality(Shortages) : w[j] = x => j = k
    BY <1>1, OneList
  <2> QED BY <1>2, <2>1
<1>5. w \in Seq(Shortages) /\ Len(w) = n
  BY <1>2, <1>4
<1>6. PICK p \in 1 .. n : w[p] = i /\ \A j \in 1 .. n : w[j] = i => j = p
  BY <1>4
<1>7. ASSUME NEW k \in 1 .. m
      PROVE  (\E q \in BoardPage(k, per) : i \in Range(q)) <=> (k - 1) * per < p /\ p <= k * per
  <2>1. k \in Nat /\ k >= 1
    BY <1>2
  <2>2. BoardPage(k, per) = {PageOf(w, k, per)}
    BY <1>4, <2>1 DEF BoardPage
  <2>3. i \in Range(PageOf(w, k, per)) <=> \E j \in 1 .. Len(w) : w[j] = i /\ (k - 1) * per < j /\ j <= k * per
    BY <1>1, <1>5, <2>1, PageOfItem
  <2>4. (\E j \in 1 .. n : w[j] = i /\ (k - 1) * per < j /\ j <= k * per) <=> (k - 1) * per < p /\ p <= k * per
    BY <1>6
  <2> QED BY <1>5, <2>2, <2>3, <2>4
<1>8. PICK at \in 1 .. m : \A k \in 1 .. m : ((k - 1) * per < p /\ p <= k * per) <=> k = at
  <2>1. CASE per = 1
    <3>1. p \in 1 .. m /\ \A k \in 1 .. m : ((k - 1) * 1 < p /\ p <= k * 1) <=> k = p
      BY <1>2
    <3> QED BY <2>1, <3>1
  <2>2. CASE per = 2
    <3>1. PICK h \in 1 .. m : h = (p + 1) \div 2
      BY <1>2
    <3>2. \A k \in 1 .. m : ((k - 1) * 2 < p /\ p <= k * 2) <=> k = h
      BY <1>2, <3>1
    <3> QED BY <2>2, <3>2
  <2> QED BY <2>1, <2>2
<1>9. {k \in 1 .. m : \E q \in BoardPage(k, per) : i \in Range(q)} = {at}
  BY <1>7, <1>8
<1>10. {k \in 1 .. Cardinality(Items) : \E q \in BoardPage(k, per) : i \in Range(q)} = {at}
  BY <1>2, <1>9
<1>11. Cardinality({at}) = 1
  BY FS_Singleton
<1> QED BY <1>10, <1>11

\* The screens that classify, count and page the items agree with each other: for
\* any items, reorder levels, disputes, requests and sizes of the fetches, the
\* low-stock board as long as its fetches hold all the shortages, a pending
\* truck as long as the lifecycle has put no delivered purchase back.
THEOREM ScreensTrue == Spec => []ScreensAgree
<1> DEFINE Typed == count \in [Items -> Int \cup {None}]
<1>1. BoardInv /\ Books /\ Typed => ScreensAgree
  <2> SUFFICES ASSUME BoardInv, Books, Typed PROVE ScreensAgree
    OBVIOUS
  <2>1. BoardTyped /\ BooksTyped
    BY DEF BoardInv, Books
  <2>2. CountsAgree /\ MovementGroups
    BY CountsFollow, MovementFollows
  <2>3. ShortagesListed
    BY <2>1, ShortagesFollow
  <2> QED BY <2>2, <2>3 DEF ScreensAgree
<1> QED BY <1>1, BooksInvariant, CountsTyped, PTL

=============================================================================
