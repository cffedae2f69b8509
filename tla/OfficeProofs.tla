---------------------------- MODULE OfficeProofs ----------------------------
(***************************************************************************)
(* Theorems about Office, for any requests, of any number, about any       *)
(* categories, types, items, suppliers and brokers.                        *)
(***************************************************************************)
EXTENDS Office, FiniteSetTheorems, TLAPS

(***************************************************************************)
(* The inductive invariant.                                                *)
(***************************************************************************)
\* What two requests under way are both about has been noted.
CrossInv == \A n \in Begun : \A m \in Begun \ {n} : Between(Body[n], Body[m]) \subseteq crossed

\* The price memory a request is about to write is what is missing, still.
SeedsPlanned(r, p) ==
  r.op \in {"item", "batch", "edit"} => {r.item} \X r.sups \subseteq seeds \cup p.seeds

\* The type it has found is of the category it writes, or of the one the item has.
TypePlanned(r, p) ==
  /\ r.op = "item" => p.type # None /\ Home[p.type] = r.cat
  /\ r.op = "edit" =>
       /\ p.type = None => r.cat = None
       /\ p.type # None /\ r.cat # None => Home[p.type] = r.cat
       /\ p.type # None /\ r.cat = None /\ r.item \in Stored \ crossed => Home[p.type] = item[r.item].cat

\* The code it has taken is above all codes.
CodePlanned(r, p) ==
  r.op \in {"item", "code"} /\ "codes" \notin crossed => p.code # 0 /\ \A i \in Stored : item[i].code < p.code

\* It has read all links of the supplier it relinks.
LinksPlanned(r, p) ==
  r.op = "editSupplier" /\ r.sup \notin crossed => \A l \in links : l[2] = r.sup => l \in p.old

\* What it has checked is still so.
StillChecked(r) ==
  /\ r.op = "dropCategory" /\ r.cat \notin crossed => ~Holds(r.cat)
  /\ r.op = "supplier" /\ r.sup \notin crossed => r.sup \notin suppliers
  /\ r.op = "dropBroker" => \A s \in suppliers \ crossed : primary[s] # r.broker

Planned(n) ==
  LET r == Body[n]
      p == plan[n]
  IN SeedsPlanned(r, p) /\ TypePlanned(r, p) /\ CodePlanned(r, p) /\ LinksPlanned(r, p) /\ StillChecked(r)

Base == IsFiniteSet(Stored) /\ links \subseteq brokers \X suppliers

OfficeInv ==
  /\ CrossInv /\ Base /\ \A n \in Begun : Planned(n)
  /\ TypeInCategory /\ DefaultsSeeded /\ LinkedPrimary

-----------------------------------------------------------------------------
(* The highest code. *)

\* A finite set of integers that is not empty has a largest element.
LEMMA FiniteHasMax ==
  ASSUME NEW S, S \subseteq Int, IsFiniteSet(S), S # {}
  PROVE  Max(S) \in S /\ \A x \in S : Max(S) >= x
<1> DEFINE HasMax(U) == \E x \in U : \A y \in U : x >= y
           Bad == {U \in FiniteSubsetsOf(S) : U # {} /\ ~HasMax(U)}
<1>1. Bad = {}
  <2> SUFFICES ASSUME Bad # {} PROVE FALSE
    OBVIOUS
  <2>1. PICK U \in Bad : \A V \in Bad : <<V, U>> \notin StrictSubsetOrdering(S)
    <3>1. IsWellFoundedOn(StrictSubsetOrdering(S), FiniteSubsetsOf(S))
      BY FS_StrictSubsetOrderingWellFounded
    <3>2. Bad \subseteq FiniteSubsetsOf(S)
      OBVIOUS
    <3> HIDE DEF Bad
    <3> QED BY <3>1, <3>2, WFMin
  <2>2. U \subseteq S /\ IsFiniteSet(U) /\ U # {} /\ ~HasMax(U)
    BY DEF FiniteSubsetsOf
  <2>3. PICK x \in U : TRUE
    BY <2>2
  <2> DEFINE V == U \ {x}
  <2>4. V \subseteq S /\ IsFiniteSet(V) /\ <<V, U>> \in StrictSubsetOrdering(S)
    BY <2>2, <2>3, FS_RemoveElement DEF StrictSubsetOrdering
  <2>5. V = {} \/ HasMax(V)
    BY <2>1, <2>4 DEF FiniteSubsetsOf
  <2>6. CASE V = {}
    <3>1. U = {x} /\ x \in Int
      BY <2>2, <2>3, <2>6
    <3> QED BY <2>2, <3>1
  <2>7. CASE HasMax(V)
    <3>1. PICK m \in V : \A y \in V : m >= y
      BY <2>7
    <3>2. \A y \in U : y = x \/ y \in V
      OBVIOUS
    <3>3. m \in Int /\ x \in Int /\ m \in U /\ x \in U /\ \A y \in U : y \in Int
      BY <2>2, <2>3, <3>1
    <3>4. CASE m >= x
      BY <2>2, <3>1, <3>2, <3>3, <3>4
    <3>5. CASE ~(m >= x)
      <4>1. \A y \in U : x >= y
        BY <3>1, <3>2, <3>3, <3>5
      <4> QED BY <2>2, <2>3, <4>1
    <3> QED BY <3>4, <3>5
  <2> QED BY <2>5, <2>6, <2>7
<1>2. HasMax(S)
  BY <1>1 DEF FiniteSubsetsOf
<1> QED BY <1>2 DEF Max

\* The next code is above every code stored.
LEMMA NextCodeAbove ==
  ASSUME TypeOK, Base
  PROVE  NextCode \in Nat \ {0} /\ \A i \in Stored : item[i].code < NextCode
<1> DEFINE codes == {item[i].code : i \in Stored}
<1>1. \A i \in Stored : item[i].code \in Nat
  BY DEF TypeOK, ItemRow
<1>2. IsFiniteSet(codes)
  <2> DEFINE f == [i \in Stored |-> item[i].code]
  <2>1. f \in Surjection(Stored, codes)
    BY DEF Surjection
  <2> QED BY <2>1, FS_Surjection DEF Base
<1>3. IsFiniteSet({0} \cup codes) /\ {0} \cup codes \subseteq Nat
  <2>1. IsFiniteSet(codes \cup {0})
    BY <1>2, FS_AddElement
  <2>2. {0} \cup codes = codes \cup {0}
    OBVIOUS
  <2> HIDE DEF codes
  <2>3. IsFiniteSet({0} \cup codes)
    BY <2>1, <2>2
  <2> QED BY <1>1, <2>3 DEF codes
<1>4. Max({0} \cup codes) \in {0} \cup codes /\ \A x \in {0} \cup codes : Max({0} \cup codes) >= x
  <2> HIDE DEF codes
  <2>1. {0} \cup codes \subseteq Int /\ {0} \cup codes # {}
    BY <1>3
  <2> QED BY <1>3, <2>1, FiniteHasMax
<1>5. NextCode = 1 + Max({0} \cup codes)
  BY DEF NextCode
<1>6. \A i \in Stored : item[i].code \in codes
  OBVIOUS
<1> HIDE DEF codes
<1>7. Max({0} \cup codes) \in Nat
  BY <1>3, <1>4
<1> QED BY <1>1, <1>4, <1>5, <1>6, <1>7

-----------------------------------------------------------------------------
(* Requests under way. *)

LEMMA RequestTyped ==
  ASSUME NEW n \in Requests
  PROVE  Body[n] \in Request /\ Named(Body[n])
BY OfficeAssumption

\* What a commit may do to what others have read: it writes what it is about.
Effect(r) ==
  /\ seeds \subseteq seeds'
  /\ \A i \in DOMAIN item' :
       /\ \/ i \in Stored /\ item'[i].cat = item[i].cat
          \/ i \in About(r) /\ item'[i].cat \in About(r)
       /\ \/ i \in Stored /\ item'[i].code = item[i].code
          \/ item'[i].code = 0
          \/ "codes" \in About(r)
  /\ \A l \in links' : l \in links \/ l[2] \in About(r)
  /\ \A s \in suppliers' :
       \/ s \in suppliers /\ primary'[s] \in {primary[s], None}
       \/ s \in About(r) /\ primary'[s] = r.broker

\* Two requests under way are both about what has been noted.
LEMMA BetweenNoted ==
  ASSUME CrossInv, NEW n \in Begun, NEW m \in Begun \ {n}
  PROVE  /\ About(Body[m]) \cap About(Body[n]) \subseteq crossed
         /\ Body[m].op = "dropBroker" /\ Body[n].broker = Body[m].broker => About(Body[n]) \subseteq crossed
<1>1. Between(Body[m], Body[n]) \subseteq crossed
  BY DEF CrossInv
<1> QED BY <1>1 DEF Between

\* So what a request under way has read stays true through another's commit,
\* but for what both are about.
LEMMA OthersPlanned ==
  ASSUME TypeOK, CrossInv, NEW n \in Begun, NEW m \in Begun \ {n}, Planned(m), Effect(Body[n]),
         plan'[m] = plan[m], crossed' = crossed
  PROVE  Planned(m)'
<1> PICK r, q, p : r = Body[m] /\ q = Body[n] /\ p = plan[m]
  OBVIOUS
<1>0. m \in Requests /\ n \in Requests
  BY DEF Begun
<1>1. r \in Request /\ Named(r) /\ q \in Request
  BY <1>0, RequestTyped
<1>2. /\ \A x : x \in About(r) /\ x \in About(q) => x \in crossed
      /\ r.op = "dropBroker" /\ q.broker = r.broker => About(q) \subseteq crossed
  BY BetweenNoted
<1>3. SeedsPlanned(r, p) /\ TypePlanned(r, p) /\ CodePlanned(r, p) /\ LinksPlanned(r, p) /\ StillChecked(r)
  BY DEF Planned
<1>4. \A i \in DOMAIN item' : \/ i \in Stored /\ item'[i].cat = item[i].cat
                              \/ i \in About(q) /\ item'[i].cat \in About(q)
  BY DEF Effect
<1>5. (SeedsPlanned(r, p))'
  BY <1>3 DEF SeedsPlanned, Effect
<1>6. (TypePlanned(r, p))'
  <2>1. r.op = "edit" => r.item \in About(r)
    BY <1>1, OfficeAssumption DEF About, Named, Request
  <2>2. \A i \in DOMAIN item' : i \in About(q) \/ (i \in Stored /\ item'[i].cat = item[i].cat)
    BY <1>4
  <2> QED BY <1>2, <1>3, <2>1, <2>2 DEF TypePlanned, Stored
<1>7. (CodePlanned(r, p))'
  <2>1. r.op \in {"item", "code"} => "codes" \in About(r)
    BY DEF About
  <2>2. \A i \in DOMAIN item' : \/ i \in Stored /\ item'[i].code = item[i].code
                                \/ item'[i].code = 0
                                \/ "codes" \in About(q)
    BY DEF Effect
  <2>3. p.code \in Nat
    BY <1>0 DEF TypeOK
  <2> QED BY <1>2, <1>3, <2>1, <2>2, <2>3 DEF CodePlanned, Stored
<1>8. (LinksPlanned(r, p))'
  <2>1. r.op = "editSupplier" => r.sup \in About(r)
    BY DEF About
  <2>2. \A l \in links' : l \in links \/ l[2] \in About(q)
    BY DEF Effect
  <2> QED BY <1>2, <1>3, <2>1, <2>2 DEF LinksPlanned
<1>9. (StillChecked(r))'
  <2>1. /\ r.op = "dropCategory" => r.cat \in About(r)
        /\ r.op = "supplier" => r.sup \in About(r)
    BY DEF About
  <2>2. \A s \in suppliers' : \/ s \in suppliers /\ primary'[s] \in {primary[s], None}
                              \/ s \in About(q) /\ primary'[s] = q.broker
    BY DEF Effect
  <2>3. r.op = "dropBroker" => r.broker # None
    BY <1>1 DEF Named
  <2>4. r.op = "dropCategory" /\ r.cat \notin crossed => ~Holds(r.cat)'
    BY <1>2, <1>3, <1>4, <2>1 DEF StillChecked, Holds, Stored
  <2>5. r.op = "supplier" /\ r.sup \notin crossed => r.sup \notin suppliers'
    BY <1>2, <1>3, <2>1, <2>2 DEF StillChecked
  <2>6. r.op = "dropBroker" => \A s \in suppliers' \ crossed : primary'[s] # r.broker
    BY <1>2, <1>3, <2>2, <2>3 DEF StillChecked
  <2> QED BY <2>4, <2>5, <2>6 DEF StillChecked
<1> QED BY <1>5, <1>6, <1>7, <1>8, <1>9 DEF Planned

-----------------------------------------------------------------------------
(* What each commit writes. *)

ItemsOK == TypeInCategory /\ DefaultsSeeded
RowTypes ==
  /\ cats \subseteq Cats /\ types \subseteq Types
  /\ Stored \subseteq Items /\ item \in [Stored -> ItemRow]
  /\ seeds \subseteq Items \X Suppliers
  /\ suppliers \subseteq Suppliers /\ brokers \subseteq Brokers
  /\ primary \in [Suppliers -> Brokers \cup {None}]
  /\ links \subseteq Brokers \X Suppliers
  /\ purchases \subseteq [sup : Suppliers, broker : Brokers \cup {None}, item : Items, open : BOOLEAN]
Written(r) == Effect(r) /\ RowTypes' /\ IsFiniteSet(Stored') /\ ItemsOK' /\ LinkedPrimary'

LEMMA RowsTyped == TypeOK => RowTypes
BY DEF TypeOK, RowTypes

\* A row that is put in its place.
LEMMA PutRow ==
  ASSUME TypeOK, IsFiniteSet(Stored), NEW i \in Items, NEW row \in ItemRow, Put(i, row)
  PROVE  /\ Stored' = Stored \cup {i} /\ Stored' \subseteq Items /\ item' \in [Stored' -> ItemRow]
         /\ DOMAIN item' = Stored \cup {i}
         /\ item'[i] = row /\ \A j \in Stored \ {i} : item'[j] = item[j]
         /\ IsFiniteSet(Stored')
<1>1. Stored' = Stored \cup {i} /\ DOMAIN item' = Stored \cup {i}
  BY DEF Put, Stored
<1>2. item'[i] = row /\ \A j \in Stored \ {i} : item'[j] = item[j]
  BY DEF Put
<1>3. item' \in [Stored' -> ItemRow] /\ Stored' \subseteq Items
  BY <1>1, <1>2 DEF Put, TypeOK
<1>4. IsFiniteSet(Stored \cup {i})
  BY FS_AddElement
<1> QED BY <1>1, <1>2, <1>3, <1>4

\* Rows that a commit drops, or whose category and code it leaves.
LEMMA Thinned ==
  ASSUME TypeOK, IsFiniteSet(Stored), ItemsOK, crossed' = crossed, seeds \subseteq seeds',
         item' \in [DOMAIN item' -> ItemRow], DOMAIN item' \subseteq Stored,
         \A i \in DOMAIN item' : /\ item'[i].cat = item[i].cat /\ item'[i].code = item[i].code
                                 /\ item'[i].type \in {item[i].type, None} /\ item'[i].sups \subseteq item[i].sups
  PROVE  /\ Stored' \subseteq Items /\ item' \in [Stored' -> ItemRow] /\ IsFiniteSet(Stored') /\ ItemsOK'
         /\ \A i \in DOMAIN item' : i \in Stored /\ item'[i].cat = item[i].cat /\ item'[i].code = item[i].code
<1>1. Stored' = DOMAIN item'
  BY DEF Stored
<1>2. IsFiniteSet(Stored')
  BY <1>1, FS_Subset
<1>3. TypeInCategory'
  BY <1>1 DEF ItemsOK, TypeInCategory
<1>4. DefaultsSeeded'
  BY <1>1 DEF ItemsOK, DefaultsSeeded
<1> QED BY <1>1, <1>2, <1>3, <1>4 DEF TypeOK, ItemsOK

\* A row put with a type of its category, and with seeds for its suppliers.
LEMMA PutKeeps ==
  ASSUME TypeOK, IsFiniteSet(Stored), ItemsOK, crossed' = crossed, seeds \subseteq seeds',
         NEW i \in Items, NEW row \in ItemRow, Put(i, row),
         i \notin crossed => row.type = None \/ Home[row.type] = row.cat,
         \A s \in row.sups : <<i, s>> \in seeds'
  PROVE  ItemsOK'
<1>1. /\ Stored' = Stored \cup {i}
      /\ item'[i] = row /\ \A j \in Stored \ {i} : item'[j] = item[j]
  BY PutRow
<1>2. TypeInCategory'
  BY <1>1 DEF ItemsOK, TypeInCategory
<1>3. DefaultsSeeded'
  BY <1>1 DEF ItemsOK, DefaultsSeeded
<1> QED BY <1>2, <1>3 DEF ItemsOK

LEMMA ContactsKept ==
  ASSUME LinkedPrimary, UNCHANGED <<suppliers, brokers, primary, links, crossed>>
  PROVE  LinkedPrimary'
BY DEF LinkedPrimary

LEMMA ItemsKeptSame ==
  ASSUME TypeOK, IsFiniteSet(Stored), ItemsOK, item' = item, seeds \subseteq seeds', crossed' = crossed
  PROVE  /\ Stored' \subseteq Items /\ item' \in [Stored' -> ItemRow] /\ IsFiniteSet(Stored') /\ ItemsOK'
         /\ \A i \in DOMAIN item' : i \in Stored /\ item'[i].cat = item[i].cat /\ item'[i].code = item[i].code
BY DEF TypeOK, ItemsOK, Stored, TypeInCategory, DefaultsSeeded

LEMMA CategoriesWritten ==
  ASSUME TypeOK, OfficeInv, crossed' = crossed, NEW r \in Request, Named(r),
         CreateCategory(r) \/ DeleteCategory(r) \/ CreateType(r) \/ DeleteType(r)
  PROVE  Written(r)
<1>1. UNCHANGED <<seeds, suppliers, brokers, primary, links, purchases>>
  BY DEF CreateCategory, DeleteCategory, CreateType, DeleteType
<1>2. ItemsOK /\ IsFiniteSet(Stored) /\ LinkedPrimary'
  BY <1>1, ContactsKept DEF OfficeInv, ItemsOK, Base
<1>3. cats' \subseteq Cats /\ types' \subseteq Types
  <2>1. r.op = "category" => General[r.cat] \in Types /\ r.cat \in Cats
    BY OfficeAssumption DEF Named, Request
  <2>2. r.op = "type" => r.type \in Types
    BY OfficeAssumption DEF Named, Request
  <2> QED BY <2>1, <2>2 DEF CreateCategory, DeleteCategory, CreateType, DeleteType, TypeOK
<1>4. /\ item' \in [DOMAIN item' -> ItemRow] /\ DOMAIN item' \subseteq Stored
      /\ \A i \in DOMAIN item' : /\ item'[i].cat = item[i].cat /\ item'[i].code = item[i].code
                                 /\ item'[i].type \in {item[i].type, None} /\ item'[i].sups \subseteq item[i].sups
  <2>1. CASE CreateCategory(r) \/ CreateType(r)
    BY <2>1 DEF CreateCategory, CreateType, TypeOK, Stored
  <2>2. CASE DeleteCategory(r)
    BY <2>2 DEF DeleteCategory, TypeOK
  <2>3. CASE DeleteType(r)
    <3>1. \A i \in Stored : item[i] \in ItemRow
      BY DEF TypeOK
    <3>2. /\ DOMAIN item' = Stored
          /\ \A i \in Stored : item'[i] = IF item[i].type = r.type THEN [item[i] EXCEPT !.type = None] ELSE item[i]
      BY <2>3 DEF DeleteType
    <3>3. \A i \in Stored : /\ item'[i] \in ItemRow /\ item'[i].cat = item[i].cat /\ item'[i].code = item[i].code
                            /\ item'[i].type \in {item[i].type, None} /\ item'[i].sups = item[i].sups
      BY <3>1, <3>2 DEF ItemRow
    <3> QED BY <2>3, <3>2, <3>3 DEF DeleteType
  <2> QED BY <2>1, <2>2, <2>3
<1>5. /\ Stored' \subseteq Items /\ item' \in [Stored' -> ItemRow] /\ IsFiniteSet(Stored') /\ ItemsOK'
      /\ \A i \in DOMAIN item' : i \in Stored /\ item'[i].cat = item[i].cat /\ item'[i].code = item[i].code
  BY <1>1, <1>2, <1>4, Thinned
<1>6. RowTypes'
  BY <1>1, <1>3, <1>5, RowsTyped DEF RowTypes
<1>7. Effect(r)
  BY <1>1, <1>5 DEF Effect
<1> QED BY <1>2, <1>5, <1>6, <1>7 DEF Written

\* What the creation of an item, by form, scan or batch, writes.
LEMMA ItemCreated ==
  ASSUME TypeOK, OfficeInv, crossed' = crossed, NEW n \in Begun, NEW r \in Request, r = Body[n], Named(r),
         NEW p, p = plan[n],
         CreateItem(r, p) \/ ScanItem(r) \/ BatchItem(r, p)
  PROVE  Written(r)
<1> USE DEF Stored
<1>1. UNCHANGED <<cats, suppliers, brokers, primary, links, purchases>>
  BY DEF CreateItem, ScanItem, BatchItem
<1>2. ItemsOK /\ IsFiniteSet(Stored) /\ LinkedPrimary'
  BY <1>1, ContactsKept DEF OfficeInv, ItemsOK, Base
<1>3. /\ n \in Requests /\ p.type \in Types \cup {None} /\ p.new \subseteq Types /\ p.code \in Nat
      /\ p.seeds \subseteq Items \X Suppliers
  BY DEF TypeOK, Begun
<1>4. /\ r.item \in Items /\ r.sups \subseteq Suppliers /\ r.code \in Nat /\ r.bar \in Nat
      /\ r.op \in {"scan", "batch"} => r.type \in Types /\ Home[r.type] \in Cats
      /\ r.op = "item" => r.cat \in Cats
  BY OfficeAssumption DEF Request, Named, CreateItem, ScanItem, BatchItem
<1>5. /\ seeds \subseteq seeds' /\ seeds' \subseteq Items \X Suppliers
      /\ types' \subseteq Types
      /\ r.op \in {"item", "batch"} => seeds' = seeds \cup p.seeds
  BY <1>3 DEF CreateItem, ScanItem, BatchItem, Inserts, TypeOK
<1>6. PICK row \in ItemRow :
        /\ Put(r.item, row) /\ (row.type = None \/ Home[row.type] = row.cat)
        /\ row.cat \in About(r)
        /\ (row.code = 0 \/ "codes" \in About(r))
        /\ (row.sups = {} \/ (r.op \in {"item", "batch"} /\ row.sups = r.sups))
  <2>1. CASE CreateItem(r, p)
    <3>1. r.op = "item" /\ Home[p.type] = r.cat
      BY <2>1 DEF CreateItem, OfficeInv, Planned, TypePlanned
    <3> DEFINE code == IF r.code = 0 THEN p.code ELSE r.code
               row == [cat |-> r.cat, type |-> p.type, code |-> code,
                       bar |-> IF r.bar = 0 THEN code ELSE r.bar, live |-> TRUE, sups |-> r.sups]
    <3>2. row \in ItemRow
      BY <1>3, <1>4, <3>1 DEF ItemRow
    <3>3. Put(r.item, row)
      BY <2>1 DEF CreateItem
    <3>4. r.cat \in About(r) /\ "codes" \in About(r)
      BY <3>1 DEF About
    <3>5. row.type = p.type /\ row.cat = r.cat /\ row.sups = r.sups
      OBVIOUS
    <3> HIDE DEF row
    <3> QED BY <3>1, <3>2, <3>3, <3>4, <3>5
  <2>2. CASE ScanItem(r)
    <3>1. r.op = "scan"
      BY <2>2 DEF ScanItem
    <3> DEFINE row == [cat |-> Home[r.type], type |-> r.type, code |-> r.code, bar |-> r.bar, live |-> TRUE, sups |-> {}]
    <3>2. row \in ItemRow
      BY <1>4, <3>1 DEF ItemRow
    <3>3. Put(r.item, row)
      BY <2>2 DEF ScanItem
    <3>4. Home[r.type] \in About(r) /\ "codes" \in About(r)
      BY <3>1 DEF About
    <3>5. row.type = r.type /\ row.cat = Home[r.type] /\ row.sups = {}
      OBVIOUS
    <3> HIDE DEF row
    <3> QED BY <3>1, <3>2, <3>3, <3>4, <3>5
  <2>3. CASE BatchItem(r, p)
    <3>1. r.op = "batch"
      BY <2>3 DEF BatchItem
    <3> DEFINE row == [cat |-> Home[r.type], type |-> r.type, code |-> 0, bar |-> 0, live |-> TRUE, sups |-> r.sups]
    <3>2. row \in ItemRow
      BY <1>4, <3>1 DEF ItemRow
    <3>3. Put(r.item, row)
      BY <2>3 DEF BatchItem
    <3>4. Home[r.type] \in About(r)
      BY <3>1 DEF About
    <3>5. row.type = r.type /\ row.cat = Home[r.type] /\ row.sups = r.sups /\ row.code = 0
      OBVIOUS
    <3> HIDE DEF row
    <3> QED BY <3>1, <3>2, <3>3, <3>4, <3>5
  <2> QED BY <2>1, <2>2, <2>3
<1>7. \A s \in row.sups : <<r.item, s>> \in seeds'
  <2>1. r.op \in {"item", "batch"} => {r.item} \X r.sups \subseteq seeds \cup p.seeds
    BY DEF OfficeInv, Planned, SeedsPlanned
  <2> QED BY <1>5, <1>6, <2>1
<1>8. /\ Stored' = Stored \cup {r.item} /\ Stored' \subseteq Items /\ item' \in [Stored' -> ItemRow]
      /\ DOMAIN item' = Stored \cup {r.item}
      /\ item'[r.item] = row /\ \A j \in Stored \ {r.item} : item'[j] = item[j]
      /\ IsFiniteSet(Stored')
  BY <1>2, <1>4, <1>6, PutRow
<1>9. ItemsOK'
  BY <1>2, <1>4, <1>5, <1>6, <1>7, PutKeeps
<1>10. RowTypes'
  BY <1>1, <1>5, <1>8, RowsTyped DEF RowTypes
<1>11. r.item \in About(r)
  BY DEF About, CreateItem, ScanItem, BatchItem
<1>12. Effect(r)
  BY <1>1, <1>5, <1>6, <1>8, <1>11 DEF Effect
<1> QED BY <1>2, <1>8, <1>9, <1>10, <1>12 DEF Written

\* What an edit of an item writes.
LEMMA ItemEdited ==
  ASSUME TypeOK, OfficeInv, crossed' = crossed, NEW n \in Begun, NEW r \in Request, r = Body[n], Named(r),
         NEW p, p = plan[n], UpdateItem(r, p)
  PROVE  Written(r)
<1> USE DEF Stored
<1>1. UNCHANGED <<cats, suppliers, brokers, primary, links, purchases>> /\ r.op = "edit" /\ r.item \in Stored
  BY DEF UpdateItem
<1>2. ItemsOK /\ IsFiniteSet(Stored) /\ LinkedPrimary'
  BY <1>1, ContactsKept DEF OfficeInv, ItemsOK, Base
<1>3. /\ n \in Requests /\ p.type \in Types \cup {None} /\ p.new \subseteq Types /\ p.code \in Nat
      /\ p.seeds \subseteq Items \X Suppliers
  BY DEF TypeOK, Begun
<1>4. /\ r.item \in Items /\ item[r.item] \in ItemRow /\ r.cat \in Cats \cup {None} /\ r.sups \subseteq Suppliers
      /\ r.code \in Nat /\ None \notin Types
  BY <1>1, OfficeAssumption DEF Request, TypeOK
<1>5. seeds' = seeds \cup p.seeds /\ seeds' \subseteq Items \X Suppliers /\ types' \subseteq Types
  BY <1>3 DEF UpdateItem, Inserts, TypeOK
<1> DEFINE sups == IF r.sups = {} THEN item[r.item].sups ELSE (item[r.item].sups \ p.old) \cup r.sups
           code == IF r.coded THEN r.code ELSE item[r.item].code
           old == [item[r.item] EXCEPT !.sups = sups, !.cat = CatAsked(r), !.code = code]
           row == IF p.type = None THEN old ELSE [old EXCEPT !.type = p.type]
<1>6. /\ row \in ItemRow /\ row.sups = sups /\ row.cat = CatAsked(r)
      /\ row.type = (IF p.type = None THEN item[r.item].type ELSE p.type)
      /\ row.code = code
  <2>1. CatAsked(r) \in Cats /\ sups \subseteq Suppliers /\ code \in Nat
    BY <1>4 DEF CatAsked, ItemRow
  <2> HIDE DEF sups, code
  <2> QED BY <1>3, <1>4, <2>1 DEF ItemRow
<1>7. Put(r.item, row)
  BY DEF UpdateItem
<1>8. /\ p.type = None => r.cat = None
      /\ p.type # None /\ r.cat # None => Home[p.type] = r.cat
      /\ p.type # None /\ r.cat = None /\ r.item \notin crossed => Home[p.type] = item[r.item].cat
      /\ {r.item} \X r.sups \subseteq seeds \cup p.seeds
  BY <1>1 DEF OfficeInv, Planned, TypePlanned, SeedsPlanned
<1>9. r.item \notin crossed => row.type = None \/ Home[row.type] = row.cat
  <2>1. r.item \notin crossed => item[r.item].type = None \/ Home[item[r.item].type] = item[r.item].cat
    BY <1>1, <1>2 DEF ItemsOK, TypeInCategory
  <2> HIDE DEF row
  <2> QED BY <1>6, <1>8, <2>1 DEF CatAsked
<1>10. \A s \in row.sups : <<r.item, s>> \in seeds'
  <2>1. \A s \in item[r.item].sups : <<r.item, s>> \in seeds
    BY <1>1, <1>2 DEF ItemsOK, DefaultsSeeded
  <2> HIDE DEF row
  <2> QED BY <1>5, <1>6, <1>8, <2>1
<1> HIDE DEF row
<1>11. /\ Stored' = Stored \cup {r.item} /\ Stored' \subseteq Items /\ item' \in [Stored' -> ItemRow]
       /\ DOMAIN item' = Stored \cup {r.item}
       /\ item'[r.item] = row /\ \A j \in Stored \ {r.item} : item'[j] = item[j]
       /\ IsFiniteSet(Stored')
  BY <1>2, <1>4, <1>6, <1>7, PutRow
<1>12. ItemsOK'
  BY <1>2, <1>4, <1>5, <1>6, <1>7, <1>9, <1>10, PutKeeps
<1>13. RowTypes'
  BY <1>1, <1>5, <1>11, RowsTyped DEF RowTypes
<1>14. /\ About(r) = ({r.item, r.cat} \ {None}) \cup (IF r.coded THEN {"codes"} ELSE {})
       /\ r.item # None
  BY <1>1, <1>4, OfficeAssumption DEF About
<1>15. row.cat = item[r.item].cat \/ (r.item \in About(r) /\ row.cat \in About(r))
  BY <1>6, <1>14 DEF CatAsked
<1>16. row.code = item[r.item].code \/ "codes" \in About(r)
  BY <1>6, <1>14
<1>17. Effect(r)
  BY <1>1, <1>5, <1>6, <1>11, <1>15, <1>16 DEF Effect
<1> QED BY <1>2, <1>11, <1>12, <1>13, <1>17 DEF Written

\* What the other changes of an item write.
LEMMA ItemRelabelled ==
  ASSUME TypeOK, OfficeInv, crossed' = crossed, NEW n \in Begun, NEW r \in Request, r = Body[n], Named(r),
         NEW p, p = plan[n], Relabel(r, p) \/ DeleteItem(r)
  PROVE  Written(r)
<1> USE DEF Stored
<1>1. UNCHANGED <<cats, types, seeds, suppliers, brokers, primary, links, purchases>> /\ r.item \in Stored
  BY DEF Relabel, DeleteItem
<1>2. ItemsOK /\ IsFiniteSet(Stored) /\ LinkedPrimary'
  BY <1>1, ContactsKept DEF OfficeInv, ItemsOK, Base
<1>3. CASE DeleteItem(r)
  <2>1. /\ item' \in [DOMAIN item' -> ItemRow] /\ DOMAIN item' \subseteq Stored
        /\ \A i \in DOMAIN item' : item'[i] = item[i]
    BY <1>3 DEF DeleteItem, TypeOK
  <2>2. /\ Stored' \subseteq Items /\ item' \in [Stored' -> ItemRow] /\ IsFiniteSet(Stored') /\ ItemsOK'
        /\ \A i \in DOMAIN item' : i \in Stored /\ item'[i].cat = item[i].cat /\ item'[i].code = item[i].code
    BY <1>1, <1>2, <2>1, Thinned
  <2>3. RowTypes'
    BY <1>1, <2>2, RowsTyped DEF RowTypes
  <2>4. Effect(r)
    BY <1>1, <2>2 DEF Effect
  <2> QED BY <1>2, <2>2, <2>3, <2>4 DEF Written
<1>4. CASE Relabel(r, p)
  <2>1. /\ item[r.item] \in ItemRow /\ r.item \in Items /\ r.code \in Nat /\ r.bar \in Nat /\ p.code \in Nat
        /\ r.op \in {"code", "setCode", "setBarcode", "archive"}
    BY <1>1, <1>4 DEF TypeOK, Request, Begun, Relabel
  <2>2. PICK row \in ItemRow :
          /\ Put(r.item, row) /\ row.cat = item[r.item].cat /\ row.type = item[r.item].type
          /\ row.sups = item[r.item].sups
          /\ (row.code = item[r.item].code \/ "codes" \in About(r))
    <3>1. CASE r.op = "code"
      <4>1. [item[r.item] EXCEPT !.code = p.code] \in ItemRow /\ "codes" \in About(r)
        BY <2>1, <3>1 DEF ItemRow, About
      <4>2. Put(r.item, [item[r.item] EXCEPT !.code = p.code])
        BY <1>4, <3>1 DEF Relabel
      <4> QED BY <2>1, <4>1, <4>2 DEF ItemRow
    <3>2. CASE r.op = "setCode"
      <4>1. [item[r.item] EXCEPT !.code = r.code] \in ItemRow /\ "codes" \in About(r)
        BY <2>1, <3>2 DEF ItemRow, About
      <4>2. Put(r.item, [item[r.item] EXCEPT !.code = r.code])
        BY <1>4, <3>2 DEF Relabel
      <4> QED BY <2>1, <4>1, <4>2 DEF ItemRow
    <3>3. CASE r.op = "setBarcode"
      <4>1. [item[r.item] EXCEPT !.bar = r.bar] \in ItemRow
        BY <2>1 DEF ItemRow
      <4>2. Put(r.item, [item[r.item] EXCEPT !.bar = r.bar])
        BY <1>4, <3>3 DEF Relabel
      <4> QED BY <2>1, <4>1, <4>2 DEF ItemRow
    <3>4. CASE r.op = "archive"
      <4>1. [item[r.item] EXCEPT !.live = FALSE] \in ItemRow
        BY <2>1 DEF ItemRow
      <4>2. Put(r.item, [item[r.item] EXCEPT !.live = FALSE])
        BY <1>4, <3>4 DEF Relabel
      <4> QED BY <2>1, <4>1, <4>2 DEF ItemRow
    <3> QED BY <2>1, <3>1, <3>2, <3>3, <3>4
  <2>3. /\ Stored' = Stored \cup {r.item} /\ Stored' \subseteq Items /\ item' \in [Stored' -> ItemRow]
        /\ DOMAIN item' = Stored \cup {r.item}
        /\ item'[r.item] = row /\ \A j \in Stored \ {r.item} : item'[j] = item[j]
        /\ IsFiniteSet(Stored')
    BY <1>2, <2>1, <2>2, PutRow
  <2>4. /\ r.item \notin crossed => row.type = None \/ Home[row.type] = row.cat
        /\ \A s \in row.sups : <<r.item, s>> \in seeds'
    BY <1>1, <1>2, <2>2 DEF ItemsOK, TypeInCategory, DefaultsSeeded
  <2>5. ItemsOK'
    BY <1>1, <1>2, <2>1, <2>2, <2>4, PutKeeps
  <2>6. RowTypes'
    BY <1>1, <2>3, RowsTyped DEF RowTypes
  <2>7. Effect(r)
    BY <1>1, <2>2, <2>3 DEF Effect
  <2> QED BY <1>2, <2>3, <2>5, <2>6, <2>7 DEF Written
<1> QED BY <1>3, <1>4

\* What a change of a supplier writes.
LEMMA SupplierWritten ==
  ASSUME TypeOK, OfficeInv, crossed' = crossed, NEW n \in Begun, NEW r \in Request, r = Body[n], Named(r),
         NEW p, p = plan[n], CreateSupplier(r) \/ UpdateSupplier(r, p)
  PROVE  Written(r)
<1>1. /\ UNCHANGED <<cats, types, item, seeds, brokers, purchases>>
      /\ r.op \in {"supplier", "editSupplier"} /\ r.sup \in Suppliers /\ r.brokers \subseteq Brokers
      /\ r.broker \in Brokers \cup {None} /\ None \notin Brokers
      /\ r.broker \in r.brokers \/ (r.broker = None /\ r.brokers = {})
      /\ About(r) = {r.sup}
  BY OfficeAssumption DEF CreateSupplier, UpdateSupplier, Named, Request, About
<1>2. /\ ItemsOK /\ IsFiniteSet(Stored) /\ LinkedPrimary /\ links \subseteq brokers \X suppliers
      /\ RowTypes
  BY RowsTyped DEF OfficeInv, ItemsOK, Base
<1>3. /\ Stored' \subseteq Items /\ item' \in [Stored' -> ItemRow] /\ IsFiniteSet(Stored') /\ ItemsOK'
      /\ \A i \in DOMAIN item' : i \in Stored /\ item'[i].cat = item[i].cat /\ item'[i].code = item[i].code
  BY <1>1, <1>2, ItemsKeptSame
<1>4. /\ suppliers' = suppliers \cup {r.sup}
      /\ primary' = [primary EXCEPT ![r.sup] = r.broker]
      /\ links' \subseteq links \cup (r.brokers \X {r.sup})
  BY DEF CreateSupplier, UpdateSupplier
<1>5. /\ primary'[r.sup] = r.broker
      /\ \A s \in suppliers \ {r.sup} : primary'[s] = primary[s]
  BY <1>1, <1>2, <1>4 DEF RowTypes
<1>6. r.sup \notin crossed => \A l \in links' : l[2] = r.sup => l[1] \in r.brokers
  <2>1. CASE CreateSupplier(r)
    <3>1. r.sup \notin crossed => r.sup \notin suppliers
      BY <2>1 DEF CreateSupplier, OfficeInv, Planned, StillChecked
    <3> QED BY <1>2, <1>4, <3>1
  <2>2. CASE UpdateSupplier(r, p)
    <3>1. r.sup \notin crossed => \A l \in links : l[2] = r.sup => l \in p.old
      BY <2>2 DEF UpdateSupplier, OfficeInv, Planned, LinksPlanned
    <3>2. links' = (links \ p.old) \cup (r.brokers \X {r.sup})
      BY <2>2 DEF UpdateSupplier
    <3> QED BY <3>1, <3>2
  <2> QED BY <2>1, <2>2
<1>7. LinkedPrimary'
  <2> SUFFICES ASSUME NEW s \in suppliers' \ crossed, NEW b \in brokers, <<b, s>> \in links' PROVE primary'[s] # None
    BY <1>1 DEF LinkedPrimary
  <2>1. CASE s = r.sup
    BY <1>1, <1>5, <1>6, <2>1
  <2>2. CASE s # r.sup
    <3>1. <<b, s>> \in links /\ s \in suppliers
      BY <1>4, <2>2
    <3> QED BY <1>2, <1>5, <2>2, <3>1 DEF LinkedPrimary
  <2> QED BY <2>1, <2>2
<1>8. RowTypes'
  BY <1>1, <1>2, <1>3, <1>4 DEF RowTypes
<1>9. Effect(r)
  BY <1>1, <1>3, <1>4, <1>5 DEF Effect
<1> QED BY <1>3, <1>7, <1>8, <1>9 DEF Written

\* What a change of a broker writes.
LEMMA BrokerWritten ==
  ASSUME TypeOK, OfficeInv, crossed' = crossed, NEW n \in Begun, NEW r \in Request, r = Body[n], Named(r),
         NEW p, p = plan[n], CreateBroker(r) \/ UpdateBroker(r, p)
  PROVE  Written(r)
<1>1. /\ UNCHANGED <<cats, types, item, seeds, suppliers, purchases>>
      /\ r.op \in {"broker", "editBroker"} /\ r.broker \in Brokers /\ None \notin Brokers
      /\ r.sups \subseteq Suppliers /\ About(r) = r.sups
  BY OfficeAssumption DEF CreateBroker, UpdateBroker, Named, Request, About
<1>2. /\ ItemsOK /\ IsFiniteSet(Stored) /\ LinkedPrimary /\ links \subseteq brokers \X suppliers
      /\ RowTypes
  BY RowsTyped DEF OfficeInv, ItemsOK, Base
<1>3. /\ Stored' \subseteq Items /\ item' \in [Stored' -> ItemRow] /\ IsFiniteSet(Stored') /\ ItemsOK'
      /\ \A i \in DOMAIN item' : i \in Stored /\ item'[i].cat = item[i].cat /\ item'[i].code = item[i].code
  BY <1>1, <1>2, ItemsKeptSame
<1>4. /\ brokers' = brokers \cup {r.broker}
      /\ primary' = [s \in Suppliers |-> IF s \in r.sups THEN r.broker ELSE primary[s]]
      /\ links' \subseteq links \cup ({r.broker} \X r.sups)
  BY DEF CreateBroker, UpdateBroker, Assigned
<1>5. LinkedPrimary'
  <2> SUFFICES ASSUME NEW s \in suppliers \ crossed, NEW b \in brokers', <<b, s>> \in links' PROVE primary'[s] # None
    BY <1>1 DEF LinkedPrimary
  <2>1. s \in Suppliers
    BY <1>2 DEF RowTypes
  <2>2. CASE s \in r.sups
    BY <1>1, <1>4, <2>1, <2>2
  <2>3. CASE s \notin r.sups
    <3>1. <<b, s>> \in links /\ b \in brokers
      BY <1>2, <1>4, <2>3
    <3> QED BY <1>2, <1>4, <2>1, <2>3, <3>1 DEF LinkedPrimary
  <2> QED BY <2>2, <2>3
<1>6. RowTypes'
  <2>1. primary' \in [Suppliers -> Brokers \cup {None}]
    BY <1>1, <1>2, <1>4 DEF RowTypes
  <2> QED BY <1>1, <1>2, <1>3, <1>4, <2>1 DEF RowTypes
<1>7. Effect(r)
  BY <1>1, <1>2, <1>3, <1>4 DEF Effect, RowTypes
<1> QED BY <1>3, <1>5, <1>6, <1>7 DEF Written

\* What deletions of suppliers and brokers, and purchases, write.
LEMMA ContactDeleted ==
  ASSUME TypeOK, OfficeInv, crossed' = crossed, NEW n \in Begun, NEW r \in Request, r = Body[n], Named(r),
         DeleteSupplier(r) \/ DeleteBroker(r)
  PROVE  Written(r)
<1>2. /\ ItemsOK /\ IsFiniteSet(Stored) /\ LinkedPrimary /\ links \subseteq brokers \X suppliers
      /\ RowTypes
  BY RowsTyped DEF OfficeInv, ItemsOK, Base
<1>3. UNCHANGED <<cats, types, seeds, links, purchases>>
  BY DEF DeleteSupplier, DeleteBroker
<1>4. /\ Stored' \subseteq Items /\ item' \in [Stored' -> ItemRow] /\ IsFiniteSet(Stored') /\ ItemsOK'
      /\ \A i \in DOMAIN item' : i \in Stored /\ item'[i].cat = item[i].cat /\ item'[i].code = item[i].code
  <2>1. CASE DeleteSupplier(r)
    <3>1. /\ DOMAIN item' = Stored
          /\ \A i \in Stored : item'[i] = [item[i] EXCEPT !.sups = @ \ {r.sup}]
      BY <2>1 DEF DeleteSupplier
    <3>2. \A i \in Stored : item[i] \in ItemRow
      BY DEF TypeOK
    <3>3. \A i \in Stored : /\ item'[i] \in ItemRow /\ item'[i].cat = item[i].cat /\ item'[i].code = item[i].code
                            /\ item'[i].type = item[i].type /\ item'[i].sups \subseteq item[i].sups
      BY <3>1, <3>2 DEF ItemRow
    <3>4. item' \in [DOMAIN item' -> ItemRow]
      BY <2>1, <3>1, <3>3 DEF DeleteSupplier
    <3> QED BY <1>2, <1>3, <3>1, <3>3, <3>4, Thinned
  <2>2. CASE DeleteBroker(r)
    BY <1>2, <1>3, <2>2, ItemsKeptSame DEF DeleteBroker
  <2> QED BY <2>1, <2>2
<1>5. suppliers' \subseteq suppliers /\ brokers' \subseteq brokers
  BY DEF DeleteSupplier, DeleteBroker
<1>6. /\ primary' \in [Suppliers -> Brokers \cup {None}]
      /\ \A s \in Suppliers : primary'[s] \in {primary[s], None}
  <2>1. CASE DeleteSupplier(r)
    BY <1>2, <2>1 DEF DeleteSupplier, RowTypes
  <2>2. CASE DeleteBroker(r)
    BY <1>2, <2>2 DEF DeleteBroker, RowTypes
  <2> QED BY <2>1, <2>2
<1>7. \A s \in suppliers' \ crossed : primary'[s] = primary[s]
  <2>1. CASE DeleteSupplier(r)
    BY <1>2, <2>1 DEF DeleteSupplier, RowTypes
  <2>2. CASE DeleteBroker(r)
    <3>1. \A s \in suppliers \ crossed : primary[s] # r.broker
      BY <2>2 DEF DeleteBroker, OfficeInv, Planned, StillChecked
    <3> QED BY <1>2, <2>2, <3>1 DEF DeleteBroker, RowTypes
  <2> QED BY <2>1, <2>2
<1>8. LinkedPrimary'
  BY <1>2, <1>3, <1>5, <1>7 DEF LinkedPrimary
<1>9. RowTypes'
  BY <1>2, <1>3, <1>4, <1>5, <1>6 DEF RowTypes
<1>10. Effect(r)
  BY <1>2, <1>3, <1>4, <1>5, <1>6 DEF Effect, RowTypes
<1> QED BY <1>4, <1>8, <1>9, <1>10 DEF Written

LEMMA PurchaseWritten ==
  ASSUME TypeOK, OfficeInv, crossed' = crossed, NEW n \in Begun, NEW r \in Request, r = Body[n], Named(r),
         NEW p, p = plan[n], Buy(r, p) \/ Void(r)
  PROVE  Written(r)
<1>1. UNCHANGED <<cats, item, suppliers, brokers, primary, links>>
  BY DEF Buy, Void
<1>2. /\ ItemsOK /\ IsFiniteSet(Stored) /\ LinkedPrimary /\ RowTypes
  BY RowsTyped DEF OfficeInv, ItemsOK, Base
<1>3. /\ p.new \subseteq Types /\ p.seeds \subseteq Items \X Suppliers
  BY DEF TypeOK, Begun
<1>4. /\ seeds \subseteq seeds' /\ seeds' \subseteq Items \X Suppliers /\ types' \subseteq Types
  BY <1>2, <1>3 DEF Buy, Void, Inserts, RowTypes
<1>5. purchases' \subseteq [sup : Suppliers, broker : Brokers \cup {None}, item : Items, open : BOOLEAN]
  <2> DEFINE P == [sup : Suppliers, broker : Brokers \cup {None}, item : Items, open : BOOLEAN]
  <2>1. purchases \subseteq P
    BY <1>2 DEF RowTypes
  <2>2. CASE Buy(r, p)
    <3>1. r.sup \in Suppliers /\ r.broker \in Brokers \cup {None} /\ r.item \in Items
      BY <2>2 DEF Buy, Named, Request
    <3>2. [sup |-> r.sup, broker |-> r.broker, item |-> r.item, open |-> TRUE] \in P
      BY <3>1
    <3>3. purchases' = purchases \cup {[sup |-> r.sup, broker |-> r.broker, item |-> r.item, open |-> TRUE]}
      BY <2>2 DEF Buy
    <3> HIDE DEF P
    <3>4. purchases' \subseteq P
      BY <2>1, <3>2, <3>3
    <3> QED BY <3>4 DEF P
  <2>3. CASE Void(r)
    <3>1. \A x \in P : [x EXCEPT !.open = FALSE] \in P
      OBVIOUS
    <3>2. \A x \in purchases : [x EXCEPT !.open = FALSE] \in P
      BY <2>1, <3>1
    <3>3. purchases' = {[x EXCEPT !.open = FALSE] : x \in purchases}
      BY <2>3 DEF Void
    <3> HIDE DEF P
    <3>4. purchases' \subseteq P
      BY <3>2, <3>3
    <3> QED BY <3>4 DEF P
  <2> QED BY <2>2, <2>3
<1>6. /\ Stored' \subseteq Items /\ item' \in [Stored' -> ItemRow] /\ IsFiniteSet(Stored') /\ ItemsOK'
      /\ \A i \in DOMAIN item' : i \in Stored /\ item'[i].cat = item[i].cat /\ item'[i].code = item[i].code
  BY <1>1, <1>2, <1>4, ItemsKeptSame
<1>7. LinkedPrimary'
  BY <1>1, <1>2, ContactsKept
<1>8. RowTypes'
  BY <1>1, <1>2, <1>4, <1>5, <1>6 DEF RowTypes
<1>9. Effect(r)
  BY <1>1, <1>4, <1>6 DEF Effect
<1> QED BY <1>6, <1>7, <1>8, <1>9 DEF Written

-----------------------------------------------------------------------------
(* Steps. *)

LEMMA CommitWritten ==
  ASSUME TypeOK, OfficeInv, NEW n \in Requests, Commit(n)
  PROVE  Written(Body[n])
<1>1. n \in Begun /\ crossed' = crossed
  BY DEF Commit, Ends
<1>2. Body[n] \in Request /\ Named(Body[n])
  BY RequestTyped
<1>3. Catalog(Body[n], plan[n]) \/ Contacts(Body[n], plan[n])
  BY DEF Commit
<1> PICK r, p : r = Body[n] /\ p = plan[n]
  OBVIOUS
<1>4. CASE Catalog(r, p)
  BY <1>1, <1>2, <1>4, CategoriesWritten, ItemCreated, ItemEdited, ItemRelabelled DEF Catalog
<1>5. CASE Contacts(r, p)
  BY <1>1, <1>2, <1>5, SupplierWritten, BrokerWritten, ContactDeleted, PurchaseWritten DEF Contacts
<1> QED BY <1>3, <1>4, <1>5

PlanRow == [type : Types \cup {None}, new : SUBSET Types, code : Nat,
            old : SUBSET (Suppliers \cup (Brokers \X Suppliers)), seeds : SUBSET (Items \X Suppliers)]

\* A request that ends leaves the others under way as they are.
LEMMA EndsLeaves ==
  ASSUME TypeOK, NEW n \in Requests, Ends(n)
  PROVE  /\ Begun' = Begun \ {n} /\ \A m \in Begun' : plan'[m] = plan[m]
         /\ crossed' = crossed
         /\ req' \in [Requests -> {"unsent", "begun", "done"}]
         /\ plan' \in [Requests -> PlanRow]
<1>1. req' = [req EXCEPT ![n] = "done"] /\ plan' = [plan EXCEPT ![n] = NoPlan] /\ crossed' = crossed
  BY DEF Ends
<1>2. \A m \in Requests : req'[m] = IF m = n THEN "done" ELSE req[m]
  BY <1>1 DEF TypeOK
<1>3. Begun' = Begun \ {n}
  BY <1>2 DEF Begun
<1>4. \A m \in Requests \ {n} : plan'[m] = plan[m]
  BY <1>1 DEF TypeOK
<1>5. NoPlan \in PlanRow
  BY DEF NoPlan, PlanRow
<1>6. plan' \in [Requests -> PlanRow]
  BY <1>1, <1>5 DEF TypeOK, PlanRow
<1> QED BY <1>1, <1>3, <1>4, <1>6 DEF TypeOK, Begun

LEMMA CommitKeeps ==
  ASSUME TypeOK, OfficeInv, NEW n \in Requests, Commit(n)
  PROVE  TypeOK' /\ OfficeInv'
<1>1. Written(Body[n]) /\ Ends(n) /\ n \in Begun
  BY CommitWritten DEF Commit, Ends
<1>2. /\ Begun' = Begun \ {n} /\ (\A m \in Begun' : plan'[m] = plan[m]) /\ crossed' = crossed
      /\ req' \in [Requests -> {"unsent", "begun", "done"}] /\ plan' \in [Requests -> PlanRow]
  BY <1>1, EndsLeaves
<1>3. TypeOK'
  BY <1>1, <1>2 DEF Written, RowTypes, TypeOK, PlanRow
<1>4. CrossInv'
  BY <1>2 DEF OfficeInv, CrossInv
<1>5. links' \subseteq brokers' \X suppliers'
  BY DEF Commit, Consistent
<1>6. \A m \in Begun' : Planned(m)'
  BY <1>1, <1>2, OthersPlanned DEF OfficeInv, Written
<1>7. ItemsOK' /\ LinkedPrimary' /\ Base'
  BY <1>1, <1>5 DEF Written, Base
<1> QED BY <1>3, <1>4, <1>6, <1>7 DEF OfficeInv, ItemsOK

LEMMA RefuseKeeps ==
  ASSUME TypeOK, OfficeInv, NEW n \in Requests, Refuse(n)
  PROVE  TypeOK' /\ OfficeInv'
<1>1. Ends(n) /\ n \in Begun
  BY DEF Refuse, Ends
<1>2. /\ UNCHANGED <<cats, types, item, seeds, suppliers, brokers, primary, links, purchases>>
  BY DEF Refuse, rows
<1>3. /\ Begun' = Begun \ {n} /\ (\A m \in Begun' : plan'[m] = plan[m]) /\ crossed' = crossed
      /\ req' \in [Requests -> {"unsent", "begun", "done"}] /\ plan' \in [Requests -> PlanRow]
  BY <1>1, EndsLeaves
<1>4. TypeOK'
  BY <1>2, <1>3 DEF TypeOK, PlanRow, Stored
<1>5. CrossInv' /\ Base' /\ TypeInCategory' /\ DefaultsSeeded' /\ LinkedPrimary'
  BY <1>2, <1>3 DEF OfficeInv, CrossInv, Base, TypeInCategory, DefaultsSeeded, LinkedPrimary, Stored
<1>6. \A m \in Begun' : Planned(m)'
  <2> SUFFICES ASSUME NEW m \in Begun' PROVE Planned(m)'
    OBVIOUS
  <2>1. Planned(m) /\ plan'[m] = plan[m]
    BY <1>3 DEF OfficeInv
  <2> QED BY <1>2, <1>3, <2>1 DEF Planned, SeedsPlanned, TypePlanned, CodePlanned, LinksPlanned, StillChecked, Holds, Stored
<1> QED BY <1>4, <1>5, <1>6 DEF OfficeInv

\* What a request reads when it begins.
LEMMA PlanRead ==
  ASSUME TypeOK, OfficeInv, NEW r \in Request, Named(r), Checked(r)
  PROVE  /\ Plan(r) \in PlanRow
         /\ SeedsPlanned(r, Plan(r)) /\ TypePlanned(r, Plan(r)) /\ CodePlanned(r, Plan(r))
         /\ LinksPlanned(r, Plan(r)) /\ StillChecked(r)
<1> USE DEF Stored
<1>1. NoPlan \in PlanRow
  BY DEF NoPlan, PlanRow
<1>2. NextCode \in Nat \ {0} /\ \A i \in Stored : item[i].code < NextCode
  BY NextCodeAbove DEF OfficeInv
<1>3. \A i \in Stored : item[i] \in ItemRow
  BY DEF TypeOK
<1>4. StillChecked(r)
  BY DEF Checked, StillChecked, CanDeleteBroker
<1>5. CASE r.op \in {"item", "edit"}
  <2> DEFINE cat == IF r.op = "item" THEN r.cat ELSE CatAsked(r)
             type == IF r.op = "item" \/ Moves(r) THEN TypeAsked(r, cat) ELSE None
             new == IF type = None \/ type \in types THEN {} ELSE {type}
             old == IF r.op = "edit" THEN item[r.item].sups ELSE {}
             missing == Missing(r.item, r.sups)
  <2>1. Plan(r) = [NoPlan EXCEPT !.type = type, !.new = new, !.code = NextCode, !.old = old, !.seeds = missing]
    BY <1>5 DEF Plan
  <2>2. r.item \in Items /\ r.sups \subseteq Suppliers /\ r.cat \in Cats \cup {None} /\ r.type \in Types \cup {None}
        /\ None \notin Cats /\ None \notin Types
    BY <1>5, OfficeAssumption DEF Named, Request
  <2>3. cat \in Cats
    <3>1. CASE r.op = "item"
      BY <2>2, <3>1 DEF Named
    <3>2. CASE r.op = "edit"
      <4>1. r.item \in Stored
        BY <3>2 DEF Checked, CanEditItem
      <4> QED BY <1>3, <2>2, <3>2, <4>1 DEF CatAsked, ItemRow
    <3> QED BY <1>5, <3>1, <3>2
  <2>4. /\ type \in Types \cup {None}
        /\ type = None => r.op = "edit" /\ r.cat = None
        /\ type # None => Home[type] = cat
    <3>1. General[cat] \in Types /\ Home[General[cat]] = cat
      BY <2>3, OfficeAssumption
    <3>2. r.type = None \/ Home[r.type] = cat
      <4>1. CASE r.op = "item"
        BY <4>1 DEF Checked, CanCreateItem, InCategory
      <4>2. CASE r.op = "edit"
        BY <4>2 DEF Checked, CanEditItem, InCategory
      <4> QED BY <1>5, <4>1, <4>2
    <3> HIDE DEF cat
    <3> QED BY <1>5, <2>2, <3>1, <3>2 DEF TypeAsked, Moves
  <2>5. r.op = "edit" /\ r.cat = None => cat = item[r.item].cat
    BY DEF CatAsked
  <2>6. r.cat # None => cat = r.cat
    BY <1>5 DEF CatAsked
  <2>7. new \subseteq Types /\ missing \subseteq Items \X Suppliers /\ {r.item} \X r.sups \subseteq seeds \cup missing
    <3>1. new \subseteq Types
      BY <2>4
    <3> QED BY <2>2, <3>1 DEF Missing
  <2>8. old \subseteq Suppliers
    <3>1. CASE r.op = "edit"
      <4>1. r.item \in Stored
        BY <3>1 DEF Checked, CanEditItem
      <4>2. item[r.item] \in ItemRow
        BY <1>3, <4>1
      <4> QED BY <3>1, <4>2 DEF ItemRow
    <3>2. CASE r.op # "edit"
      BY <3>2
    <3> QED BY <3>1, <3>2
  <2>9. r.op = "item" => r.cat # None
    BY DEF Named
  <2> HIDE DEF cat, type, new, old, missing
  <2>10. /\ Plan(r) \in PlanRow /\ Plan(r).type = type /\ Plan(r).code = NextCode /\ Plan(r).seeds = missing
    <3>1. Plan(r) = [type |-> type, new |-> new, code |-> NextCode, old |-> old, seeds |-> missing]
      BY <2>1 DEF NoPlan
    <3>2. old \subseteq Suppliers \cup (Brokers \X Suppliers) /\ NextCode \in Nat
      BY <1>2, <2>8
    <3>3. Plan(r) \in PlanRow
      BY <2>4, <2>7, <3>1, <3>2 DEF PlanRow
    <3> QED BY <3>1, <3>3
  <2>11. SeedsPlanned(r, Plan(r))
    BY <2>7, <2>10 DEF SeedsPlanned
  <2>12. TypePlanned(r, Plan(r))
    BY <2>4, <2>5, <2>6, <2>9, <2>10 DEF TypePlanned
  <2>13. CodePlanned(r, Plan(r))
    BY <1>2, <2>10 DEF CodePlanned
  <2>14. LinksPlanned(r, Plan(r))
    BY <1>5 DEF LinksPlanned
  <2> QED BY <1>4, <2>10, <2>11, <2>12, <2>13, <2>14
<1>6. CASE r.op = "batch"
  <2>1. Plan(r) = [NoPlan EXCEPT !.seeds = Missing(r.item, r.sups)]
    BY <1>6 DEF Plan
  <2>2. r.item \in Items /\ r.sups \subseteq Suppliers
    BY <1>6 DEF Named, Request
  <2>3. /\ Missing(r.item, r.sups) \subseteq Items \X Suppliers
        /\ {r.item} \X r.sups \subseteq seeds \cup Missing(r.item, r.sups)
    BY <2>2 DEF Missing
  <2>4. Plan(r) \in PlanRow /\ Plan(r).seeds = Missing(r.item, r.sups)
    BY <1>1, <2>1, <2>3 DEF PlanRow
  <2> QED BY <1>4, <1>6, <2>3, <2>4 DEF SeedsPlanned, TypePlanned, CodePlanned, LinksPlanned
<1>7. CASE r.op = "code"
  <2>1. Plan(r) = [NoPlan EXCEPT !.code = NextCode]
    BY <1>7 DEF Plan
  <2>2. Plan(r) \in PlanRow /\ Plan(r).code = NextCode
    BY <1>1, <1>2, <2>1 DEF PlanRow
  <2> QED BY <1>2, <1>4, <1>7, <2>2 DEF SeedsPlanned, TypePlanned, CodePlanned, LinksPlanned
<1>8. CASE r.op = "editSupplier"
  <2>1. Plan(r) = [NoPlan EXCEPT !.old = {l \in links : l[2] = r.sup}]
    BY <1>8 DEF Plan
  <2>2. {l \in links : l[2] = r.sup} \subseteq Brokers \X Suppliers
    BY DEF TypeOK
  <2>3. Plan(r) \in PlanRow /\ Plan(r).old = {l \in links : l[2] = r.sup}
    BY <1>1, <2>1, <2>2 DEF PlanRow
  <2> QED BY <1>4, <1>8, <2>3 DEF SeedsPlanned, TypePlanned, CodePlanned, LinksPlanned
<1>9. CASE r.op \notin {"item", "edit", "batch", "code", "editSupplier"}
  <2>1. Plan(r) \in PlanRow
    <3>1. CASE r.op = "editBroker"
      <4>1. Plan(r) = [NoPlan EXCEPT !.old = {l \in links : l[1] = r.broker}]
        BY <3>1 DEF Plan
      <4>2. {l \in links : l[1] = r.broker} \subseteq Brokers \X Suppliers
        BY DEF TypeOK
      <4> QED BY <1>1, <4>1, <4>2 DEF PlanRow
    <3>2. CASE r.op = "buy"
      <4>1. Plan(r) = [NoPlan EXCEPT !.seeds = Missing(r.item, {r.sup})]
        BY <3>2 DEF Plan
      <4>2. Missing(r.item, {r.sup}) \subseteq Items \X Suppliers
        BY <3>2 DEF Named, Request, Missing
      <4> QED BY <1>1, <4>1, <4>2 DEF PlanRow
    <3>3. CASE r.op \notin {"editBroker", "buy"}
      <4>1. Plan(r) = NoPlan
        BY <1>9, <3>3 DEF Plan
      <4> QED BY <1>1, <4>1
    <3> QED BY <3>1, <3>2, <3>3
  <2> QED BY <1>4, <1>9, <2>1 DEF SeedsPlanned, TypePlanned, CodePlanned, LinksPlanned
<1> QED BY <1>5, <1>6, <1>7, <1>8, <1>9

\* A request that begins reads what is so, and notes what others are about.
LEMMA BeginKeeps ==
  ASSUME TypeOK, OfficeInv, NEW n \in Requests, Begin(n)
  PROVE  TypeOK' /\ OfficeInv'
<1>1. /\ UNCHANGED <<cats, types, item, seeds, suppliers, brokers, primary, links, purchases>>
      /\ req' = [req EXCEPT ![n] = "begun"] /\ plan' = [plan EXCEPT ![n] = Plan(Body[n])]
      /\ crossed' = crossed \cup UNION {Between(Body[n], Body[m]) : m \in Begun}
      /\ Checked(Body[n]) /\ req[n] = "unsent"
  BY DEF Begin, rows
<1>2. Body[n] \in Request /\ Named(Body[n])
  BY RequestTyped
<1>3. /\ Plan(Body[n]) \in PlanRow
      /\ SeedsPlanned(Body[n], Plan(Body[n])) /\ TypePlanned(Body[n], Plan(Body[n]))
      /\ CodePlanned(Body[n], Plan(Body[n])) /\ LinksPlanned(Body[n], Plan(Body[n])) /\ StillChecked(Body[n])
  BY <1>1, <1>2, PlanRead
<1>4. Begun' = Begun \cup {n} /\ n \notin Begun
  <2>1. \A m \in Requests : req'[m] = IF m = n THEN "begun" ELSE req[m]
    BY <1>1 DEF TypeOK
  <2> QED BY <1>1, <2>1 DEF Begun
<1>5. plan'[n] = Plan(Body[n]) /\ \A m \in Requests \ {n} : plan'[m] = plan[m]
  BY <1>1 DEF TypeOK
<1>6. TypeOK'
  <2>1. req' \in [Requests -> {"unsent", "begun", "done"}]
    BY <1>1 DEF TypeOK
  <2>2. plan' \in [Requests -> PlanRow]
    BY <1>1, <1>3 DEF TypeOK, PlanRow
  <2> QED BY <1>1, <2>1, <2>2 DEF TypeOK, Stored, PlanRow
<1>7. crossed \subseteq crossed' /\ \A m \in Begun : Between(Body[n], Body[m]) \subseteq crossed'
  BY <1>1
<1>8. CrossInv'
  <2>1. \A m \in Begun : Between(Body[m], Body[n]) \subseteq crossed'
    <3> SUFFICES ASSUME NEW m \in Begun PROVE Between(Body[m], Body[n]) \subseteq crossed'
      OBVIOUS
    <3>1. CASE Body[m].op = "dropBroker" /\ Body[n].op = "dropBroker"
      <4>1. About(Body[m]) = {} /\ About(Body[n]) = {}
        BY <3>1 DEF About
      <4> QED BY <4>1 DEF Between
    <3>2. CASE ~(Body[m].op = "dropBroker" /\ Body[n].op = "dropBroker")
      <4>1. Between(Body[m], Body[n]) = Between(Body[n], Body[m])
        BY <3>2 DEF Between
      <4> QED BY <1>7, <4>1
    <3> QED BY <3>1, <3>2
  <2>2. \A k, m \in Begun : k # m => Between(Body[k], Body[m]) \subseteq crossed'
    BY <1>7 DEF OfficeInv, CrossInv
  <2> SUFFICES ASSUME NEW k \in Begun', NEW m \in Begun', k # m
               PROVE  Between(Body[k], Body[m]) \subseteq crossed'
    BY DEF CrossInv
  <2> QED BY <1>4, <1>7, <2>1, <2>2
<1>9. Base' /\ TypeInCategory' /\ DefaultsSeeded' /\ LinkedPrimary'
  BY <1>1, <1>7 DEF OfficeInv, Base, TypeInCategory, DefaultsSeeded, LinkedPrimary, Stored
<1>10. ASSUME NEW m \in Begun' PROVE Planned(m)'
  <2> PICK r, p : r = Body[m] /\ p = plan'[m]
    OBVIOUS
  <2>1. SeedsPlanned(r, p) /\ TypePlanned(r, p) /\ CodePlanned(r, p) /\ LinksPlanned(r, p) /\ StillChecked(r)
    <3>1. CASE m = n
      BY <1>3, <1>5, <3>1
    <3>2. CASE m # n
      <4>1. m \in Begun /\ m \in Requests
        BY <1>4, <3>2 DEF Begun
      <4>2. p = plan[m]
        BY <1>5, <3>2, <4>1
      <4> QED BY <4>1, <4>2 DEF OfficeInv, Planned
    <3> QED BY <3>1, <3>2
  <2>2. (SeedsPlanned(r, p) /\ TypePlanned(r, p) /\ CodePlanned(r, p) /\ LinksPlanned(r, p) /\ StillChecked(r))'
    BY <1>1, <1>7, <2>1 DEF SeedsPlanned, TypePlanned, CodePlanned, LinksPlanned, StillChecked, Holds, Stored
  <2> QED BY <2>2 DEF Planned
<1> QED BY <1>6, <1>8, <1>9, <1>10 DEF OfficeInv

\* The first rows satisfy the invariant.
LEMMA InitKeeps ==
  ASSUME Init
  PROVE  TypeOK /\ OfficeInv
<1> USE DEF Stored
<1>1. /\ item = FirstItems /\ suppliers = DOMAIN FirstContacts /\ purchases = {} /\ crossed = {}
      /\ cats = {FirstItems[i].cat : i \in DOMAIN FirstItems}
      /\ types = {General[c] : c \in cats} \cup {FirstItems[i].type : i \in DOMAIN FirstItems}
      /\ seeds = {x \in Items \X Suppliers : x[1] \in Stored /\ x[2] \in item[x[1]].sups}
      /\ brokers = {FirstContacts[s] : s \in suppliers}
      /\ primary = [s \in Suppliers |-> IF s \in suppliers THEN FirstContacts[s] ELSE None]
      /\ links = {<<FirstContacts[s], s>> : s \in suppliers}
      /\ req = [n \in Requests |-> "unsent"] /\ plan = [n \in Requests |-> NoPlan]
  BY DEF Init
<1>2. \A i \in Stored : FirstItems[i] \in ItemRow /\ i \in Items
  BY <1>1, FirstAssumption
<1>3. suppliers \subseteq Suppliers /\ \A s \in suppliers : FirstContacts[s] \in Brokers
  BY <1>1, FirstAssumption
<1>4. Begun = {}
  BY <1>1 DEF Begun
<1>5. cats \subseteq Cats
  BY <1>1, <1>2 DEF ItemRow
<1>6. types \subseteq Types
  <2>1. \A c \in cats : General[c] \in Types
    BY <1>5, OfficeAssumption
  <2>2. \A i \in DOMAIN FirstItems : FirstItems[i].type \in Types
    BY FirstAssumption
  <2> QED BY <1>1, <2>1, <2>2
<1>7. brokers \subseteq Brokers /\ links \subseteq Brokers \X Suppliers /\ links \subseteq brokers \X suppliers
  BY <1>1, <1>3
<1>8. primary \in [Suppliers -> Brokers \cup {None}]
  BY <1>1, <1>3
<1>9. plan \in [Requests -> PlanRow]
  <2>1. NoPlan \in PlanRow
    BY DEF NoPlan, PlanRow
  <2> QED BY <1>1, <2>1
<1>10. item \in [Stored -> ItemRow] /\ Stored \subseteq Items /\ seeds \subseteq Items \X Suppliers
  BY <1>1, <1>2, FirstAssumption
<1>11. TypeOK
  <2>1. req \in [Requests -> {"unsent", "begun", "done"}] /\ purchases = {}
    BY <1>1
  <2> QED BY <1>3, <1>5, <1>6, <1>7, <1>8, <1>9, <1>10, <2>1 DEF TypeOK, PlanRow
<1>12. CrossInv /\ (\A n \in Begun : Planned(n)) /\ Base
  BY <1>1, <1>4, <1>7, FirstAssumption DEF CrossInv, Base
<1>13. TypeInCategory
  BY <1>1, FirstAssumption DEF TypeInCategory
<1>14. DefaultsSeeded
  <2> SUFFICES ASSUME NEW i \in Stored, NEW s \in item[i].sups PROVE <<i, s>> \in seeds
    BY DEF DefaultsSeeded
  <2>1. i \in Items /\ s \in Suppliers
    BY <1>1, <1>2 DEF ItemRow
  <2> QED BY <1>1, <2>1
<1>15. LinkedPrimary
  <2>1. \A s \in suppliers : primary[s] \in Brokers
    BY <1>1, <1>3
  <2> QED BY <2>1, OfficeAssumption DEF LinkedPrimary
<1> QED BY <1>11, <1>12, <1>13, <1>14, <1>15 DEF OfficeInv

-----------------------------------------------------------------------------
(* The theorems. *)

\* Every step keeps the invariant.
LEMMA StepKeeps == TypeOK /\ OfficeInv /\ [Next]_vars => TypeOK' /\ OfficeInv'
<1> SUFFICES ASSUME TypeOK, OfficeInv, [Next]_vars PROVE TypeOK' /\ OfficeInv'
  OBVIOUS
<1>1. CASE Next
  <2>1. PICK n \in Requests : Begin(n) \/ Commit(n) \/ Refuse(n)
    BY <1>1 DEF Next
  <2> QED BY <2>1, BeginKeeps, CommitKeeps, RefuseKeeps
<1>2. CASE UNCHANGED vars
  <2>1. UNCHANGED <<cats, types, item, seeds, suppliers, brokers, primary, links, purchases, req, plan, crossed>>
    BY <1>2 DEF vars, rows
  <2>2. TypeOK'
    BY <2>1 DEF TypeOK, Stored
  <2>3. CrossInv' /\ Base' /\ TypeInCategory' /\ DefaultsSeeded' /\ LinkedPrimary'
    BY <2>1 DEF OfficeInv, CrossInv, Base, TypeInCategory, DefaultsSeeded, LinkedPrimary, Stored, Begun
  <2>4. \A m \in Begun' : Planned(m)'
    BY <2>1 DEF OfficeInv, Planned, SeedsPlanned, TypePlanned, CodePlanned, LinksPlanned, StillChecked, Holds, Stored, Begun
  <2> QED BY <2>2, <2>3, <2>4 DEF OfficeInv
<1> QED BY <1>1, <1>2

\* The invariant holds always.
LEMMA Invariance == Spec => [](TypeOK /\ OfficeInv)
<1>1. Init => TypeOK /\ OfficeInv
  BY InitKeeps
<1> QED BY <1>1, StepKeeps, PTL DEF Spec

\* Every table keeps the shape of its rows, and what a request under way has
\* read has the shape of what it will write.
THEOREM OfficeTypeCorrect == Spec => []TypeOK
BY Invariance, PTL

\* Whatever requests are sent and however they overlap, an item no two
\* overlapping requests were about has a type of its own category.
THEOREM TypesInCategory == Spec => []TypeInCategory
<1>1. OfficeInv => TypeInCategory
  BY DEF OfficeInv
<1> QED BY <1>1, Invariance, PTL

\* Default suppliers keep their rows of supplier_item_defaults and suppliers
\* with brokers linked keep one of their own, from whichever side they are set.
THEOREM LinksKept == Spec => []Linked
<1>1. OfficeInv => Linked
  BY DEF OfficeInv, Linked
<1> QED BY <1>1, Invariance, PTL

\* No item is lost: it goes with its own deletion or with that of its
\* category, the latter only when another request was about the category too.
THEOREM ItemsStay == Spec => ItemsKept
<1> DEFINE Goes == \A i \in Stored : i \notin DOMAIN item' =>
                     \/ \E n \in Begun \ Begun' : Body[n].op = "dropItem" /\ Body[n].item = i
                     \/ item[i].cat \in crossed
<1>1. TypeOK /\ OfficeInv /\ [Next]_vars => [Goes]_vars
  <2> SUFFICES ASSUME TypeOK, OfficeInv, Next, NEW i \in Stored, i \notin DOMAIN item'
               PROVE  \/ \E n \in Begun \ Begun' : Body[n].op = "dropItem" /\ Body[n].item = i
                      \/ item[i].cat \in crossed
    OBVIOUS
  <2>1. PICK n \in Requests : Begin(n) \/ Commit(n) \/ Refuse(n)
    BY DEF Next
  <2>2. item' # item
    BY DEF Stored
  <2>3. Commit(n)
    BY <2>1, <2>2 DEF Begin, Refuse, rows
  <2>4. n \in Begun \ Begun'
    BY <2>3, EndsLeaves DEF Commit, Ends
  <2> PICK r, p : r = Body[n] /\ p = plan[n]
    OBVIOUS
  <2>5. Catalog(r, p) \/ Contacts(r, p)
    BY <2>3 DEF Commit
  <2>6. \A j \in Items : \A row : Put(j, row) => i \in DOMAIN item'
    BY DEF Put
  <2>7. r.op \in {"item", "scan", "batch", "edit", "code", "setCode", "setBarcode", "archive"} => r.item \in Items
    BY RequestTyped DEF Named, Request
  <2>8. DeleteCategory(r) \/ DeleteItem(r)
    <3>1. ~(CreateItem(r, p) \/ ScanItem(r) \/ BatchItem(r, p) \/ UpdateItem(r, p) \/ Relabel(r, p))
      BY <2>6, <2>7 DEF CreateItem, ScanItem, BatchItem, UpdateItem, Relabel
    <3>2. ~(CreateCategory(r) \/ CreateType(r))
      BY <2>2 DEF CreateCategory, CreateType
    <3>3. ~DeleteType(r)
      BY DEF DeleteType
    <3>4. ~Contacts(r, p)
      <4>1. ~DeleteSupplier(r)
        BY DEF DeleteSupplier
      <4> QED BY <2>2, <4>1 DEF Contacts, CreateSupplier, UpdateSupplier, CreateBroker, UpdateBroker, DeleteBroker, Buy, Void
    <3> QED BY <2>5, <3>1, <3>2, <3>3, <3>4 DEF Catalog
  <2>9. CASE DeleteItem(r)
    BY <2>4, <2>9 DEF DeleteItem, Stored
  <2>10. CASE DeleteCategory(r)
    <3>1. r.op = "dropCategory" /\ item[i].cat = r.cat
      BY <2>10 DEF DeleteCategory
    <3>2. r.cat \notin crossed => ~Holds(r.cat)
      BY <2>4, <3>1 DEF OfficeInv, Planned, StillChecked
    <3> QED BY <3>1, <3>2 DEF Holds
  <2> QED BY <2>8, <2>9, <2>10
<1> QED BY <1>1, Invariance, PTL DEF Spec, ItemsKept

\* The code the server gives an item is no other item's, as long as no two
\* requests that set codes overlap.
THEOREM CodesNew == Spec => AutoCodeFresh
<1> DEFINE Fresh ==
      \A n \in Begun \ Begun' :
        Body[n].op \in {"item", "code"} /\ Body[n].code = 0 /\ "codes" \notin crossed /\ item' # item
          => \A j \in Stored \ {Body[n].item} : item[j].code # item'[Body[n].item].code
<1>1. TypeOK /\ OfficeInv /\ [Next]_vars => [Fresh]_vars
  <2> SUFFICES ASSUME TypeOK, OfficeInv, Next, NEW n \in Begun \ Begun',
                      Body[n].op \in {"item", "code"}, Body[n].code = 0, "codes" \notin crossed, item' # item,
                      NEW j \in Stored \ {Body[n].item}
               PROVE  item[j].code # item'[Body[n].item].code
    OBVIOUS
  <2>1. PICK m \in Requests : Begin(m) \/ Commit(m) \/ Refuse(m)
    BY DEF Next
  <2>2. Commit(m)
    BY <2>1 DEF Begin, Refuse, rows
  <2>3. m = n
    BY <2>2, EndsLeaves DEF Commit
  <2> PICK r, p : r = Body[n] /\ p = plan[n]
    OBVIOUS
  <2>4. Catalog(r, p) \/ Contacts(r, p)
    BY <2>2, <2>3 DEF Commit
  <2>5. p.code # 0 /\ \A i \in Stored : item[i].code < p.code
    BY DEF OfficeInv, Planned, CodePlanned
  <2>6. r.item \in Items /\ r \in Request
    BY RequestTyped DEF Named, Request, Begun
  <2>7. item[j].code # p.code
    <3>1. item[j].code \in Nat /\ p.code \in Nat
      BY DEF TypeOK, ItemRow, Begun
    <3> QED BY <2>5, <3>1
  <2>8. item'[r.item].code = p.code
    <3>1. CreateItem(r, p) \/ Relabel(r, p)
      BY <2>4 DEF Catalog, Contacts, CreateCategory, DeleteCategory, CreateType, DeleteType, ScanItem, BatchItem,
                  UpdateItem, DeleteItem, CreateSupplier, UpdateSupplier, DeleteSupplier, CreateBroker, UpdateBroker,
                  DeleteBroker, Buy, Void
    <3>2. CASE CreateItem(r, p)
      BY <3>2 DEF CreateItem, Put
    <3>3. CASE Relabel(r, p)
      <4>1. r.op = "code" /\ r.item \in Stored
        BY <3>3 DEF Relabel
      <4>2. Put(r.item, [item[r.item] EXCEPT !.code = p.code])
        BY <3>3, <4>1 DEF Relabel
      <4>3. item[r.item] \in ItemRow
        BY <4>1 DEF TypeOK
      <4> QED BY <4>1, <4>2, <4>3 DEF Put, ItemRow
    <3> QED BY <3>1, <3>2, <3>3
  <2> QED BY <2>7, <2>8
<1> QED BY <1>1, Invariance, PTL DEF Spec, AutoCodeFresh

=============================================================================
