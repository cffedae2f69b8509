------------------------------- MODULE Office -------------------------------
(***************************************************************************)
(* The master data of a business: categories, their types, items with      *)
(* their default suppliers (routers/catalog.py), suppliers, brokers and    *)
(* the links between them (routers/contacts.py), and the purchases that    *)
(* refer to them.  A request is two steps: Begin, all it reads and checks, *)
(* and the step named after its handler, all it writes; the database       *)
(* refuses a commit that breaks a foreign key or a unique index.  New rows *)
(* have new names: a duplicate name only refuses a request.                *)
(***************************************************************************)
EXTENDS Integers, FiniteSets, FiniteSetsExt

CONSTANTS
  Body,       \* the requests: op and its arguments
  MaxSent,    \* bound on the requests sent
  Home,       \* the category of each type
  General,    \* the type named "General" of each category
  Items, Suppliers, Brokers, None,
  FirstItems, \* items at the start
  FirstContacts \* suppliers with their broker at the start

Requests == DOMAIN Body
Types == DOMAIN Home
Cats == DOMAIN General

ItemRow == [cat : Cats, type : Types \cup {None}, code : Nat, bar : Nat, live : BOOLEAN, sups : SUBSET Suppliers]

Ops == {"category", "dropCategory", "type", "dropType", "item", "scan", "batch", "edit", "code", "setCode",
        "setBarcode", "archive", "dropItem", "supplier", "editSupplier", "dropSupplier", "broker", "editBroker",
        "dropBroker", "buy", "void"}
Request == [op : Ops, item : Items \cup {None}, cat : Cats \cup {None}, type : Types \cup {None},
            sups : SUBSET Suppliers, coded : BOOLEAN, code : Nat, bar : Nat,
            sup : Suppliers \cup {None}, brokers : SUBSET Brokers, broker : Brokers \cup {None}]

\* A request names what its path and its required fields name; the broker_id
\* of a supplier is the first of the brokers asked for.  An edit is coded when
\* it sets the item_code, 0 to clear it.
Named(r) ==
  /\ r.op \in {"item", "scan", "batch", "edit", "code", "setCode", "setBarcode", "archive", "dropItem", "buy"} => r.item # None
  /\ r.op \in {"category", "dropCategory", "item"} => r.cat # None
  /\ r.op \in {"type", "dropType", "scan", "batch"} => r.type # None
  /\ r.op \in {"supplier", "editSupplier", "dropSupplier", "buy"} => r.sup # None
  /\ r.op \in {"broker", "editBroker", "dropBroker"} => r.broker # None
  /\ r.op \in {"supplier", "editSupplier"} => (r.broker \in r.brokers \/ (r.broker = None /\ r.brokers = {}))

ASSUME OfficeAssumption ==
  /\ General \in [Cats -> Types] /\ Home \in [Types -> Cats]
  /\ \A c \in Cats : Home[General[c]] = c
  /\ None \notin Items \cup Cats \cup Types \cup Suppliers \cup Brokers
  /\ \A n \in Requests : Body[n] \in Request /\ Named(Body[n])
  /\ MaxSent \in Nat

\* The data at the start.
ASSUME FirstAssumption ==
  /\ FirstItems \in [DOMAIN FirstItems -> ItemRow]
  /\ DOMAIN FirstItems \subseteq Items /\ IsFiniteSet(DOMAIN FirstItems)
  /\ FirstContacts \in [DOMAIN FirstContacts -> Brokers] /\ DOMAIN FirstContacts \subseteq Suppliers
  /\ \A i \in DOMAIN FirstItems : /\ FirstItems[i].type \in Types /\ Home[FirstItems[i].type] = FirstItems[i].cat
                                 /\ FirstItems[i].sups \subseteq DOMAIN FirstContacts

VARIABLES
  cats, types,
  item,        \* catalog_items, archived ones included, with their default suppliers
  seeds,       \* supplier_item_defaults
  suppliers, brokers,
  primary,     \* broker_id of a supplier
  links,       \* broker_supplier_m2m
  purchases,
  req, plan,   \* where a request is, and what it has read
  crossed      \* what overlapping requests were about

rows == <<cats, types, item, seeds, suppliers, brokers, primary, links, purchases>>
vars == <<rows, req, plan, crossed>>

Stored == DOMAIN item
Live == {i \in Stored : item[i].live}

\* item_code: a number, 0 for none.  _next_item_code asks archived items, too.
\* Mutant of NextCode: only the codes of live items count.
NextCodeLive == 1 + Max({0} \cup {item[i].code : i \in Live})
NextCode == 1 + Max({0} \cup {item[i].code : i \in Stored})
BarFree(bar, i) == \A j \in Live \ {i} : item[j].bar # bar
CodeFree(code, i) == \A j \in Live \ {i} : item[j].code # code

-----------------------------------------------------------------------------
(* What a request checks. *)

InCategory(t, c) == t \in types /\ Home[t] = c

\* The type an item gets: the one asked for, or its category's General.
\* Mutant of TypeAsked: an edit that moves an item leaves its type alone.
TypeAskedOrOld(r, cat) ==
  IF r.type # None THEN r.type ELSE IF r.item \in Stored THEN item[r.item].type ELSE General[cat]
TypeAsked(r, cat) == IF r.type # None THEN r.type ELSE General[cat]

\* An edit with neither a category nor a type leaves both.
CatAsked(r) == IF r.cat # None THEN r.cat ELSE item[r.item].cat
Moves(r) == r.cat # None \/ r.type # None
\* Mutant of Holds: items in the archive are not counted.
HoldsLive(c) == \E i \in Live : item[i].cat = c
Holds(c) == \E i \in Stored : item[i].cat = c

Buys(field, x) == \E p \in purchases : p[field] = x /\ p.open

CanCreateItem(r) ==
  /\ r.cat \in cats /\ (r.type = None \/ InCategory(r.type, r.cat))
  /\ r.item \notin Stored /\ r.sups \subseteq suppliers
CanScan(r) == r.type \in types /\ r.item \notin Stored /\ BarFree(r.bar, r.item) /\ CodeFree(r.code, r.item)
CanBatch(r) == r.type \in types /\ r.item \notin Stored /\ r.sups \subseteq suppliers
CanEditItem(r) ==
  /\ r.item \in Stored
  /\ r.cat = None \/ r.cat \in cats
  /\ r.type = None \/ InCategory(r.type, CatAsked(r))
  /\ r.sups \subseteq suppliers
CanDeleteItem(r) == r.item \in Stored /\ \A p \in purchases : p.item # r.item
CanDeleteType(r) == r.type \in types /\ \A i \in Stored : item[i].type # r.type
CanDeleteSupplier(r) == r.sup \in suppliers /\ ~Buys("sup", r.sup)
CanDeleteBroker(r) ==
  r.broker \in brokers /\ ~Buys("broker", r.broker) /\ \A s \in suppliers : primary[s] # r.broker

Checked(r) ==
  CASE r.op = "category"     -> r.cat \notin cats
    [] r.op = "dropCategory" -> r.cat \in cats /\ ~Holds(r.cat)
    [] r.op = "type"         -> Home[r.type] \in cats /\ r.type \notin types
    [] r.op = "dropType"     -> CanDeleteType(r)
    [] r.op = "item"         -> CanCreateItem(r)
    [] r.op = "scan"         -> CanScan(r)
    [] r.op = "batch"        -> CanBatch(r)
    [] r.op = "edit"         -> CanEditItem(r)
    [] r.op = "code"         -> r.item \in Stored /\ item[r.item].code = 0
    [] r.op = "setCode"      -> r.item \in Live /\ CodeFree(r.code, r.item)
    [] r.op = "setBarcode"   -> r.item \in Live /\ BarFree(r.bar, r.item)
    [] r.op = "archive"      -> r.item \in Live
    [] r.op = "dropItem"     -> CanDeleteItem(r)
    [] r.op \in {"supplier", "editSupplier"} -> (r.op = "editSupplier") = (r.sup \in suppliers) /\ r.brokers \subseteq brokers
    [] r.op \in {"broker", "editBroker"} -> (r.op = "editBroker") = (r.broker \in brokers) /\ r.sups \subseteq suppliers
    [] r.op = "dropSupplier" -> CanDeleteSupplier(r)
    [] r.op = "dropBroker"   -> CanDeleteBroker(r)
    [] r.op = "buy"          -> r.sup \in suppliers /\ r.item \in Stored
    [] r.op = "void"         -> TRUE

\* What it has read and uses when it writes: the type and whether that is a
\* General to be created, the code, the rows it deletes, the seeds it misses.
NoPlan == [type |-> None, new |-> {}, code |-> 0, old |-> {}, seeds |-> {}]

\* Mutant of Missing: an item that has a seed already needs no other.
MissingFirst(i, sups) == IF \E s \in Suppliers : <<i, s>> \in seeds THEN {} ELSE {i} \X sups
Missing(i, sups) == ({i} \X sups) \ seeds

Plan(r) ==
  CASE r.op \in {"item", "edit"} ->
         LET cat == IF r.op = "item" THEN r.cat ELSE CatAsked(r)
             type == IF r.op = "item" \/ Moves(r) THEN TypeAsked(r, cat) ELSE None
         IN [NoPlan EXCEPT !.type = type,
                           !.new = IF type = None \/ type \in types THEN {} ELSE {type},
                           !.code = NextCode,
                           !.old = IF r.op = "edit" THEN item[r.item].sups ELSE {},
                           !.seeds = Missing(r.item, r.sups)]
    [] r.op = "batch"        -> [NoPlan EXCEPT !.seeds = Missing(r.item, r.sups)]
    [] r.op = "code"         -> [NoPlan EXCEPT !.code = NextCode]
    [] r.op = "editSupplier" -> [NoPlan EXCEPT !.old = {l \in links : l[2] = r.sup}]
    [] r.op = "editBroker"   -> [NoPlan EXCEPT !.old = {l \in links : l[1] = r.broker}]
    [] r.op = "buy"          -> [NoPlan EXCEPT !.seeds = Missing(r.item, {r.sup})]
    [] OTHER                 -> NoPlan

-----------------------------------------------------------------------------
(* What it writes. *)

CreateCategory(r) ==
  /\ r.op = "category"
  /\ cats' = cats \cup {r.cat} /\ types' = types \cup {General[r.cat]}
  /\ UNCHANGED <<item, seeds, suppliers, brokers, primary, links, purchases>>

\* The ORM deletes the items it finds by then with the category.
DeleteCategory(r) ==
  /\ r.op = "dropCategory"
  /\ cats' = cats \ {r.cat}
  /\ types' = {t \in types : Home[t] # r.cat}
  /\ item' = [i \in {j \in Stored : item[j].cat # r.cat} |-> item[i]]
  /\ UNCHANGED <<seeds, suppliers, brokers, primary, links, purchases>>

CreateType(r) ==
  /\ r.op = "type" /\ r.type \notin types
  /\ types' = types \cup {r.type}
  /\ UNCHANGED <<cats, item, seeds, suppliers, brokers, primary, links, purchases>>

DeleteType(r) ==
  /\ r.op = "dropType"
  /\ types' = types \ {r.type}
  /\ item' = [i \in Stored |-> IF item[i].type = r.type THEN [item[i] EXCEPT !.type = None] ELSE item[i]]
  /\ UNCHANGED <<cats, seeds, suppliers, brokers, primary, links, purchases>>

\* Inserts under a unique constraint: of the type, and of the seeds.
Inserts(p) ==
  /\ p.new \cap types = {} /\ types' = types \cup p.new
  /\ p.seeds \cap seeds = {} /\ seeds' = seeds \cup p.seeds
Put(i, row) == item' = [j \in Stored \cup {i} |-> IF j = i THEN row ELSE item[j]]

\* POST: a code if none is given, and a barcode if none is given.
CreateItem(r, p) ==
  LET code == IF r.code = 0 THEN p.code ELSE r.code
  IN /\ r.op = "item"
     /\ Inserts(p)
     /\ Put(r.item, [cat |-> r.cat, type |-> p.type, code |-> code,
                     bar |-> IF r.bar = 0 THEN code ELSE r.bar, live |-> TRUE, sups |-> r.sups])
     /\ UNCHANGED <<cats, suppliers, brokers, primary, links, purchases>>

ScanItem(r) ==
  /\ r.op = "scan"
  /\ Put(r.item, [cat |-> Home[r.type], type |-> r.type, code |-> r.code, bar |-> r.bar, live |-> TRUE, sups |-> {}])
  /\ UNCHANGED <<cats, types, seeds, suppliers, brokers, primary, links, purchases>>

BatchItem(r, p) ==
  /\ r.op = "batch"
  /\ Inserts(p)
  /\ Put(r.item, [cat |-> Home[r.type], type |-> r.type, code |-> 0, bar |-> 0, live |-> TRUE, sups |-> r.sups])
  /\ UNCHANGED <<cats, suppliers, brokers, primary, links, purchases>>

\* The columns it sets, the code without a look at other items' codes; default
\* suppliers in place of those it deleted.
UpdateItem(r, p) ==
  LET sups == IF r.sups = {} THEN item[r.item].sups ELSE (item[r.item].sups \ p.old) \cup r.sups
      row == [item[r.item] EXCEPT !.sups = sups, !.cat = CatAsked(r), !.code = IF r.coded THEN r.code ELSE @]
  IN /\ r.op = "edit" /\ r.item \in Stored
     /\ r.sups \cap (item[r.item].sups \ p.old) = {}
     /\ Inserts(p)
     /\ Put(r.item, IF p.type = None THEN row ELSE [row EXCEPT !.type = p.type])
     /\ UNCHANGED <<cats, suppliers, brokers, primary, links, purchases>>

Relabel(r, p) ==
  /\ r.op \in {"code", "setCode", "setBarcode", "archive"} /\ r.item \in Stored
  /\ Put(r.item, CASE r.op = "code"       -> [item[r.item] EXCEPT !.code = p.code]
                   [] r.op = "setCode"    -> [item[r.item] EXCEPT !.code = r.code]
                   [] r.op = "setBarcode" -> [item[r.item] EXCEPT !.bar = r.bar]
                   [] r.op = "archive"    -> [item[r.item] EXCEPT !.live = FALSE])
  /\ UNCHANGED <<cats, types, seeds, suppliers, brokers, primary, links, purchases>>

DeleteItem(r) ==
  /\ r.op = "dropItem" /\ r.item \in Stored
  /\ item' = [i \in Stored \ {r.item} |-> item[i]]
  /\ UNCHANGED <<cats, types, seeds, suppliers, brokers, primary, links, purchases>>

\* broker_id is the first of the brokers asked for, all of them are linked.
CreateSupplier(r) ==
  /\ r.op = "supplier"
  /\ suppliers' = suppliers \cup {r.sup}
  /\ primary' = [primary EXCEPT ![r.sup] = r.broker]
  /\ links' = links \cup (r.brokers \X {r.sup})
  /\ UNCHANGED <<cats, types, item, seeds, brokers, purchases>>

UpdateSupplier(r, p) ==
  /\ r.op = "editSupplier" /\ r.sup \in suppliers
  /\ (r.brokers \X {r.sup}) \cap (links \ p.old) = {}
  /\ primary' = [primary EXCEPT ![r.sup] = r.broker]
  /\ links' = (links \ p.old) \cup (r.brokers \X {r.sup})
  /\ UNCHANGED <<cats, types, item, seeds, suppliers, brokers, purchases>>

DeleteSupplier(r) ==
  /\ r.op = "dropSupplier"
  /\ suppliers' = suppliers \ {r.sup}
  /\ primary' = [primary EXCEPT ![r.sup] = None]
  /\ item' = [i \in Stored |-> [item[i] EXCEPT !.sups = @ \ {r.sup}]]
  /\ UNCHANGED <<cats, types, seeds, brokers, links, purchases>>

\* A broker's suppliers get it as their broker_id.
Assigned(r) == [s \in Suppliers |-> IF s \in r.sups THEN r.broker ELSE primary[s]]

CreateBroker(r) ==
  /\ r.op = "broker"
  /\ brokers' = brokers \cup {r.broker}
  /\ links' = links \cup ({r.broker} \X r.sups)
  /\ primary' = Assigned(r)
  /\ UNCHANGED <<cats, types, item, seeds, suppliers, purchases>>

UpdateBroker(r, p) ==
  /\ r.op = "editBroker" /\ r.broker \in brokers
  /\ ({r.broker} \X r.sups) \cap (links \ p.old) = {}
  /\ links' = (links \ p.old) \cup ({r.broker} \X r.sups)
  /\ primary' = Assigned(r)
  /\ UNCHANGED <<cats, types, item, seeds, suppliers, brokers, purchases>>

\* The ORM clears the broker_id of suppliers it finds by then.
DeleteBroker(r) ==
  /\ r.op = "dropBroker"
  /\ brokers' = brokers \ {r.broker}
  /\ primary' = [s \in Suppliers |-> IF primary[s] = r.broker THEN None ELSE primary[s]]
  /\ UNCHANGED <<cats, types, item, seeds, suppliers, links, purchases>>

\* A purchase refers to all three and remembers the item's supplier.
Buy(r, p) ==
  /\ r.op = "buy"
  /\ purchases' = purchases \cup {[sup |-> r.sup, broker |-> r.broker, item |-> r.item, open |-> TRUE]}
  /\ Inserts(p)
  /\ UNCHANGED <<cats, item, suppliers, brokers, primary, links>>
Void(r) ==
  /\ r.op = "void"
  /\ purchases' = {[p EXCEPT !.open = FALSE] : p \in purchases}
  /\ UNCHANGED <<cats, types, item, seeds, suppliers, brokers, primary, links>>

\* Foreign keys, and the index on barcodes of live items.
Consistent ==
  /\ \A i \in Stored : /\ item[i].cat \in cats /\ item[i].type \in types \cup {None}
                       /\ item[i].sups \subseteq suppliers
                       /\ item[i].live /\ item[i].bar # 0 => BarFree(item[i].bar, i)
  /\ \A t \in types : Home[t] \in cats
  /\ seeds \subseteq Stored \X suppliers
  /\ links \subseteq brokers \X suppliers
  /\ \A s \in suppliers : primary[s] \in brokers \cup {None}
  /\ \A p \in purchases : p.sup \in suppliers /\ p.item \in Stored /\ p.broker \in brokers \cup {None}

-----------------------------------------------------------------------------
(* Requests. *)

\* What a request is about.  Deletions of types and suppliers are not listed:
\* what is said of items and suppliers holds beside them.
About(r) ==
  CASE r.op \in {"category", "dropCategory"} -> {r.cat}
    [] r.op = "item" -> {r.item, r.cat, "codes"}
    [] r.op = "scan" -> {r.item, Home[r.type], "codes"}
    [] r.op = "batch" -> {r.item, Home[r.type]}
    [] r.op = "edit" -> ({r.item, r.cat} \ {None}) \cup (IF r.coded THEN {"codes"} ELSE {})
    [] r.op \in {"code", "setCode"} -> {r.item, "codes"}
    [] r.op \in {"supplier", "editSupplier"} -> {r.sup}
    [] r.op \in {"broker", "editBroker"} -> r.sups
    [] OTHER -> {}

\* What two requests are both about: what a request links to a broker is also
\* what a deletion of the broker is about.
Between(r, q) ==
  IF r.op = "dropBroker" /\ q.broker = r.broker THEN About(q)
  ELSE IF q.op = "dropBroker" /\ q.broker = r.broker THEN About(r)
  ELSE About(r) \cap About(q)

Begun == {n \in Requests : req[n] = "begun"}
Sent == Cardinality({n \in Requests : req[n] # "unsent"})
Begin(n) ==
  /\ req[n] = "unsent" /\ Sent < MaxSent
  /\ Checked(Body[n])
  /\ req' = [req EXCEPT ![n] = "begun"]
  /\ plan' = [plan EXCEPT ![n] = Plan(Body[n])]
  /\ crossed' = crossed \cup UNION {Between(Body[n], Body[m]) : m \in Begun}
  /\ UNCHANGED rows
Ends(n) ==
  /\ n \in Begun
  /\ req' = [req EXCEPT ![n] = "done"] /\ plan' = [plan EXCEPT ![n] = NoPlan]
  /\ UNCHANGED crossed
\* A later check fails, the database refuses the commit, or the client is gone.
Refuse(n) == Ends(n) /\ UNCHANGED rows

Catalog(r, p) ==
  \/ CreateCategory(r) \/ DeleteCategory(r) \/ CreateType(r) \/ DeleteType(r) \/ CreateItem(r, p)
  \/ ScanItem(r) \/ BatchItem(r, p) \/ UpdateItem(r, p) \/ Relabel(r, p) \/ DeleteItem(r)
Contacts(r, p) ==
  \/ CreateSupplier(r) \/ UpdateSupplier(r, p) \/ DeleteSupplier(r)
  \/ CreateBroker(r) \/ UpdateBroker(r, p) \/ DeleteBroker(r) \/ Buy(r, p) \/ Void(r)
Commit(n) ==
  /\ Ends(n)
  /\ Catalog(Body[n], plan[n]) \/ Contacts(Body[n], plan[n])
  /\ Consistent'

Init ==
  /\ cats = {FirstItems[i].cat : i \in DOMAIN FirstItems}
  /\ types = {General[c] : c \in cats} \cup {FirstItems[i].type : i \in DOMAIN FirstItems}
  /\ item = FirstItems
  /\ seeds = {x \in Items \X Suppliers : x[1] \in Stored /\ x[2] \in item[x[1]].sups}
  /\ suppliers = DOMAIN FirstContacts
  /\ brokers = {FirstContacts[s] : s \in suppliers}
  /\ primary = [s \in Suppliers |-> IF s \in suppliers THEN FirstContacts[s] ELSE None]
  /\ links = {<<FirstContacts[s], s>> : s \in suppliers}
  /\ purchases = {}
  /\ req = [n \in Requests |-> "unsent"]
  /\ plan = [n \in Requests |-> NoPlan]
  /\ crossed = {}

Next == \E n \in Requests : Begin(n) \/ Commit(n) \/ Refuse(n)
Spec == Init /\ [][Next]_vars

-----------------------------------------------------------------------------
(* Properties. *)

\* Every variable keeps its shape.
TypeOK ==
  /\ cats \subseteq Cats /\ types \subseteq Types
  /\ Stored \subseteq Items /\ item \in [Stored -> ItemRow]
  /\ seeds \subseteq Items \X Suppliers
  /\ suppliers \subseteq Suppliers /\ brokers \subseteq Brokers
  /\ primary \in [Suppliers -> Brokers \cup {None}]
  /\ links \subseteq Brokers \X Suppliers
  /\ purchases \subseteq [sup : Suppliers, broker : Brokers \cup {None}, item : Items, open : BOOLEAN]
  /\ req \in [Requests -> {"unsent", "begun", "done"}]
  /\ plan \in [Requests -> [type : Types \cup {None}, new : SUBSET Types, code : Nat,
                            old : SUBSET (Suppliers \cup (Brokers \X Suppliers)), seeds : SUBSET (Items \X Suppliers)]]

\* An item's type is one of its category, through moves, type changes and
\* deletions of types at any moment, as long as no two requests about the item
\* overlap (_verify_type_in_category: "type_id not found for this category").
TypeInCategory ==
  \A i \in Stored \ crossed : item[i].type = None \/ Home[item[i].type] = item[i].cat

\* A default supplier of an item has its row of supplier_item_defaults, on all
\* ways to become one and whatever runs at once.
DefaultsSeeded == \A i \in Stored : \A s \in item[i].sups : <<i, s>> \in seeds

\* An item goes only with its own deletion, or with a category that another
\* request was about while it was deleted ("Cannot delete a category that
\* still has catalog items").
ItemsKept ==
  [][\A i \in Stored : i \notin DOMAIN item' =>
       \/ \E n \in Begun \ Begun' : Body[n].op = "dropItem" /\ Body[n].item = i
       \/ item[i].cat \in crossed]_vars

\* The code a new item is given is no item's, archived ones included, whatever
\* codes were set before, by edits that look at no other item too, as long as
\* no two requests that set codes overlap (_next_item_code).
AutoCodeFresh ==
  [][\A n \in Begun \ Begun' :
        Body[n].op \in {"item", "code"} /\ Body[n].code = 0 /\ "codes" \notin crossed /\ item' # item
          => \A j \in Stored \ {Body[n].item} : item[j].code # item'[Body[n].item].code]_vars

\* A supplier with brokers linked has one of its own, whichever side the link
\* was made from and whatever brokers are deleted meanwhile, as long as no two
\* requests about the supplier overlap, nor one that links it to a broker with
\* the deletion of that broker.
LinkedPrimary ==
  \A s \in suppliers \ crossed : (\E b \in brokers : <<b, s>> \in links) => primary[s] # None

\* What an item or a supplier refers to, and what follows from it, is kept
\* together, from whichever side it is set.
Linked == DefaultsSeeded /\ LinkedPrimary

=============================================================================
