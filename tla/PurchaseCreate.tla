--------------------------- MODULE PurchaseCreate ---------------------------
(***************************************************************************)
(* Recording a purchase (services/trade_purchase_service.py,               *)
(* create_trade_purchase, and routers/trade_purchases.py): idempotency key,*)
(* lock, search for a duplicate, number, row, what supplier and item       *)
(* remember of it, commit, answer.  Beside it edits, cancellations and     *)
(* deletions of purchases that are not delivered yet, and a server that    *)
(* may restart.  A request runs once; a client that sends again is a       *)
(* second request with the same body and key.  Every request reads what is *)
(* committed and writes at its commit.                                     *)
(* All of it happens within the 24 hours that the duplicate search covers. *)
(***************************************************************************)
EXTENDS Integers, Sequences, FiniteSets

CONSTANTS
  Suppliers, Items,
  Requests,     \* requests the clients send
  Body,         \* what each one asks for
  Edits,        \* contents an edit may give a purchase
  Keys,         \* Idempotency-Key headers
  MaxCrashes,   \* bound on restarts
  None

Content == [items : SUBSET Items, kg : Nat, total : Nat]

Bodies ==
  [op : {"create"}, supplier : Suppliers, day : Nat, content : Content, key : Keys \cup {None},
   forced : BOOLEAN, status : {"draft", "saved", "confirmed"}]
    \cup [op : {"edit", "cancel", "delete"}, status : {"draft", "saved", "confirmed"}]

ASSUME CreateAssumption ==
  /\ Body \in [Requests -> Bodies]
  /\ Edits \subseteq Content
  /\ \A x \in Edits : IsFiniteSet(x.items)
  /\ MaxCrashes \in Nat
  /\ None \notin Keys

VARIABLES
  rows,     \* trade_purchases, committed, in the order of their commits
  count,    \* supplier_item_defaults.purchase_count, 0 for no row
  snap,     \* catalog_items.last_trade_purchase_id, 0 for none
  known,    \* the process's map from keys to purchases, 0 for none
  req,      \* what each request has done and read
  crashes

vars == <<rows, count, snap, known, req, crashes>>

Row == [num : Nat, supplier : Suppliers, day : Nat, content : Content,
        status : {"draft", "saved", "confirmed", "cancelled", "deleted"},
        forced : BOOLEAN, edited : BOOLEAN]

\* num: the number taken; row: the purchase made or worked on; content: an
\* edit's; seen: purchase counts read; latest: what the items will remember.
Local == [pc : {"new", "waiting", "locked", "checked", "numbered", "inserted", "synced", "committed",
                "loaded", "done", "failed"},
          num : Nat, row : Nat, content : Content \cup {None},
          seen : [Items -> Nat], latest : [Items -> Nat]]

Creating == {"locked", "checked", "numbered", "inserted", "synced"}
Live(p) == p.status \notin {"cancelled", "deleted"}

Gap(x, y) == IF x < y THEN y - x ELSE x - y

\* The lines are the same, or weight and items nearly are; totals within one rupee.
Similar(x, y) ==
  /\ Gap(x.total, y.total) <= 1
  /\ x = y \/ /\ Gap(x.kg, y.kg) <= 5
              /\ x.items # {} /\ y.items # {}
              /\ 100 * Cardinality(x.items \cap y.items) >= 66 * Cardinality(x.items \cup y.items)

\* find_matching_duplicate_trade_purchase: any date, same supplier.
Duplicates(supplier, content, except) ==
  {n \in DOMAIN rows : /\ n # except
                       /\ rows[n].supplier = supplier
                       /\ Live(rows[n])
                       /\ Similar(rows[n].content, content)}

Goes(r, local) == req' = [req EXCEPT ![r] = local]
Go(r, pc) == Goes(r, [req[r] EXCEPT !.pc = pc])

-----------------------------------------------------------------------------
(* Creation. *)

\* The router: a key of this process that is known is answered with its purchase.
Submit(r) ==
  /\ req[r].pc = "new" /\ Body[r].op = "create"
  /\ LET hit == IF Body[r].key = None THEN 0 ELSE known[Body[r].key]
     IN IF hit = 0 THEN Go(r, "waiting") ELSE Goes(r, [req[r] EXCEPT !.pc = "done", !.row = hit])
  /\ UNCHANGED <<rows, count, snap, known, crashes>>

\* pg_advisory_xact_lock of supplier and date, held to the end of the transaction.
\* Mutant of LockFree: the lock is of supplier, date and total.
LockFreeByTotal(r) ==
  \A q \in Requests : Body[q].op = "create" /\ req[q].pc \in Creating
    => Body[q].supplier # Body[r].supplier \/ Body[q].day # Body[r].day
         \/ Body[q].content.total # Body[r].content.total
LockFree(r) ==
  \A q \in Requests : Body[q].op = "create" /\ req[q].pc \in Creating
    => Body[q].supplier # Body[r].supplier \/ Body[q].day # Body[r].day
TakeLock(r) ==
  /\ req[r].pc = "waiting"
  /\ LockFree(r)
  /\ Go(r, "locked")
  /\ UNCHANGED <<rows, count, snap, known, crashes>>

Search(r) ==
  LET found == Duplicates(Body[r].supplier, Body[r].content, 0)
  IN /\ req[r].pc = "locked"
     /\ IF Body[r].forced \/ found = {}
        THEN Go(r, "checked")
        ELSE \E n \in found : Goes(r, [req[r] EXCEPT !.pc = "done", !.row = n])
     /\ UNCHANGED <<rows, count, snap, known, crashes>>

\* next_human_id: one more than the highest number.
NextHumanId(r) ==
  /\ req[r].pc = "checked"
  /\ \E n \in {0} \cup {rows[k].num : k \in DOMAIN rows} :
       /\ \A k \in DOMAIN rows : rows[k].num <= n
       /\ Goes(r, [req[r] EXCEPT !.pc = "numbered", !.num = n + 1])
  /\ UNCHANGED <<rows, count, snap, known, crashes>>

\* The unique index on business and number: an insert fails on a committed
\* row, and waits for a transaction that has inserted the same number.
\* Mutant of NumberHeld: the number is not in the index before the commit.
NumberNotHeld(r) == FALSE
\* Mutant of NumberHeld: an insert waits for committed rows too.
NumberHeldForEver(r) ==
  \/ \E q \in Requests \ {r} : req[q].pc \in {"inserted", "synced"} /\ req[q].num = req[r].num
  \/ \E n \in DOMAIN rows : rows[n].num = req[r].num
NumberHeld(r) ==
  \E q \in Requests \ {r} : req[q].pc \in {"inserted", "synced"} /\ Body[q].op = "create"
                              /\ req[q].num = req[r].num
NumberTaken(r) == \E n \in DOMAIN rows : rows[n].num = req[r].num
Insert(r) ==
  /\ req[r].pc = "numbered"
  /\ ~NumberHeld(r)
  /\ Go(r, IF NumberTaken(r) THEN "failed" ELSE "inserted")
  /\ UNCHANGED <<rows, count, snap, known, crashes>>

Counts(supplier) == [i \in Items |-> count[supplier, i]]

\* _sync_purchase_memory reads the supplier's counts; they are written, one
\* higher, at the commit, a first one as a new row under a unique index.
SupplierOf(r) == IF Body[r].op = "create" THEN Body[r].supplier ELSE rows[req[r].row].supplier
SyncMemory(r) ==
  /\ req[r].pc = IF Body[r].op = "create" THEN "inserted" ELSE "loaded"
  /\ Body[r].op \in {"create", "edit"}
  /\ Goes(r, [req[r] EXCEPT !.pc = "synced", !.seen = Counts(SupplierOf(r))])
  /\ UNCHANGED <<rows, count, snap, known, crashes>>

FirstTaken(r, supplier, content) ==
  \E i \in content.items : req[r].seen[i] = 0 /\ count[supplier, i] > 0
Counted(r, supplier, content) ==
  [x \in Suppliers \X Items |-> IF x[1] = supplier /\ x[2] \in content.items
                                THEN req[r].seen[x[2]] + 1 ELSE count[x]]
Remembered(content, status, n) ==
  [i \in Items |-> IF i \in content.items /\ status = "confirmed" THEN n ELSE snap[i]]

NewRow(r) ==
  LET b == Body[r]
  IN [num |-> req[r].num, supplier |-> b.supplier, day |-> b.day, content |-> b.content,
      status |-> b.status, forced |-> b.forced, edited |-> FALSE]
Commit(r) ==
  LET b == Body[r] IN
  /\ req[r].pc = "synced" /\ b.op = "create"
  /\ IF FirstTaken(r, b.supplier, b.content)
     THEN /\ Go(r, "failed")
          /\ UNCHANGED <<rows, count, snap>>
     ELSE /\ rows' = Append(rows, NewRow(r))
          /\ count' = Counted(r, b.supplier, b.content)
          /\ snap' = Remembered(b.content, b.status, Len(rows) + 1)
          /\ Goes(r, [req[r] EXCEPT !.pc = "committed", !.row = Len(rows) + 1])
  /\ UNCHANGED <<known, crashes>>

\* After the commit the router notes the key and answers.
Remember(r) ==
  /\ req[r].pc = "committed"
  /\ known' = IF Body[r].key = None THEN known ELSE [known EXCEPT ![Body[r].key] = req[r].row]
  /\ Go(r, "done")
  /\ UNCHANGED <<rows, count, snap, crashes>>

-----------------------------------------------------------------------------
(* Edits of lines and status, cancellations, deletions.  They lock the     *)
(* purchase, if anything, and never what a creation locks; two of them at  *)
(* once are left out.                                                      *)

OfficeFree == \A q \in Requests : Body[q].op # "create" => req[q].pc \in {"new", "done", "failed"}

\* update_trade_purchase, to the search for another purchase that matches.
BeginEdit(r, n, content, forced) ==
  /\ req[r].pc = "new" /\ Body[r].op = "edit" /\ OfficeFree
  /\ Live(rows[n])
  /\ forced \/ Duplicates(rows[n].supplier, content, n) = {}
  /\ Goes(r, [req[r] EXCEPT !.pc = "loaded", !.row = n, !.content = content])
  /\ UNCHANGED <<rows, count, snap, known, crashes>>

FinishEdit(r) ==
  LET n == req[r].row
      content == req[r].content
  IN /\ req[r].pc = "synced" /\ Body[r].op = "edit"
     /\ IF FirstTaken(r, rows[n].supplier, content)
        THEN /\ Go(r, "failed")
             /\ UNCHANGED <<rows, count, snap>>
        ELSE /\ rows' = [rows EXCEPT ![n] = [rows[n] EXCEPT !.content = content, !.status = Body[r].status,
                                                       !.edited = TRUE]]
             /\ count' = Counted(r, rows[n].supplier, content)
             /\ snap' = Remembered(content, Body[r].status, n)
             /\ Go(r, "done")
     /\ UNCHANGED <<known, crashes>>

\* refresh_catalog_last_trade_snapshots: the newest purchase of the item that
\* counts, by date, then by creation.
\* Mutant of Counting: purchases that are cancelled count.
CountingAll(p) == p.status # "draft"
Counting(p) == p.status \notin {"deleted", "cancelled", "draft"}
Closed(p, status) == [p EXCEPT !.status = status]
Newer(n, m) == rows[n].day > rows[m].day \/ (rows[n].day = rows[m].day /\ n >= m)
IsNewest(m, i, closed) ==
  LET S == {n \in DOMAIN rows : /\ i \in rows[n].content.items
                               /\ Counting(IF n = closed THEN Closed(rows[n], "cancelled") ELSE rows[n])}
  IN IF S = {} THEN m = 0 ELSE m \in S /\ \A n \in S : Newer(m, n)

\* cancel_trade_purchase and delete_trade_purchase, to the refresh.
BeginClose(r, n) ==
  /\ req[r].pc = "new" /\ Body[r].op \in {"cancel", "delete"} /\ OfficeFree
  /\ rows[n].status # "deleted"
  /\ \E latest \in [Items -> 0..Len(rows)] :
       /\ \A i \in Items : IsNewest(latest[i], i, n)
       /\ Goes(r, [req[r] EXCEPT !.pc = "loaded", !.row = n, !.latest = latest])
  /\ UNCHANGED <<rows, count, snap, known, crashes>>

FinishClose(r) ==
  LET n == req[r].row
  IN /\ req[r].pc = "loaded" /\ Body[r].op \in {"cancel", "delete"}
     /\ rows' = [rows EXCEPT ![n] = Closed(rows[n], IF Body[r].op = "cancel" THEN "cancelled" ELSE "deleted")]
     /\ snap' = [i \in Items |-> IF i \in rows[n].content.items THEN req[r].latest[i] ELSE snap[i]]
     /\ Go(r, "done")
     /\ UNCHANGED <<count, known, crashes>>

-----------------------------------------------------------------------------
\* The process restarts: open transactions roll back, the key map is empty.
Restart ==
  /\ crashes < MaxCrashes
  /\ crashes' = crashes + 1
  /\ known' = [k \in Keys |-> 0]
  /\ req' = [r \in Requests |-> IF req[r].pc \in {"new", "done"} THEN req[r]
                                ELSE [req[r] EXCEPT !.pc = "failed"]]
  /\ UNCHANGED <<rows, count, snap>>

Unread == [pc |-> "new", num |-> 0, row |-> 0, content |-> None,
           seen |-> [i \in Items |-> 0], latest |-> [i \in Items |-> 0]]
Init ==
  /\ rows = <<>>
  /\ count = [x \in Suppliers \X Items |-> 0]
  /\ snap = [i \in Items |-> 0]
  /\ known = [k \in Keys |-> 0]
  /\ req = [r \in Requests |-> Unread]
  /\ crashes = 0

Step(r) == \/ TakeLock(r) \/ Search(r) \/ NextHumanId(r) \/ Insert(r) \/ SyncMemory(r)
           \/ Commit(r) \/ Remember(r) \/ FinishEdit(r) \/ FinishClose(r)
Arrive(r) == \/ Submit(r)
             \/ \E n \in DOMAIN rows : BeginClose(r, n)
             \/ \E n \in DOMAIN rows, c \in Edits, forced \in BOOLEAN : BeginEdit(r, n, c, forced)
Next == Restart \/ \E r \in Requests : Step(r) \/ Arrive(r)

\* A request the server has taken up goes on.
Fairness == \A r \in Requests : WF_vars(Step(r))
Spec == Init /\ [][Next]_vars
LiveSpec == Spec /\ Fairness

-----------------------------------------------------------------------------
(* Properties. *)

\* Every variable keeps the shape of its table.
TypeOK ==
  /\ rows \in Seq(Row)
  /\ count \in [Suppliers \X Items -> Nat]
  /\ snap \in [Items -> Nat]
  /\ known \in [Keys -> Nat]
  /\ req \in [Requests -> Local]
  /\ crashes \in Nat

\* A purchase sent twice, at once or again after a restart, is recorded once:
\* of the live purchases of a supplier and a date, as they were recorded, no
\* two match unless the client asked for it (create_trade_purchase).
NoDuplicates ==
  \A n, m \in DOMAIN rows :
    /\ n # m
    /\ Live(rows[n]) /\ Live(rows[m])
    /\ ~rows[n].forced /\ ~rows[m].forced
    /\ ~rows[n].edited /\ ~rows[m].edited
    /\ rows[n].supplier = rows[m].supplier /\ rows[n].day = rows[m].day
    => ~Similar(rows[n].content, rows[m].content)

\* The supplier's count of an item is read, then written one higher, under no
\* lock when two creations have different dates.  None is lost all the same:
\* two creations that overlap want the same number, and one of them fails.
CreatesCounted ==
  (\A n \in DOMAIN rows : ~rows[n].edited)
    => \A s \in Suppliers, i \in Items :
         count[s, i] = Cardinality({n \in DOMAIN rows : rows[n].supplier = s /\ i \in rows[n].content.items})

\* An item remembers no purchase that is cancelled or deleted, if that
\* purchase has the item in its lines (refresh_catalog_last_trade_snapshots).
SnapshotLive ==
  \A i \in Items : snap[i] # 0 /\ i \in rows[snap[i]].content.items => Live(rows[snap[i]])

\* Every request that is taken up ends: neither the lock nor the wait for a
\* number holds one for ever.
RequestsEnd == \A r \in Requests : req[r].pc = "waiting" ~> req[r].pc \in {"done", "failed"}

=============================================================================
