------------------------ MODULE PurchaseCreateProofs ------------------------
(***************************************************************************)
(* A purchase sent twice is recorded once, for any number of requests,     *)
(* suppliers and dates.  The argument is that of a lock around a check and *)
(* an insert: at most one creation of a supplier and a date is past the    *)
(* lock, so what its search has not found cannot appear before it commits. *)
(***************************************************************************)
EXTENDS PurchaseCreate, FiniteSetTheorems, TLAPS

Searched == {"checked", "numbered", "inserted", "synced"}
IsCreate(r) == Body[r].op = "create"

\* Two creations past the lock have another supplier or another date.
LockExclusive ==
  \A q, r \in Requests :
    /\ q # r /\ IsCreate(q) /\ IsCreate(r)
    /\ req[q].pc \in Creating /\ req[r].pc \in Creating
    => Body[q].supplier # Body[r].supplier \/ Body[q].day # Body[r].day

\* A live purchase as it was recorded, that nobody forced.
Plain(p) == Live(p) /\ ~p.forced /\ ~p.edited
Clash(p, supplier, day, content) ==
  Plain(p) /\ p.supplier = supplier /\ p.day = day /\ Similar(p.content, content)

\* A creation past the search has no match among the purchases recorded.
Clean(r) ==
  \A n \in DOMAIN rows : ~Clash(rows[n], Body[r].supplier, Body[r].day, Body[r].content)
SearchHolds ==
  \A r \in Requests : IsCreate(r) /\ req[r].pc \in Searched /\ ~Body[r].forced => Clean(r)

\* An edit past its search has contents to write, and its purchase.
EditHasContent ==
  \A r \in Requests : Body[r].op # "create" /\ req[r].pc \in {"loaded", "synced"}
    => /\ req[r].row \in DOMAIN rows
       /\ Body[r].op = "edit" => req[r].content \in Content

\* Only a creation waits for the lock, takes a number or notes a key.
OpPhase ==
  \A r \in Requests :
    req[r].pc \in {"waiting", "locked", "checked", "numbered", "inserted", "committed"} => IsCreate(r)

CInv == TypeOK /\ LockExclusive /\ SearchHolds /\ EditHasContent /\ OpPhase /\ NoDuplicates

-----------------------------------------------------------------------------
LEMMA BodyTypes ==
  ASSUME NEW r \in Requests
  PROVE  /\ Body[r].op \in {"create", "edit", "cancel", "delete"}
         /\ Body[r].status \in {"draft", "saved", "confirmed"}
         /\ IsCreate(r) => /\ Body[r].supplier \in Suppliers /\ Body[r].day \in Nat
                           /\ Body[r].content \in Content /\ Body[r].forced \in BOOLEAN
                           /\ Body[r].key \in Keys \cup {None}
BY CreateAssumption DEF Bodies, IsCreate

\* Whether two contents match does not depend on which one comes first.
LEMMA SimilarSymmetric ==
  ASSUME NEW x \in Content, NEW y \in Content, Similar(x, y)
  PROVE  Similar(y, x)
<1>1. /\ x.total \in Nat /\ y.total \in Nat /\ x.kg \in Nat /\ y.kg \in Nat
  BY DEF Content
<1>2. Gap(x.total, y.total) = Gap(y.total, x.total) /\ Gap(x.kg, y.kg) = Gap(y.kg, x.kg)
  BY <1>1 DEF Gap
<1>3. x.items \cap y.items = y.items \cap x.items /\ x.items \cup y.items = y.items \cup x.items
  OBVIOUS
<1> QED BY <1>2, <1>3 DEF Similar

\* Writing one request's record leaves the others as they are.
LEMMA GoesKeeps ==
  ASSUME TypeOK, NEW r \in Requests, NEW local \in Local, Goes(r, local)
  PROVE  /\ req' \in [Requests -> Local]
         /\ req'[r] = local
         /\ \A q \in Requests : q # r => req'[q] = req[q]
BY DEF TypeOK, Goes

LEMMA LocalTypes ==
  ASSUME TypeOK, NEW r \in Requests
  PROVE  /\ req[r] \in Local
         /\ \A pc \in {"new", "waiting", "locked", "checked", "numbered", "inserted", "synced", "committed",
                       "loaded", "done", "failed"} :
              /\ [req[r] EXCEPT !.pc = pc] \in Local
              /\ [req[r] EXCEPT !.pc = pc].pc = pc
<1>1. req[r] \in Local
  BY DEF TypeOK
<1> QED BY <1>1 DEF Local

LEMMA RowTypes ==
  ASSUME NEW l \in Local, NEW n \in Nat, NEW pc \in {"waiting", "loaded", "committed", "done"}
  PROVE  /\ [l EXCEPT !.pc = pc, !.row = n] \in Local
         /\ [l EXCEPT !.pc = pc, !.row = n].pc = pc
         /\ [l EXCEPT !.pc = pc, !.row = n].row = n
BY DEF Local

LEMMA NumTypes ==
  ASSUME NEW l \in Local, NEW n \in Nat
  PROVE  /\ [l EXCEPT !.pc = "numbered", !.num = n] \in Local
         /\ [l EXCEPT !.pc = "numbered", !.num = n].pc = "numbered"
BY DEF Local

LEMMA SeenTypes ==
  ASSUME NEW l \in Local, NEW f \in [Items -> Nat]
  PROVE  /\ [l EXCEPT !.pc = "synced", !.seen = f] \in Local
         /\ [l EXCEPT !.pc = "synced", !.seen = f].pc = "synced"
         /\ [l EXCEPT !.pc = "synced", !.seen = f].row = l.row
         /\ [l EXCEPT !.pc = "synced", !.seen = f].content = l.content
BY DEF Local

Loaded(l, n, c) == [l EXCEPT !.pc = "loaded", !.row = n, !.content = c]
Closing(l, n, f) == [l EXCEPT !.pc = "loaded", !.row = n, !.latest = f]

LEMMA LoadTypes ==
  ASSUME NEW l \in Local, NEW n \in Nat, NEW c \in Content
  PROVE  /\ Loaded(l, n, c) \in Local
         /\ Loaded(l, n, c).pc = "loaded"
         /\ Loaded(l, n, c).row = n
         /\ Loaded(l, n, c).content = c
BY DEF Local, Loaded

LEMMA CloseTypes ==
  ASSUME NEW l \in Local, NEW n \in Nat, NEW f \in [Items -> Nat]
  PROVE  /\ Closing(l, n, f) \in Local
         /\ Closing(l, n, f).pc = "loaded"
         /\ Closing(l, n, f).row = n
BY DEF Local, Closing

LEMMA EditTypes ==
  ASSUME NEW p \in Row, NEW c \in Content, NEW status \in {"draft", "saved", "confirmed"}
  PROVE  /\ [p EXCEPT !.content = c, !.status = status, !.edited = TRUE] \in Row
         /\ [p EXCEPT !.content = c, !.status = status, !.edited = TRUE].edited = TRUE
BY DEF Row

LEMMA ClosedTypes ==
  ASSUME NEW p \in Row, NEW status \in {"cancelled", "deleted"}
  PROVE  Closed(p, status) \in Row /\ ~Live(Closed(p, status))
BY DEF Row, Closed, Live

\* Steps that write no purchase, at which request r moves to a place before
\* the lock, after the search of before, or away.
LEMMA QuietKeeps ==
  ASSUME CInv, NEW r \in Requests, NEW local \in Local, Goes(r, local),
         UNCHANGED <<rows, count, snap, crashes>>, known' \in [Keys -> Nat],
         \/ local.pc \in {"done", "failed"}
         \/ IsCreate(r) /\ local.pc \in {"waiting", "committed"}
         \/ IsCreate(r) /\ local.pc = "locked" /\ LockFree(r)
         \/ IsCreate(r) /\ local.pc \in Searched /\ req[r].pc \in Searched
         \/ IsCreate(r) /\ local.pc \in Searched /\ req[r].pc = "locked" /\ (Body[r].forced \/ Clean(r))
         \/ /\ ~IsCreate(r) /\ local.pc \in {"loaded", "synced"}
            /\ local.row \in DOMAIN rows
            /\ Body[r].op = "edit" => local.content \in Content
  PROVE  CInv'
<1>1. TypeOK /\ LockExclusive /\ SearchHolds /\ EditHasContent /\ OpPhase /\ NoDuplicates
  BY DEF CInv
<1>2. /\ req' \in [Requests -> Local]
      /\ req'[r] = local
      /\ \A q \in Requests : q # r => req'[q] = req[q]
  BY <1>1, GoesKeeps
<1>3. TypeOK'
  BY <1>1, <1>2 DEF TypeOK
<1>4. LockExclusive'
  <2>1. CASE ~(IsCreate(r) /\ local.pc \in Creating)
    BY <1>1, <1>2, <2>1 DEF LockExclusive
  <2>2. CASE IsCreate(r) /\ local.pc = "locked" /\ LockFree(r)
    BY <1>1, <1>2, <2>2 DEF LockExclusive, LockFree, IsCreate
  <2>3. CASE IsCreate(r) /\ req[r].pc \in Creating
    BY <1>1, <1>2, <2>3 DEF LockExclusive
  <2> QED BY <2>1, <2>2, <2>3 DEF Creating, Searched
<1>5. SearchHolds'
  <2> SUFFICES ASSUME NEW q \in Requests, IsCreate(q), req'[q].pc \in Searched, ~Body[q].forced
               PROVE  Clean(q)'
    BY DEF SearchHolds, IsCreate
  <2>1. Clean(q)
    <3>1. CASE q # r
      BY <1>1, <1>2, <3>1 DEF SearchHolds
    <3>2. CASE q = r
      BY <1>1, <1>2, <3>2 DEF SearchHolds, Searched
    <3> QED BY <3>1, <3>2
  <2> QED BY <2>1 DEF Clean, Clash, Plain, Live
<1>6. EditHasContent'
  BY <1>1, <1>2, BodyTypes DEF EditHasContent, IsCreate, Searched
<1>7. NoDuplicates'
  BY <1>1 DEF NoDuplicates, Live
<1>8. OpPhase'
  BY <1>1, <1>2 DEF OpPhase, IsCreate, Searched
<1> QED BY <1>3, <1>4, <1>5, <1>6, <1>7, <1>8 DEF CInv

LEMMA SubmitKeeps ==
  ASSUME CInv, NEW r \in Requests, Submit(r)
  PROVE  CInv'
<1>1. TypeOK
  BY DEF CInv
<1> DEFINE hit == IF Body[r].key = None THEN 0 ELSE known[Body[r].key]
<1>2. /\ IsCreate(r) /\ UNCHANGED <<rows, count, snap, known, crashes>>
      /\ IF hit = 0 THEN Go(r, "waiting") ELSE Goes(r, [req[r] EXCEPT !.pc = "done", !.row = hit])
  BY DEF Submit, IsCreate
<1>3. hit \in Nat
  BY <1>1, <1>2, BodyTypes DEF TypeOK
<1> HIDE DEF hit
<1>4. known' \in [Keys -> Nat]
  BY <1>1, <1>2 DEF TypeOK
<1>5. req[r] \in Local
  BY <1>1, LocalTypes
<1>6. CASE hit = 0
  <2> DEFINE local == [req[r] EXCEPT !.pc = "waiting"]
  <2>1. local \in Local /\ local.pc = "waiting" /\ Goes(r, local)
    BY <1>1, <1>2, <1>6, LocalTypes DEF Go
  <2> HIDE DEF local
  <2> QED BY <1>2, <1>4, <2>1, QuietKeeps
<1>7. CASE hit # 0
  <2> DEFINE local == [req[r] EXCEPT !.pc = "done", !.row = hit]
  <2>1. local \in Local /\ local.pc = "done"
    BY <1>3, <1>5, RowTypes
  <2>2. Goes(r, local)
    BY <1>2, <1>7
  <2> HIDE DEF local
  <2> QED BY <1>2, <1>4, <2>1, <2>2, QuietKeeps
<1> QED BY <1>6, <1>7

LEMMA TakeLockKeeps ==
  ASSUME CInv, NEW r \in Requests, IsCreate(r), TakeLock(r)
  PROVE  CInv'
<1>1. TypeOK
  BY DEF CInv
<1> DEFINE local == [req[r] EXCEPT !.pc = "locked"]
<1>2. Goes(r, local) /\ LockFree(r) /\ UNCHANGED <<rows, count, snap, known, crashes>>
  BY DEF TakeLock, Go
<1>3. local \in Local /\ local.pc = "locked"
  BY <1>1, LocalTypes
<1> HIDE DEF local
<1>4. known' \in [Keys -> Nat]
  BY <1>1, <1>2 DEF TypeOK
<1> QED BY <1>2, <1>3, <1>4, QuietKeeps

LEMMA SearchKeeps ==
  ASSUME CInv, NEW r \in Requests, IsCreate(r), Search(r)
  PROVE  CInv'
<1>1. TypeOK
  BY DEF CInv
<1> DEFINE found == Duplicates(Body[r].supplier, Body[r].content, 0)
<1>2. /\ UNCHANGED <<rows, count, snap, known, crashes>>
      /\ req[r].pc = "locked"
      /\ IF Body[r].forced \/ found = {}
         THEN Go(r, "checked")
         ELSE \E n \in found : Goes(r, [req[r] EXCEPT !.pc = "done", !.row = n])
  BY DEF Search
<1>3. known' \in [Keys -> Nat]
  BY <1>1, <1>2 DEF TypeOK
<1>4. CASE Body[r].forced \/ found = {}
  <2> DEFINE local == [req[r] EXCEPT !.pc = "checked"]
  <2>1. Goes(r, local)
    BY <1>2, <1>4 DEF Go
  <2>2. local \in Local /\ local.pc \in Searched
    BY <1>1, LocalTypes DEF Searched
  <2>3. Body[r].forced \/ Clean(r)
    <3>1. CASE found = {}
      <4>1. \A n \in DOMAIN rows : n # 0
        BY <1>1 DEF TypeOK
      <4> QED BY <3>1, <4>1 DEF Duplicates, Clean, Clash, Plain
    <3> QED BY <1>4, <3>1
  <2> HIDE DEF local
  <2> QED BY <1>2, <1>3, <2>1, <2>2, <2>3, QuietKeeps
<1>5. CASE ~(Body[r].forced \/ found = {})
  <2>1. PICK n \in found : Goes(r, [req[r] EXCEPT !.pc = "done", !.row = n])
    BY <1>2, <1>5
  <2>2. n \in Nat
    BY <1>1, <2>1 DEF Duplicates, TypeOK
  <2> DEFINE local == [req[r] EXCEPT !.pc = "done", !.row = n]
  <2>3. local \in Local /\ local.pc = "done"
    <3>1. req[r] \in Local /\ "done" \in {"waiting", "loaded", "committed", "done"}
      BY <1>1, LocalTypes
    <3> QED BY <2>2, <3>1, RowTypes
  <2> HIDE DEF local
  <2>4. Goes(r, local)
    BY <2>1 DEF local
  <2> QED BY <1>2, <1>3, <2>3, <2>4, QuietKeeps
<1> QED BY <1>4, <1>5

LEMMA NextHumanIdKeeps ==
  ASSUME CInv, NEW r \in Requests, IsCreate(r), NextHumanId(r)
  PROVE  CInv'
<1>1. TypeOK
  BY DEF CInv
<1>2. PICK n \in {0} \cup {rows[k].num : k \in DOMAIN rows} :
        Goes(r, [req[r] EXCEPT !.pc = "numbered", !.num = n + 1])
  BY DEF NextHumanId
<1>3. n \in Nat
  <2>1. \A k \in DOMAIN rows : rows[k].num \in Nat
    <3> TAKE k \in DOMAIN rows
    <3>1. rows[k] \in Row
      BY <1>1 DEF TypeOK
    <3> QED BY <3>1 DEF Row
  <2> QED BY <2>1
<1> DEFINE local == [req[r] EXCEPT !.pc = "numbered", !.num = n + 1]
<1>4. local \in Local /\ local.pc \in Searched
  <2>1. req[r] \in Local
    BY <1>1, LocalTypes
  <2>2. n + 1 \in Nat
    BY <1>3
  <2> QED BY <2>1, <2>2, NumTypes DEF Searched
<1> HIDE DEF local
<1>5. Goes(r, local)
  BY <1>2 DEF local
<1>6. req[r].pc \in Searched /\ UNCHANGED <<rows, count, snap, known, crashes>>
  BY DEF NextHumanId, Searched
<1>7. known' \in [Keys -> Nat]
  BY <1>1, <1>6 DEF TypeOK
<1> QED BY <1>4, <1>5, <1>6, <1>7, QuietKeeps

LEMMA InsertKeeps ==
  ASSUME CInv, NEW r \in Requests, IsCreate(r), Insert(r)
  PROVE  CInv'
<1>1. TypeOK
  BY DEF CInv
<1>2. /\ req[r].pc \in Searched /\ UNCHANGED <<rows, count, snap, known, crashes>>
      /\ Go(r, "failed") \/ Go(r, "inserted")
  BY DEF Insert, Searched
<1>3. known' \in [Keys -> Nat]
  BY <1>1, <1>2 DEF TypeOK
<1>4. CASE Go(r, "failed")
  <2> DEFINE local == [req[r] EXCEPT !.pc = "failed"]
  <2>1. local \in Local /\ local.pc = "failed" /\ Goes(r, local)
    BY <1>1, <1>4, LocalTypes DEF Go
  <2> HIDE DEF local
  <2> QED BY <1>2, <1>3, <2>1, QuietKeeps
<1>5. CASE Go(r, "inserted")
  <2> DEFINE local == [req[r] EXCEPT !.pc = "inserted"]
  <2>1. local \in Local /\ local.pc \in Searched /\ Goes(r, local)
    BY <1>1, <1>5, LocalTypes DEF Go, Searched
  <2> HIDE DEF local
  <2> QED BY <1>2, <1>3, <2>1, QuietKeeps
<1> QED BY <1>2, <1>4, <1>5

LEMMA SyncMemoryKeeps ==
  ASSUME CInv, NEW r \in Requests, SyncMemory(r)
  PROVE  CInv'
<1>1. TypeOK /\ EditHasContent
  BY DEF CInv
<1> DEFINE seen == Counts(SupplierOf(r))
           local == [req[r] EXCEPT !.pc = "synced", !.seen = seen]
<1>2. /\ req[r].pc = IF Body[r].op = "create" THEN "inserted" ELSE "loaded"
      /\ Body[r].op \in {"create", "edit"}
      /\ Goes(r, local)
      /\ UNCHANGED <<rows, count, snap, known, crashes>>
  BY DEF SyncMemory
<1>3. SupplierOf(r) \in Suppliers
  <2>1. CASE IsCreate(r)
    BY <2>1, BodyTypes DEF SupplierOf, IsCreate
  <2>2. CASE ~IsCreate(r)
    <3>1. req[r].row \in DOMAIN rows
      BY <1>1, <1>2, <2>2 DEF EditHasContent, IsCreate
    <3>2. rows[req[r].row] \in Row
      BY <1>1, <3>1 DEF TypeOK
    <3> QED BY <2>2, <3>2 DEF SupplierOf, IsCreate, Row
  <2> QED BY <2>1, <2>2
<1>4. seen \in [Items -> Nat]
  BY <1>1, <1>3 DEF TypeOK, Counts
<1> HIDE DEF seen
<1>5. local \in Local /\ local.pc = "synced" /\ local.row = req[r].row /\ local.content = req[r].content
  <2>1. req[r] \in Local
    BY <1>1, LocalTypes
  <2> QED BY <1>4, <2>1, SeenTypes
<1> HIDE DEF local
<1>6. known' \in [Keys -> Nat]
  BY <1>1, <1>2 DEF TypeOK
<1>7. CASE IsCreate(r)
  BY <1>2, <1>5, <1>6, <1>7, QuietKeeps DEF IsCreate, Searched
<1>8. CASE ~IsCreate(r)
  <2>1. local.row \in DOMAIN rows /\ (Body[r].op = "edit" => local.content \in Content)
    BY <1>1, <1>2, <1>5, <1>8 DEF EditHasContent, IsCreate
  <2> QED BY <1>2, <1>5, <1>6, <1>8, <2>1, QuietKeeps
<1> QED BY <1>7, <1>8

LEMMA RememberKeeps ==
  ASSUME CInv, NEW r \in Requests, IsCreate(r), Remember(r)
  PROVE  CInv'
<1>1. TypeOK
  BY DEF CInv
<1> DEFINE local == [req[r] EXCEPT !.pc = "done"]
<1>2. /\ known' = IF Body[r].key = None THEN known ELSE [known EXCEPT ![Body[r].key] = req[r].row]
      /\ Goes(r, local) /\ UNCHANGED <<rows, count, snap, crashes>>
  BY DEF Remember, Go
<1>3. local \in Local /\ local.pc = "done" /\ req[r].row \in Nat
  <2>1. req[r] \in Local
    BY <1>1, LocalTypes
  <2> QED BY <1>1, <2>1, LocalTypes DEF Local
<1> HIDE DEF local
<1>4. known' \in [Keys -> Nat]
  BY <1>1, <1>2, <1>3 DEF TypeOK
<1> QED BY <1>2, <1>3, <1>4, QuietKeeps

\* Steps that write a purchase or the memory of one and leave request r done.
\* What was searched stays searched if the rows written clash with nobody.
LEMMA WriteKeeps ==
  ASSUME CInv, NEW r \in Requests, NEW local \in Local, Goes(r, local),
         local.pc \in {"done", "failed"} \/ (IsCreate(r) /\ local.pc = "committed"),
         rows' \in Seq(Row), count' \in [Suppliers \X Items -> Nat], snap' \in [Items -> Nat],
         UNCHANGED <<known, crashes>>,
         DOMAIN rows \subseteq DOMAIN rows',
         NEW n \in DOMAIN rows',
         \A k \in DOMAIN rows' : k # n => k \in DOMAIN rows /\ rows'[k] = rows[k],
         \/ ~Plain(rows'[n])
         \/ /\ IsCreate(r) /\ req[r].pc \in Creating /\ Clean(r) /\ n \notin DOMAIN rows
            /\ rows'[n].supplier = Body[r].supplier /\ rows'[n].day = Body[r].day
            /\ rows'[n].content = Body[r].content
  PROVE  CInv'
<1>1. TypeOK /\ LockExclusive /\ SearchHolds /\ EditHasContent /\ OpPhase /\ NoDuplicates
  BY DEF CInv
<1>2. /\ req' \in [Requests -> Local]
      /\ req'[r] = local
      /\ \A q \in Requests : q # r => req'[q] = req[q]
  BY <1>1, GoesKeeps
<1>3. TypeOK'
  BY <1>1, <1>2 DEF TypeOK
<1>4. LockExclusive'
  BY <1>1, <1>2 DEF LockExclusive, Creating, IsCreate
<1>5. SearchHolds'
  <2> SUFFICES ASSUME NEW q \in Requests, IsCreate(q), req'[q].pc \in Searched, ~Body[q].forced,
                      NEW k \in DOMAIN rows',
                      Clash(rows'[k], Body[q].supplier, Body[q].day, Body[q].content)
               PROVE  FALSE
    BY DEF SearchHolds, IsCreate, Clean, Clash, Plain, Live
  <2>1. q # r /\ req[q].pc \in Searched /\ Clean(q)
    BY <1>1, <1>2 DEF SearchHolds, Searched
  <2>2. k = n
    BY <2>1 DEF Clean
  <2>3. /\ IsCreate(r) /\ req[r].pc \in Creating
        /\ rows'[n].supplier = Body[r].supplier /\ rows'[n].day = Body[r].day
    BY <2>2 DEF Clash
  <2>4. req[q].pc \in Creating
    BY <2>1 DEF Searched, Creating
  <2> QED BY <1>1, <2>1, <2>2, <2>3, <2>4 DEF LockExclusive, Clash
<1>6. EditHasContent'
  BY <1>1, <1>2 DEF EditHasContent, IsCreate
<1>7. OpPhase'
  BY <1>1, <1>2 DEF OpPhase, IsCreate
<1>8. NoDuplicates'
  <2> SUFFICES ASSUME NEW k \in DOMAIN rows', NEW m \in DOMAIN rows', k # m,
                      Plain(rows'[k]), Plain(rows'[m]),
                      rows'[k].supplier = rows'[m].supplier, rows'[k].day = rows'[m].day,
                      Similar(rows'[k].content, rows'[m].content)
               PROVE  FALSE
    BY DEF NoDuplicates, Plain, Live
  <2>1. rows'[k] \in Row /\ rows'[m] \in Row
    OBVIOUS
  <2>2. rows'[k].content \in Content /\ rows'[m].content \in Content
    BY <2>1 DEF Row
  <2>3. Similar(rows'[m].content, rows'[k].content)
    BY <2>2, SimilarSymmetric
  <2>4. CASE k # n /\ m # n
    BY <1>1, <2>4 DEF NoDuplicates, Plain, Live
  <2>5. CASE k = n
    BY <2>3, <2>5 DEF Clean, Clash
  <2>6. CASE m = n
    BY <2>6 DEF Clean, Clash
  <2> QED BY <2>4, <2>5, <2>6
<1> QED BY <1>3, <1>4, <1>5, <1>6, <1>7, <1>8 DEF CInv

\* A request that gives up writes nothing.
LEMMA FailKeeps ==
  ASSUME CInv, NEW r \in Requests, Go(r, "failed"), UNCHANGED <<rows, count, snap, known, crashes>>
  PROVE  CInv'
<1>1. TypeOK
  BY DEF CInv
<1> DEFINE local == [req[r] EXCEPT !.pc = "failed"]
<1>2. local \in Local /\ local.pc = "failed" /\ Goes(r, local)
  BY <1>1, LocalTypes DEF Go
<1> HIDE DEF local
<1>3. known' \in [Keys -> Nat]
  BY <1>1 DEF TypeOK
<1> QED BY <1>2, <1>3, QuietKeeps

LEMMA MemoryTypes ==
  ASSUME TypeOK, NEW r \in Requests, NEW supplier, NEW content, NEW status, NEW n \in Nat
  PROVE  /\ Counted(r, supplier, content) \in [Suppliers \X Items -> Nat]
         /\ Remembered(content, status, n) \in [Items -> Nat]
<1>1. req[r].seen \in [Items -> Nat]
  <2>1. req[r] \in Local
    BY LocalTypes
  <2> QED BY <2>1 DEF Local
<1>2. Counted(r, supplier, content) \in [Suppliers \X Items -> Nat]
  <2> SUFFICES ASSUME NEW x \in Suppliers \X Items
               PROVE  (IF x[1] = supplier /\ x[2] \in content.items
                       THEN req[r].seen[x[2]] + 1 ELSE count[x]) \in Nat
    BY DEF Counted
  <2>1. req[r].seen[x[2]] + 1 \in Nat
    BY <1>1
  <2>2. count[x] \in Nat
    BY DEF TypeOK
  <2> QED BY <2>1, <2>2
<1>3. Remembered(content, status, n) \in [Items -> Nat]
  BY DEF TypeOK, Remembered
<1> QED BY <1>2, <1>3

LEMMA CommitKeeps ==
  ASSUME CInv, NEW r \in Requests, Commit(r)
  PROVE  CInv'
<1>1. TypeOK /\ SearchHolds
  BY DEF CInv
<1> DEFINE b == Body[r]
<1>2. req[r].pc = "synced" /\ IsCreate(r) /\ UNCHANGED <<known, crashes>>
  BY DEF Commit, IsCreate
<1>3. CASE FirstTaken(r, b.supplier, b.content)
  BY <1>3, FailKeeps DEF Commit
<1>4. CASE ~FirstTaken(r, b.supplier, b.content)
  <2> DEFINE n == Len(rows) + 1
             p == NewRow(r)
             local == [req[r] EXCEPT !.pc = "committed", !.row = n]
  <2>1. /\ rows' = Append(rows, p)
        /\ count' = Counted(r, b.supplier, b.content)
        /\ snap' = Remembered(b.content, b.status, n)
        /\ Goes(r, local)
    BY <1>4 DEF Commit
  <2>2. req[r] \in Local
    BY <1>1, LocalTypes
  <2>3. p \in Row /\ p.supplier = b.supplier /\ p.day = b.day /\ p.content = b.content /\ p.forced = b.forced
    <3>1. req[r].num \in Nat
      BY <2>2 DEF Local
    <3> QED BY <1>2, <3>1, BodyTypes DEF NewRow, Row
  <2> HIDE DEF p
  <2>4. rows \in Seq(Row) /\ Len(rows) \in Nat /\ n \in Nat
    BY <1>1 DEF TypeOK
  <2>5. /\ rows' \in Seq(Row)
        /\ n \in DOMAIN rows' /\ n \notin DOMAIN rows /\ DOMAIN rows \subseteq DOMAIN rows'
        /\ rows'[n] = p
        /\ \A k \in DOMAIN rows' : k # n => k \in DOMAIN rows /\ rows'[k] = rows[k]
    BY <2>1, <2>3, <2>4
  <2>6. count' \in [Suppliers \X Items -> Nat] /\ snap' \in [Items -> Nat]
    BY <1>1, <2>1, <2>4, MemoryTypes
  <2>7. local \in Local /\ local.pc = "committed"
    BY <2>2, <2>4, RowTypes
  <2>8. req[r].pc \in Creating /\ req[r].pc \in Searched
    BY <1>2 DEF Creating, Searched
  <2>9. ~Plain(rows'[n]) \/ Clean(r)
    BY <1>1, <1>2, <2>3, <2>5, <2>8 DEF SearchHolds, Plain
  <2>10. \/ ~Plain(rows'[n])
         \/ /\ IsCreate(r) /\ req[r].pc \in Creating /\ Clean(r) /\ n \notin DOMAIN rows
            /\ rows'[n].supplier = Body[r].supplier /\ rows'[n].day = Body[r].day
            /\ rows'[n].content = Body[r].content
    BY <1>2, <2>3, <2>5, <2>8, <2>9
  <2>11. local.pc \in {"done", "failed"} \/ (IsCreate(r) /\ local.pc = "committed")
    BY <1>2, <2>7
  <2>12. Goes(r, local)
    BY <2>1
  <2>13. UNCHANGED <<known, crashes>>
    BY <1>2
  <2> HIDE DEF n, local
  <2> QED BY <2>5, <2>6, <2>7, <2>10, <2>11, <2>12, <2>13, WriteKeeps
<1> QED BY <1>3, <1>4

\* An edit or a closing writes one purchase again, and it is plain no more.
LEMMA RewriteKeeps ==
  ASSUME CInv, NEW r \in Requests, Go(r, "done"), UNCHANGED <<known, crashes>>,
         NEW n \in DOMAIN rows, NEW p \in Row, ~Plain(p), rows' = [rows EXCEPT ![n] = p],
         count' \in [Suppliers \X Items -> Nat], snap' \in [Items -> Nat]
  PROVE  CInv'
<1>1. TypeOK
  BY DEF CInv
<1>2. rows \in Seq(Row)
  BY <1>1 DEF TypeOK
<1>3. /\ rows' \in Seq(Row)
      /\ n \in DOMAIN rows' /\ DOMAIN rows \subseteq DOMAIN rows'
      /\ rows'[n] = p
      /\ \A k \in DOMAIN rows' : k # n => k \in DOMAIN rows /\ rows'[k] = rows[k]
  BY <1>2
<1> DEFINE local == [req[r] EXCEPT !.pc = "done"]
<1>4. local \in Local /\ local.pc \in {"done", "failed"} /\ Goes(r, local)
  BY <1>1, LocalTypes DEF Go
<1> HIDE DEF local
<1>5. ~Plain(rows'[n])
  BY <1>3
<1> QED BY <1>3, <1>4, <1>5, WriteKeeps

LEMMA BeginEditKeeps ==
  ASSUME CInv, NEW r \in Requests, NEW n \in DOMAIN rows, NEW content \in Edits, NEW forced \in BOOLEAN,
         BeginEdit(r, n, content, forced)
  PROVE  CInv'
<1>1. TypeOK
  BY DEF CInv
<1> DEFINE local == Loaded(req[r], n, content)
<1>2. /\ ~IsCreate(r) /\ Goes(r, local) /\ UNCHANGED <<rows, count, snap, known, crashes>>
  BY DEF BeginEdit, IsCreate, Loaded
<1> HIDE DEF local
<1>3. req[r] \in Local /\ n \in Nat /\ content \in Content
  <2>1. req[r] \in Local
    BY <1>1, LocalTypes
  <2>2. rows \in Seq(Row)
    BY <1>1 DEF TypeOK
  <2>3. content \in Content
    BY CreateAssumption
  <2> QED BY <2>1, <2>2, <2>3
<1>4. local \in Local /\ local.pc = "loaded" /\ local.row = n /\ local.content = content
  BY <1>3, LoadTypes DEF local
<1> HIDE DEF local
<1>5. known' \in [Keys -> Nat]
  BY <1>1, <1>2 DEF TypeOK
<1> QED BY <1>2, <1>3, <1>4, <1>5, QuietKeeps

LEMMA FinishEditKeeps ==
  ASSUME CInv, NEW r \in Requests, FinishEdit(r)
  PROVE  CInv'
<1>1. TypeOK /\ EditHasContent
  BY DEF CInv
<1> DEFINE n == req[r].row
           content == req[r].content
           p == [rows[n] EXCEPT !.content = content, !.status = Body[r].status, !.edited = TRUE]
<1>2. req[r].pc = "synced" /\ Body[r].op = "edit" /\ UNCHANGED <<known, crashes>>
  BY DEF FinishEdit
<1>3. CASE FirstTaken(r, rows[n].supplier, content)
  BY <1>3, FailKeeps DEF FinishEdit
<1>4. CASE ~FirstTaken(r, rows[n].supplier, content)
  <2>1. /\ rows' = [rows EXCEPT ![n] = p]
        /\ count' = Counted(r, rows[n].supplier, content)
        /\ snap' = Remembered(content, Body[r].status, n)
        /\ Go(r, "done")
    BY <1>4 DEF FinishEdit
  <2>2. n \in DOMAIN rows /\ content \in Content
    BY <1>1, <1>2 DEF EditHasContent
  <2>3. rows[n] \in Row /\ n \in Nat
    BY <1>1, <2>2 DEF TypeOK
  <2>4. Body[r].status \in {"draft", "saved", "confirmed"}
    BY BodyTypes
  <2>5. p \in Row /\ p.edited = TRUE
    BY <2>2, <2>3, <2>4, EditTypes
  <2>6. count' \in [Suppliers \X Items -> Nat] /\ snap' \in [Items -> Nat]
    BY <1>1, <2>1, <2>3, MemoryTypes
  <2>7. ~Plain(p)
    BY <2>5 DEF Plain
  <2> HIDE DEF p, n
  <2> QED BY <1>2, <2>1, <2>2, <2>5, <2>6, <2>7, RewriteKeeps
<1> QED BY <1>3, <1>4

LEMMA BeginCloseKeeps ==
  ASSUME CInv, NEW r \in Requests, NEW n \in DOMAIN rows, BeginClose(r, n)
  PROVE  CInv'
<1>1. TypeOK
  BY DEF CInv
<1>2. PICK latest \in [Items -> 0..Len(rows)] :
        Goes(r, [req[r] EXCEPT !.pc = "loaded", !.row = n, !.latest = latest])
  BY DEF BeginClose
<1>3. ~IsCreate(r) /\ Body[r].op # "edit" /\ UNCHANGED <<rows, count, snap, known, crashes>>
  BY DEF BeginClose, IsCreate
<1>4. req[r] \in Local /\ n \in Nat /\ latest \in [Items -> Nat]
  <2>1. req[r] \in Local
    BY <1>1, LocalTypes
  <2>2. rows \in Seq(Row) /\ Len(rows) \in Nat
    BY <1>1 DEF TypeOK
  <2>3. latest \in [Items -> Nat]
    BY <1>2, <2>2
  <2> QED BY <2>1, <2>2, <2>3
<1> DEFINE local == Closing(req[r], n, latest)
<1>5. local \in Local /\ local.pc = "loaded" /\ local.row = n
  BY <1>4, CloseTypes
<1>6. Goes(r, local)
  BY <1>2 DEF Closing
<1> HIDE DEF local
<1>7. known' \in [Keys -> Nat]
  BY <1>1, <1>3 DEF TypeOK
<1> QED BY <1>3, <1>5, <1>6, <1>7, QuietKeeps

LEMMA FinishCloseKeeps ==
  ASSUME CInv, NEW r \in Requests, FinishClose(r)
  PROVE  CInv'
<1>1. TypeOK /\ EditHasContent
  BY DEF CInv
<1> DEFINE n == req[r].row
           status == IF Body[r].op = "cancel" THEN "cancelled" ELSE "deleted"
           p == Closed(rows[n], status)
<1>2. /\ req[r].pc = "loaded" /\ Body[r].op \in {"cancel", "delete"} /\ UNCHANGED <<count, known, crashes>>
      /\ rows' = [rows EXCEPT ![n] = p]
      /\ snap' = [i \in Items |-> IF i \in rows[n].content.items THEN req[r].latest[i] ELSE snap[i]]
      /\ Go(r, "done")
  BY DEF FinishClose
<1>3. n \in DOMAIN rows
  BY <1>1, <1>2 DEF EditHasContent
<1>4. rows[n] \in Row
  BY <1>1, <1>3 DEF TypeOK
<1>5. status \in {"cancelled", "deleted"}
  OBVIOUS
<1> HIDE DEF status
<1>6. p \in Row /\ ~Plain(p)
  BY <1>4, <1>5, ClosedTypes DEF Plain
<1>7. req[r].latest \in [Items -> Nat]
  <2>1. req[r] \in Local
    BY <1>1, LocalTypes
  <2> QED BY <2>1 DEF Local
<1>8. count' \in [Suppliers \X Items -> Nat] /\ snap' \in [Items -> Nat]
  BY <1>1, <1>2, <1>7 DEF TypeOK
<1> HIDE DEF p, n
<1> QED BY <1>2, <1>3, <1>6, <1>8, RewriteKeeps

LEMMA RestartKeeps ==
  ASSUME CInv, Restart
  PROVE  CInv'
<1>1. TypeOK /\ LockExclusive /\ SearchHolds /\ EditHasContent /\ OpPhase /\ NoDuplicates
  BY DEF CInv
<1>2. /\ crashes' = crashes + 1
      /\ known' = [k \in Keys |-> 0]
      /\ req' = [r \in Requests |-> IF req[r].pc \in {"new", "done"} THEN req[r]
                                    ELSE [req[r] EXCEPT !.pc = "failed"]]
      /\ UNCHANGED <<rows, count, snap>>
  BY DEF Restart
<1>3. \A r \in Requests : req'[r] \in Local /\ req'[r].pc \in {"new", "done", "failed"}
  <2> TAKE r \in Requests
  <2>1. CASE req[r].pc \in {"new", "done"}
    BY <1>1, <1>2, <2>1 DEF TypeOK
  <2>2. CASE req[r].pc \notin {"new", "done"}
    BY <1>1, <1>2, <2>2, LocalTypes
  <2> QED BY <2>1, <2>2
<1>4. req' \in [Requests -> Local]
  BY <1>2, <1>3
<1>5. TypeOK'
  BY <1>1, <1>2, <1>4 DEF TypeOK
<1>6. LockExclusive' /\ EditHasContent' /\ OpPhase'
  BY <1>3 DEF LockExclusive, EditHasContent, OpPhase, Creating
<1>7. SearchHolds'
  BY <1>3 DEF SearchHolds, Searched
<1>8. NoDuplicates'
  BY <1>1, <1>2 DEF NoDuplicates, Live
<1> QED BY <1>5, <1>6, <1>7, <1>8 DEF CInv

LEMMA InitKeeps == Init => CInv
<1> SUFFICES ASSUME Init PROVE CInv
  OBVIOUS
<1>1. Unread \in Local
  BY DEF Unread, Local
<1>2. \A r \in Requests : req[r] \in Local /\ req[r].pc = "new"
  BY <1>1 DEF Init, Unread
<1>3. TypeOK
  BY <1>1 DEF Init, TypeOK
<1>4. LockExclusive /\ SearchHolds /\ EditHasContent /\ OpPhase
  BY <1>2 DEF LockExclusive, SearchHolds, EditHasContent, OpPhase, Creating, Searched
<1>5. NoDuplicates
  BY DEF Init, NoDuplicates
<1> QED BY <1>3, <1>4, <1>5 DEF CInv

LEMMA StepKeeps == CInv /\ [Next]_vars => CInv'
<1> SUFFICES ASSUME CInv, [Next]_vars PROVE CInv'
  OBVIOUS
<1>1. CASE Restart
  BY <1>1, RestartKeeps
<1>2. ASSUME NEW r \in Requests, Step(r)
      PROVE  CInv'
  <2>1. OpPhase
    BY DEF CInv
  <2>2. CASE TakeLock(r)
    BY <2>1, <2>2, TakeLockKeeps DEF OpPhase, TakeLock
  <2>3. CASE Search(r)
    BY <2>1, <2>3, SearchKeeps DEF OpPhase, Search
  <2>4. CASE NextHumanId(r)
    BY <2>1, <2>4, NextHumanIdKeeps DEF OpPhase, NextHumanId
  <2>5. CASE Insert(r)
    BY <2>1, <2>5, InsertKeeps DEF OpPhase, Insert
  <2>6. CASE SyncMemory(r)
    BY <2>6, SyncMemoryKeeps
  <2>7. CASE Commit(r)
    BY <2>7, CommitKeeps
  <2>8. CASE Remember(r)
    BY <2>1, <2>8, RememberKeeps DEF OpPhase, Remember
  <2>9. CASE FinishEdit(r)
    BY <2>9, FinishEditKeeps
  <2>10. CASE FinishClose(r)
    BY <2>10, FinishCloseKeeps
  <2> QED BY <1>2, <2>2, <2>3, <2>4, <2>5, <2>6, <2>7, <2>8, <2>9, <2>10 DEF Step
<1>3. ASSUME NEW r \in Requests, Arrive(r)
      PROVE  CInv'
  BY <1>3, SubmitKeeps, BeginCloseKeeps, BeginEditKeeps DEF Arrive
<1>4. CASE UNCHANGED vars
  BY <1>4 DEF vars, CInv, TypeOK, LockExclusive, SearchHolds, Clean, Clash, Plain, EditHasContent, OpPhase,
             NoDuplicates, Live, IsCreate
<1> QED BY <1>1, <1>2, <1>3, <1>4 DEF Next

-----------------------------------------------------------------------------
LEMMA CreateInvariant == Spec => []CInv
<1>1. Init => CInv
  BY InitKeeps
<1>2. CInv /\ [Next]_vars => CInv'
  BY StepKeeps
<1> QED BY <1>1, <1>2, PTL DEF Spec

\* Every variable keeps the shape of its table (models/trade_purchase.py,
\* models/supplier_item_default.py), whatever is sent and however often.
THEOREM CreateTypeCorrect == Spec => []TypeOK
<1>1. CInv => TypeOK
  BY DEF CInv
<1> QED BY <1>1, CreateInvariant, PTL

\* A purchase sent twice is recorded once, with any number of clients,
\* retries and restarts (create_trade_purchase): the lock and the search in
\* the database do it; the process's map of keys is not needed.
THEOREM RecordedOnce == Spec => []NoDuplicates
<1>1. CInv => NoDuplicates
  BY DEF CInv
<1> QED BY <1>1, CreateInvariant, PTL

-----------------------------------------------------------------------------
(***************************************************************************)
(* What supplier and item remember.  A creation that has inserted its row  *)
(* holds the next number, so it is the only one, and the counts it read    *)
(* are still those when it commits; a cancellation is the only request of  *)
(* the office at work, so what it found to be the newest purchase of an    *)
(* item is still live when the item is told to remember it.                *)
(***************************************************************************)
Holding == {"inserted", "synced"}

NumbersInOrder ==
  /\ \A n \in DOMAIN rows : rows[n].num = n
  /\ \A r \in Requests : IsCreate(r) =>
       /\ req[r].pc = "numbered" => req[r].num \in 1..(Len(rows) + 1)
       /\ req[r].pc \in Holding => req[r].num = Len(rows) + 1

OneInserted ==
  \A q, r \in Requests :
    IsCreate(q) /\ IsCreate(r) /\ req[q].pc \in Holding /\ req[r].pc \in Holding => q = r

Unedited == \A n \in DOMAIN rows : ~rows[n].edited

CountsRead ==
  Unedited => \A r \in Requests : IsCreate(r) /\ req[r].pc = "synced"
                => \A i \in Items : req[r].seen[i] = count[<<Body[r].supplier, i>>]

Ended == {"new", "done", "failed"}
OfficeAlone ==
  \A q, r \in Requests :
    ~IsCreate(q) /\ ~IsCreate(r) /\ req[q].pc \notin Ended /\ req[r].pc \notin Ended => q = r

LatestLive ==
  \A r \in Requests : Body[r].op \in {"cancel", "delete"} /\ req[r].pc = "loaded"
    => \A i \in Items : \/ req[r].latest[i] = 0
                        \/ /\ req[r].latest[i] \in DOMAIN rows
                           /\ req[r].latest[i] # req[r].row
                           /\ Live(rows[req[r].latest[i]])

SnapshotsKnown == \A i \in Items : snap[i] \in {0} \cup DOMAIN rows

MInv == NumbersInOrder /\ OneInserted /\ CountsRead /\ CreatesCounted
          /\ OfficeAlone /\ LatestLive /\ SnapshotsKnown /\ SnapshotLive

\* A request that moves without writing rows, counts or snapshots.
LEMMA MemoryQuiet ==
  ASSUME MInv, NEW r \in Requests, UNCHANGED <<rows, count, snap>>,
         \A q \in Requests \ {r} : req'[q] = req[q],
         \/ req'[r].pc \in {"done", "failed"}
         \/ IsCreate(r) /\ req'[r].pc \in {"waiting", "locked", "checked", "committed"}
         \/ IsCreate(r) /\ req'[r].pc = "numbered" /\ req'[r].num \in 1..(Len(rows) + 1)
         \/ /\ IsCreate(r) /\ req'[r].pc = "inserted" /\ req'[r].num = Len(rows) + 1
            /\ \A q \in Requests \ {r} : ~(IsCreate(q) /\ req[q].pc \in Holding)
         \/ /\ IsCreate(r) /\ req[r].pc = "inserted" /\ req'[r].pc = "synced" /\ req'[r].num = req[r].num
            /\ \A i \in Items : req'[r].seen[i] = count[<<Body[r].supplier, i>>]
         \/ /\ Body[r].op = "edit" /\ req'[r].pc \in {"loaded", "synced"}
            /\ OfficeFree \/ req[r].pc \notin Ended
         \/ /\ Body[r].op \in {"cancel", "delete"} /\ req'[r].pc = "loaded" /\ OfficeFree
            /\ \A i \in Items : \/ req'[r].latest[i] = 0
                                \/ /\ req'[r].latest[i] \in DOMAIN rows
                                   /\ req'[r].latest[i] # req'[r].row
                                   /\ Live(rows[req'[r].latest[i]])
  PROVE  MInv'
<1>1. NumbersInOrder'
  BY DEF MInv, NumbersInOrder, Holding, IsCreate
<1>2. OneInserted'
  BY DEF MInv, OneInserted, Holding, IsCreate
<1>3. CountsRead'
  BY DEF MInv, CountsRead, IsCreate, Unedited
<1>4. CreatesCounted' /\ SnapshotsKnown' /\ SnapshotLive'
  BY DEF MInv, CreatesCounted, SnapshotsKnown, SnapshotLive, Live
<1>5. OfficeAlone'
  BY DEF MInv, OfficeAlone, OfficeFree, Ended, IsCreate
<1>6. LatestLive'
  BY DEF MInv, LatestLive, Live, IsCreate
<1> QED BY <1>1, <1>2, <1>3, <1>4, <1>5, <1>6 DEF MInv

\* A creation up to its commit.
LEMMA CreateMemory ==
  ASSUME CInv, MInv, NEW r \in Requests,
         Submit(r) \/ TakeLock(r) \/ Search(r) \/ NextHumanId(r) \/ Insert(r) \/ Remember(r)
  PROVE  MInv'
<1>1. TypeOK /\ OpPhase
  BY DEF CInv
<1>2. req[r] \in Local /\ req \in [Requests -> Local] /\ rows \in Seq(Row) /\ Len(rows) \in Nat
      /\ DOMAIN rows = 1..Len(rows)
  BY <1>1 DEF TypeOK
<1>3. UNCHANGED <<rows, count, snap>>
  BY DEF Submit, TakeLock, Search, NextHumanId, Insert, Remember
<1>4. \A q \in Requests \ {r} : req'[q] = req[q]
  BY <1>2 DEF Submit, TakeLock, Search, NextHumanId, Insert, Remember, Go, Goes
<1>5. IsCreate(r)
  BY <1>1 DEF Submit, TakeLock, Search, NextHumanId, Insert, Remember, OpPhase, IsCreate
<1>6. CASE Submit(r) \/ TakeLock(r) \/ Search(r) \/ Remember(r)
  <2>1. req'[r].pc \in {"waiting", "locked", "checked", "done"}
    <3>1. CASE Submit(r)
      <4>1. \/ req'[r] = [req[r] EXCEPT !.pc = "waiting"]
            \/ \E hit \in Nat \cup {known[Body[r].key]} : req'[r] = [req[r] EXCEPT !.pc = "done", !.row = hit]
        BY <1>2, <3>1 DEF Submit, Go, Goes
      <4> QED BY <1>2, <4>1 DEF Local
    <3>2. CASE Search(r)
      <4>1. CASE Go(r, "checked")
        BY <1>2, <4>1 DEF Go, Goes, Local
      <4>2. CASE \E n \in Duplicates(Body[r].supplier, Body[r].content, 0) :
                   Goes(r, [req[r] EXCEPT !.pc = "done", !.row = n])
        BY <1>2, <4>2 DEF Goes, Local
      <4> QED BY <3>2, <4>1, <4>2 DEF Search
    <3>3. CASE TakeLock(r) \/ Remember(r)
      BY <1>2, <3>3 DEF TakeLock, Remember, Go, Goes, Local
    <3> QED BY <1>6, <3>1, <3>2, <3>3
  <2> QED BY <1>3, <1>4, <1>5, <2>1, MemoryQuiet
<1>7. CASE NextHumanId(r)
  <2>1. PICK n \in {0} \cup {rows[k].num : k \in DOMAIN rows} :
          Goes(r, [req[r] EXCEPT !.pc = "numbered", !.num = n + 1])
    BY <1>7 DEF NextHumanId
  <2>2. n + 1 \in 1..(Len(rows) + 1)
    BY <1>2, <2>1 DEF MInv, NumbersInOrder
  <2>3. req'[r].pc = "numbered" /\ req'[r].num = n + 1
    BY <1>2, <2>1 DEF Goes, Local
  <2> QED BY <1>3, <1>4, <1>5, <2>2, <2>3, MemoryQuiet
<1>8. CASE Insert(r)
  <2>1. /\ req[r].pc = "numbered" /\ ~NumberHeld(r)
        /\ req'[r] = [req[r] EXCEPT !.pc = IF NumberTaken(r) THEN "failed" ELSE "inserted"]
    BY <1>2, <1>8 DEF Insert, Go, Goes
  <2>2. CASE NumberTaken(r)
    <3>1. req'[r].pc = "failed"
      BY <1>2, <2>1, <2>2 DEF Local
    <3> QED BY <1>3, <1>4, <3>1, MemoryQuiet
  <2>3. CASE ~NumberTaken(r)
    <3>1. req'[r].pc = "inserted" /\ req'[r].num = req[r].num
      BY <1>2, <2>1, <2>3 DEF Local
    <3>2. req[r].num \in 1..(Len(rows) + 1) /\ req[r].num \notin 1..Len(rows)
      BY <1>2, <1>5, <2>1, <2>3 DEF MInv, NumbersInOrder, NumberTaken
    <3>3. req[r].num = Len(rows) + 1
      BY <1>2, <3>2
    <3>4. \A q \in Requests \ {r} : ~(IsCreate(q) /\ req[q].pc \in Holding)
      BY <2>1, <3>3 DEF NumberHeld, MInv, NumbersInOrder, Holding, IsCreate
    <3> QED BY <1>3, <1>4, <1>5, <3>1, <3>3, <3>4, MemoryQuiet
  <2> QED BY <2>2, <2>3
<1> QED BY <1>6, <1>7, <1>8

\* The counts are complete as long as neither they nor the rows change.
LEMMA UnchangedCounted ==
  ASSUME CreatesCounted, UNCHANGED <<rows, count>>
  PROVE  CreatesCounted'
<1> SUFFICES ASSUME \A m \in DOMAIN rows' : ~rows'[m].edited, NEW s \in Suppliers, NEW i \in Items
             PROVE  count'[s, i]
                      = Cardinality({m \in DOMAIN rows' : rows'[m].supplier = s /\ i \in rows'[m].content.items})
  BY DEF CreatesCounted
<1>1. count[s, i] = Cardinality({m \in DOMAIN rows : rows[m].supplier = s /\ i \in rows[m].content.items})
  BY DEF CreatesCounted
<1> QED BY <1>1

\* What is read to be counted up.
LEMMA SyncKeepsMemory ==
  ASSUME CInv, MInv, NEW r \in Requests, SyncMemory(r)
  PROVE  MInv'
<1>1. TypeOK
  BY DEF CInv
<1>2. req[r] \in Local /\ req \in [Requests -> Local]
  BY <1>1 DEF TypeOK
<1>3. /\ UNCHANGED <<rows, count, snap>>
      /\ Body[r].op \in {"create", "edit"}
      /\ req[r].pc = IF Body[r].op = "create" THEN "inserted" ELSE "loaded"
      /\ req'[r] = [req[r] EXCEPT !.pc = "synced", !.seen = Counts(SupplierOf(r))]
      /\ \A q \in Requests \ {r} : req'[q] = req[q]
  BY <1>2 DEF SyncMemory, Goes
<1>4. /\ req'[r].pc = "synced" /\ req'[r].num = req[r].num
      /\ req'[r].seen = Counts(SupplierOf(r))
  BY <1>2, <1>3 DEF Local
<1>5. CASE Body[r].op = "create"
  <2>1. \A i \in Items : req'[r].seen[i] = count[<<Body[r].supplier, i>>]
    BY <1>4, <1>5 DEF Counts, SupplierOf
  <2> QED BY <1>3, <1>4, <1>5, <2>1, MemoryQuiet DEF IsCreate
<1>6. CASE Body[r].op = "edit"
  <2>1. req[r].pc \notin Ended
    BY <1>3, <1>6 DEF Ended
  <2> QED BY <1>3, <1>4, <1>6, <2>1, MemoryQuiet
<1> QED BY <1>3, <1>5, <1>6

\* The committed row is the only one in the making, so the counts it writes
\* are one more than those that are there.
LEMMA CommitKeepsMemory ==
  ASSUME CInv, MInv, NEW r \in Requests, Commit(r)
  PROVE  MInv'
<1>1. TypeOK
  BY DEF CInv
<1> DEFINE b == Body[r]
           n == Len(rows) + 1
<1>2. /\ req[r] \in Local /\ req \in [Requests -> Local] /\ rows \in Seq(Row) /\ Len(rows) \in Nat
      /\ DOMAIN rows = 1..Len(rows)
  BY <1>1 DEF TypeOK
<1>3. req[r].pc = "synced" /\ IsCreate(r)
  BY DEF Commit, IsCreate
<1>4. CASE FirstTaken(r, b.supplier, b.content)
  <2>1. /\ UNCHANGED <<rows, count, snap>> /\ req'[r].pc = "failed"
        /\ \A q \in Requests \ {r} : req'[q] = req[q]
    BY <1>2, <1>4 DEF Commit, Go, Goes, Local
  <2> QED BY <2>1, MemoryQuiet
<1>5. CASE ~FirstTaken(r, b.supplier, b.content)
  <2>1. /\ rows' = Append(rows, NewRow(r))
        /\ count' = Counted(r, b.supplier, b.content)
        /\ snap' = Remembered(b.content, b.status, n)
        /\ req'[r].pc = "committed"
        /\ \A q \in Requests \ {r} : req'[q] = req[q]
    BY <1>2, <1>5 DEF Commit, Goes, Local
  <2>2. /\ b.supplier \in Suppliers /\ b.content \in Content
        /\ b.status \in {"draft", "saved", "confirmed"}
    BY <1>3, BodyTypes
  <2>3. /\ NewRow(r).num = n /\ ~NewRow(r).edited /\ Live(NewRow(r))
        /\ NewRow(r).supplier = b.supplier /\ NewRow(r).content = b.content
    <3>1. req[r].num = n
      BY <1>3 DEF MInv, NumbersInOrder, Holding
    <3> QED BY <2>2, <3>1 DEF NewRow, Live
  <2>4. /\ DOMAIN rows' = 1..n /\ Len(rows') = n /\ rows'[n] = NewRow(r)
        /\ \A m \in DOMAIN rows : m \in DOMAIN rows' /\ rows'[m] = rows[m] /\ m # n
        /\ DOMAIN rows' = DOMAIN rows \cup {n}
    <3>1. PICK x : x = NewRow(r)
      OBVIOUS
    <3>2. rows' = Append(rows, x)
      BY <2>1, <3>1
    <3>3. /\ DOMAIN rows' = 1..(Len(rows) + 1) /\ Len(rows') = Len(rows) + 1 /\ rows'[Len(rows) + 1] = x
          /\ \A m \in 1..Len(rows) : rows'[m] = rows[m]
      BY <1>2, <3>2
    <3> QED BY <1>2, <3>1, <3>3
  <2>5. \A q \in Requests \ {r} : ~(IsCreate(q) /\ req[q].pc \in Holding)
    BY <1>3 DEF MInv, OneInserted, Holding
  <2>6. NumbersInOrder'
    <3>1. \A m \in DOMAIN rows' : rows'[m].num = m
      BY <2>3, <2>4 DEF MInv, NumbersInOrder
    <3>2. ASSUME NEW q \in Requests, IsCreate(q)
          PROVE  /\ req'[q].pc = "numbered" => req'[q].num \in 1..(Len(rows') + 1)
                 /\ req'[q].pc \in Holding => req'[q].num = Len(rows') + 1
      <4>1. CASE q = r
        BY <2>1, <4>1 DEF Holding
      <4>2. CASE q # r
        <5>1. req'[q] = req[q] /\ req[q].pc \notin Holding
          BY <2>1, <2>5, <3>2, <4>2
        <5>2. req[q].pc = "numbered" => req[q].num \in 1..(Len(rows) + 1)
          BY <3>2 DEF MInv, NumbersInOrder
        <5>3. 1..(Len(rows) + 1) \subseteq 1..(Len(rows') + 1)
          BY <1>2, <2>4
        <5> QED BY <5>1, <5>2, <5>3
      <4> QED BY <4>1, <4>2
    <3> QED BY <3>1, <3>2 DEF NumbersInOrder, IsCreate
  <2>7. OneInserted'
    BY <2>1, <2>5 DEF OneInserted, IsCreate, Holding
  <2>8. CountsRead'
    BY <2>1, <2>5 DEF CountsRead, IsCreate, Holding
  <2>9. CreatesCounted'
    <3> SUFFICES ASSUME \A m \in DOMAIN rows' : ~rows'[m].edited, NEW s \in Suppliers, NEW i \in Items
                 PROVE  count'[<<s, i>>]
                          = Cardinality({m \in DOMAIN rows' : rows'[m].supplier = s /\ i \in rows'[m].content.items})
      BY DEF CreatesCounted
    <3> DEFINE Old == {m \in DOMAIN rows : rows[m].supplier = s /\ i \in rows[m].content.items}
               New == {m \in DOMAIN rows' : rows'[m].supplier = s /\ i \in rows'[m].content.items}
    <3>1. Unedited
      BY <2>4 DEF Unedited
    <3>2. count[<<s, i>>] = Cardinality(Old)
      BY <3>1 DEF MInv, CreatesCounted, Unedited
    <3>3. count'[<<s, i>>] = IF s = b.supplier /\ i \in b.content.items
                             THEN req[r].seen[i] + 1 ELSE count[<<s, i>>]
      BY <2>1 DEF Counted
    <3>4. s = b.supplier => req[r].seen[i] = count[<<s, i>>]
      BY <1>3, <3>1 DEF MInv, CountsRead
    <3>5. IsFiniteSet(Old) /\ n \notin Old
      <4>1. IsFiniteSet(1..Len(rows))
        BY <1>2, FS_Interval
      <4>2. Old \subseteq 1..Len(rows) /\ n \notin Old
        BY <1>2, <2>4
      <4> QED BY <4>1, <4>2, FS_Subset
    <3>6. New = IF s = b.supplier /\ i \in b.content.items THEN Old \cup {n} ELSE Old
      BY <2>3, <2>4
    <3> HIDE DEF Old, New
    <3>7. CASE s = b.supplier /\ i \in b.content.items
      <4>1. Cardinality(Old \cup {n}) = Cardinality(Old) + 1
        BY <3>5, FS_AddElement
      <4> QED BY <3>2, <3>3, <3>4, <3>6, <3>7, <4>1 DEF New
    <3>8. CASE ~(s = b.supplier /\ i \in b.content.items)
      BY <3>2, <3>3, <3>6, <3>8 DEF New
    <3> QED BY <3>7, <3>8
  <2>10. OfficeAlone'
    BY <1>3, <2>1 DEF MInv, OfficeAlone, IsCreate, Ended
  <2>11. LatestLive'
    <3> SUFFICES ASSUME NEW q \in Requests, Body[q].op \in {"cancel", "delete"}, req'[q].pc = "loaded",
                        NEW i \in Items, req'[q].latest[i] # 0
                 PROVE  /\ req'[q].latest[i] \in DOMAIN rows'
                        /\ req'[q].latest[i] # req'[q].row
                        /\ Live(rows'[req'[q].latest[i]])
      BY DEF LatestLive, Live
    <3>1. req'[q] = req[q]
      BY <1>3, <2>1 DEF IsCreate
    <3>2. /\ req[q].latest[i] \in DOMAIN rows /\ req[q].latest[i] # req[q].row
          /\ Live(rows[req[q].latest[i]])
      BY <3>1 DEF MInv, LatestLive
    <3> QED BY <2>4, <3>1, <3>2
  <2>12. \A i \in Items : snap'[i] = n \/ (snap'[i] = snap[i] /\ (snap[i] = 0 \/ snap[i] \in DOMAIN rows))
    BY <2>1 DEF Remembered, MInv, SnapshotsKnown
  <2>13. SnapshotsKnown'
    BY <2>4, <2>12 DEF SnapshotsKnown
  <2>14. SnapshotLive'
    BY <2>3, <2>4, <2>12 DEF SnapshotLive, MInv, Live
  <2> QED BY <2>6, <2>7, <2>8, <2>9, <2>10, <2>11, <2>13, <2>14 DEF MInv
<1> QED BY <1>4, <1>5

\* An office request that writes one row, and is the only one at work.
LEMMA WriteKeepsMemory ==
  ASSUME CInv, MInv, NEW r \in Requests, ~IsCreate(r), req[r].pc \notin Ended, req'[r].pc = "done",
         \A q \in Requests \ {r} : req'[q] = req[q],
         NEW n \in DOMAIN rows, NEW p, rows' = [rows EXCEPT ![n] = p], p.num = rows[n].num,
         \/ p.edited
         \/ /\ UNCHANGED count /\ p.supplier = rows[n].supplier /\ p.content = rows[n].content
            /\ p.edited = rows[n].edited,
         SnapshotsKnown', SnapshotLive'
  PROVE  MInv'
<1>1. TypeOK
  BY DEF CInv
<1>2. /\ rows \in Seq(Row) /\ Len(rows) \in Nat /\ DOMAIN rows = 1..Len(rows)
  BY <1>1 DEF TypeOK
<1>3. /\ DOMAIN rows' = DOMAIN rows /\ Len(rows') = Len(rows)
      /\ rows'[n] = p /\ \A m \in DOMAIN rows \ {n} : rows'[m] = rows[m]
  BY <1>2
<1>4. NumbersInOrder'
  <2>1. \A m \in DOMAIN rows' : rows'[m].num = m
    BY <1>3 DEF MInv, NumbersInOrder
  <2>2. \A q \in Requests : IsCreate(q) =>
          /\ req'[q].pc = "numbered" => req'[q].num \in 1..(Len(rows') + 1)
          /\ req'[q].pc \in Holding => req'[q].num = Len(rows') + 1
    BY <1>3 DEF MInv, NumbersInOrder
  <2> QED BY <2>1, <2>2 DEF NumbersInOrder, IsCreate
<1>5. OneInserted'
  BY DEF MInv, OneInserted, IsCreate
<1>6. CountsRead' /\ CreatesCounted'
  <2>1. CASE p.edited
    <3>1. ~Unedited'
      BY <1>3, <2>1 DEF Unedited
    <3> QED BY <3>1 DEF CountsRead, CreatesCounted, Unedited
  <2>2. CASE /\ UNCHANGED count /\ p.supplier = rows[n].supplier /\ p.content = rows[n].content
             /\ p.edited = rows[n].edited
    <3>1. \A m \in DOMAIN rows : /\ rows'[m].supplier = rows[m].supplier
                                 /\ rows'[m].content = rows[m].content
                                 /\ rows'[m].edited = rows[m].edited
      BY <1>3, <2>2
    <3>2. Unedited' <=> Unedited
      BY <1>3, <3>1 DEF Unedited
    <3>3. CountsRead'
      BY <2>2, <3>2 DEF MInv, CountsRead, IsCreate
    <3>4. \A s \in Suppliers, i \in Items :
            {m \in DOMAIN rows' : rows'[m].supplier = s /\ i \in rows'[m].content.items}
              = {m \in DOMAIN rows : rows[m].supplier = s /\ i \in rows[m].content.items}
      BY <1>3, <3>1
    <3>5. CreatesCounted'
      <4> SUFFICES ASSUME \A m \in DOMAIN rows' : ~rows'[m].edited, NEW s \in Suppliers, NEW i \in Items
                   PROVE  count'[s, i]
                            = Cardinality({m \in DOMAIN rows' : rows'[m].supplier = s
                                                                  /\ i \in rows'[m].content.items})
        BY DEF CreatesCounted
      <4>1. count[s, i] = Cardinality({m \in DOMAIN rows : rows[m].supplier = s /\ i \in rows[m].content.items})
        BY <3>2 DEF MInv, CreatesCounted, Unedited
      <4> QED BY <2>2, <3>4, <4>1
    <3> QED BY <3>3, <3>5
  <2> QED BY <2>1, <2>2
<1>7. \A q \in Requests : ~IsCreate(q) => req'[q].pc \in Ended
  BY DEF MInv, OfficeAlone, Ended
<1>8. OfficeAlone' /\ LatestLive'
  BY <1>7 DEF OfficeAlone, LatestLive, IsCreate, Ended
<1> QED BY <1>4, <1>5, <1>6, <1>8 DEF MInv

\* Edits begin alone and leave a live purchase.
LEMMA EditKeepsMemory ==
  ASSUME CInv, MInv, NEW r \in Requests, FinishEdit(r)
  PROVE  MInv'
<1>1. TypeOK /\ EditHasContent
  BY DEF CInv
<1>2. req[r] \in Local /\ req \in [Requests -> Local] /\ rows \in Seq(Row)
  BY <1>1 DEF TypeOK
<1>3. PICK n, content : n = req[r].row /\ content = req[r].content
  OBVIOUS
<1>4. req[r].pc = "synced" /\ Body[r].op = "edit" /\ ~IsCreate(r) /\ req[r].pc \notin Ended
  BY DEF FinishEdit, IsCreate, Ended
<1>5. CASE FirstTaken(r, rows[n].supplier, content)
  <2>1. /\ UNCHANGED <<rows, count, snap>> /\ req'[r].pc = "failed"
        /\ \A q \in Requests \ {r} : req'[q] = req[q]
    BY <1>2, <1>3, <1>5 DEF FinishEdit, Go, Goes, Local
  <2> QED BY <2>1, MemoryQuiet
<1>6. CASE ~FirstTaken(r, rows[n].supplier, content)
  <2>1. PICK p : p = [rows[n] EXCEPT !.content = content, !.status = Body[r].status, !.edited = TRUE]
    OBVIOUS
  <2>2. /\ rows' = [rows EXCEPT ![n] = p]
        /\ snap' = Remembered(content, Body[r].status, n)
        /\ req'[r].pc = "done"
        /\ \A q \in Requests \ {r} : req'[q] = req[q]
    BY <1>2, <1>3, <1>6, <2>1 DEF FinishEdit, Go, Goes, Local
  <2>3. n \in DOMAIN rows
    BY <1>1, <1>3, <1>4 DEF EditHasContent, IsCreate
  <2>4. /\ p.num = rows[n].num /\ p.edited /\ Live(p)
    <3>1. rows[n] \in Row /\ Body[r].status \in {"draft", "saved", "confirmed"}
      BY <1>2, <2>3, BodyTypes
    <3>2. p.num = rows[n].num /\ p.edited = TRUE /\ p.status = Body[r].status
      BY <2>1, <3>1 DEF Row
    <3> QED BY <3>1, <3>2 DEF Live
  <2>5. /\ DOMAIN rows' = DOMAIN rows
        /\ rows'[n] = p /\ \A m \in DOMAIN rows \ {n} : rows'[m] = rows[m]
    BY <1>2, <2>2, <2>3
  <2>6. \A i \in Items : snap'[i] = n \/ (snap'[i] = snap[i] /\ (snap[i] = 0 \/ snap[i] \in DOMAIN rows))
    BY <2>2 DEF Remembered, MInv, SnapshotsKnown
  <2>7. SnapshotsKnown'
    BY <2>3, <2>5, <2>6 DEF SnapshotsKnown
  <2>8. SnapshotLive'
    BY <2>3, <2>4, <2>5, <2>6 DEF SnapshotLive, MInv, Live
  <2> QED BY <1>4, <2>2, <2>3, <2>4, <2>7, <2>8, WriteKeepsMemory
<1> QED BY <1>5, <1>6

LEMMA BeginOfficeKeepsMemory ==
  ASSUME CInv, MInv, NEW r \in Requests, NEW n \in DOMAIN rows,
         BeginClose(r, n) \/ \E content \in Edits, forced \in BOOLEAN : BeginEdit(r, n, content, forced)
  PROVE  MInv'
<1>1. TypeOK
  BY DEF CInv
<1>2. req[r] \in Local /\ req \in [Requests -> Local] /\ rows \in Seq(Row)
      /\ DOMAIN rows = 1..Len(rows) /\ Len(rows) \in Nat
  BY <1>1 DEF TypeOK
<1>3. CASE \E content \in Edits, forced \in BOOLEAN : BeginEdit(r, n, content, forced)
  <2>1. /\ UNCHANGED <<rows, count, snap>> /\ Body[r].op = "edit" /\ OfficeFree
        /\ req'[r].pc = "loaded"
        /\ \A q \in Requests \ {r} : req'[q] = req[q]
    <3>1. PICK content \in Edits : \E forced \in BOOLEAN : BeginEdit(r, n, content, forced)
      BY <1>3
    <3>2. req' = [req EXCEPT ![r] = [req[r] EXCEPT !.pc = "loaded", !.row = n, !.content = content]]
      BY <3>1 DEF BeginEdit, Goes
    <3>3. UNCHANGED <<rows, count, snap>> /\ Body[r].op = "edit" /\ OfficeFree
      BY <3>1 DEF BeginEdit
    <3> QED BY <1>2, <3>2, <3>3 DEF Local
  <2> QED BY <2>1, MemoryQuiet
<1>4. CASE BeginClose(r, n)
  <2>1. PICK latest \in [Items -> 0..Len(rows)] :
          /\ \A i \in Items : IsNewest(latest[i], i, n)
          /\ Goes(r, [req[r] EXCEPT !.pc = "loaded", !.row = n, !.latest = latest])
    BY <1>4 DEF BeginClose
  <2>2. /\ UNCHANGED <<rows, count, snap>> /\ Body[r].op \in {"cancel", "delete"} /\ OfficeFree
    BY <1>4 DEF BeginClose
  <2>3. /\ req'[r].pc = "loaded" /\ req'[r].row = n /\ req'[r].latest = latest
        /\ \A q \in Requests \ {r} : req'[q] = req[q]
    BY <1>2, <2>1 DEF Goes, Local
  <2>4. ASSUME NEW i \in Items, latest[i] # 0
        PROVE  latest[i] \in DOMAIN rows /\ latest[i] # n /\ Live(rows[latest[i]])
    <3>1. IsNewest(latest[i], i, n)
      BY <2>1
    <3> HIDE DEF IsNewest
    <3>2. PICK m : m = latest[i]
      OBVIOUS
    <3>3. /\ m \in DOMAIN rows
          /\ Counting(IF m = n THEN Closed(rows[m], "cancelled") ELSE rows[m])
      BY <2>4, <3>1, <3>2 DEF IsNewest
    <3>4. ~Counting(Closed(rows[n], "cancelled"))
      <4>1. rows[n] \in Row
        BY <1>2
      <4> QED BY <4>1 DEF Counting, Closed, Row
    <3>5. m # n /\ Counting(rows[m])
      BY <3>3, <3>4
    <3> QED BY <3>2, <3>3, <3>5 DEF Counting, Live
  <2> QED BY <2>2, <2>3, <2>4, MemoryQuiet
<1> QED BY <1>3, <1>4

\* A cancellation or deletion leaves no item naming the purchase it closes,
\* of those that have the item in their lines.
LEMMA CloseKeepsMemory ==
  ASSUME CInv, MInv, NEW r \in Requests, FinishClose(r)
  PROVE  MInv'
<1>1. TypeOK /\ EditHasContent
  BY DEF CInv
<1>2. req[r] \in Local /\ req \in [Requests -> Local] /\ rows \in Seq(Row)
  BY <1>1 DEF TypeOK
<1>3. PICK n : n = req[r].row
  OBVIOUS
<1>4. PICK p : p = Closed(rows[n], IF Body[r].op = "cancel" THEN "cancelled" ELSE "deleted")
  OBVIOUS
<1>5. /\ req[r].pc = "loaded" /\ Body[r].op \in {"cancel", "delete"} /\ ~IsCreate(r) /\ req[r].pc \notin Ended
      /\ rows' = [rows EXCEPT ![n] = p]
      /\ snap' = [i \in Items |-> IF i \in rows[n].content.items THEN req[r].latest[i] ELSE snap[i]]
      /\ UNCHANGED count
      /\ req'[r].pc = "done"
      /\ \A q \in Requests \ {r} : req'[q] = req[q]
  BY <1>2, <1>3, <1>4 DEF FinishClose, Go, Goes, Local, IsCreate, Ended
<1>6. n \in DOMAIN rows
  BY <1>1, <1>3, <1>5 DEF EditHasContent, IsCreate
<1>7. /\ p.num = rows[n].num /\ p.supplier = rows[n].supplier /\ p.content = rows[n].content
      /\ p.edited = rows[n].edited
  <2>1. rows[n] \in Row
    BY <1>2, <1>6
  <2> QED BY <1>4, <2>1 DEF Closed, Row
<1>8. /\ DOMAIN rows' = DOMAIN rows
      /\ rows'[n] = p /\ \A m \in DOMAIN rows \ {n} : rows'[m] = rows[m]
  BY <1>2, <1>5, <1>6
<1>9. \A i \in Items : \/ req[r].latest[i] = 0
                       \/ /\ req[r].latest[i] \in DOMAIN rows /\ req[r].latest[i] # n
                          /\ Live(rows[req[r].latest[i]])
  BY <1>3, <1>5 DEF MInv, LatestLive
<1>10. SnapshotsKnown'
  BY <1>5, <1>8, <1>9 DEF SnapshotsKnown, MInv
<1>11. SnapshotLive'
  <2> SUFFICES ASSUME NEW i \in Items, snap'[i] # 0, i \in rows'[snap'[i]].content.items
               PROVE  Live(rows'[snap'[i]])
    BY DEF SnapshotLive, Live
  <2>1. CASE i \in rows[n].content.items
    BY <1>5, <1>8, <1>9, <2>1
  <2>2. CASE i \notin rows[n].content.items
    <3>1. snap'[i] = snap[i] /\ snap[i] \in DOMAIN rows
      BY <1>5, <2>2 DEF MInv, SnapshotsKnown
    <3>2. snap[i] # n
      BY <1>7, <1>8, <2>2, <3>1
    <3> QED BY <1>8, <3>1, <3>2 DEF MInv, SnapshotLive
  <2> QED BY <2>1, <2>2
<1> QED BY <1>5, <1>6, <1>7, <1>10, <1>11, WriteKeepsMemory

LEMMA RestartKeepsMemory ==
  ASSUME CInv, MInv, Restart
  PROVE  MInv'
<1>1. /\ UNCHANGED <<rows, count, snap>>
      /\ \A r \in Requests : req'[r].pc \in Ended
  <2>1. \A r \in Requests : req[r] \in Local
    BY DEF CInv, TypeOK
  <2> QED BY <2>1 DEF Restart, Ended, Local
<1>2. NumbersInOrder' /\ OneInserted' /\ CountsRead' /\ OfficeAlone' /\ LatestLive'
  BY <1>1 DEF MInv, NumbersInOrder, OneInserted, CountsRead, OfficeAlone, LatestLive, Ended, Holding
<1>3. CreatesCounted' /\ SnapshotsKnown' /\ SnapshotLive'
  BY <1>1 DEF MInv, CreatesCounted, SnapshotsKnown, SnapshotLive, Live
<1> QED BY <1>2, <1>3 DEF MInv

LEMMA InitMemory == Init => MInv
<1> SUFFICES ASSUME Init PROVE MInv
  OBVIOUS
<1>1. /\ rows = <<>> /\ DOMAIN rows = {} /\ \A i \in Items : snap[i] = 0
      /\ \A r \in Requests : req[r].pc = "new"
      /\ \A s \in Suppliers, i \in Items : count[<<s, i>>] = 0
  BY DEF Init, Unread
<1>2. CreatesCounted
  BY <1>1, FS_EmptySet DEF CreatesCounted
<1> QED BY <1>1, <1>2 DEF MInv, NumbersInOrder, OneInserted, CountsRead, OfficeAlone, LatestLive, Ended,
                          Holding, SnapshotsKnown, SnapshotLive

LEMMA MemoryStep == CInv /\ MInv /\ [Next]_vars => MInv'
<1> SUFFICES ASSUME CInv, MInv, [Next]_vars PROVE MInv'
  OBVIOUS
<1>1. CASE UNCHANGED vars
  <2>1. UNCHANGED <<rows, count, snap, req>>
    BY <1>1 DEF vars
  <2>2. NumbersInOrder' /\ OneInserted' /\ CountsRead' /\ OfficeAlone'
    BY <2>1 DEF MInv, NumbersInOrder, OneInserted, CountsRead, OfficeAlone, IsCreate, Unedited
  <2>3. LatestLive' /\ SnapshotsKnown' /\ SnapshotLive'
    BY <2>1 DEF MInv, LatestLive, SnapshotsKnown, SnapshotLive, Live
  <2>4. CreatesCounted'
    BY <2>1, UnchangedCounted DEF MInv
  <2> QED BY <2>2, <2>3, <2>4 DEF MInv
<1>2. ASSUME NEW r \in Requests, Step(r) PROVE MInv'
  BY <1>2, CreateMemory, SyncKeepsMemory, CommitKeepsMemory, EditKeepsMemory, CloseKeepsMemory DEF Step
<1>3. ASSUME NEW r \in Requests, Arrive(r) PROVE MInv'
  BY <1>3, CreateMemory, BeginOfficeKeepsMemory DEF Arrive
<1> QED BY <1>1, <1>2, <1>3, RestartKeepsMemory DEF Next

LEMMA MemoryInvariant == Spec => []MInv
<1>1. CInv /\ MInv /\ [Next]_vars => MInv'
  BY MemoryStep
<1> QED BY <1>1, InitMemory, CreateInvariant, PTL DEF Spec

\* No purchase is lost from a supplier's count of an item, although the count
\* is read under no lock and written one higher later: of two creations that
\* overlap, the second to insert finds its number taken
\* (trade_purchase_service.py, next_human_id and _sync_purchase_memory).
THEOREM CountsComplete == Spec => []CreatesCounted
<1>1. MInv => CreatesCounted
  BY DEF MInv
<1> QED BY <1>1, MemoryInvariant, PTL

\* No item names a cancelled or deleted purchase that has it in its lines,
\* whatever is created while a cancellation is at work
\* (refresh_catalog_last_trade_snapshots).
THEOREM SnapshotsLive == Spec => []SnapshotLive
<1>1. MInv => SnapshotLive
  BY DEF MInv
<1> QED BY <1>1, MemoryInvariant, PTL
=============================================================================
