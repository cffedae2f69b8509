----------------------------- MODULE StockLedger -----------------------------
(***************************************************************************)
(* The stock movement ledger: backend/app/services/stock_movement_service. *)
(*                                                                         *)
(* Every change of an item's stock goes through apply_stock_movement,      *)
(* called by a request handler that owns one database session and commits  *)
(* or rolls back at its end.  A session here is such a request.  A job is  *)
(* the list of movements the handler applies in its transaction: one for a *)
(* quick purchase or a stock correction, one per catalog item for the      *)
(* receipt or the reversal of a purchase.                                  *)
(*                                                                         *)
(* One action is one await of the code: between two of them other sessions *)
(* run.  What the database promises (READ COMMITTED reads, row locks held  *)
(* to the end of the transaction, a unique index, rollback) is part of the *)
(* actions that use it.                                                    *)
(*                                                                         *)
(* The ORM session keeps the rows it has loaded (its identity map, copy)   *)
(* and a later SELECT ... FOR UPDATE of such a row returns the copy as it  *)
(* was first read: _locked_item does not ask for populate_existing.        *)
(***************************************************************************)
EXTENDS Integers, Sequences, FiniteSets

CONSTANTS
    Items,          \* catalog items of one business
    Sessions,       \* database sessions, one per request being served
    Keys, NoKey,    \* idempotency keys; NoKey: the caller sent none
    Jobs,           \* what a request may ask for, see Job
    InitStock,      \* CatalogItem.current_stock at the start
    None,           \* no row loaded, no movement flushed
    MaxBegun        \* bound: requests begun in one behaviour

Move == [item : Items, mode : {"delta", "absolute"}, qty : Int,
         key : Keys \cup {NoKey},
         versioned : BOOLEAN,     \* last_seen_stock_version is sent
         tolerance : Nat,         \* version_tolerance
         force : BOOLEAN,         \* force_version
         exempt : BOOLEAN]        \* role, kind or source bypasses the audit guard

\* preread: the handler has loaded the catalog items before it locks them
Job == [moves : Seq(Move), preread : BOOLEAN]

ASSUME KeyAssumption == NoKey \notin Keys
ASSUME StockAssumption == InitStock \in [Items -> Nat]
ASSUME BoundAssumption == MaxBegun \in Nat
\* A handler applies at least one movement and aggregates them per item.
ASSUME JobAssumption ==
    /\ Jobs # {} /\ Jobs \subseteq Job
    /\ \A j \in Jobs :
         /\ j.moves # << >>
         /\ \A m, n \in DOMAIN j.moves :
               j.moves[m].item = j.moves[n].item => m = n

Copy == [qty : Nat, version : Nat]

Row == [key : Keys \cup {NoKey}, delta : Int, before : Nat, after : Nat,
        strict : BOOLEAN, seen : Nat, exempt : BOOLEAN]

ASSUME NoneAssumption == None \notin Copy /\ None \notin Row

\* Every handler locks an item before it first reads it.
LocksBeforeReading == \A j \in Jobs : ~ j.preread

VARIABLES
    stock,      \* committed CatalogItem.current_stock
    version,    \* committed CatalogItem.stock_version
    ledger,     \* committed StockMovement rows of an item, in commit order
    auditOpen,  \* a StockAudit in draft or pending_review is committed
    pc,         \* where the session's request is
    job,        \* the job it serves
    at,         \* the movement of the job it applies
    seen,       \* the stock_version its client last saw
    copy,       \* its identity map: rows loaded, with uncommitted changes
    pend,       \* its flushed, uncommitted StockMovement rows, by item
    held,       \* items it has locked
    acked,      \* keys of the jobs answered with success
    begun       \* requests begun (bound)

committed == <<stock, version, ledger>>
session == <<pc, job, at, seen, copy, pend, held>>
vars == <<stock, version, ledger, auditOpen, pc, job, at, seen, copy, pend,
          held, acked, begun>>

AnyJob == CHOOSE j \in Jobs : TRUE

Nothing == [i \in Items |-> None]

Flushed(s) == {i \in Items : pend[s][i] # None}

Loaded(s) == {i \in Items : copy[s][i] # None}

Locations == {"idle", "lookup", "guard", "lock", "write", "duplicate", "commit"}

move(s) == job[s].moves[at[s]]

Current(i) == [qty |-> stock[i], version |-> version[i]]

ItemsOf(j) == {j.moves[n].item : n \in DOMAIN j.moves}

KeysOf(j) == {j.moves[n].key : n \in DOMAIN j.moves} \ {NoKey}

\* The item's committed rows carry this idempotency key.
CommittedKey(i, k) == \E n \in DOMAIN ledger[i] : ledger[i][n].key = k

PendingKey(s, i, k) == i \in Flushed(s) /\ pend[s][i].key = k

\* What a SELECT by key returns to session s: committed rows and its own.
KeyFound(s, i, k) == CommittedKey(i, k) \/ PendingKey(s, i, k)

Init ==
    /\ stock = InitStock
    /\ version = [i \in Items |-> 0]
    /\ ledger = [i \in Items |-> << >>]
    /\ auditOpen = FALSE
    /\ pc = [s \in Sessions |-> "idle"]
    /\ job = [s \in Sessions |-> AnyJob]
    /\ at = [s \in Sessions |-> 1]
    /\ seen = [s \in Sessions |-> 0]
    /\ copy = [s \in Sessions |-> Nothing]
    /\ pend = [s \in Sessions |-> Nothing]
    /\ held = [s \in Sessions |-> {}]
    /\ acked = {}
    /\ begun = 0

(***************************************************************************)
(* A request.  Begin covers the handler up to its first movement: it may   *)
(* load the items (preread), and its client may send a version it saw at   *)
(* any earlier time.                                                       *)
(***************************************************************************)
Begin(s, j) ==
    /\ pc[s] = "idle"
    /\ begun < MaxBegun
    /\ begun' = begun + 1
    /\ pc' = [pc EXCEPT ![s] = "lookup"]
    /\ job' = [job EXCEPT ![s] = j]
    /\ at' = [at EXCEPT ![s] = 1]
    /\ copy' = [copy EXCEPT ![s] =
                  [i \in Items |-> IF j.preread /\ i \in ItemsOf(j)
                                   THEN Current(i) ELSE None]]
    /\ \E v \in 0 .. version[j.moves[1].item] :
         /\ j.moves[1].versioned \/ v = 0
         /\ seen' = [seen EXCEPT ![s] = v]
    /\ UNCHANGED <<committed, auditOpen, pend, held, acked>>

\* The transaction is rolled back: rows, locks and loaded objects are gone.
Discard(s) ==
    /\ pend' = [pend EXCEPT ![s] = Nothing]
    /\ held' = [held EXCEPT ![s] = {}]
    /\ copy' = [copy EXCEPT ![s] = Nothing]

\* An exception leaves the handler; closing its session rolls back.
Fail(s) ==
    /\ Discard(s)
    /\ pc' = [pc EXCEPT ![s] = "idle"]
    /\ job' = [job EXCEPT ![s] = AnyJob]
    /\ at' = [at EXCEPT ![s] = 1]
    /\ seen' = [seen EXCEPT ![s] = 0]
    /\ UNCHANGED <<committed, auditOpen, acked, begun>>

\* apply_stock_movement returns: the next movement of the job, or the commit.
Return(s) ==
    IF at[s] < Len(job[s].moves)
    THEN /\ pc' = [pc EXCEPT ![s] = "lookup"]
         /\ at' = [at EXCEPT ![s] = at[s] + 1]
    ELSE /\ pc' = [pc EXCEPT ![s] = "commit"]
         /\ UNCHANGED at

\* Mutant: the row is read without FOR UPDATE.
ReadRow(s, i) ==
    /\ held' = held
    /\ copy' = [copy EXCEPT ![s][i] = IF @ = None THEN Current(i) ELSE @]

\* SELECT ... FOR UPDATE of item i: the lock, and a copy unless one is loaded.
LockRow(s, i) ==
    /\ \A t \in Sessions \ {s} : i \notin held[t]
    /\ held' = [held EXCEPT ![s] = held[s] \cup {i}]
    /\ copy' = [copy EXCEPT ![s][i] = IF @ = None THEN Current(i) ELSE @]

Goto(s, location) ==
    /\ pc' = [pc EXCEPT ![s] = location]
    /\ UNCHANGED at

\* The idempotency key is looked up before anything is locked.
Lookup(s) ==
    /\ pc[s] = "lookup"
    /\ Goto(s, IF /\ move(s).key # NoKey
                  /\ \E i \in Items : KeyFound(s, i, move(s).key)
               THEN "duplicate" ELSE "guard")
    /\ UNCHANGED <<committed, auditOpen, job, seen, copy, pend, held, acked, begun>>

\* The key is known: its item is locked and the old movement is returned.
Duplicate(s) ==
    /\ pc[s] = "duplicate"
    /\ \E i \in Items : /\ KeyFound(s, i, move(s).key)
                        /\ LockRow(s, i)
    /\ Return(s)
    /\ UNCHANGED <<committed, auditOpen, job, seen, pend, acked, begun>>

\* assert_stock_changes_allowed
GuardPasses(s) ==
    /\ pc[s] = "guard"
    /\ auditOpen => move(s).exempt
    /\ Goto(s, "lock")
    /\ UNCHANGED <<committed, auditOpen, job, seen, copy, pend, held, acked, begun>>

GuardFails(s) ==
    /\ pc[s] = "guard"
    /\ auditOpen /\ ~ move(s).exempt
    /\ Fail(s)

\* The advisory lock of the item, then its row lock.
LockItem(s) ==
    /\ pc[s] = "lock"
    /\ LockRow(s, move(s).item)
    /\ Goto(s, "write")
    /\ UNCHANGED <<committed, auditOpen, job, seen, pend, acked, begun>>

\* Mutant: any older version is tolerated.
OlderVersionAllowed(m, last, current) == ~ m.versioned \/ last <= current \/ m.force

\* The version the client saw is current, or may be behind by so much.
VersionAllowed(m, last, current) ==
    \/ ~ m.versioned
    \/ last = current
    \/ m.force
    \/ current - last \in 1 .. m.tolerance

After(m, before) == IF m.mode = "absolute" THEN m.qty ELSE before + m.qty

RowFor(s) ==
    LET m == move(s)
        before == copy[s][m.item].qty
    IN  [key |-> m.key, delta |-> After(m, before) - before,
         before |-> before, after |-> After(m, before),
         strict |-> m.versioned /\ ~ m.force /\ m.tolerance = 0,
         seen |-> seen[s], exempt |-> m.exempt]

\* Mutant: the new quantity is not checked.
VersionAcceptable(s) ==
    VersionAllowed(move(s), seen[s], copy[s][move(s).item].version)

Acceptable(s) ==
    LET m == move(s)
        c == copy[s][m.item]
    IN  VersionAllowed(m, seen[s], c.version) /\ After(m, c.qty) >= 0

\* Mutant: the retry loop also catches the errors that stay.
RejectRetries(s) ==
    /\ pc[s] = "write"
    /\ ~ Acceptable(s)
    /\ Goto(s, "lookup")
    /\ UNCHANGED <<committed, auditOpen, job, seen, copy, pend, held, acked, begun>>

\* StaleStockVersionError or NegativeStockError
Reject(s) ==
    /\ pc[s] = "write"
    /\ ~ Acceptable(s)
    /\ Fail(s)

\* Another transaction has inserted the key and has not ended: the unique
\* index makes this one wait.
KeyHolders(s) ==
    {t \in Sessions \ {s} : /\ move(s).key # NoKey
                            /\ \E i \in Items : PendingKey(t, i, move(s).key)}

\* Mutant: there is no unique index.
NoKeyClash(s) == FALSE /\ move(s).key = NoKey

\* The insert violates uq_stock_movements_business_idempotency.
KeyClash(s) == /\ move(s).key # NoKey
               /\ \E i \in Items : KeyFound(s, i, move(s).key)

\* The item is updated and the movement inserted (flush).
Write(s) ==
    LET m == move(s)
        c == copy[s][m.item]
    IN  /\ pc[s] = "write"
        /\ Acceptable(s)
        /\ KeyHolders(s) = {}
        /\ ~ KeyClash(s)
        /\ copy' = [copy EXCEPT ![s][m.item] =
                      [qty |-> After(m, c.qty), version |-> c.version + 1]]
        /\ pend' = [pend EXCEPT ![s][m.item] = RowFor(s)]
        /\ Return(s)
        /\ UNCHANGED <<committed, auditOpen, job, seen, held, acked, begun>>

\* Mutant: a key another transaction is inserting counts as applied.
ConflictNoWait(s) ==
    /\ pc[s] = "write"
    /\ Acceptable(s)
    /\ KeyHolders(s) # {}
    /\ Return(s)
    /\ UNCHANGED <<committed, auditOpen, job, seen, copy, pend, held, acked, begun>>

\* IntegrityError: the whole session is rolled back, earlier movements of
\* the job included, and the row that owns the key is returned.
Conflict(s) ==
    /\ pc[s] = "write"
    /\ Acceptable(s)
    /\ KeyHolders(s) = {}
    /\ KeyClash(s)
    /\ Discard(s)
    /\ Goto(s, "duplicate")
    /\ UNCHANGED <<committed, auditOpen, job, seen, acked, begun>>

\* The handler commits.  The UPDATE names the columns that changed: stock is
\* not among them when the new quantity equals the copy's.
Commit(s) ==
    /\ pc[s] = "commit"
    /\ stock' = [i \in Items |->
                   IF i \in Flushed(s) /\ pend[s][i].delta # 0
                   THEN pend[s][i].after ELSE stock[i]]
    /\ version' = [i \in Items |->
                     IF i \in Flushed(s) THEN copy[s][i].version ELSE version[i]]
    /\ ledger' = [i \in Items |->
                    IF i \in Flushed(s) THEN Append(ledger[i], pend[s][i])
                    ELSE ledger[i]]
    /\ acked' = acked \cup KeysOf(job[s])
    /\ Discard(s)
    /\ pc' = [pc EXCEPT ![s] = "idle"]
    /\ job' = [job EXCEPT ![s] = AnyJob]
    /\ at' = [at EXCEPT ![s] = 1]
    /\ seen' = [seen EXCEPT ![s] = 0]
    /\ UNCHANGED <<auditOpen, begun>>

\* The request dies between two steps: client gone, statement timeout, crash.
Abort(s) ==
    /\ pc[s] # "idle"
    /\ Fail(s)

\* Sessions that s waits for.
Blockers(s) ==
    CASE pc[s] = "lock" -> {t \in Sessions \ {s} : move(s).item \in held[t]}
      [] pc[s] = "duplicate" ->
           {t \in Sessions \ {s} :
              \E i \in Items : KeyFound(s, i, move(s).key) /\ i \in held[t]}
      [] pc[s] = "write" -> KeyHolders(s)
      [] OTHER -> {}

\* PostgreSQL ends one transaction of a cycle of waiting ones.
DeadlockVictim(s) ==
    /\ \E D \in SUBSET Sessions :
         s \in D /\ \A t \in D : Blockers(t) \cap D # {}
    /\ Fail(s)

\* Another session commits the start or the end of a stock audit.
AuditOpens ==
    /\ ~ auditOpen
    /\ auditOpen' = TRUE
    /\ UNCHANGED <<committed, session, acked, begun>>

AuditCloses ==
    /\ auditOpen
    /\ auditOpen' = FALSE
    /\ UNCHANGED <<committed, session, acked, begun>>

Step(s) ==
    \/ Lookup(s) \/ Duplicate(s) \/ GuardPasses(s) \/ GuardFails(s)
    \/ LockItem(s) \/ Reject(s) \/ Write(s) \/ Conflict(s) \/ Commit(s)
    \/ DeadlockVictim(s)

Next ==
    \/ \E s \in Sessions : \/ \E j \in Jobs : Begin(s, j)
                           \/ Step(s)
                           \/ Abort(s)
    \/ AuditOpens
    \/ AuditCloses

Spec == Init /\ [][Next]_vars

\* The event loop resumes a request whose await can return, and PostgreSQL
\* breaks lock cycles; neither opens audits nor starts or kills requests.
FairSpec == Spec /\ \A s \in Sessions : WF_vars(Step(s))

-----------------------------------------------------------------------------
TypeOK ==
    /\ stock \in [Items -> Int]
    /\ version \in [Items -> Nat]
    /\ ledger \in [Items -> Seq(Row)]
    /\ auditOpen \in BOOLEAN
    /\ pc \in [Sessions -> Locations]
    /\ job \in [Sessions -> Jobs]
    /\ at \in [Sessions -> Nat]
    /\ \A s \in Sessions : at[s] \in DOMAIN job[s].moves
    /\ seen \in [Sessions -> Nat]
    /\ copy \in [Sessions -> [Items -> Copy \cup {None}]]
    /\ pend \in [Sessions -> [Items -> Row \cup {None}]]
    /\ held \in [Sessions -> SUBSET Items]
    /\ acked \subseteq Keys
    /\ begun \in 0 .. MaxBegun

\* Stock on hand never goes below zero, whatever was read before the lock:
\* the check at stock_movement_service.py:234 is made on the same copy the
\* new quantity is computed from.
NonNegativeStock == \A i \in Items : stock[i] >= 0

\* The quantity the ledger says item i had before its n-th movement.
QtyBefore(i, n) == IF n = 1 THEN InitStock[i] ELSE ledger[i][n - 1].after

\* No lost update: an item's movements form a chain from the initial stock to
\* the current one, each starting where the one before it ended, and the
\* version counts them (stock_movement_service.py:1, "Transaction-safe stock
\* movement ledger helpers").
LedgerChain ==
    \A i \in Items :
        /\ version[i] = Len(ledger[i])
        /\ stock[i] = QtyBefore(i, Len(ledger[i]) + 1)
        /\ \A n \in DOMAIN ledger[i] : ledger[i][n].before = QtyBefore(i, n)

\* Optimistic lock: a correction sent with last_seen_stock_version, without
\* force or tolerance, is recorded only as the very next movement after the
\* one its client saw (stock_detail.py:849-850, stock_movement_service.py:213-225).
CorrectionsNotStale ==
    \A i \in Items : \A n \in DOMAIN ledger[i] :
        ledger[i][n].strict => ledger[i][n].seen = n - 1

\* An idempotency key is on at most one movement of the business, although
\* requests look it up before they hold any lock.
UniqueKeys ==
    \A i, j \in Items : \A m \in DOMAIN ledger[i], n \in DOMAIN ledger[j] :
        /\ ledger[i][m].key = ledger[j][n].key
        /\ ledger[i][m].key # NoKey
        => i = j /\ m = n

\* A request answered with success has all its keyed movements in the ledger,
\* also when it was answered as a duplicate or lost a race for its keys.
AckedApplied == \A k \in acked : \E i \in Items : CommittedKey(i, k)

\* Every request ends: waiting for locks and keys, deadlocks included, never
\* holds one for ever.
RequestsEnd == \A s \in Sessions : pc[s] # "idle" ~> pc[s] = "idle"

\* To its callers the ledger is one step per request: all movements of the job
\* are recorded at once, each once and from a quantity the item had, or those
\* that were recorded before are confirmed, although they are looked up,
\* locked, flushed, rolled back and committed one await at a time
\* (stock_movement_service.py:137-338, :1 "Transaction-safe").
A == INSTANCE AtomicLedger
ServedWhole == A!Spec

-----------------------------------------------------------------------------
(***************************************************************************)
(* The inductive invariants of StockLedgerProofs.                          *)
(***************************************************************************)
Working == {"lookup", "guard", "lock", "write", "duplicate"}

\* What a session has flushed it has locked and loaded, it has flushed only
\* earlier movements of its job, and no two sessions lock one item.
LockInv ==
    /\ stock \in [Items -> Nat]
    /\ \A s \in Sessions :
         /\ pc[s] = "idle" => Flushed(s) = {}
         /\ Flushed(s) \subseteq held[s]
         /\ Flushed(s) \subseteq Loaded(s)
         /\ pc[s] = "write" => move(s).item \in held[s] \cap Loaded(s)
         /\ pc[s] \in Working =>
              \A n \in at[s] .. Len(job[s].moves) :
                 job[s].moves[n].item \notin Flushed(s)
    /\ \A s, t \in Sessions : s # t => held[s] \cap held[t] = {}

\* A key is on at most one row, committed or not.
KeyInv ==
    /\ UniqueKeys
    /\ \A s \in Sessions : \A i \in Flushed(s) :
         pend[s][i].key # NoKey =>
           /\ \A j \in Items : ~ CommittedKey(j, pend[s][i].key)
           /\ \A t \in Sessions : \A j \in Flushed(t) :
                pend[t][j].key = pend[s][i].key => s = t /\ i = j

\* What a session that locks before it reads has loaded it has locked, and is
\* the committed row, or that row with the session's one movement applied.
CopyInv ==
    \A s \in Sessions : ~ job[s].preread => \A i \in Loaded(s) :
        /\ i \in held[s]
        /\ i \notin Flushed(s) =>
             copy[s][i] = [qty |-> stock[i], version |-> version[i]]
        /\ i \in Flushed(s) =>
             /\ copy[s][i].version = version[i] + 1
             /\ pend[s][i].before = stock[i]
             /\ pend[s][i].after = stock[i] + pend[s][i].delta
             /\ pend[s][i].strict => pend[s][i].seen = version[i]

\* Jobs that share a key have the same keys: a receipt's or a reversal's keys
\* name the purchase and the item (stock_inventory.py:571 and :637), and a
\* request that is sent again repeats them.
KeysTogether ==
    \A j, k \in Jobs : KeysOf(j) \cap KeysOf(k) # {} => KeysOf(j) = KeysOf(k)

\* A job's movements have a key each, as a receipt's or a reversal's
\* (stock_inventory.py:571 and :637), or none has, as those of a day's usage or
\* of an audit (operations.py:355, stock_audit_service.py:93).
OneKeyEach ==
    \A j \in Jobs :
        \/ KeysOf(j) = {}
        \/ \A m, n \in DOMAIN j.moves :
             j.moves[m].key # NoKey /\ (j.moves[m].key = j.moves[n].key => m = n)

\* Every keyed movement a request has behind it is in the ledger or among its
\* own rows, the keys of a job are committed together, and a key looked up in
\* vain is not on a row of the request itself.
AckInv ==
    /\ \A s \in Sessions : pc[s] # "idle" =>
         \A n \in DOMAIN job[s].moves :
            /\ n < at[s] \/ pc[s] = "commit"
            /\ job[s].moves[n].key # NoKey
            => \E i \in Items : KeyFound(s, i, job[s].moves[n].key)
    /\ \A s \in Sessions : \A i \in Flushed(s) :
         pend[s][i].key \in KeysOf(job[s]) \cup {NoKey}
    /\ \A s \in Sessions :
         pc[s] \in {"guard", "lock", "write"} /\ move(s).key # NoKey =>
           \A i \in Items : ~ PendingKey(s, i, move(s).key)
    /\ \A i \in Items : \A j \in Jobs : \A k \in KeysOf(j) :
         CommittedKey(i, k) =>
           \A l \in KeysOf(j) : \E h \in Items : CommittedKey(h, l)
    /\ AckedApplied

\* The flushed row of item i is what movement m asked for.
RowOf(s, i, m) ==
    LET r == pend[s][i]
    IN  /\ m.item = i /\ r.key = m.key
        /\ r.before \in A!Once(i) /\ r.after = After(m, r.before)
        /\ r.delta = r.after - r.before
        /\ copy[s][i].version \in 1 .. Len(ledger[i]) + 1
        /\ VersionAllowed(m, r.seen, copy[s][i].version - 1)

\* What a session has loaded the item once had, what it has flushed is what a
\* movement of its job asked for, and a movement without a key that it has
\* behind it is flushed.
BookOf(s) ==
    /\ \A i \in Loaded(s) \ Flushed(s) :
         copy[s][i].qty \in A!Once(i) /\ copy[s][i].version <= Len(ledger[i])
    /\ \A i \in Flushed(s) : \E n \in DOMAIN job[s].moves : RowOf(s, i, job[s].moves[n])
    /\ pc[s] = "duplicate" => move(s).key # NoKey
    /\ pc[s] # "idle" =>
         \A n \in DOMAIN job[s].moves :
            /\ n < at[s] \/ pc[s] = "commit"
            /\ job[s].moves[n].key = NoKey
            => job[s].moves[n].item \in Flushed(s)

BookInv ==
    /\ \A i \in Items : stock[i] \in A!Once(i) /\ version[i] <= Len(ledger[i])
    /\ \A s \in Sessions : BookOf(s)

SafetyInv == TypeOK /\ LockInv /\ KeyInv

ChainInv == TypeOK /\ LockInv /\ CopyInv /\ LedgerChain /\ CorrectionsNotStale
=============================================================================
