# The Purchase Assistant's server, in TLA+

This directory verifies the FastAPI server in `src/backend`, which has the
handlers and the test suite: what enters and leaves a warehouse's stock, the
purchases behind it, the screens computed from both, and the accounts, workspaces
and notices around them. (`src/README.md` announces an ASP.NET Core server and a
React client as successors and keeps FastAPI and Flutter as legacy; they are
listed below and not modelled.) Paths are relative to `src/backend/app` unless
they start with `src/`. `PROJECT.json` maps every definition to the lines it
models and lists runs, mutants, hazards and theorems.

Contents: 1 inventory, 2 plan, 3 modules, 4 runs, 5 proofs, 6 where the code does
less than it seems to, 7 what is not modelled.

## 1. Inventory

A request is an `async` handler with one SQLAlchemy session, hence one
PostgreSQL transaction at READ COMMITTED, which the handler commits and which is
rolled back when the handler raises (`database.py`, `get_db`). Handlers of one
process interleave at every `await`; several processes share nothing but the
database. A session keeps every row it has loaded in an identity map, and a later
`SELECT`, `FOR UPDATE` included, returns the row as it was first read unless
`populate_existing` is asked for. Most of what is hard below comes from there.

| Component | State | Operations | Module |
|---|---|---|---|
| Stock movement ledger (`services/stock_movement_service.py`, `stock_change_guard.py`) | `current_stock`, `stock_version`; `StockMovement` rows with keys unique in the business | `apply_stock_movement`, its retry wrapper, the audit guard | `StockLedger`, `AtomicLedger` |
| Purchase delivery and lifecycle (`services/trade_purchase_service.py`, `stock_inventory.py`) | `status`, `delivery_status`, `is_delivered`; ordered and received quantities | dispatch, arrive, verify, commit, revert, edit, payment, cancel, delete, lifecycle | `PurchaseDelivery`, `Receipt` |
| Audits, corrections, usage (`services/stock_audit_service.py`, `routers/stock/stock_detail.py`, `routers/operations.py`) | audits with counted lines; adjustment rows; usage logs and snapshots | count, complete, approve; opening stock, PATCH, counts, undo, usage | `StockDesk` |
| Purchase creation (`routers/trade_purchases.py`) | purchases, numbers, counts, the items' last purchase, an in-memory map of keys | create; edit, cancel and delete before delivery | `PurchaseCreate` |
| Read caches, events, emission of notices (`services/app_cache.py`, `read_cache_generation.py`, `realtime_events.py`, `notification_emitter.py`) | cached answers, generation, ring of events, notices | fill, bump, expire, publish, poll, emit | `LiveUpdates` |
| Catalog and contacts (`routers/catalog.py`, `routers/contacts.py`) | categories, types, items, suppliers, brokers, links | create, edit, archive, delete, codes | `Office` |
| Unit conversion, stock list, alerts, low stock (`services/unit_normalization.py`, `routers/stock/`) | none of their own; columns on items | status, filters, counters, trucks, variance, aging, scans | `Units`, `StockBoard` |
| Reports, dashboards, purchase lists (`routers/reports_trade.py` and others) | cached overview, last good answers | lists by payment, period reports, profits, ledgers, defaults | `PurchaseMoney`, `Reports` |
| Accounts, roles, permissions (`routers/auth.py`, `users.py`, `services/permissions.py`) | users, memberships, tokens, activity log | sign in, administer one by one and in bulk, permissions | `Accounts` |
| Workspaces and first contents (`services/default_workspace.py` and the seeds) | businesses, memberships, seeded rows | sign-up, bootstrap, scripts | `Workspace` |
| Damage reports (`routers/damage_reports.py`) | reports, notices about them | report, decide | `Damage` |
| Notifications and scheduled jobs (`routers/notifications.py`, `services/*notif*`) | notification rows | send, list, count, read, clear | `Inbox` (and `LiveUpdates`, `StockBoard`) |
| Search; bill scanning; barcodes, media, public pages; middleware and startup; migrations and scripts; drafts; ASP.NET Core server; React and Flutter clients | | | section 7 |

How they interact. Every handler that changes stock goes through the ledger: a
receipt applies one movement per item in the transaction that marks the purchase
delivered, audits and corrections apply one each. The guard makes the ledger read
the audits' state; the movements' keys are what a purchase asks to know whether it
was received (`purchase_delivery_stock_already_applied`). Creating or closing a
purchase writes counts and last purchases into contacts and catalog. All writers bump
one generation and publish into one ring, which the caches and pollers of all
screens depend on; most of them also leave notices in inboxes.

What is hard, and what makes each component correct:

- *Ledger.* Rows read before they are locked, keys looked up before anything is
  locked, rollbacks inside a caller's transaction, lock cycles. Correct: no update
  lost, no key applied twice, no negative stock, true answers, requests end.
- *Delivery.* Two state machines and a flag over one fact, handlers that decide on a
  copy. Correct: the ledger's sum is what the rows say, goods come in once and go
  out whole, a closed purchase holds nothing.
- *Desk.* Audits read under no lock and written later, approval of large variances,
  undo to an earlier quantity, usage sent again. Correct: no large count without
  approval, the usage log says what left the stock, a completed audit is final.
- *Creation.* Keys in the memory of a process, numbers as the highest plus one, counts
  read under no lock. Correct: sent twice is recorded once, counts and last
  purchases are true, requests end.
- *Caches, events.* Bumps before the commit, fills begun before a bump. Correct: an
  acknowledged change is in every later complete answer; a notice is neither doubled
  nor lost.
- *Catalog, contacts.* Checks in one statement and writes in another. Correct: types in
  their category, default suppliers with their rows, a primary broker, no lost item,
  fresh codes.
- *Board, reports.* One fact computed in SQL and in Python, from purchases, movements
  and item columns. Correct: the figures agree.
- *Accounts.* Tokens that outlive a block, versions and permission sets written from
  copies, lists cached per role. *Workspaces.* Seeds repeated. *Damage, inboxes.* Notices whose dedupe key
  lets one in. Correct: revoked stays out, permissions follow the role, nothing
  seeded twice, whom a notice is for sees it.

## 2. Plan

All components with protocol state have their module; what they leave out is in
section 7. Every invariant and action property the runs check is a theorem of section 5;
liveness is checked by TLC alone.

## 3. Modules

### StockLedger and AtomicLedger

One action per `await` of `apply_stock_movement` as one request sees it.

| TLA+ | Code |
|---|---|
| `Sessions`, `pc`, `job`, `at` | requests, where each is, the movements it applies and the one it is at |
| `stock`, `version`, `ledger` | committed `current_stock`, `stock_version`, `StockMovement` rows per item |
| `copy` | the session's identity map, uncommitted changes included |
| `pend`, `held` | flushed and uncommitted movements; rows locked |
| `Begin` | the handler up to its first movement; `preread` jobs load the items there, as a purchase's lines do (`models/trade_purchase.py:151`) |
| `Lookup`, `Duplicate` | search by key, and the answer with the old movement |
| `GuardPasses`, `GuardFails` | `assert_stock_changes_allowed` |
| `LockItem`, `LockRow` | lock, and a copy only if none is loaded |
| `Reject`, `Write`, `Conflict` | version and negative checks; update and insert; the unique index's error, which rolls the whole session back |
| `Commit`, `Fail`, `Abort`, `DeadlockVictim` | the caller's commit, an exception, a lost request, PostgreSQL's victim |
| `AuditOpens`, `AuditCloses` | other sessions commit an audit's start or end |

The retry wrapper repeats a movement on `StaleStockVersionError` only when the client
sent no version, and without one that error is not raised: it adds no step. Left
out: the fields a movement records for reading, caches and events.

`AtomicLedger` is what a caller may count on. A request is served in one step, or leaves
nothing: `Apply` records all movements of its job, none of whose keys was there, each for the
quantity asked, never below zero, and within the version its client saw; `Repeat` confirms a
job all of whose keys are there. A movement starts from the present quantity if its handler
locks before it reads, and otherwise from one the item had at some time (`Once`): that is all
that is left where `_locked_item` returns an old copy. `ServedWhole` says that `StockLedger`
implements it, with nothing but the committed rows and the answers as its state.

### PurchaseDelivery and Receipt

Two steps per request. `Load` copies the purchase; the action named after the
handler is all that follows, up to the commit, decided on the copy and merged into
the row as the ORM does: changed columns are written, the others keep what is
committed by then (`Merged`). `Verify` has a third step, because the handler commits
and then goes on to the automatic commit with its own copy. The advisory lock of a
commit serialises the key check and the movements, not the load before it, which is
how `CommitNew` is written. `Ops[s][p]` are the requests a session may get about a
purchase, which is how a run says who works alone.

| TLA+ | Code |
|---|---|
| `tp` | `status`, `delivery_status`, `is_delivered`, ordered and received quantity of each line |
| `net`, `keys` | the purchase's movements, summed, and their keys |
| `ready` | items whose unit converts; it grows (`SetUnit`) |
| `LineQty` | `line_qty_for_stock_commit` |
| `Move`, `TakeBack` | `apply_confirmed_purchase_stock`, `revert_confirmed_purchase_stock`, `adjust_purchase_stock_for_edit` |
| `Normal`, `Allowed`, `DeliveryFor`, `Transition` | the lifecycle table and endpoint |
| `Edit` | lines deleted and inserted again; a session that still holds the old ones fails |

One line per item, quantity in the item's stock unit; `paid` stands for paid,
partially paid, overdue and due soon; a handler's movements are one step (theirs are
`StockLedger`'s). `Receipt` is what the warehouse expects of a purchase: awaited,
received once, returned whole. `PurchaseDelivery` refines it with `stage`, read off the
keys and the row, and `inStock <- net`.

### StockDesk

A movement with its commit is one step; what decides on rows read before takes
two: undo and usage (`BeginUndo`/`FinishUndo`, `BeginUsage`/`FinishUsage`), and every
request on an audit. `LoadAudit` is `get_audit_for_business`, which locks nothing;
`UpsertAuditLine`, `ReplaceAuditLines`, `CompleteStockAudit`, `ApproveAuditLine` and
`DeleteStockAudit` are the rest of the handler of that name up to the router's commit,
decided on the copy and merged into the rows as the ORM does (`Column`, `MergedLine`,
`Written`): an insert may meet the unique index on audit and item, an update a line or
an audit that is gone (`CanCommit`). An item read by the handler is as it was at
the load or as late as the commit (`Seen`). `crossed` holds the audits that some
request wrote from a copy no longer equal to the rows. `Midnight` moves a day on,
`MaterializeSnapshots` is the nightly job. A request the code refuses is not a step.

### PurchaseCreate

A creation is `Submit` (key map), `TakeLock` (advisory lock on supplier and date),
`Search` (duplicates), `NextHumanId`, `Insert` (waits for whoever holds the number
uncommitted, fails on a committed one), `SyncMemory`, `Commit`, `Remember`. Edits and
cancellations are two steps, served one at a time by the office. `Restart` empties the
map of keys and ends what is at work.

### LiveUpdates

A writer is the sequence of its steps (`Steps(kind)`): a purchase commits, bumps and
publishes, a movement bumps before it commits, a receipt does both. A client's fetch
looks the cache up (`BeginFetch`), asks the database (`Query`), fills (`Fill`) or runs
over its budget and answers with the last good or with nothing (`Overrun`). The
ring's last `Window` events are what a poll returns. A notice is emitted per recipient
and key, looked for before it is inserted.

### Office

A request is `Begin`, all it reads and checks, and a commit named after its handler,
refused when a foreign key or a unique index says so (`Consistent`). `crossed` records
what two overlapping requests were both about, so that properties can say exactly
which overlap they exclude. A PATCH of an item that sends a code (`coded`) writes it
unchecked and is about codes like the requests that look for the next one. The seed of the
catalogue writes codes too and is in `Workspace`, which has none.

### Units, StockBoard

`Units` is the arithmetic of `unit_normalization.py` and its callers, in thousandths,
with the code's roundings. `StockBoard` runs purchases through record, rewrite,
arrive, verify, commit, revert and close, and a managed purchase through payments and
lifecycle moves besides, with the desk's requests and the days, one step each, and
defines every column, filter and counter of the stock screens as its query computes it.
The low-stock board is a fetch of several pages, each a query of its own, so that rows of
equal stock may come twice or not at all (`Fetches`); its page is cut from what
`FetchPages` pages of `FetchSize` rows bring, its header from `HeaderPages` pages of
`HeaderSize` (12 of 200 in the code). `Disputes`, the items with an open dispute or a
rejected audit line, is a constant: no handler opens the one or writes the other.

### PurchaseMoney, Reports

`PurchaseMoney` is the arithmetic of lines, headers and SQL mirrors in hundredths and
whole percentages, over the lines and bills the request schemas accept (`BillLine`,
`AnyBill`). A sell price and broker charges are computed from the lines as they came; a row
is stored without the amounts its columns do not have (`Trimmed`). `Reports` runs purchases through saving, rewriting, paying,
dispatch, arrival, verification, commit, revert and closing and defines every list, report, profit and dashboard. The
dashboard's cache keeps the latest answer with its generation and period; that its
time has passed or its budget is exceeded is free (`Served`). Imported rows lack the
amount, weight and type columns.

### Accounts, Workspace, Damage, Inbox

Four modules without shared variables; `MCAccounts` composes them in one run.

*Accounts.* Issuing a token (login, refresh, Google sign-in of a known account) and
every administrative request but the creation of a user read first and finish later.
`PatchUser`, `DeleteUser`, `ResetPassword` and `PatchPermissions` read the member and put
the changed copy among `tasks`; `BulkUsers` reads its members one by one (`BulkRead`),
with the actor's role as the entries before left it. `Commit` writes, of each copy, the
columns that differ from what was read (`Written`), with the rows of the log.
`crossed` and `torn` hold the members whose token version, or whose role or
permissions, were written from a copy that was out of date. Between the members of a
bulk block the real request flushes, which locks the row it changed until the commit; the
model lets others write it meanwhile and so allows more. `shown.amounts` are the keys with amounts
that a listed purchase still has.

*Workspace.* A sign-up reads, then commits in one transaction (the e-mail address is
unique). A bootstrap finds or creates the workspace, asks whether it needs the seed,
looks up what is missing and commits it: each a step. A script seeds any workspace. A row of the files
finds what the rows before it have added, so that of two suppliers with one GST number one
is added; which one the order of the file decides, and the model leaves it open
(`FromFiles`). Two rows found make `scalar_one_or_none` raise and roll the seed back. The office renames
and removes rows while nobody seeds.

*Damage.* A report with the office's notice is one transaction; a decision reads,
writes and commits if the status changes, then reads again and tells the reporter.

*Inbox.* A request is one step but for notify-owner, which looks for today's keys and
then inserts all its rows: the unique index on business and dedupe key fails the later
of two as a whole. Rows that are cleared stay, flagged, so that a property can say who
cleared them. With a key, `emit_notification` lets in the row of the first recipient,
in no defined order, and the index keeps the others' out (`Emit1`). A page filters
by role after its LIMIT; counts do not filter.

## 4. Runs

Eleven runs pass, one shows a disagreement between code and comment. "Bounds" says what
limits the instance; two sessions are enough for a stale copy, a lost update, a key
race or a lock cycle, since each needs one request that reads and another that writes in
between.

| Run | Properties | Bounds |
|---|---|---|
| `ledger_fresh` | no update is lost (`LedgerChain`), corrections follow the version their author saw (`CorrectionsNotStale`), for quick purchases and physical updates, which lock before they read | 2 sessions, 3 requests, quantities to 3 |
| `ledger_purchase` | `UniqueKeys`, `AckedApplied`, `RequestsEnd`, `ServedWhole` (the refinement of `AtomicLedger`), for a receipt and a reversal of two lines in opposite orders, a correction that reads before it locks, and two purchases that share a key | 2 sessions, 3 requests |
| `purchase_flow` | `NetMatches`, `ReceivedOnce` (the refinement of `Receipt`); for a purchase served by one session also `NoStockWhenClosedAlone`, `DeliveredCommittedAlone` | one purchase taken by one session through dispatch, arrival, verification, commit, revert, cancellation and payment, any counts of its lines to 2, or another over which two sessions race; goods are sold meanwhile; no bound on requests |
| `purchase_office` | `EditedMatches`: rows and stock agree, goods come in once, a commit answered with success has brought them in; `NoStockWhenClosedAlone` | edits and the lifecycle table beside arrival, verification, commit, cancellation and deletion, one at a time, without dispatch, payment and revert; an item whose unit is set up late; three edits |
| `desk` | `LargeNeedsApproval`, `UsageLogTrue`, `CompletedIsFinal` | one item with 200 units (the threshold is relative), one audit, a session of the staff and one of the owner, each with audit requests that overlap, 3 loads of the audit, 2 movements, one midnight |
| `create` | `NoDuplicates`, `CreatesCounted`, `SnapshotLive`, `RequestsEnd` | two similar creations with one key, one for another day, an edit, a cancellation, one restart |
| `live` | `ToldOnce`, `FreshAfterAck`, `PurchaseShown` | a receipt, two scans with one key, one client, two views, a window of one event |
| `office` | `TypeInCategory`, `Linked`, `ItemsKept`, `AutoCodeFresh` | any three of 34 requests, overlapping in any way |
| `board` | `ScreensAgree`, `UnitStable`, `DeliveriesShown`, `VarianceTrue` | two purchases of two items, one of them managed, one in dispute, the first a draft or confirmed; two payments or lifecycle moves, or one request of the desk, rewrite, revert or scan; days 0 to 2; fetches of 1 or 2 rows, a header of two pages of one; times of 5, 7 and 30 days shortened to 1 and 2 |
| `reports` | `ReportsAgree`, `DebtsListed`, `KeptTrue` | two purchases, the first perhaps imported, waiting or in stock, two items, one supplier, broker, category and type, three requests, two days |
| `accounts` | `RevokedStaysOut`, `PermissionsFollowRole`, `ListFitsRole`, `LedgerTrue`; `NoTwins`; `ApprovedTold`; `InboxTrue` | 3 people, 2 keys, 3 requests or expired tokens, 2 requests at work and 2 sign-ins, three bodies of a PATCH (to staff, active and blocked, unblocked), bulk requests for the owner and a member, a client that reports a scan or a row that reads like a block; 2 people, 3 workspaces, 3 jobs, 2 edits; 2 reports, 2 decisions; 3 members, 2 sends, 1 request that reads, clears or moves a member, 2 days, pages of one row |
| `ledger_lost_update` (violated) | `LedgerChain` | a receipt and a quick purchase |

The purchase runs bound no number of requests: quantities, keys and statuses are
finite. Where requests are bounded (`MaxBegun`, `MaxMoves`, `MaxLoads`, `MaxOps`, `MaxSent`, ...)
it is because a history grows with each; the third request is the one that meets what
the first two left: a key applied, a version moved, a row changed between a read and a
write. The theorems of section 5 have none of these bounds but the guards themselves,
for any value.

*Fairness.* Three runs have liveness properties. `ledger_purchase`: weak fairness of
the steps of each request. `create`: of the steps of each request that was taken up.
`live`: of a writer's steps, of serving a fetch, of a polling client's polls and its
refetches of what a poll named. The event loop resumes a coroutine whose await can
return, a lock's holder ends in turn, PostgreSQL's detector ends one transaction of a
cycle, and a polling client has a timer. Nothing makes clients send requests, kills them
or opens audits.

*Deadlock.* The ledger's runs check it (an audit may always open or close). The others say
`CHECK_DEADLOCK FALSE`: their histories are bounded, and an instance that has used up its
requests, or whose purchases are deleted and sold, has nothing left to do.

*What the properties leave out, on purpose.* `...Alone` speaks of purchases served by one
session, and `NoStockWhenClosedAlone` of those a cancel or delete request has closed, not
the lifecycle's own move to `cancelled`; no run reverts a purchase that is deleted later, or
pays one that is moved along the lifecycle. `CreatesCounted` speaks of no edits;
`SnapshotLive` of items still in the lines of the purchase named; `Linked`,
`TypeInCategory`, `ItemsKept` and `AutoCodeFresh` of what no two overlapping requests were
about; `LargeNeedsApproval` and `CompletedIsFinal` of audits no request wrote from a stale
copy (`crossed`); `RevokedStaysOut` of members none of whose blocks or deletions was
(`crossed`); `PermissionsFollowRole` of members whose role and permissions were not
(`torn`); `NoTwins` of workspaces without overlapping seeds and names without double spaces;
`ApprovedTold` of decisions no crash cut short; `InboxTrue` of members whose role has not
changed; `PipelineAgrees` of purchases without a recorded payment; `ListsPartition` of
bills that are neither saved nor zero; `UnitStable`, `PendingAgrees` and the home page's
count of deliveries in `CountsAgree` of purchases the lifecycle has not put back after
their delivery (`reopened`), and the first two of quantities fixed when the line was
written, or receipts not yet taken back; `TruckShown` of last purchases not cancelled by
the lifecycle; `HeaderAgrees` and `ShortagesListed` of boards whose shortages the fetches
hold (`Fits`). Section 6 says what happens otherwise.

*Where code and comment part.* `ledger_lost_update`: `_locked_item` selects a row FOR
UPDATE without `populate_existing`, so a receipt, whose items were loaded with its lines,
computes from values read before the lock and overwrites a quick purchase committed in
between; the module's first line calls it "Transaction-safe".

## 5. Proofs

Eight modules hold the theorems; each states them for any value of the constants that
satisfies the assumptions of its component, any number of requests and any
interleaving. Every invariant was checked by TLC on the component's instance before it
was proved. Assumptions on constants type them and say what the code guarantees of
its inputs (jobs aggregate movements per item; purchases start undelivered; a type is
in one category; members are finitely many); TLC evaluates them in every run.

| Module | Theorems |
|---|---|
| `StockLedgerProofs` | `TypeCorrect`, `StockNeverNegative`, `KeysAppliedOnce`; `ChainHolds`, `CorrectionsAreNext` if `LocksBeforeReading`; `AnsweredMeansApplied` if `KeysTogether`; `ImplementsAtomicLedger` if `KeysTogether` and `OneKeyEach` |
| `PurchaseDeliveryProofs` | `TypeCorrect`; `NetFollowsRow`, `NothingOverdrawn`, `ImplementsReceipt`, `DeliveredFromCommit` if `LinesHeld`; `EditedHeld` if `OneByOne`; `ClosedHoldsNothing` if either |
| `StockDeskProofs` | `DeskTypeCorrect`, `ApprovalRespected`, `CompletedAuditFinal`; `UsageLogAgrees` if `OneLogger` |
| `PurchaseCreateProofs` | `CreateTypeCorrect`, `RecordedOnce`, `CountsComplete`, `SnapshotsLive` |
| `ReadingProofs` | of `LiveUpdates`: `LiveTypeCorrect`, `NoticesTold`, `ReadsFresh`; of `Reports`: `ReportsHold`, `DebtsHeld`, `KeptHeld` |
| `OfficeProofs` | `OfficeTypeCorrect`, `TypesInCategory`, `LinksKept`, `ItemsStay`, `CodesNew` |
| `StockBoardProofs` | `ReceiptsStable`, `DeliveriesTrue`, `VarianceExplained`, `ScreensTrue` |
| `AdministrationProofs` | `ApprovalsTold`; `AccountsTypeCorrect`, `RevokedOut`, `PermissionsFollow`, `ListsFitTheRole`, `LedgerHeld`; `InboxesTrue`; `NothingTwice` |

Each proof has the same plan: an inductive invariant, one lemma per action or group of
actions, a step lemma, and the theorem by PTL. What the invariants say, and why the
properties alone are not inductive:

**Ledger.** `UniqueKeys` could be broken by a commit whose key another session has
committed meanwhile; `KeyInv` says that a key is on at most one row, committed or
flushed, which `Write` keeps because it waits for holders of its key. `LockInv`: what is
flushed is locked and loaded, no two sessions lock one item, a job meets an item once.
`CopyInv`, of sessions that lock an item before they read it: what they have loaded is the
committed row, or that row with their one movement on it, whatever others do. If all
handlers are like that (`LocksBeforeReading`) a commit appends a row that starts where the
last one ended. `ledger_lost_update` shows that the condition cannot be dropped; with it the theorems say what a repair has to achieve:
reading the row anew under the lock is enough. `AckInv`: the keyed movements a request has
behind it are in the ledger or among its own flushed rows, and a job's keys are committed
together. Its hypothesis `KeysTogether` (jobs that share a key have the same keys) is what
`Conflict` needs, which rolls back all of a job because one of its keys was
committed by somebody else: then the others were too. Receipts' and reversals' keys name
purchase and item and satisfy it. The `adjust:` keys of edits contain the difference: two
edits that share one difference and not another do not, and the loser of their race is
answered without its other adjustments. For the refinement, `OneKeyEach` says that a job has
a key for each movement or for none, and `BookInv` that what is flushed is what a movement of
the job asked for, from a quantity the item had. At its commit a session then has nothing
flushed and finds all its keys recorded (`CommitRepeats`), or has every movement flushed and
none of its keys recorded before (`CommitWhole`, `CommitApplies`): one key recorded would be
all of them, and the unique index lets none of those be flushed again. Every other step is
invisible to the callers (`ServeStep`).

**Deliveries.** `LinesHeld`: requests dispatch, arrive, commit, revert, cancel or pay,
the staff's verification comes only in purchases served by one session, and stock units
are set up. `LinesInv`: a copy has the row's lines, and is the row if nobody else works on
the purchase. `WholeInv`: receipt and reversal keys are there for exactly the lines that
add something, or for none, and net follows them. `RowInv`: `is_delivered` means received
and not reversed. `ViewInv`: a copy that is delivered was loaded after the receipt, so no
receipt can follow it, and if it had left `stock_committed` the row stays out. With it every
handler moves nothing (`QuietStep`), is the first commit to find no key (`CommitStep`) or
reverses a receipt, whole or not at all (`ReturnStep`). For the refinement each step
advances at most one purchase by one stage (`Advances`).

`OneByOne`, for purchases whose lines are edited: one request at a time about a purchase,
none of them a revert, and either payments or lifecycle moves (a payment puts the status of
received goods back to where the lifecycle starts, and a move from there lets an edit at
them). `OnceInv`: keys, sums and row say the same, what has come in is in a delivery status
no edit starts from, and every unit was set up by then; `TurnInv`: a request at work has the
row as it is. Overlapping requests make the property false (section 6).
`ClosedHoldsNothing` follows from both invariants: from `RowInv` for cancellations among any
requests with held lines, from `OnceInv` where purchases are deleted, edited and moved
along the lifecycle.

**Desk.** `DInv` adds to the properties, for audits not in `crossed`, that a line's
difference and status fit its counts and that a mismatch is below the threshold
(`LinesChecked`), and that a completed audit has no pending line (`NothingPending`):
approval does not look at the audit's status, and finds nothing to do. A commit either
finds the rows as its copy has them, so that merging columns is writing the copy, or puts its
audit into `crossed`. `CompletedAuditFinal` is then about every step that changes a completed
audit: it is the commit of a request that had loaded it before the completion.
For the usage log `UsageInv` follows the stock from the last usage over midnight, and what
a usage request at work has read. `OneLogger` (usage is logged from one device at a time)
cannot be dropped: of two submissions at once the one that moves nothing may write its
log over that of the one that did.

**Creation.** `CInv`: two creations past the lock differ in supplier or day, and one past
the search has no match among the rows. `MInv`: numbers are 1, 2, 3, ... in commit order,
so that whoever holds one flushed holds the next, at most one creation is between insert and
commit (`OneInserted`), and the counts it has read are still true although it reads them
under no lock: the unique index on numbers is what serialises them. A cancellation's choice
of the item's next last purchase is live, because the office works one at a time and
creations only add.

**Live updates.** `GenerationInv`, `ReadInv` and `CacheInv`: whatever belongs to the
present generation was read by somebody who owed the same settled changes, and an answer
that has asked the database has them. `StepsInv`, `HeldInv` and `ToldInv`: what a writer
has left to do, and that a notice skipped was skipped for one that is committed, or held
by a recipient's own insert.

**Office.** `CrossInv` (overlaps are noted) and `Planned(n)` for each request begun: what
it will write still fits, unless noted. The proof of `LinksKept` found that a deletion of
a broker that overlaps an edit of that broker can leave a linked supplier without
`broker_id`; `Between` notes it.

**Board.** `BoardInv`: the two columns of a delivery agree unless a lifecycle move parted
them (`FlagsAgree`, of purchases not `reopened`); nothing was added by a purchase that was
never applied (`NothingUnapplied`); an item's last purchase is one that stands, or that the
lifecycle has cancelled (`LastLive`); a late supplier has an order that old (`LateTold`).
Payments and lifecycle moves change status alone, or mark the purchase as reopened
(`ManagerKeeps`), and move no goods (`ManagedBooks`). `ReceiptsStable` rests
on lemmas about `Units`: conversions are natural numbers and a line with a snapshot comes
to the same quantity whatever the item's setup (`SnapshotDecides`). The attempt to prove
`DeliveriesShown` in its first form failed: without a snapshot, a change of the item's
unit between a receipt and its reversal leaves a part behind; the property now says
so. `VarianceExplained` needs the books (`Books`): at every moment an item's stock is what was
booked by hand, plus what each purchase has added, plus the quick purchases of all
days; each request that moves goods moves stock and one of the three alike, and a rewritten
purchase carries nothing to its new item because it was never applied. The sums are
`SumFunctionOnSet` of the module Functions: a theory of them (`SumUnfolds`, `SumWithout`,
`SumSame`, `SumChanged`, `SumOfSome`) is proved first, by minimal counterexample along strict
inclusion (`Smallest`), since induction cannot be cited.

`ScreensTrue` takes from the history what `BoardInv` and `Books` say and the rest from the
screens' own definitions: the levels of stock divide the items (`Levels`), so that chips,
header and setup count the same sets; the kinds of movement divide the stocked items, and an
item used lately is not idle (`MovementIs`). For the pages, a finite set has exactly one
sequence in a strict total order, in which an item's place is the number of items before it
and one (`OneRow`). Each page of a fetch is such a
sequence of its own; while the stocks differ all of them are the same one (`SequenceHolds`,
`OneOrder`, `FetchedAlike`), and a fetch long enough holds every shortage (`FetchedRows`,
`AllFetched`). Then the header counts what any filter of any page counts (`HeaderFollows`),
and since score decides and the order of the fetch breaks ties, all pages rank one list
(`OneList`) and each shortage is on one of them (`ShortagesFollow`). The constants'
assumption says what that rests on: finitely many items, ages in order, sizes of at
least one row and a window of at least two pages.

**Reports.** `ReportsInv`: a purchase carries the total of its bill and is not overpaid
(`PaidUp`); delivered means in the stock and a closing status, until a payment puts the
lifecycle back (`DeliveredOnce`); the dashboard kept under this generation has the figures
that would be computed now (`KeptFresh`). The rest is said of every state with these: two
reports of one set of bills agree because each is a sum over the same rows in other groups
(`Grouping`, `SumOfImage`), a purchase that owes is on exactly one payment list because the
statuses divide what is open. The theorems take any bills of the schemas' types (amounts,
quantities, rates and percentages are natural numbers), any catalog and number of
requests.

**Damage.** `ToldOrTelling`: whoever's report stands approved has been told, is about to
be by a decision at work, or a crash cut it short; and nobody else has the notice, so that
one already there is the reporter's.

**Accounts.** `TaskSound`, of every request at work: what it read was typed, and what it
will write is what it read with the role's template, one key, the flags or the version plus
one, the log then having a row for each version it moves on (`Sensible`). `VersionsCounted`:
no member's version is ahead of the rows about his blocks and deletions. `TokensStand`: no
token, held or being issued, is ahead of its user, and `RevokedBehind`: a revoked one is
behind, both but for members in `crossed`. `PeopleFollow`: effective permissions are the
template with the keys set by hand, but for members in `torn`. At a commit a change that
finds its columns as it read them keeps all of these, and any other puts its member into the
set that excuses him (`WrittenFollows`, `CommitKeeps`). `ListsFit`: what is
cached for a role is cut as the role's. `LedgerHeld` is about two queries cut by LIMIT:
the newest rows of a finite set exist for any number (by minimal counterexample), since any
moment they are all the rows or as many as were asked for, and the newest of two newest
parts merged are the newest of the whole; which of the rows of one time a query returns
is left open, as PostgreSQL leaves it.

**Inbox.** `Fits`: who has a notice is one of those its key is for, and may see it, unless
his role was changed since. `Reaches`, for every notice answered as sent: one of its
recipients has a row with its key. `ToldToday`: whom a notify-owner request at work leaves
out has today's notice. That every row is on some page is `OnSomePage`, with the least page
number found by well-foundedness; that the summary's four categories add up to the badge is
`FourParts`.

**Workspaces.** `SeedInv`, of every workspace without overlapping seeds: nothing is there
twice, every type and item is there with its category (`Closed`), and both are still so when
the one seed at work has committed what it found missing. `NoTwins` alone is not inductive: a
seed adds what it read as missing one step before, and a category is renamed
to a name that nothing hangs under only because of `Closed`. `FilesOrderly` is about the
files, `SeedOrderly` about the minimum on top of them; they rest on what
`WorkspaceAssumption` says of the seed data (the files name the category of each type and
item, the mandatory rows are different things) and not on the suppliers of the files
having different GST numbers, which they have not.

### Only model-checked

- `RequestsEnd` (twice) and `PurchaseShown`: liveness under fairness.
- Nothing is claimed of edits, lifecycle moves, deletion, late units or verification by two
  requests at once, nor of edits after a revert: the properties are false there (section 6).

## 6. Where the code does less than it seems to

Traces met while instances and properties were chosen; each is why a property has
the condition it has.

*Ledger and delivery.* `PATCH /stock/{id}` compares the client's version with one it read
before the lock: two devices' corrections are both accepted. A movement passes the audit
guard, an audit opens, the movement commits. After revert, arrive, verify and commit the keys
of the first receipt are found: the answer is 200, nothing enters stock. Received 0 of a
line, reverted, verified with 2, deleted: 2 leave stock which never came in.
`added_to_stock` to `cancelled` by the lifecycle leaves the goods in stock. A second
verification, loaded before the first, overwrites `stock_committed`: the purchase can no
longer be reverted. A cancellation that loaded the purchase before a commit leaves its
goods in stock. An edit after a revert finds the old keys and moves the difference; one
that goes up, down and up by the same amount repeats its key. A unit set up between a
partial commit and a revert takes out what that line never put in. A verification that
names only some lines commits the ordered quantity of the others.

*Desk.* Two recounts of one line that overlap are merged column by column: one finds a
small variance and writes `mismatch`, the other a large one and leaves the status it found,
`pending`, unwritten. The line is then a mismatch with a large variance, which completion
applies without an approval, against the comment above the threshold
(`services/stock_audit_service.py:19`). A recount or an approval that overlaps the
completion changes a completed audit, and may leave a pending line in it, which a later
approval applies. A count recorded while its audit is under review is dropped when the last pending
line is approved. An applied audit line overwrites movements made after the count. Usage
sent twice subtracts twice; usage above what was bought today can raise the stock.

*Creation.* A purchase of item a edited to hold b and cancelled leaves a naming it. A request
sent again after an edit or cancellation creates a new purchase. Of two creations that
take one number the later fails.

*Live updates.* A list read between a movement's bump and its commit is kept under the new
generation. A receipt's notice goes to one recipient only, because the key is the same
for all. `notification.changed` is published before the commit.

*Office.* An item created with default suppliers cannot be deleted (foreign key, 500).
`update_broker` leaves the `broker_id` of suppliers it removes. Two PATCHes at once put a
type outside its category; deleting a category can take an item just acknowledged;
default suppliers replaced twice at once become the union; PATCH writes a code given by
hand unchecked, and one that overlaps a create may equal the code the create gives.

*Board.* Usage of goods never purchased appears as variance. A reverted delivery stays in
`total_delivered`. The mismatch flag stays from the old count after a correction. The
low-stock scan stops when no item is strictly below its reorder level. PATCHed bag items
count as kg in one summary and as bags in the other. `received_qty` 0 is reported as
needing a unit. Opening stock is "dead" at once, and "no_activity" cannot be reached. Tied
ranks lose rows across SQL pages, of the board's own fetch too: with equal stocks on the
border of two of its queries a shortage is missing from the header. The board ranks at most
five fetches, its header counts at most 2400 rows: beyond that they differ from the list's
counters. A payment writes `confirmed` over `added_to_stock`; the lifecycle then moves the
purchase to `in_transit` and puts `delivery_status` back to `pending` while `is_delivered`
stays true: the list shows the goods as still to come, the item's page does not, and the
home page counts a delivery the trucks do not. The lifecycle's `cancelled` leaves the
goods, and the purchase as the item's last. No handler opens a dispute or rejects an audit
line, so `disputed` is the mismatch flag in practice. One `AsyncSession` is used by several coroutines of an
`asyncio.gather` (shell bundle, warehouse alerts, item bundle, report snapshot).

*Reports.* PATCHing a payment back to 0 keeps "paid". A payment writes over the lifecycle
status. The supplier metrics endpoint always fails (`routers/contacts.py:1010`, `tq` is local),
as does the item report (`StockPhysicalCount.qty`). LIMIT before a Python filter
gives short pages; zero-total bills are on no list. Dashboards show a category's old name
for up to 60 s. `purchase_count` grows on every edit.

*Accounts.* Sign-in rows are flushed and not committed (`routers/auth.py`, login), although
`src/docs/migration/api-contract.md:27` says they are recorded. The token version is
written as read plus one at a commit under no lock: two overlapping blocks leave version 1
with two rows in the log, and a token refreshed between their commits (refresh looks at no
flag) is accepted again once the block is lifted. A bulk `set_role` to manager on a manager
with overrides changes only the permissions column; a PATCH to staff that overlaps it
leaves a member of the staff with a manager's permissions. A permission change that
overlaps a role change writes the old role's whole set. Clients may post rows of any
type to the activity log, `USER_BLOCK` about anybody included. The list of purchases keeps
`header_discount` and `freight_value` for the staff: `trade_purchase_to_out` fills both
(`services/trade_purchase_service.py:2726`) and `_PURCHASE_HEADER_FINANCIAL_KEYS` has
neither, although the docstring says "no rates, totals, or payment amounts"
(`services/staff_view.py:121`). Two forgotten-password requests
leave two links.

*Workspaces.* Names with two spaces are stored as they are and looked up collapsed: each
run of `seed_all_businesses.py` ("Idempotent Harisree seed", line 2) inserts them again.
Overlapping bootstraps duplicate categories, after which every seed fails; two bootstraps
of a person without workspace create two. A seed after a rename restores the old category
beside the new one. Nine GST numbers occur twice in `suppliers_gst_seed.json`: only the
first supplier of each is stored.

*Damage and inboxes.* An approval overtaken by a rejection tells "rejected" under the
approval. An item on two lines makes the lookup by catalog id fail. A broadcast reaches one
recipient, maybe the staff member who caused it; demoting him keeps the others from being
told that day. Clients' keys are unique in the business: one member's failure hides
another's. The badge counts notices a role change hides. Mark-all-read marks what arrived
after the list was read. Of two alerts to the owners at once one fails.

## 7. Not modelled

Search, bill scanning, barcodes, media and public pages are queries, heuristics and
uploads. Database sessions, middleware and startup: the models use what a session promises;
`main.py` also runs a backfill of committed purchases at startup and sets Cache-Control
ages. Migrations and scripts are run by hand, the seed scripts excepted. A purchase draft is
one row per user written over at every save. The ASP.NET Core server and the two clients
would deserve projects of their own; of the Flutter client the poller of events is in
`LiveUpdates`.

Within the modelled components: prices, names, text search, the activity feed, reorder
entries, checklists, and edits of a purchase whose goods have been in the stock
(`StockBoard`), saved views and exports (`Reports`),
one-time codes, reset links, profile and branding and the super administrator (`Accounts`),
GST edits and catalog deletions beside seeds (`Workspace`), photos and the answers
before migration 057 (`Damage`), titles and routes (`Inbox`). A request on the board or in
the reports is one step there: what overlapping deliveries, creations and movements do to
each other is the subject of `PurchaseDelivery`, `PurchaseCreate` and `StockLedger`; of
two overlapping PATCHes of a unit, scans or reports nothing is said.
