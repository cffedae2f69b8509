----------------------------- MODULE StockDesk -----------------------------
(***************************************************************************)
(* The desk where people correct stock by hand: warehouse audits, opening  *)
(* stock, corrections of one item, undo and the daily usage log            *)
(* (services/stock_audit_service.py, routers/stock_audits.py,              *)
(* routers/stock/stock_detail.py, routers/operations.py).                  *)
(*                                                                         *)
(* One movement, apply_stock_movement with its caller's commit, is one     *)
(* step here: what interleaves inside it is the subject of StockLedger.    *)
(* The handlers that decide on rows they read before the movement, the     *)
(* requests on an audit, undo and the usage log, take two steps, and any   *)
(* request may run in between.  A request the code refuses, or whose       *)
(* commit fails, changes nothing: it is abandoned.                         *)
(***************************************************************************)
EXTENDS Integers, Sequences, FiniteSets

CONSTANTS
  Items,        \* catalog items
  Users,        \* members with the stock_edit permission
  Role,         \* the role of each in the business
  Audits,       \* identifiers of audit sessions
  Sessions,     \* requests that can be at work at once
  UserOf,       \* the member at each session's device
  OpsOf,        \* the two-step operations each session performs
  Counts,       \* quantities a person may count, Counts[i] for item i
  Edits,        \* quantities an owner or a correction may set
  Kinds,        \* movement kinds a correction may ask for
  InitStock,    \* stock at the start
  MaxMoves,     \* bound on the movements of a behaviour
  MaxLoads,     \* bound on its requests that load an audit
  None

ASSUME DeskAssumption ==
  /\ Role \in [Users -> {"owner", "admin", "super_admin", "manager", "staff"}]
  /\ InitStock \in [Items -> Nat] /\ Counts \in [Items -> SUBSET Nat] /\ Edits \in [Items -> SUBSET Nat]
  /\ UserOf \in [Sessions -> Users]
  /\ OpsOf \in [Sessions -> SUBSET {"audit", "undo", "usage"}]
  /\ MaxMoves \in Nat /\ MaxLoads \in Nat /\ IsFiniteSet(Items)
  /\ None \notin Nat
  \* what only the usage log is called, see MoveKinds
  /\ "daily_usage" \notin Kinds

VARIABLES
  stock,    \* catalog_items.current_stock
  ledger,   \* stock_movements and their stock_adjustment_log rows, in order
  audits,   \* stock_audits with their stock_audit_items
  opened,   \* items whose opening stock is locked
  bought,   \* quantity of today's delivered purchases, per item
  usage,    \* today's daily_usage_logs row, per item
  prior,    \* yesterday's closing quantity, per item
  req,      \* what each session's request has read
  crossed,  \* history: audits written from a copy that was not up to date
  loads     \* how many requests loaded an audit, for their bound

vars == <<stock, ledger, audits, opened, bought, usage, prior, req, crossed, loads>>

Approvers == {"owner", "manager", "admin"}
Unlockers == {"owner", "super_admin", "admin"}

Qty == Nat
OpenStatuses == {"draft", "pending_review"}
LineStatuses == {"matched", "mismatch", "pending_approval", "applied"}
Line == [system : Qty, counted : Qty, difference : Int, status : LineStatuses]
Audit == [status : {"none", "draft", "pending_review", "completed", "deleted"},
          lines : [Items -> Line \cup {None}]]
UsageLog == [opening : Qty, bought : Qty, used : Qty, closing : Qty]
\* daily_usage: the kind "usage" with the source daily_usage, which a
\* correction of that kind has not.
MoveKinds == {"opening_stock", "correction", "delivery_receive", "undo", "daily_usage"} \cup Kinds
\* by: "approve" for an approved line, else "desk"; undoes: the undone row, 0 if none;
\* of: the audit it corrects for, with the line it applies.
Origin == [audit : Audits, line : Line]
ASSUME NoneAssumption == None \notin UsageLog \cup Line \cup Origin
Move == [item : Items, user : Users, kind : MoveKinds, before : Qty, after : Qty,
         undoes : Nat, of : Origin \cup {None}, by : {"desk", "approve"}]

\* copy: the audit and its lines as loaded, under no lock; gone: the lines of
\* the copy that another request has deleted since.
Request ==
  [op : {"undo"}, item : Items, row : Nat, qty : Qty, log : {None}]
    \cup [op : {"usage"}, item : Items, row : Nat, qty : Qty, log : UsageLog]
    \cup [op : {"audit"}, audit : Audits, copy : Audit, stock : [Items -> Qty], gone : SUBSET Items]

\* variance_needs_approval: more than 2 units and more than 2 percent.
Magnitude(n) == IF n < 0 THEN -n ELSE n
VarianceNeedsApproval(system, difference) ==
  /\ Magnitude(difference) > 2
  /\ system <= 0 \/ 100 * Magnitude(difference) > 2 * system

LineStatusForDiff(system, difference) ==
  CASE difference = 0 -> "matched"
    [] difference # 0 /\ VarianceNeedsApproval(system, difference) -> "pending_approval"
    [] OTHER -> "mismatch"

\* assert_stock_changes_allowed: while an audit is open, members of the floor
\* may only count and correct.
SomeAuditOpen == \E a \in Audits : audits[a].status \in OpenStatuses
ChangesAllowed(u, kind) ==
  ~SomeAuditOpen
    \/ Role[u] \in {"owner", "admin", "manager", "super_admin"}
    \/ kind \in {"physical_count", "correction"}

MoveRow(i, u, kind, after, undoes, of, by) ==
  [item |-> i, user |-> u, kind |-> kind, before |-> stock[i], after |-> after,
   undoes |-> undoes, of |-> of, by |-> by]

\* apply_stock_movement as its callers see it: guard, sign, ledger row, stock.
Movement(i, u, kind, after, undoes, of, by) ==
  /\ Len(ledger) < MaxMoves
  /\ ChangesAllowed(u, kind)
  /\ after >= 0
  /\ stock' = [stock EXCEPT ![i] = after]
  /\ ledger' = Append(ledger, MoveRow(i, u, kind, after, undoes, of, by))

-----------------------------------------------------------------------------
(* Audits.  A request loads the audit with its lines (get_audit_for_business)  *)
(* and works on that copy; the commit writes the columns it changed.           *)

HasPending(lines) == \E i \in Items : lines[i] # None /\ lines[i].status = "pending_approval"
Counted(seen, i, counted) ==
  [system |-> seen[i], counted |-> counted, difference |-> counted - seen[i],
   status |-> LineStatusForDiff(seen[i], counted - seen[i])]

\* The counts a request may bring: some of the items, none of them too.
Sheets == {f \in [Items -> UNION {Counts[i] : i \in Items} \cup {None}] :
             \A i \in Items : f[i] # None => f[i] \in Counts[i]}

CreateAudit(a, sheet) ==
  /\ audits[a].status = "none"
  /\ audits' = [audits EXCEPT ![a] = [status |-> "draft", lines |->
       [i \in Items |-> IF sheet[i] = None THEN None ELSE Counted(stock, i, sheet[i])]]]
  /\ UNCHANGED <<stock, ledger, opened, bought, usage, prior, req, crossed, loads>>

LoadAudit(s, a) ==
  /\ "audit" \in OpsOf[s] /\ req[s] = None
  /\ audits[a].status \notin {"none", "deleted"}
  /\ loads < MaxLoads /\ loads' = loads + 1
  /\ req' = [req EXCEPT ![s] = [op |-> "audit", audit |-> a, copy |-> audits[a], stock |-> stock, gone |-> {}]]
  /\ UNCHANGED <<stock, ledger, audits, opened, bought, usage, prior, crossed>>

Loaded(s) == req[s] # None /\ req[s].op = "audit"
CopyOf(s) == req[s].copy
There(s) == audits[req[s].audit]

\* The item is read after the audit: with it, or as late as the commit.
Seen(s) == {req[s].stock, stock}

\* The row of a line of the copy is still there.
RowThere(s, i) == i \notin req[s].gone /\ There(s).lines[i] # None

\* A column that was not changed is not written.
Column(old, new, there) == IF new = old THEN there ELSE new
MergedLine(old, new, there) ==
  [system |-> Column(old.system, new.system, there.system),
   counted |-> Column(old.counted, new.counted, there.counted),
   difference |-> Column(old.difference, new.difference, there.difference),
   status |-> Column(old.status, new.status, there.status)]

\* A line is inserted under the unique index on audit and item, and updated
\* where its row is; a deleted audit takes neither.
CanCommit(s, old, status, lines) ==
  LET changed == {i \in Items : lines[i] # old[i]}
  IN /\ status # CopyOf(s).status \/ changed # {} => There(s).status # "deleted"
     /\ \A i \in changed : IF old[i] = None THEN There(s).lines[i] = None ELSE RowThere(s, i)

Written(s, old, status, lines) ==
  [status |-> Column(CopyOf(s).status, status, There(s).status),
   lines |-> [i \in Items |->
     IF lines[i] = old[i] THEN There(s).lines[i]
     ELSE IF old[i] = None THEN lines[i] ELSE MergedLine(old[i], lines[i], There(s).lines[i])]]

Crossed(s) == IF CopyOf(s) = There(s) THEN crossed ELSE crossed \cup {req[s].audit}

\* old: the lines as they were read or last flushed.
Commit(s, old, status, lines) ==
  /\ CanCommit(s, old, status, lines)
  /\ audits' = [audits EXCEPT ![req[s].audit] = Written(s, old, status, lines)]
  /\ crossed' = Crossed(s)
  /\ req' = [req EXCEPT ![s] = None]

OriginOf(s, line) == [audit |-> req[s].audit, line |-> line]

\* upsert_audit_line: count item i; with "apply immediately" a small variance
\* is corrected at once, after a flush of the line.
UpsertAuditLine(s, i, seen, counted, now) ==
  LET lines == CopyOf(s).lines
      line == Counted(seen, i, counted)
      applies == now /\ line.status # "pending_approval" /\ line.difference # 0
      flushed == IF applies /\ lines[i] # None THEN [lines EXCEPT ![i].status = line.status] ELSE lines
  IN /\ Loaded(s)
     /\ CopyOf(s).status \in OpenStatuses
     /\ Commit(s, flushed, CopyOf(s).status,
               [lines EXCEPT ![i] = IF applies THEN [line EXCEPT !.status = "applied"] ELSE line])
     /\ IF applies THEN Movement(i, UserOf[s], "correction", counted, 0, OriginOf(s, line), "desk")
                   ELSE UNCHANGED <<stock, ledger>>
     /\ UNCHANGED <<opened, bought, usage, prior, loads>>

\* update_stock_audit: the lines of the copy are deleted and a sheet of counts
\* inserted.
Deleted(s) == {i \in Items : CopyOf(s).lines[i] # None /\ i \notin req[s].gone}
ReplaceAuditLines(s, seen, sheet) ==
  LET new == {i \in Items : sheet[i] # None}
      there == There(s)
  IN /\ Loaded(s)
     /\ CopyOf(s).status \in OpenStatuses
     /\ new # {} => there.status # "deleted"
     /\ \A i \in new : there.lines[i] = None \/ i \in Deleted(s)
     /\ audits' = [audits EXCEPT ![req[s].audit].lines =
          [i \in Items |-> IF i \in new THEN Counted(seen, i, sheet[i])
                           ELSE IF i \in Deleted(s) THEN None ELSE there.lines[i]]]
     /\ crossed' = Crossed(s)
     /\ req' = [t \in Sessions |->
          IF t = s THEN None
          ELSE IF Loaded(t) /\ req[t].audit = req[s].audit
               THEN [req[t] EXCEPT !.gone = @ \cup Deleted(s)] ELSE req[t]]
     /\ UNCHANGED <<stock, ledger, opened, bought, usage, prior, loads>>

\* complete_stock_audit: every corrected line that needs no approval sets the
\* stock to what was counted; the audit completes unless a line is pending.
\* Mutant of ToApply: lines that wait for approval are corrected with the rest.
ToApplyAnyDifference(lines) ==
  {i \in Items : lines[i] # None /\ lines[i].status # "applied" /\ lines[i].difference # 0}
ToApply(lines) ==
  {i \in Items : lines[i] # None /\ lines[i].status \notin {"pending_approval", "applied"}
                 /\ lines[i].difference # 0}
Completed(line) ==
  CASE line.status = "pending_approval" -> line
    [] line.status # "pending_approval" /\ line.difference = 0 -> [line EXCEPT !.status = "matched"]
    [] OTHER -> [line EXCEPT !.status = "applied"]
\* Mutant of StatusOnComplete: pending lines are not asked for.
CompletedAlways(lines) == "completed"
StatusOnComplete(lines) == IF HasPending(lines) THEN "pending_review" ELSE "completed"
CompleteStockAudit(s) ==
  LET lines == CopyOf(s).lines
      apply == ToApply(lines)
  IN /\ Loaded(s)
     /\ CopyOf(s).status \in OpenStatuses
     /\ Len(ledger) + Cardinality(apply) <= MaxMoves
     /\ \E rows \in [1..Cardinality(apply) -> apply] :
          /\ \A i \in apply : \E n \in DOMAIN rows : rows[n] = i
          /\ ledger' = ledger \o [n \in DOMAIN rows |->
               MoveRow(rows[n], UserOf[s], "correction", lines[rows[n]].counted, 0,
                       OriginOf(s, lines[rows[n]]), "desk")]
     /\ stock' = [i \in Items |-> IF i \in apply THEN lines[i].counted ELSE stock[i]]
     /\ Commit(s, lines, StatusOnComplete(lines),
               [i \in Items |-> IF lines[i] = None THEN None ELSE Completed(lines[i])])
     /\ UNCHANGED <<opened, bought, usage, prior, loads>>

\* approve_audit_line: the audit's status is not looked at before the
\* approval, and completes with its last pending line.
StatusOnApprove(status, lines) ==
  IF status = "pending_review" /\ ~HasPending(lines) THEN "completed" ELSE status
ApproveAuditLine(s, i) ==
  LET line == CopyOf(s).lines[i]
      lines == [CopyOf(s).lines EXCEPT ![i] = [line EXCEPT !.status = "applied"]]
  IN /\ Loaded(s)
     /\ Role[UserOf[s]] \in Approvers
     /\ line # None
     /\ line.status = "pending_approval"
     /\ Movement(i, UserOf[s], "correction", line.counted, 0, OriginOf(s, line), "approve")
     /\ Commit(s, CopyOf(s).lines, StatusOnApprove(CopyOf(s).status, lines), lines)
     /\ UNCHANGED <<opened, bought, usage, prior, loads>>

\* delete_stock_audit: a draft goes with the lines it has by now.
DeleteStockAudit(s) ==
  /\ Loaded(s)
  /\ CopyOf(s).status = "draft"
  /\ audits' = [audits EXCEPT ![req[s].audit] = [status |-> "deleted", lines |-> [i \in Items |-> None]]]
  /\ crossed' = Crossed(s)
  /\ req' = [req EXCEPT ![s] = None]
  /\ UNCHANGED <<stock, ledger, opened, bought, usage, prior, loads>>

-----------------------------------------------------------------------------
(* One item at a time. *)

\* set_opening_stock: owners only, and it locks the item against staff edits.
SetOpeningStock(u, i, qty) ==
  /\ Role[u] \in {"owner", "super_admin"}
  /\ Movement(i, u, "opening_stock", qty, 0, None, "desk")
  /\ opened' = opened \cup {i}
  /\ UNCHANGED <<audits, bought, usage, prior, req, crossed, loads>>

\* patch_stock_item; the version check is StockLedger's.
PatchStockItem(u, i, qty, kind) ==
  /\ i \notin opened \/ Role[u] \in Unlockers
  /\ Movement(i, u, kind, qty, 0, None, "desk")
  /\ UNCHANGED <<audits, opened, bought, usage, prior, req, crossed, loads>>

\* update_physical_stock, and verify_stock_count with kind "correction".
CountedUpdate(u, i, qty, kind) ==
  /\ Movement(i, u, kind, qty, 0, None, "desk")
  /\ UNCHANGED <<audits, opened, bought, usage, prior, req, crossed, loads>>

\* The receipt of one of today's purchases: a relative movement.
Receive(u, i) ==
  /\ Movement(i, u, "delivery_receive", stock[i] + 1, 0, None, "desk")
  /\ bought' = [bought EXCEPT ![i] = @ + 1]
  /\ UNCHANGED <<audits, opened, usage, prior, req, crossed, loads>>

-----------------------------------------------------------------------------
(* Undo: reads the caller's last adjustment of the item, then reverts to   *)
(* before it.  The code takes it from the last fifteen minutes: an older   *)
(* one is a request refused.                                               *)

IsLast(n, S) == n \in S /\ \A m \in S : m <= n
Recent(u, i) == {n \in DOMAIN ledger : ledger[n].user = u /\ ledger[n].item = i}

BeginUndo(s, i) ==
  /\ "undo" \in OpsOf[s] /\ req[s] = None
  /\ \E n \in DOMAIN ledger :
       /\ IsLast(n, Recent(UserOf[s], i))
       /\ ledger[n].kind = "opening_stock" => Role[UserOf[s]] \in Unlockers
       /\ req' = [req EXCEPT ![s] = [op |-> "undo", item |-> i, row |-> n,
                                     qty |-> ledger[n].before, log |-> None]]
  /\ UNCHANGED <<stock, ledger, audits, opened, bought, usage, prior, crossed, loads>>

\* The movement's key is undo:<log id>: a row that was undone is found by it.
\* Mutant of KeyUsed: the movement is sent without a key.
KeyNotSent(n) == FALSE
KeyUsed(n) == \E m \in DOMAIN ledger : ledger[m].undoes = n
FinishUndo(s) ==
  LET r == req[s]
  IN /\ r # None
     /\ r.op = "undo"
     /\ IF KeyUsed(r.row) THEN UNCHANGED <<stock, ledger>>
        ELSE Movement(r.item, UserOf[s], "undo", r.qty, r.row, None, "desk")
     /\ req' = [req EXCEPT ![s] = None]
     /\ UNCHANGED <<audits, opened, bought, usage, prior, crossed, loads>>

-----------------------------------------------------------------------------
(* The daily usage log. *)

NonNegative(n) == IF n < 0 THEN 0 ELSE n
OpeningOf(i) == NonNegative(stock[i] - bought[i])

\* usage_submit, one line: the closing quantity comes from the stock read here.
UsageRequest(i, used) ==
  [op |-> "usage", item |-> i, row |-> 0, qty |-> stock[i],
   log |-> [opening |-> OpeningOf(i), bought |-> bought[i], used |-> used,
            closing |-> OpeningOf(i) + bought[i] - used]]
BeginUsage(s, i, used) ==
  /\ "usage" \in OpsOf[s] /\ req[s] = None
  /\ used <= OpeningOf(i) + bought[i]
  /\ req' = [req EXCEPT ![s] = UsageRequest(i, used)]
  /\ UNCHANGED <<stock, ledger, audits, opened, bought, usage, prior, crossed, loads>>

\* The log row is written or replaced, and the stock set to its closing
\* quantity when that differs from the stock that was read.
FinishUsage(s) ==
  LET r == req[s]
  IN /\ r # None
     /\ r.op = "usage"
     /\ IF r.log.closing # r.qty
        THEN Movement(r.item, UserOf[s], "daily_usage", r.log.closing, 0, None, "desk")
        ELSE UNCHANGED <<stock, ledger>>
     /\ usage' = [usage EXCEPT ![r.item] = r.log]
     /\ req' = [req EXCEPT ![s] = None]
     /\ UNCHANGED <<audits, opened, bought, prior, crossed, loads>>

\* materialize_daily_snapshots: a row for every stocked item that has none.
Stocked == {i \in Items : stock[i] > 0}
\* Mutant of Unlogged: rows that exist are written again.
LoggedToo == Stocked
Unlogged == {i \in Stocked : usage[i] = None}
MaterializeSnapshots ==
  LET missing == Unlogged
      opening(i) == NonNegative(IF prior[i] # None THEN prior[i] ELSE stock[i] - bought[i])
  IN /\ missing # {}
     /\ usage' = [i \in Items |-> IF i \notin missing THEN usage[i]
          ELSE [opening |-> opening(i), bought |-> bought[i], used |-> 0,
                closing |-> opening(i) + bought[i]]]
     /\ UNCHANGED <<stock, ledger, audits, opened, bought, prior, req, crossed, loads>>

\* A request that fails (audit open, database error) leaves nothing behind.
Abandon(s) ==
  /\ req[s] # None
  /\ req' = [req EXCEPT ![s] = None]
  /\ UNCHANGED <<stock, ledger, audits, opened, bought, usage, prior, crossed, loads>>

\* Midnight; no request lasts over it.  Bound: one midnight a behaviour.
Midnight ==
  /\ \A s \in Sessions : req[s] = None
  /\ \E i \in Items : usage[i] # None
  /\ \A i \in Items : prior[i] = None
  /\ prior' = [i \in Items |-> IF usage[i] = None THEN None ELSE usage[i].closing]
  /\ usage' = [i \in Items |-> None]
  /\ bought' = [i \in Items |-> 0]
  /\ UNCHANGED <<stock, ledger, audits, opened, req, crossed, loads>>

-----------------------------------------------------------------------------
NoAudit == [status |-> "none", lines |-> [i \in Items |-> None]]

Init ==
  /\ stock = InitStock /\ ledger = <<>>
  /\ audits = [a \in Audits |-> NoAudit]
  /\ opened = {}
  /\ bought = [i \in Items |-> 0]
  /\ usage = [i \in Items |-> None] /\ prior = [i \in Items |-> None]
  /\ req = [s \in Sessions |-> None]
  /\ crossed = {} /\ loads = 0

AuditStep ==
  \/ \E a \in Audits, sheet \in Sheets : CreateAudit(a, sheet)
  \/ \E s \in Sessions :
       \/ \E a \in Audits : LoadAudit(s, a)
       \/ DeleteStockAudit(s)
       \/ CompleteStockAudit(s)
       \/ \E i \in Items : ApproveAuditLine(s, i)
       \/ /\ Loaded(s)
          /\ \E seen \in Seen(s) :
               \/ \E sheet \in Sheets : ReplaceAuditLines(s, seen, sheet)
               \/ \E i \in Items : \E q \in Counts[i], now \in BOOLEAN : UpsertAuditLine(s, i, seen, q, now)

ItemStep ==
  \E u \in Users, i \in Items :
    \/ Receive(u, i)
    \/ \E q \in Edits[i] :
         \/ SetOpeningStock(u, i, q)
         \/ \E k \in Kinds : PatchStockItem(u, i, q, k) \/ CountedUpdate(u, i, q, k)

SessionStep ==
  \E s \in Sessions :
    \/ \E i \in Items : BeginUndo(s, i) \/ BeginUsage(s, i, 1)
    \/ FinishUndo(s) \/ FinishUsage(s) \/ Abandon(s)

Next == AuditStep \/ ItemStep \/ SessionStep \/ MaterializeSnapshots \/ Midnight

Spec == Init /\ [][Next]_vars

-----------------------------------------------------------------------------
(* Properties. *)

\* Every variable keeps the shape of its table.
TypeOK ==
  /\ stock \in [Items -> Nat]
  /\ ledger \in Seq(Move)
  /\ audits \in [Audits -> Audit]
  /\ opened \subseteq Items
  /\ bought \in [Items -> Nat]
  /\ usage \in [Items -> UsageLog \cup {None}]
  /\ prior \in [Items -> Qty \cup {None}]
  /\ req \in [Sessions -> Request \cup {None}]
  /\ crossed \subseteq Audits /\ loads \in Nat

\* A count that departs from the system quantity by more than the threshold
\* reaches the stock only through an approval by an owner, manager or admin,
\* whichever way the line went: recounted, replaced, completed or applied at
\* once, with other requests on the audit at work (stock_audit_service.py).
\* Except in an audit that a request wrote from a copy no longer up to date:
\* of two recounts that overlap, one may leave the status, which it found on
\* its copy, to the other, and a large variance is then corrected as a small one.
Authorised(row) ==
  row.of # None /\ VarianceNeedsApproval(row.of.line.system, row.of.line.difference)
    => row.by = "approve" /\ Role[row.user] \in Approvers
LargeNeedsApproval ==
  \A n \in DOMAIN ledger :
    (ledger[n].of # None => ledger[n].of.audit \notin crossed) => Authorised(ledger[n])

\* A completed audit is final although approval does not look at its status,
\* because completion leaves no pending line behind; what changes one is a
\* request that had loaded it before it was completed, and what such a request
\* has written.
CompletedIsFinal ==
  [][\A a \in Audits : audits[a].status = "completed" /\ a \notin crossed' => audits'[a] = audits[a]]_vars

\* The usage log and the stock agree: as long as the last movement of an item
\* is its daily usage, the stock is the closing quantity of the log, after a
\* resubmission, a new day or a materialized snapshot too (operations.py).
MovesOf(i) == {n \in DOMAIN ledger : ledger[n].item = i}
UsageLogTrue ==
  \A i \in Items, n \in DOMAIN ledger :
    usage[i] # None /\ IsLast(n, MovesOf(i)) /\ ledger[n].kind = "daily_usage"
      => stock[i] = usage[i].closing

-----------------------------------------------------------------------------
(* Inductive strengthening: what a line's status says of its variance, and *)
(* what a completed audit may hold.                                        *)
LineChecked(line) ==
  /\ line.difference = line.counted - line.system
  /\ line.status \notin {"pending_approval", "applied"} /\ line.difference # 0
       => ~VarianceNeedsApproval(line.system, line.difference)
LinesChecked ==
  \A a \in Audits \ crossed, i \in Items : audits[a].lines[i] # None => LineChecked(audits[a].lines[i])
NothingPending ==
  \A a \in Audits \ crossed : audits[a].status = "completed" => ~HasPending(audits[a].lines)


\* One request at a time logs daily usage.
OneLogger == \A s, t \in Sessions : "usage" \in OpsOf[s] /\ "usage" \in OpsOf[t] => s = t

\* Where the last movement of an item is its daily usage, the log says what
\* the stock is; after midnight yesterday's closing does, and nothing was
\* bought since; a usage request at work has read it.
LastIsUsage(i) == \E n \in DOMAIN ledger : IsLast(n, MovesOf(i)) /\ ledger[n].kind = "daily_usage"
UsageInv ==
  /\ \A i \in Items : LastIsUsage(i) =>
       IF usage[i] # None THEN stock[i] = usage[i].closing
       ELSE prior[i] = stock[i] /\ bought[i] = 0
  /\ \A s \in Sessions : req[s] # None /\ req[s].op = "usage" =>
       /\ "usage" \in OpsOf[s]
       /\ LastIsUsage(req[s].item) => stock[req[s].item] = req[s].qty

=============================================================================
