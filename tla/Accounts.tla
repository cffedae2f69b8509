------------------------------ MODULE Accounts ------------------------------
(***************************************************************************)
(* The people of one business: signing in, access tokens and their         *)
(* versions, roles with their permission templates and overrides, the      *)
(* administration of users, the activity log with the ledger of a user,    *)
(* and the purchase list that is cached per role (routers/auth.py,         *)
(* routers/users.py, deps.py, services/jwt_tokens.py,                      *)
(* services/permissions.py, services/staff_audit.py,                       *)
(* services/staff_view.py, list_trade_purchases).                          *)
(*                                                                         *)
(* Issuing a token and every administrative request but the creation of a  *)
(* user read first and finish later, and any request may run in between.   *)
(* What a request changes on the rows it read is written at its commit, and *)
(* of each row only the columns that differ from the copy.  The other      *)
(* requests read and commit in one step.  A request the code refuses       *)
(* changes nothing and is not a step.                                      *)
(***************************************************************************)
EXTENDS Integers, Sequences, FiniteSets, TLC, SequencesExt

CONSTANTS
  Ids,          \* identifiers of users
  Boss,         \* the owner who registered the business
  Hired,        \* a member from the start
  HiredAs,      \* his roles to start from
  Legacy,       \* the override of an older client in his permissions, or the empty function
  Keys,         \* permission keys
  Denied,       \* Denied[r]: the keys role r does not have by default
  Patches,      \* bodies of PATCH users: [role, active, blocked], None for a field not sent
  Batches,      \* lists of different members that POST users/bulk names
  BulkActions,  \* actions of POST users/bulk
  BulkRole,     \* the role a bulk set_role sends
  Hirings,      \* roles of POST users
  Grants,       \* changes of PATCH permissions: [key, value]
  Posted,       \* action types clients report to the activity log, with the member their details name
  PastScans,    \* times of the scans the member has reported before
  PastEdits,    \* times of the stock edits he has made before
  LedgerLimit,  \* rows of a user's ledger
  Day,          \* clock ticks of a day
  WeekDays,     \* days of a week
  Start,        \* the clock at the start
  LastTick,     \* bound on the clock
  MaxOps,       \* bound on the requests and expired tokens of a behaviour
  None

Roles == {"owner", "admin", "manager", "staff"}

VARIABLES
  users,       \* users with their memberships, None before they are created
  tokens,      \* access tokens people hold that have not expired
  signing,     \* the token a sign-in or refresh at work is going to issue
  tasks,       \* administrative requests at work with their copies
  log,         \* staff_activity_log
  edits,       \* edits[u]: times of the stock_adjustment_log rows of u
  lists,       \* cached purchase lists by role: the amounts they carry
  shown,       \* the purchase list answered last
  clock,       \* now
  ops,         \* requests and expired tokens so far
  revoked,     \* tokens that existed, or were being issued, when their user was blocked or deleted
  overrides,   \* keys granted or denied by hand since the user's last change of role
  torn,        \* users whose role or permissions were written from a copy read before another change
  crossed      \* users whose token version was

People == <<users, log, revoked, overrides, torn, crossed>>
Desk == <<tokens, signing, edits, lists, shown, clock>>
vars == <<People, Desk, tasks, ops>>

Requests == 1..2
Free(slots, r) == slots[r] = None /\ \A q \in 1..(r - 1) : slots[q] # None
NoKeys == [k \in {} |-> TRUE]
Actions == {"USER_CREATE", "USER_BLOCK", "USER_DELETE", "PASSWORD_RESET", "SCAN", "STOCK_UPDATE"}
Json == UNION {[S -> BOOLEAN] : S \in SUBSET (Keys \cup {"delete_items"})}
User == [live : BOOLEAN, active : BOOLEAN, blocked : BOOLEAN, tv : Nat, role : Roles, json : Json]
Token == [user : Ids, tv : Nat]
Row == [by : Ids, about : Ids \cup {None}, action : Actions, at : Nat]
Patch == [role : Roles \cup {None}, active : BOOLEAN \cup {None}, blocked : BOOLEAN \cup {None}]

\* A member's row as read and as changed, and what of his permissions that sets.
Change == [user : Ids, seen : User, made : User, sets : {None, "role"} \cup Keys]

\* A request at work: its actor as read, what it does in bulk, whom it has yet
\* to read, its changes, and the row each of them adds to the activity log.
Task == [by : Ids, self : User, action : BulkActions \cup {None}, left : Seq(Ids), done : Seq(Change),
        row : Actions \cup {None}]

ASSUME AccountsAssumption ==
  /\ Boss \in Ids /\ Hired \in Ids \ {Boss} /\ HiredAs \subseteq Roles
  /\ Denied \in [Roles -> SUBSET Keys] /\ "delete_access" \in Keys /\ {"delete_items", "role"} \cap Keys = {}
  /\ Legacy \in [{} -> BOOLEAN] \cup [{"delete_items"} -> BOOLEAN]
  /\ Patches \subseteq Patch /\ BulkRole \in Roles /\ Batches \subseteq Seq(Ids) \ {<<>>}
  /\ Hirings \subseteq Roles /\ Grants \subseteq [key : Keys, value : BOOLEAN]
  /\ Posted \subseteq [action : Actions, about : Ids \cup {None}]
  /\ BulkActions \subseteq {"activate", "deactivate", "block", "unblock", "delete", "set_role"}
  /\ None \notin User \cup BOOLEAN \cup BulkActions \cup Roles \cup Token \cup Task \cup Keys \cup Actions \cup {"role"}
  /\ {PastScans, PastEdits} \subseteq Seq(0..Start)
  /\ {LedgerLimit, Start, LastTick, MaxOps} \subseteq Nat /\ {Day, WeekDays} \subseteq Nat \ {0}

(***************************************************************************)
(* Permissions.                                                            *)
(***************************************************************************)
Template(role) == [k \in Keys |-> k \notin Denied[role]]

SetKey(json, key, value) == [k \in DOMAIN json \cup {key} |-> IF k = key THEN value ELSE json[k]]

\* Older clients wrote delete_items for what is now delete_access.
Merged(json) ==
  IF "delete_items" \in DOMAIN json /\ "delete_access" \notin DOMAIN json
  THEN SetKey(json, "delete_access", json["delete_items"])
  ELSE json

Effective(role, json) ==
  [k \in Keys |-> IF k \in DOMAIN Merged(json) THEN Merged(json)[k] ELSE Template(role)[k]]

\* Mutant: a new role keeps the permissions stored for the old one.
RoleKept(x, role) == [x EXCEPT !.role = role]

\* A change of role stores the new role's template over whatever was there.
WithRole(x, role) == [x EXCEPT !.role = role, !.json = Template(role)]

(***************************************************************************)
(* Tokens and the flags of an account.                                     *)
(***************************************************************************)
Accepted(t) ==
  /\ users[t.user] # None
  /\ t.tv = users[t.user].tv
  /\ users[t.user].live /\ ~users[t.user].blocked /\ users[t.user].active

CanSignIn(u) ==
  /\ users[u] # None
  /\ users[u].live /\ ~users[u].blocked /\ users[u].active

\* An account by its user id, its Google subject or its e-mail address.
Known(u) == users[u] # None

\* Some token of u passes get_current_user.
SignedIn(u) == \E t \in tokens : t.user = u /\ Accepted(t)
Administrator(u) == SignedIn(u) /\ users[u].role \in {"owner", "admin"}

Held(u) == {t \in tokens \cup {signing[r] : r \in Requests} : t # None /\ t.user = u}

Revoke(x) == [x EXCEPT !.tv = @ + 1]

\* Mutant: the block sets the flag and leaves the token version.
BlockedOnly(x) == [x EXCEPT !.blocked = TRUE]

Block(x) == Revoke([x EXCEPT !.blocked = TRUE])
Delete(x) == Revoke([x EXCEPT !.active = FALSE, !.live = FALSE])
Activate(x) == [x EXCEPT !.active = TRUE, !.blocked = FALSE]
Deactivate(x) == [x EXCEPT !.active = FALSE]
Unblock(x) == [x EXCEPT !.blocked = FALSE]

(***************************************************************************)
(* Administration.                                                         *)
(***************************************************************************)
\* The member is not deleted, and an owner is managed by owners only.
Manages(rank, x) == x # None /\ x.live /\ (x.role = "owner" => rank = "owner")

\* One entry of a bulk request.
BulkOne(action, x) ==
  CASE action = "activate" -> Activate(x)
    [] action = "deactivate" -> Deactivate(x)
    [] action = "block" -> Block(x)
    [] action = "unblock" -> Unblock(x)
    [] action = "delete" -> Delete(x)
    [] OTHER -> WithRole(x, BulkRole)

BulkRow(action) ==
  CASE action = "block" -> "USER_BLOCK" [] action = "delete" -> "USER_DELETE" [] OTHER -> None

\* The session has one copy of a row: the actor's is the one his token was
\* checked with, changed by the entries before.
Copy(j, u) == IF u = j.by THEN j.self ELSE users[u]

\* bulk_users reads the next member, and leaves out one it may not touch.
Read(j) ==
  LET u == Head(j.left)
      x == Copy(j, u)
      spared == ~Manages(j.self.role, x) \/ (u = j.by /\ j.action \in {"deactivate", "delete", "block"})
      y == BulkOne(j.action, x)
      change == [user |-> u, seen |-> x, made |-> y, sets |-> IF j.action = "set_role" THEN "role" ELSE None]
  IN [j EXCEPT !.left = Tail(@), !.done = IF spared THEN @ ELSE Append(@, change),
               !.self = IF u = j.by /\ ~spared THEN y ELSE @]

\* patch_user: the role, then the active flag, then the block.
Patched(x, body) ==
  LET withRole == IF body.role = None THEN x ELSE WithRole(x, body.role)
      withActive == CASE body.active = None -> withRole
                      [] body.active = TRUE -> Activate(withRole)
                      [] OTHER -> Deactivate(withRole)
  IN CASE body.blocked = None -> withActive
       [] body.blocked = TRUE -> Block(withActive)
       [] OTHER -> Unblock(withActive)

\* A request of actor with the changes it has made to its copies.
Starts(r, actor, action, left, done, row) ==
  /\ Free(tasks, r)
  /\ tasks' = [tasks EXCEPT ![r] = [by |-> actor, self |-> users[actor], action |-> action, left |-> left,
                                  done |-> done, row |-> row]]
  /\ UNCHANGED <<People, Desk>>

Changes(u, made, sets) == <<[user |-> u, seen |-> users[u], made |-> made, sets |-> sets]>>

PatchUser(r, actor, u, body) ==
  /\ Administrator(actor)
  /\ Manages(users[actor].role, users[u])
  /\ body.role = "owner" => users[actor].role = "owner"
  /\ Starts(r, actor, None, <<>>,
            Changes(u, Patched(users[u], body), IF body.role = None THEN None ELSE "role"),
            IF body.blocked = TRUE THEN "USER_BLOCK" ELSE None)

DeleteUser(r, actor, u) ==
  /\ Administrator(actor)
  /\ Manages(users[actor].role, users[u]) /\ u # actor
  /\ Starts(r, actor, None, <<>>, Changes(u, Delete(users[u]), None), "USER_DELETE")

\* reset_password by an administrator: of what is kept here it leaves its row in the log.
ResetPassword(r, actor, u) ==
  /\ Administrator(actor)
  /\ Manages(users[actor].role, users[u])
  /\ Starts(r, actor, None, <<>>, Changes(u, users[u], None), "PASSWORD_RESET")

\* patch_permissions: the stored overrides with one key changed.
PatchPermissions(r, actor, u, key, value) ==
  /\ Administrator(actor)
  /\ users[u] # None
  /\ users[u].live
  /\ Starts(r, actor, None, <<>>,
            Changes(u, [users[u] EXCEPT !.json = SetKey(@, key, value)], key), None)

BulkUsers(r, actor, ids, action) ==
  /\ Administrator(actor)
  /\ Starts(r, actor, action, ids, <<>>, BulkRow(action))

BulkRead(r) ==
  /\ tasks[r] # None
  /\ tasks[r].left # <<>>
  /\ tasks' = [tasks EXCEPT ![r] = Read(@)]
  /\ UNCHANGED <<People, Desk, ops>>

\* Of a changed copy only the columns that differ are written.
Newer(old, seen, made) == IF made = seen THEN old ELSE made
Written(x, c) ==
  [live |-> Newer(x.live, c.seen.live, c.made.live), active |-> Newer(x.active, c.seen.active, c.made.active),
   blocked |-> Newer(x.blocked, c.seen.blocked, c.made.blocked), tv |-> Newer(x.tv, c.seen.tv, c.made.tv),
   role |-> Newer(x.role, c.seen.role, c.made.role),
   json |-> Newer(x.json, c.seen.json, c.made.json)]

ChangeOf(j, u) == LET i == CHOOSE k \in DOMAIN j.done : j.done[k].user = u IN j.done[i]
Changed(j) == {j.done[k].user : k \in DOMAIN j.done}
\* The blocked or deleted members.
Revokes(j) == IF j.row \in {"USER_BLOCK", "USER_DELETE"} THEN Changed(j) ELSE {}

\* The copy differs from the row in what the change sets.
Stale(j, u) ==
  LET c == ChangeOf(j, u)
  IN c.seen.json # users[u].json \/ (c.sets = "role" /\ c.seen.role # users[u].role)

\* The commit of all changes of a request and of their rows in the log.
Commit(r) ==
  /\ tasks[r] # None
  /\ tasks[r].left = <<>>
  /\ LET j == tasks[r]
         sets == {u \in Changed(j) : ChangeOf(j, u).sets # None}
     IN /\ users' = [u \in Ids |-> IF u \in Changed(j) THEN Written(users[u], ChangeOf(j, u)) ELSE users[u]]
        /\ log' = IF j.row = None THEN log
                  ELSE log \o [i \in DOMAIN j.done |->
                                 [by |-> j.by, about |-> j.done[i].user, action |-> j.row, at |-> clock]]
        /\ revoked' = revoked \cup UNION {Held(u) : u \in Revokes(j)}
        /\ crossed' = crossed \cup {u \in Revokes(j) : ChangeOf(j, u).seen.tv # users[u].tv}
        /\ torn' = (torn \ {u \in sets : ChangeOf(j, u).sets = "role"}) \cup {u \in sets : Stale(j, u)}
        /\ overrides' = [u \in Ids |->
                            IF u \notin sets THEN overrides[u]
                            ELSE LET c == ChangeOf(j, u)
                                 IN IF c.sets = "role" THEN NoKeys ELSE SetKey(overrides[u], c.sets, c.made.json[c.sets])]
  /\ tasks' = [tasks EXCEPT ![r] = None]
  /\ UNCHANGED <<Desk, ops>>

Logged(by, about, action) == Append(log, [by |-> by, about |-> about, action |-> action, at |-> clock])

\* create_user by an owner or an admin.
CreateUser(actor, u, role) ==
  /\ Administrator(actor)
  /\ users[u] = None
  /\ users' = [users EXCEPT ![u] = [live |-> TRUE, active |-> TRUE, blocked |-> FALSE, tv |-> 0,
                                    role |-> role, json |-> Effective(role, NoKeys)]]
  /\ log' = Logged(actor, u, "USER_CREATE")
  /\ UNCHANGED <<Desk, tasks, revoked, overrides, torn, crossed>>

(***************************************************************************)
(* Signing in and the requests of everybody.                               *)
(***************************************************************************)
\* login, and refresh_token or auth_google for a known account, which look at
\* none of its flags: the account is read, its token version with it.
IssueBegin(r, u, how) ==
  /\ Free(signing, r)
  /\ Known(u)
  /\ how = "password" => CanSignIn(u)
  /\ signing' = [signing EXCEPT ![r] = [user |-> u, tv |-> users[u].tv]]
  /\ UNCHANGED <<People, tasks, tokens, edits, lists, shown, clock>>

\* The token is made from what was read.  login flushes the session row, the
\* times of the sign-in and its log row and returns without a commit: the
\* session is closed and they are rolled back.
IssueEnd(r) ==
  /\ signing[r] # None
  /\ tokens' = tokens \cup {signing[r]}
  /\ signing' = [signing EXCEPT ![r] = None]
  /\ UNCHANGED <<People, tasks, edits, lists, shown, clock, ops>>

Expire(t) ==
  /\ tokens' = tokens \ {t}
  /\ UNCHANGED <<People, tasks, signing, edits, lists, shown, clock>>

\* post_activity: a client reports an action, of any type and with any details.
PostActivity(u, p) ==
  /\ SignedIn(u)
  /\ log' = Logged(u, p.about, p.action)
  /\ UNCHANGED <<Desk, tasks, users, revoked, overrides, torn, crossed>>

\* A stock movement of u writes an adjustment row and an activity row, and
\* moves the generation in every key of the cached lists on.
EditStock(u) ==
  /\ SignedIn(u)
  /\ edits' = [edits EXCEPT ![u] = Append(@, clock)]
  /\ log' = Logged(u, None, "STOCK_UPDATE")
  /\ lists' = [role \in Roles |-> None]
  /\ UNCHANGED <<users, revoked, overrides, torn, crossed, tasks, tokens, signing, shown, clock>>

Tick ==
  /\ clock < LastTick
  /\ clock' = clock + 1
  /\ UNCHANGED <<People, tasks, tokens, signing, edits, lists, shown, ops>>

(***************************************************************************)
(* The purchase list: cached per role, cut down for staff.                 *)
(***************************************************************************)
\* The keys of a listed purchase that hold amounts.  The discount and the
\* freight are there twice: trade_purchase_to_out fills both names.
Amounts == {"total_amount", "paid_amount", "remaining", "discount", "header_discount", "freight_amount", "freight_value"}
HeaderFinancialKeys == {"total_amount", "paid_amount", "remaining", "discount", "freight_amount"}

Redacts(role) == role = "staff"
ListFor(role) == IF Redacts(role) THEN Amounts \ HeaderFinancialKeys ELSE Amounts

\* Mutant: one cached list for everybody.
SharedKey(role) == "owner"

ListKey(role) == role

ListPurchases(u) ==
  /\ SignedIn(u)
  /\ LET role == users[u].role
         answer == IF lists[ListKey(role)] = None THEN ListFor(role) ELSE lists[ListKey(role)]
     IN /\ lists' = [lists EXCEPT ![ListKey(role)] = answer]
        /\ shown' = [role |-> role, amounts |-> answer]
  /\ UNCHANGED <<People, tasks, tokens, signing, edits, clock>>

\* A purchase changes: the generation in every key moves on.
DropLists ==
  /\ lists # [role \in Roles |-> None]
  /\ lists' = [role \in Roles |-> None]
  /\ UNCHANGED <<People, tasks, tokens, signing, edits, shown, clock, ops>>

(***************************************************************************)
(* What the office reads about a user.                                     *)
(***************************************************************************)
Midnight == clock - (clock % Day)
WeekStart == Midnight - WeekDays * Day

\* The rows of staff_activity_log a user wrote, and his stock adjustments.
ActRows(u) == {[kind |-> "activity", row |-> i, at |-> log[i].at] : i \in {j \in DOMAIN log : log[j].by = u}}
StockRows(u) == {[kind |-> "stock", row |-> i, at |-> edits[u][i]] : i \in DOMAIN edits[u]}

Since(rows, t) == {e \in rows : e.at >= t}
OfActivity(rows) == {e \in rows : e.kind = "activity"}
AtMost(n, m) == IF m > n THEN n ELSE m

\* Newest first with a limit; which of two rows of one time comes first is open.
IsNewest(T, rows, n) ==
  /\ Cardinality(T) = n
  /\ \A e \in T, f \in rows \ T : e.at >= f.at

Newest(rows, n) ==
  IF Cardinality(rows) <= n THEN rows ELSE CHOOSE T \in SUBSET rows : IsNewest(T, rows, n)

\* Mutant: each source gives half the rows.
LedgerByHalves(u) == Newest(ActRows(u), LedgerLimit \div 2) \cup Newest(StockRows(u), LedgerLimit \div 2)

\* user_ledger: the newest rows of both logs, merged and trimmed to the newest.
Ledger(u) == Newest(Newest(ActRows(u), LedgerLimit) \cup Newest(StockRows(u), LedgerLimit), LedgerLimit)

LedgerGroups(ledger) ==
  [today |-> Since(ledger, Midnight),
   yesterday |-> Since(ledger, Midnight - Day) \ Since(ledger, Midnight),
   thisWeek |-> Since(ledger, WeekStart) \ Since(ledger, Midnight - Day)]

ScanRows(u) == {e \in ActRows(u) : log[e.row].action = "SCAN"}
ActivityCountWeek(u) == Cardinality(Since(ActRows(u), clock - WeekDays * Day))
ScansToday(u) == Cardinality(Since(ScanRows(u), Midnight))
ScansTotal(u) == Cardinality(ScanRows(u))

(***************************************************************************)
(* Specification.                                                          *)
(***************************************************************************)
Init ==
  /\ \E role \in HiredAs :
       users = [u \in Ids |->
                 CASE u = Boss -> [live |-> TRUE, active |-> TRUE, blocked |-> FALSE, tv |-> 0,
                                   role |-> "owner", json |-> NoKeys]
                   [] u = Hired -> [live |-> TRUE, active |-> TRUE, blocked |-> FALSE, tv |-> 0,
                                    role |-> role, json |-> Legacy]
                   [] OTHER -> None]
  /\ tokens = {[user |-> Boss, tv |-> 0], [user |-> Hired, tv |-> 0]}
  /\ signing = [r \in Requests |-> None] /\ tasks = [r \in Requests |-> None]
  /\ log = [i \in DOMAIN PastScans |-> [by |-> Hired, about |-> None, action |-> "SCAN", at |-> PastScans[i]]]
  /\ edits = [u \in Ids |-> IF u = Hired THEN PastEdits ELSE <<>>]
  /\ lists = [role \in Roles |-> None]
  /\ shown = [role |-> "owner", amounts |-> Amounts]
  /\ clock = Start /\ ops = 0
  /\ revoked = {} /\ torn = {} /\ crossed = {}
  /\ overrides = [u \in Ids |-> IF u = Hired /\ "delete_items" \in DOMAIN Legacy
                                THEN [k \in {"delete_access"} |-> Legacy["delete_items"]] ELSE NoKeys]

Administer(actor) ==
  \/ \E u \in Ids, role \in Hirings : CreateUser(actor, u, role)
  \/ \E r \in Requests, u \in Ids :
       \/ \E body \in Patches : PatchUser(r, actor, u, body)
       \/ DeleteUser(r, actor, u)
       \/ ResetPassword(r, actor, u)
       \/ \E g \in Grants : PatchPermissions(r, actor, u, g.key, g.value)
  \/ \E r \in Requests, ids \in Batches, action \in BulkActions : BulkUsers(r, actor, ids, action)

Work(u) ==
  \/ \E r \in Requests, how \in {"password", "refresh"} : IssueBegin(r, u, how)
  \/ \E p \in Posted : PostActivity(u, p)
  \/ EditStock(u)
  \/ ListPurchases(u)

Next ==
  \/ /\ ops < MaxOps /\ ops' = ops + 1
     /\ (\E u \in Ids : Administer(u) \/ Work(u)) \/ (\E t \in tokens : Expire(t))
  \/ \E r \in Requests : IssueEnd(r) \/ BulkRead(r) \/ Commit(r)
  \/ Tick
  \/ DropLists

Spec == Init /\ [][Next]_vars

(***************************************************************************)
(* Properties.                                                             *)
(***************************************************************************)
\* Variables stay in their types; a signed-in administrator never reaches a
\* member that does not exist.
TypeOK ==
  /\ users \in [Ids -> User \cup {None}]
  /\ tokens \subseteq Token /\ revoked \subseteq Token /\ torn \subseteq Ids /\ crossed \subseteq Ids
  /\ log \in Seq(Row)
  /\ \A t \in tokens : users[t.user] # None

\* A token that existed, or was being issued, when its user was blocked or
\* deleted is never accepted again, not even after the block is lifted: the
\* commit moves on the version that get_current_user compares.  Except where
\* the request had read the version before another block or deletion of that
\* user committed: it writes the same version, or an older one, once more.  No
\* version moves on without a row of the activity log.
RevokedStaysOut ==
  /\ \A t \in revoked \cap tokens : t.user \notin crossed => ~Accepted(t)
  /\ \A u \in Ids : users[u] # None =>
       users[u].tv <= Cardinality({i \in DOMAIN log : log[i].about = u /\ log[i].action \in {"USER_BLOCK", "USER_DELETE"}})

\* What a member may do is his role's template, but for the keys somebody set
\* by hand since he has that role, whatever was stored before the role
\* changed; except where a change of role or of permissions was made on a copy
\* read before another one committed, until the role is set anew.
PermissionsFollowRole ==
  \A u \in Ids \ torn : users[u] # None => \A k \in Keys :
    Effective(users[u].role, users[u].json)[k] =
      IF k \in DOMAIN overrides[u] THEN overrides[u][k] ELSE Template(users[u].role)[k]

\* A purchase list, fresh or from the cache, shows all amounts to everybody but
\* staff, and to staff the second names of the discount and the freight only.
ListFitsRole ==
  shown.amounts = IF shown.role = "staff" THEN {"header_discount", "freight_value"} ELSE Amounts

\* A user's ledger holds the newest rows of both logs and leaves none out: of
\* the rows since any of them it has all, or as many as it may.  When it has
\* room for the week, each row of the week is in one of its groups, and these
\* have the rows the figures beside them count.
LedgerTrue ==
  \A u \in Ids :
    LET rows == ActRows(u) \cup StockRows(u)
        ledger == Ledger(u)
        groups == LedgerGroups(ledger)
        inGroups == groups.today \cup groups.yesterday \cup groups.thisWeek
        week == Since(rows, WeekStart)
    IN /\ ledger \subseteq rows
       /\ \A e \in rows : Cardinality(Since(ledger, e.at)) = AtMost(LedgerLimit, Cardinality(Since(rows, e.at)))
       /\ Cardinality(week) <= LedgerLimit =>
            /\ inGroups = week
            /\ Cardinality(groups.today) + Cardinality(groups.yesterday) + Cardinality(groups.thisWeek) = Cardinality(week)
            /\ ActivityCountWeek(u) = Cardinality(Since(OfActivity(inGroups), clock - WeekDays * Day))
            /\ ScansToday(u) <= Cardinality(OfActivity(groups.today))
       /\ ScansToday(u) <= ScansTotal(u)

=============================================================================
