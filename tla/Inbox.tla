-------------------------------- MODULE Inbox --------------------------------
(***************************************************************************)
(* The members' inboxes: which notifications the stock desk, the           *)
(* deliveries, the evening job and the client put there, and how they are  *)
(* listed, counted, read and cleared (services/notification_emitter.py,    *)
(* stock_variance_notifications.py, scheduled_notification_jobs.py,        *)
(* routers/notifications.py, routers/stock/stock_detail.py notify-owner).  *)
(*                                                                         *)
(* A request is one step, but for notify-owner: two of them at once meet   *)
(* in the unique index on the business and the dedupe key.                 *)
(***************************************************************************)
EXTENDS Integers, Sequences, FiniteSets

CONSTANTS
  Members,
  FirstRank,    \* the role of each member to start with
  Goods,        \* catalogue items
  Expected,     \* Goods -> the quantity after the last purchase, or Never
  Saves,        \* pairs of a quantity before and after a count or an edit
  MaxSends,     \* bound on what is sent
  MaxReads,     \* bound on the requests that read, clear and demote
  LastDay,      \* bound on the days
  PerPage,      \* rows of a page
  Never         \* no purchase, no alert at work

Office == {"owner", "admin", "manager"}
Ranks == Office \cup {"staff"}

ASSUME InboxAssumption ==
  /\ IsFiniteSet(Members) /\ FirstRank \in [Members -> Ranks]
  /\ {MaxSends, MaxReads, LastDay} \subseteq Nat /\ PerPage \in Nat \ {0}

VARIABLES
  rank,     \* the role of each member
  inbox,    \* notifications, oldest first; those that are deleted stay as cleared
  asking,   \* notify-owner requests at work
  today,
  sends, reads,
  due,      \* [to, key]: one of to has to have the notice with the key
  moved     \* members whose role was changed

inboxVars == <<rank, inbox, asking, today, sends, reads, due, moved>>

Askers == 1..2

\* A dedupe key: the kind, and what it is unique in.
Key(kind, i, m, day) == <<kind, i, m, day>>
NoKey == Key("none", Never, Never, 0)
DeviceKey == Key("device", Never, Never, 0)

Kinds == {"variance", "edit", "evening", "assigned", "verified", "reorder", "failed"}
Category(kind) ==
  CASE kind \in {"variance", "evening"} -> "warehouse"
    [] kind \in {"edit", "reorder"} -> "staff"
    [] kind \in {"assigned", "verified"} -> "purchase"
    [] OTHER -> "system"

-----------------------------------------------------------------------------
(* Sending. *)

Holds(box, key) == \E n \in DOMAIN box : box[n].key = key /\ ~box[n].cleared
Notice(to, kind, key, roles) ==
  [to |-> to, kind |-> kind, key |-> key, roles |-> roles, read |-> FALSE, cleared |-> FALSE]

InOffice == {m \in Members : rank[m] \in Office}

\* recipient_user_ids_for_business
Recipients(ownerOnly, roles) ==
  IF roles # {} THEN {m \in Members : rank[m] \in roles}
  ELSE IF ownerOnly THEN InOffice ELSE Members

\* emit_notification: what the inboxes may be after it.  With a key, the first
\* recipient's row keeps the others' out by the unique index.
Emit1(box, to, kind, key, roles) ==
  IF to = {} \/ Holds(box, key) THEN {box}
  ELSE {Append(box, Notice(m, kind, key, roles)) : m \in to}

Owe(to, key) == IF to = {} THEN {} ELSE {[to |-> to, key |-> key]}

Send == sends < MaxSends /\ sends' = sends + 1

\* _is_material_variance: two units, or 2 % of what is expected.
Diverges(expected, found) ==
  LET d == IF found > expected THEN found - expected ELSE expected - found
  IN  d >= 2 \/ (expected > 0 /\ 50 * d >= expected)

\* A count or an edit of an item's stock.  maybe_notify_stock_variance tells
\* everyone once a day and item; an edit by someone of the staff is told to the
\* office, once a day, item and person, in the same transaction.
SaveStock(u, i, before, found, isEdit) ==
  LET varies == Expected[i] # Never /\ Diverges(Expected[i], found)
      byStaff == isEdit /\ rank[u] \notin Office /\ found # before
      key1 == Key("variance", i, Never, today)
      key2 == Key("edit", i, u, today)
      all == Recipients(FALSE, {})
      office == Recipients(TRUE, {})
  IN
  /\ Send
  /\ varies \/ byStaff
  /\ \E box \in Emit1(inbox, IF varies THEN all ELSE {}, "variance", key1, {}) :
       inbox' \in Emit1(box, IF byStaff THEN office ELSE {}, "edit", key2, {})
  /\ due' = due \cup (IF varies THEN Owe(all, key1) ELSE {}) \cup (IF byStaff THEN Owe(office, key2) ELSE {})
  /\ UNCHANGED <<rank, asking, today, reads, moved>>

\* run_evening_physical_count_reminder
EveningReminder ==
  LET key == Key("evening", Never, Never, today) IN
  /\ Send
  /\ inbox' \in Emit1(inbox, Recipients(TRUE, {}), "evening", key, {})
  /\ due' = due \cup Owe(Recipients(TRUE, {}), key)
  /\ UNCHANGED <<rank, asking, today, reads, moved>>

\* _emit_delivery_notification: once for a step of a purchase, to some roles.
DeliveryNotice(kind, roles) ==
  LET key == Key(kind, Never, Never, 0) IN
  /\ Send
  /\ inbox' \in Emit1(inbox, Recipients(FALSE, roles), kind, key, roles)
  /\ due' = due \cup Owe(Recipients(FALSE, roles), key)
  /\ UNCHANGED <<rank, asking, today, reads, moved>>

\* client-event: a failure on the device, to its own user; the client's key is
\* looked for among his own rows, and unique in the business.
ClientEvent(u, key) ==
  /\ Send
  /\ inbox' = IF key # NoKey /\ Holds(inbox, key) THEN inbox
              ELSE Append(inbox, Notice(u, "failed", key, {}))
  /\ UNCHANGED <<rank, asking, today, reads, due, moved>>

\* Mutant of AlertKey: one key for all whom an alert is for.
AlertKeyShared(i, m, day) == Key("reorder", i, Never, day)
\* The key of an alert holds its recipient.
AlertKey(i, m, day) == Key("reorder", i, m, day)

\* notify_owner_about_item: the office without the one who asks, less those
\* who have been told today.
NotifyOwnerBegin(a, u, i) ==
  LET to == InOffice \ {u} IN
  /\ Send
  /\ asking[a] = Never /\ \A b \in 1..(a - 1) : asking[b] # Never
  /\ to # {}
  /\ asking' = [asking EXCEPT ![a] =
        [item |-> i, day |-> today, to |-> to,
         new |-> {m \in to : ~Holds(inbox, AlertKey(i, m, today))}]]
  /\ UNCHANGED <<rank, inbox, today, reads, due, moved>>

\* The rows are inserted together: one key that has come in between fails them
\* all, and the request.
NotifyOwnerEnd(a) ==
  LET q == asking[a]
      key(m) == AlertKey(q.item, m, q.day)
      rows == {Notice(m, "reorder", key(m), {}) : m \in q.new}
  IN
  /\ asking[a] # Never
  /\ asking' = [asking EXCEPT ![a] = Never]
  /\ IF \/ \E m \in q.new : Holds(inbox, key(m))
        \/ Cardinality({n.key : n \in rows}) # Cardinality(rows)
     THEN UNCHANGED <<inbox, due>>
     ELSE /\ inbox' \in {inbox \o s : s \in {t \in [1..Cardinality(rows) -> rows] : {t[n] : n \in DOMAIN t} = rows}}
          /\ due' = due \cup {[to |-> {m}, key |-> key(m)] : m \in q.to}
  /\ UNCHANGED <<rank, today, sends, reads, moved>>

-----------------------------------------------------------------------------
(* Reading. *)

\* _notification_visible_to_role
Visible(n, role) == n.roles = {} \/ role \in n.roles

Mine(u, unreadOnly) ==
  {n \in DOMAIN inbox : inbox[n].to = u /\ ~inbox[n].cleared /\ (unreadOnly => ~inbox[n].read)}

\* list_notifications: a page of the newest first, and of its rows those for
\* the member's role.
Page(u, p, unreadOnly) ==
  LET newer(n) == Cardinality({k \in Mine(u, unreadOnly) : k > n})
  IN  {n \in Mine(u, unreadOnly) : /\ (p - 1) * PerPage <= newer(n) /\ newer(n) < p * PerPage
                                   /\ Visible(inbox[n], rank[u])}
Listed(u, unreadOnly) == UNION {Page(u, p, unreadOnly) : p \in 1..(Len(inbox) + 1)}

\* unread_count, notifications_summary
UnreadCount(u) == Cardinality(Mine(u, TRUE))
UnreadOf(u, category) == Cardinality({n \in Mine(u, TRUE) : Category(inbox[n].kind) = category})

Touch == reads < MaxReads /\ reads' = reads + 1

\* patch_notification: of the member's own.
PatchNotification(u, n, read) ==
  /\ Touch /\ inbox[n].to = u /\ ~inbox[n].cleared
  /\ inbox' = [inbox EXCEPT ![n].read = read]
  /\ UNCHANGED <<rank, asking, today, sends, due, moved>>

\* mark_all_read, of one kind or of all.
MarkAllRead(u, kinds) ==
  /\ Touch
  /\ inbox' = [n \in DOMAIN inbox |->
                 IF inbox[n].to = u /\ inbox[n].kind \in kinds THEN [inbox[n] EXCEPT !.read = TRUE] ELSE inbox[n]]
  /\ UNCHANGED <<rank, asking, today, sends, due, moved>>

\* clear_all: rows are deleted, seen or not.
ClearAll(u, kinds) ==
  /\ Touch
  /\ inbox' = [n \in DOMAIN inbox |->
                 IF inbox[n].to = u /\ inbox[n].kind \in kinds THEN [inbox[n] EXCEPT !.cleared = TRUE] ELSE inbox[n]]
  /\ UNCHANGED <<rank, asking, today, sends, due, moved>>

SetRank(u, role) ==
  /\ Touch /\ rank[u] # role
  /\ rank' = [rank EXCEPT ![u] = role]
  /\ moved' = moved \cup {u}
  /\ UNCHANGED <<inbox, asking, today, sends, due>>

NextDay ==
  /\ today < LastDay /\ today' = today + 1
  /\ UNCHANGED <<rank, inbox, asking, sends, reads, due, moved>>

InboxInit ==
  /\ rank = FirstRank /\ inbox = <<>> /\ asking = [a \in Askers |-> Never] /\ today = 1
  /\ sends = 0 /\ reads = 0 /\ due = {} /\ moved = {}

InboxNext ==
  \/ \E u \in Members, i \in Goods, q \in Saves, isEdit \in BOOLEAN : SaveStock(u, i, q[1], q[2], isEdit)
  \/ EveningReminder
  \/ DeliveryNotice("assigned", {"staff"})
  \/ DeliveryNotice("verified", Office)
  \/ \E u \in Members, key \in {NoKey, DeviceKey} : ClientEvent(u, key)
  \/ \E a \in Askers : (\E u \in Members, i \in Goods : NotifyOwnerBegin(a, u, i)) \/ NotifyOwnerEnd(a)
  \/ \E u \in Members :
       \/ \E n \in DOMAIN inbox, read \in BOOLEAN : PatchNotification(u, n, read)
       \/ \E kinds \in {Kinds, {"reorder"}} : MarkAllRead(u, kinds) \/ ClearAll(u, kinds)
       \/ \E role \in {"manager", "staff"} : SetRank(u, role)
  \/ NextDay

InboxSpec == InboxInit /\ [][InboxNext]_inboxVars

-----------------------------------------------------------------------------
\* What was answered as sent is there to be seen: whom an alert to the owners is
\* for each have it on one of the pages of their list, or have cleared it
\* themselves, whatever else was sent or asked at the same time; of a notice to
\* several, which one key lets in once, one of them has it.  What concerns
\* members whose role was changed is left out.
AlertShown ==
  \A d \in due :
    \/ d.to \cap moved # {}
    \/ \E n \in DOMAIN inbox :
         /\ inbox[n].key = d.key /\ inbox[n].to \in d.to \cup moved
         /\ inbox[n].cleared \/ inbox[n].to \in moved \/ n \in Listed(inbox[n].to, FALSE)

\* The badge of a member whose role has not changed counts the notices the
\* unread list shows him over all of its pages, and the summary divides them up.
BadgeTrue ==
  \A u \in Members \ moved :
    /\ UnreadCount(u) = Cardinality(Listed(u, TRUE))
    /\ UnreadCount(u) = UnreadOf(u, "warehouse") + UnreadOf(u, "staff") + UnreadOf(u, "purchase") + UnreadOf(u, "system")

\* What is sent is shown, and what is shown is counted.
InboxTrue == AlertShown /\ BadgeTrue
=============================================================================
