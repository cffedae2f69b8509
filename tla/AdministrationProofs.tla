------------------------ MODULE AdministrationProofs ------------------------
(***************************************************************************)
(* Theorems about the administration of a business: Damage, for any        *)
(* reporters, purchases and number of reports and decisions, Accounts, for *)
(* any people, permission keys, roles and number of requests, Inbox, for   *)
(* any members, items, days, page size and number of requests, and         *)
(* Workspace, for any people, seed rows and number of seeds and edits.     *)
(***************************************************************************)
EXTENDS Accounts, Workspace, Damage, Inbox, FiniteSetTheorems, WellFoundedInduction, TLAPS

-----------------------------------------------------------------------------
(* Damage reports. *)

Report == [by : Reporters, status : Decisions \cup {"pending"}, type : DamageTypes]

DamageTyped ==
  /\ reports \in Seq(Report)
  /\ deciding \in [Desks -> Decision \cup {NoOne}]
  /\ \A d \in Desks : deciding[d] # NoOne => deciding[d].id \in DOMAIN reports

\* A decision that is about to tell the reporter.
Telling(d, id) ==
  /\ deciding[d] # NoOne /\ deciding[d].done /\ deciding[d].id = id
  /\ deciding[d].status = "approved" /\ deciding[d].prev # "approved"

Told(id) == \E n \in notices : n.to = reports[id].by /\ n.about = id /\ n.says = "approved"

\* An approval has been told, is about to be, or was cut short; nobody else is
\* told of it, so that a notice that is there already is the reporter's.
ToldOrTelling ==
  /\ \A n \in notices : n.says = "approved" => n.about \in DOMAIN reports /\ n.to = reports[n.about].by
  /\ \A id \in DOMAIN reports :
       reports[id].status = "approved" /\ id \notin cut => Told(id) \/ \E d \in Desks : Telling(d, id)

DamageInv == DamageTyped /\ ToldOrTelling

\* A key that is there already is a notice to the same reporter.
LEMMA TellTells ==
  ASSUME NEW to, NEW about, NEW says, notices' = Tell(to, about, says)
  PROVE  /\ notices \subseteq notices'
         /\ \A n \in notices' : n \in notices \/ n = [to |-> to, about |-> about, says |-> says]
         /\ \E n \in notices' : n.about = about /\ n.says = says
<1> DEFINE new == [to |-> to, about |-> about, says |-> says]
<1>1. new.about = about /\ new.says = says
  OBVIOUS
<1> HIDE DEF new
<1>2. CASE \E n \in notices : n.about = about /\ n.says = says
  BY <1>2 DEF Tell
<1>3. CASE ~\E n \in notices : n.about = about /\ n.says = says
  <2>1. notices' = notices \cup {new}
    BY <1>3 DEF Tell, new
  <2>2. new \in notices' /\ notices \subseteq notices' /\ \A n \in notices' : n \in notices \/ n = new
    BY <2>1
  <2> QED BY <1>1, <2>2 DEF new
<1> QED BY <1>2, <1>3

LEMMA ReportCreated ==
  ASSUME DamageInv, NEW u \in Reporters, NEW named, NEW i, NEW type \in DamageTypes \cup {NoOne},
         NEW reason \in Reasons \cup {NoOne}, NEW notify,
         CreateDamageReport(u, named, i, type, reason, notify)
  PROVE  DamageInv'
<1> DEFINE new == [by |-> u, status |-> "pending", type |-> IF type # NoOne THEN type ELSE TypeOf(reason)]
<1>1. new \in Report
  BY DEF Report, TypeOf, DamageTypes
<1>2. reports' = Append(reports, new) /\ UNCHANGED <<deciding, decisions, cut>>
  BY DEF CreateDamageReport
<1> HIDE DEF new
<1>3. /\ reports' \in Seq(Report) /\ Len(reports') = Len(reports) + 1
      /\ DOMAIN reports' = DOMAIN reports \cup {Len(reports) + 1} /\ DOMAIN reports \subseteq DOMAIN reports'
      /\ \A id \in DOMAIN reports : reports'[id] = reports[id]
      /\ reports'[Len(reports) + 1] = new
  BY <1>1, <1>2 DEF DamageInv, DamageTyped
<1>4. DamageTyped'
  <2>1. deciding' \in [Desks -> Decision \cup {NoOne}]
    BY <1>2 DEF DamageInv, DamageTyped
  <2>2. \A d \in Desks : deciding'[d] # NoOne => deciding'[d].id \in DOMAIN reports'
    BY <1>2, <1>3 DEF DamageInv, DamageTyped
  <2> QED BY <1>3, <2>1, <2>2 DEF DamageTyped
<1>5. /\ notices \subseteq notices'
      /\ \A n \in notices' : n \in notices \/ n.says = "reported"
  <2>1. CASE notices' = notices
    BY <2>1
  <2>2. CASE notices' = Tell("office", Len(reports) + 1, "reported")
    BY <2>2, TellTells
  <2> QED BY <2>1, <2>2 DEF CreateDamageReport
<1>6. ToldOrTelling'
  <2>1. ASSUME NEW n \in notices', n.says = "approved"
        PROVE  n.about \in DOMAIN reports' /\ n.to = reports'[n.about].by
    <3>1. n \in notices
      BY <1>5, <2>1
    <3> QED BY <1>3, <2>1, <3>1 DEF DamageInv, ToldOrTelling
  <2>2. ASSUME NEW id \in DOMAIN reports', reports'[id].status = "approved", id \notin cut'
        PROVE  Told(id)' \/ \E d \in Desks : Telling(d, id)'
    <3>1. new.status = "pending"
      BY DEF new
    <3>2. id \in DOMAIN reports /\ reports'[id] = reports[id]
      BY <1>3, <2>2, <3>1
    <3>3. Told(id) \/ \E d \in Desks : Telling(d, id)
      BY <1>2, <2>2, <3>2 DEF DamageInv, ToldOrTelling
    <3> QED BY <1>2, <1>5, <3>2, <3>3 DEF Told, Telling
  <2> QED BY <2>1, <2>2 DEF ToldOrTelling
<1> QED BY <1>4, <1>6 DEF DamageInv

LEMMA DecisionRead ==
  ASSUME DamageInv, NEW d \in Desks, NEW id \in DOMAIN reports, NEW status \in Decisions, DecideRead(d, id, status)
  PROVE  DamageInv'
<1> DEFINE q == [id |-> id, status |-> status, prev |-> reports[id].status, done |-> FALSE]
<1>1. q \in Decision
  <2>1. id \in Nat /\ reports[id] \in Report
    BY DEF DamageInv, DamageTyped
  <2>2. reports[id].status \in Decisions \cup {"pending"}
    BY <2>1 DEF Report
  <2> QED BY <2>1, <2>2 DEF Decision
<1>2. /\ deciding' = [deciding EXCEPT ![d] = q] /\ deciding[d] = NoOne
      /\ UNCHANGED <<reports, notices, cut>>
  BY DEF DecideRead
<1>3. q.id = id
  OBVIOUS
<1> HIDE DEF q
<1>4. /\ deciding' \in [Desks -> Decision \cup {NoOne}]
      /\ deciding'[d] = q /\ \A e \in Desks \ {d} : deciding'[e] = deciding[e]
  BY <1>1, <1>2 DEF DamageInv, DamageTyped
<1>5. DamageTyped'
  BY <1>2, <1>3, <1>4 DEF DamageInv, DamageTyped
<1>6. \A e \in Desks, i \in DOMAIN reports : Telling(e, i) => Telling(e, i)'
  BY <1>2, <1>4 DEF Telling
<1>7. ToldOrTelling'
  BY <1>2, <1>6 DEF DamageInv, ToldOrTelling, Told
<1> QED BY <1>5, <1>7 DEF DamageInv

LEMMA DecisionWritten ==
  ASSUME DamageInv, NEW d \in Desks, DecideWrite(d)
  PROVE  DamageInv'
<1> PICK q : q = deciding[d]
  OBVIOUS
<1>1. q \in Decision /\ q # NoOne /\ ~q.done /\ q.id \in DOMAIN reports
  BY DEF DamageInv, DamageTyped, DecideWrite
<1>2. /\ deciding' = [deciding EXCEPT ![d] = [q EXCEPT !.done = TRUE]] /\ UNCHANGED <<notices, cut>>
      /\ reports' = IF q.status = q.prev THEN reports
                    ELSE [reports EXCEPT ![q.id] = [reports[q.id] EXCEPT !.status = q.status]]
  BY DEF DecideWrite
<1>3. /\ [q EXCEPT !.done = TRUE] \in Decision
      /\ [q EXCEPT !.done = TRUE].id = q.id /\ [q EXCEPT !.done = TRUE].status = q.status
      /\ [q EXCEPT !.done = TRUE].prev = q.prev /\ [q EXCEPT !.done = TRUE].done
  BY <1>1 DEF Decision
<1>4. reports[q.id] \in Report
  BY <1>1 DEF DamageInv, DamageTyped
<1>5. /\ [reports[q.id] EXCEPT !.status = q.status] \in Report
      /\ [reports[q.id] EXCEPT !.status = q.status].by = reports[q.id].by
      /\ [reports[q.id] EXCEPT !.status = q.status].status = q.status
  BY <1>1, <1>4 DEF Report, Decision
<1>7. /\ deciding' \in [Desks -> Decision \cup {NoOne}]
      /\ deciding'[d] # NoOne /\ deciding'[d].id = q.id /\ deciding'[d].status = q.status
      /\ deciding'[d].prev = q.prev /\ deciding'[d].done
      /\ \A e \in Desks \ {d} : deciding'[e] = deciding[e]
  <2> DEFINE w == [q EXCEPT !.done = TRUE]
  <2>1. w \in Decision /\ w # NoOne /\ w.id = q.id /\ w.status = q.status /\ w.prev = q.prev /\ w.done
    BY <1>3, DamageAssumption
  <2>2. deciding' = [deciding EXCEPT ![d] = w]
    BY <1>2
  <2> HIDE DEF w
  <2> QED BY <2>1, <2>2 DEF DamageInv, DamageTyped
<1>8. /\ reports' \in Seq(Report) /\ DOMAIN reports' = DOMAIN reports
      /\ \A id \in DOMAIN reports : reports'[id].by = reports[id].by
      /\ \A id \in DOMAIN reports :
           reports'[id].status = reports[id].status \/ (id = q.id /\ q.status # q.prev /\ reports'[id].status = q.status)
  BY <1>1, <1>2, <1>5 DEF DamageInv, DamageTyped
<1>9. DamageTyped'
  <2>1. \A e \in Desks : deciding'[e] # NoOne => deciding'[e].id \in DOMAIN reports'
    BY <1>1, <1>7, <1>8 DEF DamageInv, DamageTyped
  <2> QED BY <1>7, <1>8, <2>1 DEF DamageTyped
<1>10. \A id \in DOMAIN reports : Told(id) => Told(id)'
  BY <1>2, <1>8 DEF Told
<1>11. \A e \in Desks, id \in DOMAIN reports : Telling(e, id) => Telling(e, id)'
  BY <1>1, <1>7 DEF Telling
<1>12. q.status = "approved" /\ q.prev # "approved" => Telling(d, q.id)'
  BY <1>7 DEF Telling
<1>13. ToldOrTelling'
  <2>1. ASSUME NEW n \in notices', n.says = "approved"
        PROVE  n.about \in DOMAIN reports' /\ n.to = reports'[n.about].by
    BY <1>2, <1>8, <2>1 DEF DamageInv, ToldOrTelling
  <2>2. ASSUME NEW id \in DOMAIN reports', reports'[id].status = "approved", id \notin cut'
        PROVE  Told(id)' \/ \E e \in Desks : Telling(e, id)'
    <3>1. CASE reports[id].status = "approved"
      <4>1. Told(id) \/ \E e \in Desks : Telling(e, id)
        BY <1>2, <1>8, <2>2, <3>1 DEF DamageInv, ToldOrTelling
      <4>2. id \in DOMAIN reports
        BY <1>8
      <4> QED BY <1>10, <1>11, <4>1, <4>2
    <3>2. CASE reports[id].status # "approved"
      BY <1>8, <1>12, <2>2, <3>2
    <3> QED BY <3>1, <3>2
  <2> QED BY <2>1, <2>2 DEF ToldOrTelling
<1> QED BY <1>9, <1>13 DEF DamageInv

LEMMA DecisionTold ==
  ASSUME DamageInv, NEW d \in Desks, DecideTell(d)
  PROVE  DamageInv'
<1> PICK q : q = deciding[d]
  OBVIOUS
<1>1. q \in Decision /\ q # NoOne /\ q.done /\ q.id \in DOMAIN reports
  BY DEF DamageInv, DamageTyped, DecideTell
<1>2. /\ deciding' = [deciding EXCEPT ![d] = NoOne] /\ UNCHANGED <<reports, cut>>
      /\ notices' = IF q.status = "approved" /\ q.prev # "approved"
                    THEN Tell(reports[q.id].by, q.id, reports[q.id].status) ELSE notices
  BY DEF DecideTell
<1>4. /\ deciding' \in [Desks -> Decision \cup {NoOne}] /\ deciding'[d] = NoOne
      /\ \A e \in Desks \ {d} : deciding'[e] = deciding[e]
  BY <1>2 DEF DamageInv, DamageTyped
<1>5. DamageTyped'
  BY <1>2, <1>4 DEF DamageInv, DamageTyped
<1>6. /\ notices \subseteq notices'
      /\ \A n \in notices' : n \in notices \/ (n.about = q.id /\ n.to = reports[q.id].by)
      /\ q.status = "approved" /\ q.prev # "approved" =>
           \E n \in notices' : n.about = q.id /\ n.says = reports[q.id].status
  <2>1. CASE q.status = "approved" /\ q.prev # "approved"
    BY <1>2, <2>1, TellTells
  <2>2. CASE ~(q.status = "approved" /\ q.prev # "approved")
    BY <1>2, <2>2
  <2> QED BY <2>1, <2>2
<1>7. ASSUME NEW n \in notices', n.says = "approved"
      PROVE  n.about \in DOMAIN reports' /\ n.to = reports'[n.about].by
  BY <1>1, <1>2, <1>6, <1>7 DEF DamageInv, ToldOrTelling
<1>8. ASSUME NEW id \in DOMAIN reports', reports'[id].status = "approved", id \notin cut'
      PROVE  Told(id)' \/ \E e \in Desks : Telling(e, id)'
  <2>1. Told(id) \/ \E e \in Desks : Telling(e, id)
    BY <1>2, <1>8 DEF DamageInv, ToldOrTelling
  <2>2. CASE Told(id)
    BY <1>2, <1>6, <2>2 DEF Told
  <2>3. CASE Telling(d, id)
    <3>1. id = q.id /\ q.status = "approved" /\ q.prev # "approved"
      BY <2>3 DEF Telling
    <3>2. PICK n \in notices' : n.about = id /\ n.says = "approved"
      BY <1>2, <1>6, <1>8, <3>1
    <3> QED BY <1>7, <3>2 DEF Told
  <2>4. CASE \E e \in Desks \ {d} : Telling(e, id)
    BY <1>4, <2>4 DEF Telling
  <2> QED BY <2>1, <2>2, <2>3, <2>4
<1>9. ToldOrTelling'
  BY <1>7, <1>8 DEF ToldOrTelling
<1> QED BY <1>5, <1>9 DEF DamageInv

LEMMA DeskStopped ==
  ASSUME DamageInv, StopDesk
  PROVE  DamageInv'
<1>1. /\ cut' = cut \cup {deciding[d].id : d \in {e \in Desks : deciding[e] # NoOne /\ deciding[e].done}}
      /\ deciding' = [d \in Desks |-> NoOne] /\ UNCHANGED <<reports, notices>>
  BY DEF StopDesk
<1>2. DamageTyped'
  BY <1>1 DEF DamageInv, DamageTyped
<1>3. \A id : (\E d \in Desks : Telling(d, id)) => id \in cut'
  BY <1>1 DEF Telling
<1>4. ToldOrTelling'
  BY <1>1, <1>3 DEF DamageInv, ToldOrTelling, Told
<1> QED BY <1>2, <1>4 DEF DamageInv

LEMMA DamageInvariant == DamageSpec => []DamageInv
<1>1. DamageInit => DamageInv
  BY DEF DamageInit, DamageInv, DamageTyped, ToldOrTelling
<1>2. DamageInv /\ [DamageNext]_damageVars => DamageInv'
  <2> SUFFICES ASSUME DamageInv, [DamageNext]_damageVars PROVE DamageInv'
    OBVIOUS
  <2>1. ASSUME NEW u \in Reporters, NEW named \in BOOLEAN, NEW notify \in BOOLEAN, NEW i \in Items, NEW given \in Given,
               CreateDamageReport(u, named, i, given[1], given[2], notify)
        PROVE  DamageInv'
    <3>1. given[1] \in DamageTypes \cup {NoOne} /\ given[2] \in Reasons \cup {NoOne}
      BY DamageAssumption
    <3> QED BY <2>1, <3>1, ReportCreated
  <2>2. ASSUME NEW d \in Desks,
               (\E id \in DOMAIN reports, status \in Decisions : DecideRead(d, id, status)) \/ DecideWrite(d) \/ DecideTell(d)
        PROVE  DamageInv'
    BY <2>2, DecisionRead, DecisionWritten, DecisionTold
  <2>3. CASE UNCHANGED damageVars
    BY <2>3 DEF damageVars, DamageInv, DamageTyped, ToldOrTelling, Told, Telling
  <2> QED BY <2>1, <2>2, <2>3, DeskStopped DEF DamageNext
<1> QED BY <1>1, <1>2, PTL DEF DamageSpec

\* Who reported damage that stands approved has been told so, whichever
\* decisions overlapped, except where the process stopped in between.
THEOREM ApprovalsTold == DamageSpec => []ApprovedTold
<1>1. DamageInv => ApprovedTold
  BY DEF DamageInv, ToldOrTelling, ApprovedTold, Told, Telling
<1> QED BY <1>1, DamageInvariant, PTL

-----------------------------------------------------------------------------
(***************************************************************************)
(* Accounts.  A request at work writes, for each member it changes, the    *)
(* columns in which its copy and the row it read differ: the invariant     *)
(* says what these may be.  A version is never ahead of the rows of the    *)
(* log that say the member was blocked or deleted; a token is never ahead  *)
(* of its user, unless two blocks or deletions of him have crossed.        *)
(***************************************************************************)

Overrides == UNION {[S -> BOOLEAN] : S \in SUBSET Keys}

\* The rows of the activity log that say that u was blocked or deleted.
Expels(action) == action \in {"USER_BLOCK", "USER_DELETE"}
Blocks(l, u) == {i \in DOMAIN l : l[i].about = u /\ l[i].action \in {"USER_BLOCK", "USER_DELETE"}}

Follows(x, o) ==
  \A k \in Keys : Effective(x.role, x.json)[k] = IF k \in DOMAIN o THEN o[k] ELSE Template(x.role)[k]

AccountsTyped ==
  /\ users \in [Ids -> User \cup {None}] /\ clock \in Nat
  /\ log \in Seq(Row) /\ revoked \subseteq Token /\ torn \subseteq Ids /\ crossed \subseteq Ids
  /\ overrides \in [Ids -> Overrides]
  /\ tokens \subseteq Token /\ signing \in [Requests -> Token \cup {None}]
  /\ tasks \in [Requests -> Task \cup {None}]

VersionsCounted == \A u \in Ids : users[u] # None => users[u].tv <= Cardinality(Blocks(log, u))

\* Tokens held or being issued are not ahead of their user, revoked ones behind.
Standing(us, except, t) == us[t.user] # None /\ (t.user \notin except => t.tv <= us[t.user].tv)
TokensStand ==
  /\ \A t \in tokens : Standing(users, crossed, t)
  /\ \A r \in Requests : signing[r] # None => Standing(users, crossed, signing[r])
RevokedBehind == \A t \in revoked : users[t.user] # None /\ (t.user \notin crossed => t.tv < users[t.user].tv)

PeopleFollow ==
  \A u \in Ids : /\ users[u] = None => overrides[u] = NoKeys
                 /\ users[u] # None /\ u \notin torn => Follows(users[u], overrides[u])

\* The version moves on by one if the request blocks or deletes; the role comes
\* with its template, a key alone, and nothing else changes either.
Sensible(us, l, row, c) ==
  /\ us[c.user] # None /\ c.seen.tv <= Cardinality(Blocks(l, c.user))
  /\ c.made.tv = IF Expels(row) THEN c.seen.tv + 1 ELSE c.seen.tv
  /\ c.sets = "role" => c.made.json = Template(c.made.role)
  /\ c.sets # "role" => c.made.role = c.seen.role
  /\ c.sets \in Keys => c.made.json = SetKey(c.seen.json, c.sets, c.made.json[c.sets])
  /\ c.sets = None => c.made.json = c.seen.json

TaskSound(us, l, j) ==
  /\ us[j.by] # None /\ j.self.tv <= Cardinality(Blocks(l, j.by))
  /\ j.left # <<>> => j.action # None /\ j.row = BulkRow(j.action)
  /\ \A k \in DOMAIN j.done : Sensible(us, l, j.row, j.done[k])
TasksSound == \A r \in Requests : tasks[r] # None => TaskSound(users, log, tasks[r])

ListsFit ==
  /\ DOMAIN lists = Roles
  /\ \A role \in Roles : lists[role] = None \/ lists[role] = ListFor(role)

AccountsInv ==
  AccountsTyped /\ VersionsCounted /\ TokensStand /\ RevokedBehind /\ PeopleFollow /\ TasksSound
  /\ ListsFit /\ ListFitsRole

\* A role stores its template.
LEMMA TemplateFollows ==
  ASSUME NEW role \in Roles
  PROVE  /\ Template(role) \in Json
         /\ \A k \in Keys : Effective(role, Template(role))[k] = Template(role)[k]
         /\ \A k \in Keys : Effective(role, NoKeys)[k] = Template(role)[k]
         /\ Effective(role, NoKeys) = Template(role)
<1>1. Template(role) \in [Keys -> BOOLEAN] /\ DOMAIN Template(role) = Keys
  BY DEF Template
<1>2. Template(role) \in Json
  BY <1>1 DEF Json
<1>3. Merged(Template(role)) = Template(role)
  BY <1>1, AccountsAssumption DEF Merged
<1>4. DOMAIN NoKeys = {} /\ Merged(NoKeys) = NoKeys
  BY DEF NoKeys, Merged
<1>5. /\ \A k \in Keys : Effective(role, Template(role))[k] = Template(role)[k]
      /\ \A k \in Keys : Effective(role, NoKeys)[k] = Template(role)[k]
  BY <1>1, <1>3, <1>4 DEF Effective
<1>6. Effective(role, NoKeys) = Template(role)
  BY <1>4 DEF Effective, Template
<1> QED BY <1>2, <1>5, <1>6

LEMMA NoKeysTyped == NoKeys \in Overrides /\ NoKeys \in Json /\ DOMAIN NoKeys = {}
<1>1. NoKeys \in [{} -> BOOLEAN] /\ DOMAIN NoKeys = {}
  BY DEF NoKeys
<1>2. {} \in SUBSET Keys /\ {} \in SUBSET (Keys \cup {"delete_items"})
  OBVIOUS
<1> QED BY <1>1, <1>2 DEF Overrides, Json

\* Setting a key of the stored permissions decides that key and no other.
LEMMA KeySet ==
  ASSUME NEW role \in Roles, NEW json \in Json, NEW key \in Keys, NEW value \in BOOLEAN
  PROVE  /\ SetKey(json, key, value) \in Json /\ SetKey(json, key, value)[key] = value
         /\ \A k \in Keys : Effective(role, SetKey(json, key, value))[k] =
                              IF k = key THEN value ELSE Effective(role, json)[k]
<1> PICK j : j = SetKey(json, key, value)
  OBVIOUS
<1>1. PICK S \in SUBSET (Keys \cup {"delete_items"}) : json \in [S -> BOOLEAN]
  BY DEF Json
<1>2. /\ j \in [S \cup {key} -> BOOLEAN] /\ DOMAIN j = S \cup {key} /\ DOMAIN json = S
      /\ j[key] = value /\ \A k \in S : k # key => j[k] = json[k]
  BY <1>1 DEF SetKey
<1>3. S \cup {key} \in SUBSET (Keys \cup {"delete_items"}) /\ key # "delete_items"
  BY AccountsAssumption
<1>4. j \in Json
  BY <1>2, <1>3 DEF Json
<1>5. ASSUME NEW k \in Keys
      PROVE  Effective(role, j)[k] = IF k = key THEN value ELSE Effective(role, json)[k]
  <2>1. Effective(role, j)[k] = IF k \in DOMAIN Merged(j) THEN Merged(j)[k] ELSE Template(role)[k]
    BY DEF Effective
  <2>2. Effective(role, json)[k] = IF k \in DOMAIN Merged(json) THEN Merged(json)[k] ELSE Template(role)[k]
    BY DEF Effective
  <2>3. \A n \in Json : IF "delete_items" \in DOMAIN n /\ "delete_access" \notin DOMAIN n
                        THEN /\ DOMAIN Merged(n) = DOMAIN n \cup {"delete_access"}
                             /\ Merged(n)["delete_access"] = n["delete_items"]
                             /\ \A i \in DOMAIN n : i # "delete_access" => Merged(n)[i] = n[i]
                        ELSE Merged(n) = n
    BY DEF Merged, SetKey
  <2>4. CASE "delete_items" \in S /\ "delete_access" \notin S
    <3>1. /\ DOMAIN Merged(json) = S \cup {"delete_access"}
          /\ Merged(json)["delete_access"] = json["delete_items"]
          /\ \A i \in S : i # "delete_access" => Merged(json)[i] = json[i]
      BY <1>2, <2>3, <2>4
    <3>2. CASE key = "delete_access"
      <4>1. Merged(j) = j
        BY <1>2, <1>4, <2>3, <3>2
      <4> QED BY <1>2, <2>1, <2>2, <3>1, <3>2, <4>1
    <3>3. CASE key # "delete_access"
      <4>1. /\ DOMAIN Merged(j) = S \cup {key} \cup {"delete_access"}
            /\ Merged(j)["delete_access"] = j["delete_items"]
            /\ \A i \in S \cup {key} : i # "delete_access" => Merged(j)[i] = j[i]
        BY <1>2, <1>3, <1>4, <2>3, <2>4, <3>3
      <4> QED BY <1>2, <1>3, <2>1, <2>2, <2>4, <3>1, <3>3, <4>1
    <3> QED BY <3>2, <3>3
  <2>5. CASE ~("delete_items" \in S /\ "delete_access" \notin S)
    <3>1. Merged(json) = json /\ Merged(j) = j
      BY <1>2, <1>3, <1>4, <2>3, <2>5
    <3> QED BY <1>2, <2>1, <2>2, <3>1
  <2> QED BY <2>4, <2>5
<1> QED BY <1>2, <1>4, <1>5

\* Rows that are added leave those that are there.
LEMMA LogJoins ==
  ASSUME NEW l \in Seq(Row), NEW m \in Seq(Row), NEW u
  PROVE  /\ l \o m \in Seq(Row)
         /\ Cardinality(Blocks(l, u)) \in Nat /\ Cardinality(Blocks(l \o m, u)) \in Nat
         /\ Cardinality(Blocks(l, u)) <= Cardinality(Blocks(l \o m, u))
         /\ (\E k \in DOMAIN m : m[k].about = u /\ Expels(m[k].action)) =>
              Cardinality(Blocks(l, u)) + 1 <= Cardinality(Blocks(l \o m, u))
<1> PICK n : n = l \o m
  OBVIOUS
<1>1. /\ DOMAIN l = 1..Len(l) /\ Len(l) \in Nat /\ DOMAIN m = 1..Len(m) /\ Len(m) \in Nat
      /\ n \in Seq(Row) /\ DOMAIN n = 1..(Len(l) + Len(m))
      /\ \A i \in 1..Len(l) : n[i] = l[i]
      /\ \A i \in 1..Len(m) : n[Len(l) + i] = m[i]
  OBVIOUS
<1>2. IsFiniteSet(Blocks(l, u)) /\ IsFiniteSet(Blocks(n, u))
  <2>1. Blocks(l, u) \subseteq 1..Len(l) /\ Blocks(n, u) \subseteq 1..(Len(l) + Len(m))
    BY <1>1 DEF Blocks
  <2>2. IsFiniteSet(1..Len(l)) /\ IsFiniteSet(1..(Len(l) + Len(m)))
    <3>1. 1 \in Int /\ Len(l) \in Int /\ Len(l) + Len(m) \in Int
      BY <1>1
    <3> QED BY <3>1, FS_Interval
  <2> QED BY <2>1, <2>2, FS_Subset
<1>3. Blocks(l, u) \subseteq Blocks(n, u)
  BY <1>1 DEF Blocks
<1>4. /\ Cardinality(Blocks(l, u)) \in Nat /\ Cardinality(Blocks(n, u)) \in Nat
      /\ Cardinality(Blocks(l, u)) <= Cardinality(Blocks(n, u))
  <2>1. Blocks(l, u) \in SUBSET Blocks(n, u)
    BY <1>3
  <2> QED BY <1>2, <2>1, FS_Subset, FS_CardinalityType
<1>5. ASSUME NEW k \in DOMAIN m, m[k].about = u, Expels(m[k].action)
      PROVE  Cardinality(Blocks(l, u)) + 1 <= Cardinality(Blocks(n, u))
  <2>1. Len(l) + k \in Blocks(n, u) /\ Len(l) + k \notin Blocks(l, u)
    BY <1>1, <1>5 DEF Blocks, Expels
  <2>2. Cardinality(Blocks(l, u) \cup {Len(l) + k}) = Cardinality(Blocks(l, u)) + 1
    BY <1>2, <2>1, FS_AddElement
  <2>3. Blocks(l, u) \cup {Len(l) + k} \in SUBSET Blocks(n, u)
    BY <1>3, <2>1
  <2> QED BY <1>2, <2>2, <2>3, FS_Subset
<1> QED BY <1>1, <1>4, <1>5

\* What the changes of a member's row do to it.
LEMMA FlagsOnly ==
  ASSUME NEW x \in User
  PROVE  /\ \A y \in {Activate(x), Deactivate(x), Unblock(x)} :
              y \in User /\ y.tv = x.tv /\ y.role = x.role /\ y.json = x.json
         /\ \A y \in {Block(x), Delete(x)} :
              y \in User /\ y.tv = x.tv + 1 /\ y.role = x.role /\ y.json = x.json
<1>1. Activate(x) \in User /\ Activate(x).tv = x.tv /\ Activate(x).role = x.role /\ Activate(x).json = x.json
  BY DEF Activate, User
<1>2. /\ Deactivate(x) \in User /\ Deactivate(x).tv = x.tv
      /\ Deactivate(x).role = x.role /\ Deactivate(x).json = x.json
  BY DEF Deactivate, User
<1>3. Unblock(x) \in User /\ Unblock(x).tv = x.tv /\ Unblock(x).role = x.role /\ Unblock(x).json = x.json
  BY DEF Unblock, User
<1>4. \A y \in User : /\ Revoke(y) \in User /\ Revoke(y).tv = y.tv + 1
                      /\ Revoke(y).role = y.role /\ Revoke(y).json = y.json
  BY DEF Revoke, User
<1>5. Block(x) \in User /\ Block(x).tv = x.tv + 1 /\ Block(x).role = x.role /\ Block(x).json = x.json
  <2>1. PICK y : y = [x EXCEPT !.blocked = TRUE]
    OBVIOUS
  <2>2. y \in User /\ y.tv = x.tv /\ y.role = x.role /\ y.json = x.json
    BY <2>1 DEF User
  <2> QED BY <1>4, <2>1, <2>2 DEF Block
<1>6. Delete(x) \in User /\ Delete(x).tv = x.tv + 1 /\ Delete(x).role = x.role /\ Delete(x).json = x.json
  <2>1. PICK y : y = [x EXCEPT !.active = FALSE, !.live = FALSE]
    OBVIOUS
  <2>2. y \in User /\ y.tv = x.tv /\ y.role = x.role /\ y.json = x.json
    BY <2>1 DEF User
  <2> QED BY <1>4, <2>1, <2>2 DEF Delete
<1> QED BY <1>1, <1>2, <1>3, <1>5, <1>6

LEMMA RoleAndTemplate ==
  ASSUME NEW x \in User, NEW role \in Roles
  PROVE  /\ WithRole(x, role) \in User /\ WithRole(x, role).tv = x.tv
         /\ WithRole(x, role).role = role /\ WithRole(x, role).json = Template(role)
<1>1. Template(role) \in Json
  BY TemplateFollows
<1> QED BY <1>1 DEF WithRole, User

\* One entry of a bulk request, and the body of PATCH.
LEMMA BulkMakes ==
  ASSUME NEW x \in User, NEW action \in BulkActions
  PROVE  /\ BulkOne(action, x) \in User /\ BulkRow(action) \in Actions \cup {None}
         /\ BulkOne(action, x).tv = IF Expels(BulkRow(action)) THEN x.tv + 1 ELSE x.tv
         /\ action = "set_role" => BulkOne(action, x).json = Template(BulkOne(action, x).role)
         /\ action # "set_role" => BulkOne(action, x).role = x.role /\ BulkOne(action, x).json = x.json
<1>1. action \in {"activate", "deactivate", "block", "unblock", "delete", "set_role"} /\ BulkRole \in Roles
  BY AccountsAssumption
<1>2. ~Expels(None)
  BY AccountsAssumption DEF Expels, Actions
<1>3. CASE action = "block"
  <2>1. BulkOne(action, x) = Block(x) /\ BulkRow(action) = "USER_BLOCK"
    BY <1>3 DEF BulkOne, BulkRow
  <2> QED BY <1>3, <2>1, FlagsOnly DEF Expels, Actions
<1>4. CASE action = "delete"
  <2>1. BulkOne(action, x) = Delete(x) /\ BulkRow(action) = "USER_DELETE"
    BY <1>4 DEF BulkOne, BulkRow
  <2> QED BY <1>4, <2>1, FlagsOnly DEF Expels, Actions
<1>5. CASE action = "set_role"
  <2>1. BulkOne(action, x) = WithRole(x, BulkRole) /\ BulkRow(action) = None
    BY <1>5 DEF BulkOne, BulkRow
  <2> QED BY <1>1, <1>2, <1>5, <2>1, RoleAndTemplate
<1>6. CASE action \in {"activate", "deactivate", "unblock"}
  <2>1. BulkOne(action, x) \in {Activate(x), Deactivate(x), Unblock(x)} /\ BulkRow(action) = None
    BY <1>6 DEF BulkOne, BulkRow
  <2> QED BY <1>2, <1>6, <2>1, FlagsOnly
<1> QED BY <1>1, <1>3, <1>4, <1>5, <1>6

LEMMA PatchMakes ==
  ASSUME NEW x \in User, NEW body \in Patch
  PROVE  /\ Patched(x, body) \in User
         /\ Patched(x, body).tv = IF body.blocked = TRUE THEN x.tv + 1 ELSE x.tv
         /\ body.role # None => Patched(x, body).json = Template(Patched(x, body).role)
         /\ body.role = None => Patched(x, body).role = x.role /\ Patched(x, body).json = x.json
<1> PICK a : a = IF body.role = None THEN x ELSE WithRole(x, body.role)
  OBVIOUS
<1>1. /\ a \in User /\ a.tv = x.tv
      /\ body.role # None => a.json = Template(a.role)
      /\ body.role = None => a.role = x.role /\ a.json = x.json
  <2>1. CASE body.role = None
    BY <2>1
  <2>2. CASE body.role # None
    <3>1. body.role \in Roles
      BY <2>2 DEF Patch
    <3> QED BY <2>2, <3>1, RoleAndTemplate
  <2> QED BY <2>1, <2>2
<1> PICK b : b = CASE body.active = None -> a
                   [] body.active = TRUE -> Activate(a)
                   [] OTHER -> Deactivate(a)
  OBVIOUS
<1>2. b \in User /\ b.tv = a.tv /\ b.role = a.role /\ b.json = a.json
  <2>1. b \in {a, Activate(a), Deactivate(a)}
    OBVIOUS
  <2> QED BY <1>1, <2>1, FlagsOnly
<1> PICK y : y = Patched(x, body)
  OBVIOUS
<1>3. y = CASE body.blocked = None -> b
            [] body.blocked = TRUE -> Block(b)
            [] OTHER -> Unblock(b)
  BY DEF Patched
<1>4. None # TRUE /\ body.blocked \in BOOLEAN \cup {None}
  BY AccountsAssumption DEF Patch
<1>5. CASE body.blocked = TRUE
  <2>1. y = Block(b)
    BY <1>3, <1>4, <1>5
  <2> QED BY <1>1, <1>2, <1>5, <2>1, FlagsOnly
<1>6. CASE body.blocked # TRUE
  <2>1. y = b \/ y = Unblock(b)
    BY <1>3, <1>6
  <2>2. y \in User /\ y.tv = b.tv /\ y.role = b.role /\ y.json = b.json
    <3>1. CASE y = b
      BY <1>2, <3>1
    <3>2. CASE y = Unblock(b)
      <4>1. Unblock(b) \in {Activate(b), Deactivate(b), Unblock(b)} /\ b \in User
        BY <1>2
      <4> QED BY <3>2, <4>1, FlagsOnly
    <3> QED BY <2>1, <3>1, <3>2
  <2>3. y \in User /\ y.tv = x.tv /\ y.role = a.role /\ y.json = a.json
    BY <1>1, <1>2, <2>2
  <2> QED BY <1>1, <1>6, <2>3
<1> QED BY <1>5, <1>6

\* A step that leaves the people alone leaves what is said of them.
LEMMA PeopleStay ==
  ASSUME AccountsInv, UNCHANGED People
  PROVE  /\ VersionsCounted' /\ RevokedBehind' /\ PeopleFollow'
         /\ users' = users /\ log' = log /\ crossed' = crossed
         /\ revoked' \subseteq Token /\ torn' \subseteq Ids /\ overrides' \in [Ids -> Overrides]
<1>1. UNCHANGED <<users, log, revoked, overrides, torn, crossed>>
  BY DEF People
<1> QED BY <1>1 DEF AccountsInv, AccountsTyped, VersionsCounted, RevokedBehind, PeopleFollow

\* A step that takes tokens away at most, and leaves people and requests.
LEMMA DeskOnly ==
  ASSUME AccountsInv, UNCHANGED People, UNCHANGED tasks, UNCHANGED signing, tokens' \subseteq tokens, clock' \in Nat,
         ListsFit', ListFitsRole'
  PROVE  AccountsInv'
<1>1. /\ VersionsCounted' /\ RevokedBehind' /\ PeopleFollow'
      /\ users' = users /\ log' = log /\ crossed' = crossed
      /\ revoked' \subseteq Token /\ torn' \subseteq Ids /\ overrides' \in [Ids -> Overrides]
  BY PeopleStay
<1>2. AccountsTyped'
  BY <1>1 DEF AccountsInv, AccountsTyped
<1>3. TokensStand' /\ TasksSound'
  BY <1>1 DEF AccountsInv, TokensStand, TasksSound
<1> QED BY <1>1, <1>2, <1>3 DEF AccountsInv

\* A request that starts or reads on.
LEMMA TaskKept ==
  ASSUME AccountsInv, NEW r \in Requests, NEW j \in Task, TaskSound(users, log, j),
         tasks' = [tasks EXCEPT ![r] = j], UNCHANGED People, UNCHANGED Desk
  PROVE  AccountsInv'
<1>1. /\ VersionsCounted' /\ RevokedBehind' /\ PeopleFollow'
      /\ users' = users /\ log' = log /\ crossed' = crossed
      /\ revoked' \subseteq Token /\ torn' \subseteq Ids /\ overrides' \in [Ids -> Overrides]
  BY PeopleStay
<1>2. UNCHANGED <<tokens, signing, edits, lists, shown, clock>>
  BY DEF Desk
<1>3. AccountsTyped'
  BY <1>1, <1>2 DEF AccountsInv, AccountsTyped
<1>4. TokensStand' /\ ListsFit' /\ ListFitsRole'
  BY <1>1, <1>2 DEF AccountsInv, TokensStand, ListsFit, ListFitsRole
<1>5. \A q \in Requests : tasks'[q] = IF q = r THEN j ELSE tasks[q]
  BY DEF AccountsInv, AccountsTyped
<1>6. TasksSound'
  BY <1>1, <1>5 DEF AccountsInv, TasksSound
<1> QED BY <1>1, <1>3, <1>4, <1>6 DEF AccountsInv

\* Whoever is signed in exists, and his version is counted.
LEMMA ActorCounted ==
  ASSUME AccountsInv, NEW u \in Ids, users[u] # None
  PROVE  users[u] \in User /\ users[u].tv <= Cardinality(Blocks(log, u))
BY DEF AccountsInv, AccountsTyped, VersionsCounted

LEMMA ActorIs ==
  ASSUME AccountsInv, NEW u \in Ids, SignedIn(u)
  PROVE  users[u] # None
BY DEF SignedIn, Accepted

\* A request about one member, with what it makes of him.
LEMMA OneChange ==
  ASSUME AccountsInv, NEW r \in Requests, NEW actor \in Ids, NEW u \in Ids, NEW made \in User,
         NEW sets \in {None, "role"} \cup Keys, NEW row \in Actions \cup {None},
         users[actor] # None, users[u] # None,
         made.tv = IF Expels(row) THEN users[u].tv + 1 ELSE users[u].tv,
         sets = "role" => made.json = Template(made.role),
         sets # "role" => made.role = users[u].role,
         sets \in Keys => made.json = SetKey(users[u].json, sets, made.json[sets]),
         sets = None => made.json = users[u].json,
         Starts(r, actor, None, <<>>, Changes(u, made, sets), row)
  PROVE  AccountsInv'
<1>1. PICK c : c = [user |-> u, seen |-> users[u], made |-> made, sets |-> sets]
  OBVIOUS
<1>2. PICK j : j = [by |-> actor, self |-> users[actor], action |-> None, left |-> <<>>, done |-> <<c>>, row |-> row]
  OBVIOUS
<1>3. /\ users[actor] \in User /\ users[actor].tv <= Cardinality(Blocks(log, actor))
      /\ users[u] \in User /\ users[u].tv <= Cardinality(Blocks(log, u))
  BY ActorCounted
<1>4. c \in Change /\ c.user = u /\ c.seen = users[u] /\ c.made = made /\ c.sets = sets
  BY <1>1, <1>3 DEF Change
<1>5. /\ j \in Task /\ j.by = actor /\ j.self = users[actor] /\ j.left = <<>> /\ j.row = row
      /\ j.done = <<c>>
  BY <1>2, <1>3, <1>4 DEF Task
<1>6. Sensible(users, log, row, c)
  BY <1>3, <1>4 DEF Sensible
<1>7. \A k \in DOMAIN j.done : j.done[k] = c
  BY <1>5
<1>8. TaskSound(users, log, j)
  BY <1>3, <1>5, <1>6, <1>7 DEF TaskSound
<1>9. tasks' = [tasks EXCEPT ![r] = j] /\ UNCHANGED People /\ UNCHANGED Desk
  BY <1>1, <1>2 DEF Starts, Changes
<1> QED BY <1>5, <1>8, <1>9, TaskKept

LEMMA RequestStarts ==
  ASSUME AccountsInv, NEW r \in Requests, NEW actor \in Ids, Administrator(actor)
  PROVE  /\ \A u \in Ids, body \in Patches : PatchUser(r, actor, u, body) => AccountsInv'
         /\ \A u \in Ids : DeleteUser(r, actor, u) => AccountsInv'
         /\ \A u \in Ids : ResetPassword(r, actor, u) => AccountsInv'
         /\ \A u \in Ids, key \in Keys, value \in BOOLEAN : PatchPermissions(r, actor, u, key, value) => AccountsInv'
         /\ \A ids \in Batches, action \in BulkActions : BulkUsers(r, actor, ids, action) => AccountsInv'
<1>1. users[actor] # None
  BY ActorIs DEF Administrator
<1>2. /\ "role" \notin Keys /\ None \notin Keys /\ None # "role" /\ None \notin Actions /\ ~Expels(None)
      /\ {"USER_BLOCK", "USER_DELETE", "PASSWORD_RESET"} \subseteq Actions
      /\ Expels("USER_BLOCK") /\ Expels("USER_DELETE") /\ ~Expels("PASSWORD_RESET")
  BY AccountsAssumption DEF Actions, Expels
<1>3. ASSUME NEW u \in Ids, NEW body \in Patches, PatchUser(r, actor, u, body)
      PROVE  AccountsInv'
  <2>1. users[u] # None /\ body \in Patch
    BY <1>3, AccountsAssumption DEF PatchUser, Manages
  <2>2. PICK made : made = Patched(users[u], body)
    OBVIOUS
  <2>3. PICK sets : sets = IF body.role = None THEN None ELSE "role"
    OBVIOUS
  <2>4. PICK row : row = IF body.blocked = TRUE THEN "USER_BLOCK" ELSE None
    OBVIOUS
  <2>5. users[u] \in User
    BY <2>1, ActorCounted
  <2>6. /\ made \in User
        /\ made.tv = IF body.blocked = TRUE THEN users[u].tv + 1 ELSE users[u].tv
        /\ body.role # None => made.json = Template(made.role)
        /\ body.role = None => made.role = users[u].role /\ made.json = users[u].json
    BY <2>1, <2>2, <2>5, PatchMakes
  <2>7. Starts(r, actor, None, <<>>, Changes(u, made, sets), row)
    BY <1>3, <2>2, <2>3, <2>4 DEF PatchUser
  <2>8. /\ sets \in {None, "role"} \cup Keys /\ row \in Actions \cup {None}
        /\ Expels(row) <=> body.blocked = TRUE
        /\ sets = "role" <=> body.role # None
        /\ sets = None <=> body.role = None
        /\ sets \notin Keys
    BY <1>2, <2>3, <2>4
  <2> HIDE <2>2, <2>3, <2>4
  <2>9. made.tv = IF Expels(row) THEN users[u].tv + 1 ELSE users[u].tv
    BY <2>6, <2>8
  <2> QED BY <1>1, <2>1, <2>6, <2>7, <2>8, <2>9, OneChange
<1>4. ASSUME NEW u \in Ids, DeleteUser(r, actor, u)
      PROVE  AccountsInv'
  <2>1. users[u] # None
    BY <1>4 DEF DeleteUser, Manages
  <2>2. PICK made : made = Delete(users[u])
    OBVIOUS
  <2>3. users[u] \in User
    BY <2>1, ActorCounted
  <2>4. made \in User /\ made.tv = users[u].tv + 1 /\ made.role = users[u].role /\ made.json = users[u].json
    BY <2>2, <2>3, FlagsOnly
  <2>5. Starts(r, actor, None, <<>>, Changes(u, made, None), "USER_DELETE")
    BY <1>4, <2>2 DEF DeleteUser
  <2> HIDE <2>2
  <2> QED BY <1>1, <1>2, <2>1, <2>4, <2>5, OneChange
<1>5. ASSUME NEW u \in Ids, ResetPassword(r, actor, u)
      PROVE  AccountsInv'
  <2>1. users[u] # None
    BY <1>5 DEF ResetPassword, Manages
  <2>2. PICK made : made = users[u]
    OBVIOUS
  <2>3. made \in User
    BY <2>1, <2>2, ActorCounted
  <2>4. Starts(r, actor, None, <<>>, Changes(u, made, None), "PASSWORD_RESET")
    BY <1>5, <2>2 DEF ResetPassword
  <2> QED BY <1>1, <1>2, <2>1, <2>2, <2>3, <2>4, OneChange
<1>6. ASSUME NEW u \in Ids, NEW key \in Keys, NEW value \in BOOLEAN, PatchPermissions(r, actor, u, key, value)
      PROVE  AccountsInv'
  <2>1. users[u] # None
    BY <1>6 DEF PatchPermissions
  <2>2. PICK old : old = users[u]
    OBVIOUS
  <2>3. old \in User /\ old.role \in Roles /\ old.json \in Json
    <3>1. old \in User
      BY <2>1, <2>2, ActorCounted
    <3> QED BY <3>1 DEF User
  <2>4. PICK json : json = SetKey(old.json, key, value)
    OBVIOUS
  <2>5. json \in Json /\ json[key] = value
    BY <2>3, <2>4, KeySet
  <2>6. PICK made : made = [old EXCEPT !.json = json]
    OBVIOUS
  <2>7. made \in User /\ made.tv = old.tv /\ made.role = old.role /\ made.json = json
    BY <2>3, <2>5, <2>6 DEF User
  <2>8. Starts(r, actor, None, <<>>, Changes(u, made, key), None)
    BY <1>6, <2>2, <2>4, <2>6 DEF PatchPermissions
  <2>9. made.json = SetKey(users[u].json, key, made.json[key])
    BY <2>2, <2>4, <2>5, <2>7
  <2> HIDE <2>4, <2>6
  <2>10. made.tv = users[u].tv /\ made.role = users[u].role
    BY <2>2, <2>7
  <2> QED BY <1>1, <1>2, <2>1, <2>7, <2>8, <2>9, <2>10, OneChange
<1>7. ASSUME NEW ids \in Batches, NEW action \in BulkActions, BulkUsers(r, actor, ids, action)
      PROVE  AccountsInv'
  <2>1. PICK j : j = [by |-> actor, self |-> users[actor], action |-> action, left |-> ids, done |-> <<>>,
                      row |-> BulkRow(action)]
    OBVIOUS
  <2>2. users[actor] \in User /\ users[actor].tv <= Cardinality(Blocks(log, actor)) /\ ids \in Seq(Ids)
    BY <1>1, ActorCounted, AccountsAssumption
  <2>3. BulkRow(action) \in Actions \cup {None}
    BY <2>2, BulkMakes
  <2>4. action # None
    BY AccountsAssumption
  <2>5. /\ j \in Task /\ j.by = actor /\ j.self = users[actor] /\ j.row = BulkRow(action) /\ j.action = action
        /\ j.done = <<>>
    BY <2>1, <2>2, <2>3 DEF Task
  <2>6. TaskSound(users, log, j)
    BY <1>1, <2>2, <2>4, <2>5 DEF TaskSound
  <2>7. tasks' = [tasks EXCEPT ![r] = j] /\ UNCHANGED People /\ UNCHANGED Desk
    BY <1>7, <2>1 DEF BulkUsers, Starts
  <2> QED BY <2>5, <2>6, <2>7, TaskKept
<1> QED BY <1>3, <1>4, <1>5, <1>6, <1>7

\* bulk_users reads one member more.
LEMMA BulkReadKeeps ==
  ASSUME AccountsInv, NEW r \in Requests, BulkRead(r)
  PROVE  AccountsInv'
<1>1. PICK j : j = tasks[r]
  OBVIOUS
<1>2. j \in Task /\ TaskSound(users, log, j) /\ j.left # <<>>
  BY <1>1 DEF BulkRead, AccountsInv, AccountsTyped, TasksSound
<1>3. /\ j.by \in Ids /\ j.self \in User /\ j.left \in Seq(Ids) /\ j.done \in Seq(Change)
      /\ j.action \in BulkActions /\ j.row = BulkRow(j.action) /\ users[j.by] # None
      /\ j.self.tv <= Cardinality(Blocks(log, j.by)) /\ j.action \in BulkActions \cup {None} /\ j.row \in Actions \cup {None}
  BY <1>2 DEF Task, TaskSound
<1>4. PICK u : u = Head(j.left)
  OBVIOUS
<1>5. u \in Ids /\ Tail(j.left) \in Seq(Ids)
  BY <1>2, <1>3, <1>4
<1>6. PICK x : x = Copy(j, u)
  OBVIOUS
<1>7. PICK y : y = BulkOne(j.action, x)
  OBVIOUS
<1>8. PICK c : c = [user |-> u, seen |-> x, made |-> y, sets |-> IF j.action = "set_role" THEN "role" ELSE None]
  OBVIOUS
<1>9. PICK spared \in BOOLEAN :
        spared = (~Manages(j.self.role, x) \/ (u = j.by /\ j.action \in {"deactivate", "delete", "block"}))
  OBVIOUS
<1>10. PICK n : n = [j EXCEPT !.left = Tail(@), !.done = IF spared THEN @ ELSE Append(@, c),
                              !.self = IF u = j.by /\ ~spared THEN y ELSE @]
  OBVIOUS
<1>11. Read(j) = n
  BY <1>4, <1>6, <1>7, <1>8, <1>9, <1>10 DEF Read
<1>12. /\ n.by = j.by /\ n.row = j.row /\ n.action = j.action /\ n.left = Tail(j.left)
       /\ n.done = IF spared THEN j.done ELSE Append(j.done, c)
       /\ n.self = IF u = j.by /\ ~spared THEN y ELSE j.self
       /\ n = [by |-> n.by, self |-> n.self, action |-> n.action, left |-> n.left, done |-> n.done, row |-> n.row]
  BY <1>2, <1>10 DEF Task
<1>13. ~spared => /\ users[u] # None /\ x \in User /\ x.tv <= Cardinality(Blocks(log, u))
  <2>1. CASE u = j.by
    BY <1>3, <1>6, <2>1 DEF Copy
  <2>2. CASE u # j.by
    <3>1. x = users[u]
      BY <1>6, <2>2 DEF Copy
    <3>2. ~spared => x # None
      BY <1>9 DEF Manages
    <3> QED BY <1>5, <3>1, <3>2, ActorCounted
  <2> QED BY <2>1, <2>2
<1>14. CASE spared
  <2>1. n \in Task
    BY <1>3, <1>5, <1>12, <1>14 DEF Task
  <2>2. TaskSound(users, log, n)
    BY <1>2, <1>3, <1>12, <1>14 DEF TaskSound
  <2>3. tasks' = [tasks EXCEPT ![r] = n] /\ UNCHANGED People /\ UNCHANGED Desk
    BY <1>1, <1>11 DEF BulkRead
  <2> QED BY <2>1, <2>2, <2>3, TaskKept
<1>15. CASE ~spared
  <2>1. /\ y \in User
        /\ y.tv = IF Expels(j.row) THEN x.tv + 1 ELSE x.tv
        /\ j.action = "set_role" => y.json = Template(y.role)
        /\ j.action # "set_role" => y.role = x.role /\ y.json = x.json
    BY <1>3, <1>7, <1>13, <1>15, BulkMakes
  <2>2. /\ c \in Change /\ c.user = u /\ c.seen = x /\ c.made = y
        /\ c.sets = IF j.action = "set_role" THEN "role" ELSE None
    BY <1>5, <1>8, <1>13, <1>15, <2>1 DEF Change
  <2>3. "role" \notin Keys /\ None \notin Keys /\ None # "role"
    BY AccountsAssumption
  <2>4. Sensible(users, log, j.row, c)
    BY <1>13, <1>15, <2>1, <2>2, <2>3 DEF Sensible
  <2>5. u = j.by => y.tv = x.tv /\ x = j.self
    <3>1. u = j.by => j.action \notin {"deactivate", "delete", "block"}
      BY <1>9, <1>15
    <3>2. j.action \notin {"deactivate", "delete", "block"} => ~Expels(BulkRow(j.action))
      BY AccountsAssumption DEF BulkRow, Expels, Actions
    <3> QED BY <1>3, <1>6, <2>1, <3>1, <3>2 DEF Copy
  <2>6. n.done = Append(j.done, c) /\ n.self \in User /\ n.self.tv <= Cardinality(Blocks(log, n.by))
    BY <1>3, <1>12, <1>15, <2>1, <2>5
  <2>7. /\ Append(j.done, c) \in Seq(Change)
        /\ \A k \in DOMAIN Append(j.done, c) : Append(j.done, c)[k] = c \/ (k \in DOMAIN j.done /\ Append(j.done, c)[k] = j.done[k])
    BY <1>3, <2>2
  <2>8. n \in Task
    BY <1>3, <1>5, <1>12, <2>6, <2>7 DEF Task
  <2>9. \A k \in DOMAIN n.done : Sensible(users, log, n.row, n.done[k])
    BY <1>2, <1>12, <2>4, <2>6, <2>7 DEF TaskSound
  <2>10. n.left # <<>> => n.action # None /\ n.row = BulkRow(n.action)
    BY <1>2, <1>3, <1>12 DEF TaskSound
  <2>11. TaskSound(users, log, n)
    BY <1>3, <1>12, <2>6, <2>9, <2>10 DEF TaskSound
  <2>12. tasks' = [tasks EXCEPT ![r] = n] /\ UNCHANGED People /\ UNCHANGED Desk
    BY <1>1, <1>11 DEF BulkRead
  <2> QED BY <2>8, <2>11, <2>12, TaskKept
<1> QED BY <1>14, <1>15

\* What a change writes of the row it finds.
LEMMA WrittenIs ==
  ASSUME NEW x \in User, NEW c \in Change, NEW row, c.made.tv = IF Expels(row) THEN c.seen.tv + 1 ELSE c.seen.tv
  PROVE  /\ Written(x, c) \in User
         /\ Written(x, c).tv = IF Expels(row) THEN c.seen.tv + 1 ELSE x.tv
         /\ Written(x, c).role = Newer(x.role, c.seen.role, c.made.role)
         /\ Written(x, c).json = Newer(x.json, c.seen.json, c.made.json)
<1>1. c.seen \in User /\ c.made \in User
  BY DEF Change
<1>2. PICK y : y = Written(x, c)
  OBVIOUS
<1>3. /\ y.tv = Newer(x.tv, c.seen.tv, c.made.tv)
      /\ y.role = Newer(x.role, c.seen.role, c.made.role)
      /\ y.json = Newer(x.json, c.seen.json, c.made.json)
  BY <1>2 DEF Written
<1>4. y \in User
  BY <1>1, <1>2 DEF Written, Newer, User
<1>5. c.seen.tv \in Nat /\ c.made.tv \in Nat
  BY <1>1 DEF User
<1>6. y.tv = IF Expels(row) THEN c.seen.tv + 1 ELSE x.tv
  BY <1>3, <1>5 DEF Newer
<1> QED BY <1>2, <1>3, <1>4, <1>6

\* The rights of a member whose change was made on the row as it is.
LEMMA WrittenFollows ==
  ASSUME NEW x \in User, NEW c \in Change, NEW y \in User, NEW o,
         y.role = Newer(x.role, c.seen.role, c.made.role), y.json = Newer(x.json, c.seen.json, c.made.json),
         c.seen.json = x.json
  PROVE  /\ c.sets = "role" /\ c.seen.role = x.role /\ c.made.json = Template(c.made.role) => Follows(y, NoKeys)
         /\ c.sets \in Keys /\ c.made.role = c.seen.role
              /\ c.made.json = SetKey(c.seen.json, c.sets, c.made.json[c.sets]) /\ Follows(x, o)
              => Follows(y, SetKey(o, c.sets, c.made.json[c.sets]))
<1>1. c.seen \in User /\ c.made \in User /\ y.json = c.made.json
  BY DEF Change, Newer
<1>2. ASSUME c.sets = "role", c.seen.role = x.role, c.made.json = Template(c.made.role)
      PROVE  Follows(y, NoKeys)
  <2>1. y.role = c.made.role /\ y.role \in Roles /\ y.json = Template(y.role)
    BY <1>1, <1>2 DEF Newer, User
  <2> QED BY <2>1, TemplateFollows, NoKeysTyped DEF Follows
<1>3. ASSUME c.sets \in Keys, c.made.role = c.seen.role,
             c.made.json = SetKey(c.seen.json, c.sets, c.made.json[c.sets]), Follows(x, o)
      PROVE  Follows(y, SetKey(o, c.sets, c.made.json[c.sets]))
  <2>1. PICK value : value = c.made.json[c.sets]
    OBVIOUS
  <2>2. y.role = x.role /\ x.role \in Roles /\ x.json \in Json /\ c.made.json \in Json
    BY <1>1, <1>3 DEF Newer, User
  <2>3. value \in BOOLEAN
    <3>1. PICK S \in SUBSET (Keys \cup {"delete_items"}) : c.made.json \in [S -> BOOLEAN]
      BY <2>2 DEF Json
    <3>2. c.sets \in DOMAIN c.made.json
      BY <1>3 DEF SetKey
    <3> QED BY <2>1, <3>1, <3>2
  <2>4. y.json = SetKey(x.json, c.sets, value)
    BY <1>1, <1>3, <2>1
  <2>5. \A k \in Keys : Effective(x.role, SetKey(x.json, c.sets, value))[k] =
                          IF k = c.sets THEN value ELSE Effective(x.role, x.json)[k]
    BY <1>3, <2>2, <2>3, KeySet
  <2>6. PICK keys : keys = SetKey(o, c.sets, value)
    OBVIOUS
  <2>7. /\ DOMAIN keys = DOMAIN o \cup {c.sets} /\ keys[c.sets] = value
        /\ \A k \in DOMAIN o : k # c.sets => keys[k] = o[k]
    BY <2>6 DEF SetKey
  <2>8. ASSUME NEW k \in Keys
        PROVE  Effective(y.role, y.json)[k] = IF k \in DOMAIN keys THEN keys[k] ELSE Template(y.role)[k]
    <3>1. Effective(y.role, y.json)[k] = IF k = c.sets THEN value ELSE Effective(x.role, x.json)[k]
      BY <2>2, <2>4, <2>5
    <3>2. Effective(x.role, x.json)[k] = IF k \in DOMAIN o THEN o[k] ELSE Template(x.role)[k]
      BY <1>3 DEF Follows
    <3>3. CASE k = c.sets
      BY <2>7, <3>1, <3>3
    <3>4. CASE k # c.sets
      BY <2>2, <2>7, <3>1, <3>2, <3>4
    <3> QED BY <3>3, <3>4
  <2> QED BY <2>1, <2>6, <2>8 DEF Follows
<1> QED BY <1>2, <1>3

LEMMA OverridesTyped ==
  ASSUME NEW o \in Overrides, NEW c \in Change, c.sets \in Keys, c.made.json = SetKey(c.seen.json, c.sets, c.made.json[c.sets])
  PROVE  SetKey(o, c.sets, c.made.json[c.sets]) \in Overrides
<1>1. PICK value : value = c.made.json[c.sets]
  OBVIOUS
<1>2. value \in BOOLEAN
  <2>1. c.made.json \in Json
    BY DEF Change, User
  <2>2. PICK S \in SUBSET (Keys \cup {"delete_items"}) : c.made.json \in [S -> BOOLEAN]
    BY <2>1 DEF Json
  <2>3. c.sets \in DOMAIN c.made.json
    BY DEF SetKey
  <2> QED BY <1>1, <2>2, <2>3
<1>3. PICK S \in SUBSET Keys : o \in [S -> BOOLEAN]
  BY DEF Overrides
<1>4. SetKey(o, c.sets, value) \in [S \cup {c.sets} -> BOOLEAN] /\ S \cup {c.sets} \in SUBSET Keys
  BY <1>2, <1>3 DEF SetKey
<1>5. SetKey(o, c.sets, value) \in Overrides
  BY <1>4 DEF Overrides
<1> QED BY <1>1, <1>5

\* Nobody is lost and no row of the log: what requests at work hold stays sound.
LEMMA TaskStays ==
  ASSUME NEW us, NEW l, NEW us2, NEW l2, NEW j \in Task, TaskSound(us, l, j),
         \A u \in Ids : us[u] # None => us2[u] # None,
         \A u \in Ids : /\ Cardinality(Blocks(l, u)) \in Nat /\ Cardinality(Blocks(l2, u)) \in Nat
                        /\ Cardinality(Blocks(l, u)) <= Cardinality(Blocks(l2, u))
  PROVE  TaskSound(us2, l2, j)
<1>1. j.by \in Ids /\ j.self \in User /\ j.done \in Seq(Change)
  BY DEF Task
<1>2. us2[j.by] # None /\ j.self.tv <= Cardinality(Blocks(l2, j.by))
  <2>1. j.self.tv \in Nat
    BY <1>1 DEF User
  <2>2. PICK n \in Nat, m \in Nat : n = Cardinality(Blocks(l, j.by)) /\ m = Cardinality(Blocks(l2, j.by)) /\ n <= m
    BY <1>1
  <2> QED BY <1>1, <2>1, <2>2 DEF TaskSound
<1>3. ASSUME NEW k \in DOMAIN j.done PROVE Sensible(us2, l2, j.row, j.done[k])
  <2>1. PICK c \in Change : c = j.done[k]
    BY <1>1
  <2>2. c.user \in Ids /\ c.seen \in User /\ c.seen.tv \in Nat
    <3>1. c.user \in Ids /\ c.seen \in User
      BY DEF Change
    <3> QED BY <3>1 DEF User
  <2>3. Sensible(us, l, j.row, c)
    BY <2>1 DEF TaskSound
  <2>4. PICK n \in Nat, m \in Nat : n = Cardinality(Blocks(l, c.user)) /\ m = Cardinality(Blocks(l2, c.user)) /\ n <= m
    BY <2>2
  <2>5. us2[c.user] # None /\ c.seen.tv <= Cardinality(Blocks(l2, c.user))
    BY <2>2, <2>3, <2>4 DEF Sensible
  <2>6. Sensible(us2, l2, j.row, c)
    BY <2>3, <2>5 DEF Sensible
  <2> QED BY <2>1, <2>6
<1> QED BY <1>2, <1>3 DEF TaskSound

LEMMA ChangeIs ==
  ASSUME NEW us, NEW l, NEW j \in Task, TaskSound(us, l, j), NEW u \in Changed(j)
  PROVE  /\ ChangeOf(j, u) \in Change /\ ChangeOf(j, u).user = u /\ u \in Ids
         /\ Sensible(us, l, j.row, ChangeOf(j, u))
<1>1. \E k \in DOMAIN j.done : j.done[k].user = u
  BY DEF Changed
<1>2. PICK k \in DOMAIN j.done : j.done[k].user = u /\ ChangeOf(j, u) = j.done[k]
  BY <1>1 DEF ChangeOf
<1>3. j.done \in Seq(Change)
  BY DEF Task
<1>4. j.done[k] \in Change
  BY <1>3
<1> QED BY <1>2, <1>4 DEF TaskSound, Change

\* The commit of a request.
LEMMA CommitKeeps ==
  ASSUME AccountsInv, NEW r \in Requests, Commit(r)
  PROVE  AccountsInv'
<1>1. PICK j : j = tasks[r]
  OBVIOUS
<1>2. j \in Task /\ TaskSound(users, log, j)
  BY <1>1 DEF Commit, AccountsInv, AccountsTyped, TasksSound
<1>3. PICK C : C = Changed(j)
  OBVIOUS
<1>4. PICK m : m = IF j.row = None THEN <<>>
                   ELSE [i \in DOMAIN j.done |-> [by |-> j.by, about |-> j.done[i].user, action |-> j.row, at |-> clock]]
  OBVIOUS
<1>5. C \subseteq Ids /\ \A u \in C : /\ ChangeOf(j, u) \in Change /\ ChangeOf(j, u).user = u
                                      /\ Sensible(users, log, j.row, ChangeOf(j, u))
  BY <1>2, <1>3, ChangeIs
<1>6. /\ users \in [Ids -> User \cup {None}] /\ clock \in Nat /\ log \in Seq(Row)
      /\ revoked \subseteq Token /\ torn \subseteq Ids /\ crossed \subseteq Ids
      /\ overrides \in [Ids -> Overrides]
      /\ tokens \subseteq Token /\ signing \in [Requests -> Token \cup {None}]
      /\ tasks \in [Requests -> Task \cup {None}]
  BY DEF AccountsInv, AccountsTyped
<1>7. PICK X : X = IF Expels(j.row) THEN C ELSE {}
  OBVIOUS
<1>8. X = Revokes(j) /\ X \subseteq C
  BY <1>3, <1>7 DEF Revokes, Expels
<1>9. /\ users' = [u \in Ids |-> IF u \in C THEN Written(users[u], ChangeOf(j, u)) ELSE users[u]]
      /\ revoked' = revoked \cup UNION {Held(u) : u \in X}
      /\ crossed' = crossed \cup {u \in X : ChangeOf(j, u).seen.tv # users[u].tv}
      /\ tasks' = [tasks EXCEPT ![r] = None]
      /\ UNCHANGED <<tokens, signing, edits, lists, shown, clock>>
  BY <1>1, <1>3, <1>8 DEF Commit, Desk
<1>10. PICK W : W = {u \in C : ChangeOf(j, u).sets # None}
  OBVIOUS
<1>11. /\ torn' = (torn \ {u \in W : ChangeOf(j, u).sets = "role"}) \cup {u \in W : Stale(j, u)}
       /\ overrides' = [u \in Ids |->
                           IF u \notin W THEN overrides[u]
                           ELSE IF ChangeOf(j, u).sets = "role" THEN NoKeys
                                ELSE SetKey(overrides[u], ChangeOf(j, u).sets, ChangeOf(j, u).made.json[ChangeOf(j, u).sets])]
  BY <1>1, <1>3, <1>10 DEF Commit
<1>12. log' = log \o m
  <2>1. CASE j.row = None
    BY <1>1, <1>4, <1>6, <2>1 DEF Commit
  <2>2. CASE j.row # None
    BY <1>1, <1>4, <2>2 DEF Commit
  <2> QED BY <2>1, <2>2
<1>13. /\ m \in Seq(Row)
       /\ \A u \in X : \E k \in DOMAIN m : m[k].about = u /\ Expels(m[k].action)
  <2>1. j.by \in Ids /\ j.done \in Seq(Change) /\ j.row \in Actions \cup {None} /\ ~Expels(None)
    BY <1>2, AccountsAssumption DEF Task, Expels, Actions
  <2>2. CASE j.row = None
    BY <1>4, <1>7, <2>1, <2>2
  <2>3. CASE j.row # None
    <3> PICK d : d = j.done
      OBVIOUS
    <3>5. d \in Seq(Change) /\ Len(d) \in Nat /\ DOMAIN d = 1..Len(d) /\ \A i \in 1..Len(d) : d[i] \in Change
      BY <2>1
    <3>1. \A i \in DOMAIN j.done : j.done[i] \in Change /\ j.done[i].user \in Ids
      BY <3>5 DEF Change
    <3>2. /\ DOMAIN m = DOMAIN j.done
          /\ \A i \in DOMAIN j.done : m[i] \in Row /\ m[i].about = j.done[i].user /\ m[i].action = j.row
      BY <1>4, <1>6, <2>1, <2>3, <3>1 DEF Row
    <3>3. m \in [1..Len(j.done) -> Row] /\ Len(j.done) \in Nat
      <4>1. m = [i \in 1..Len(d) |-> m[i]]
        BY <1>4, <2>3, <3>2, <3>5
      <4>2. \A i \in 1..Len(d) : m[i] \in Row
        BY <3>2, <3>5
      <4> QED BY <3>5, <4>1, <4>2
    <3>4. m \in Seq(Row)
      BY <3>3
    <3> QED BY <1>3, <1>7, <3>2, <3>4 DEF Changed
  <2> QED BY <2>2, <2>3
<1>14. /\ log' \in Seq(Row)
       /\ \A u : /\ Cardinality(Blocks(log, u)) \in Nat /\ Cardinality(Blocks(log', u)) \in Nat
                 /\ Cardinality(Blocks(log, u)) <= Cardinality(Blocks(log', u))
       /\ \A u \in X : Cardinality(Blocks(log, u)) + 1 <= Cardinality(Blocks(log', u))
  BY <1>6, <1>12, <1>13, LogJoins
<1>15. \A u \in C : /\ users[u] \in User /\ users[u] # None /\ users'[u] \in User /\ users'[u] # None
                    /\ users'[u].tv = IF u \in X THEN ChangeOf(j, u).seen.tv + 1 ELSE users[u].tv
                    /\ users'[u].role = Newer(users[u].role, ChangeOf(j, u).seen.role, ChangeOf(j, u).made.role)
                    /\ users'[u].json = Newer(users[u].json, ChangeOf(j, u).seen.json, ChangeOf(j, u).made.json)
  <2> SUFFICES ASSUME NEW u \in C
               PROVE  /\ users[u] \in User /\ users[u] # None /\ users'[u] \in User /\ users'[u] # None
                      /\ users'[u].tv = IF u \in X THEN ChangeOf(j, u).seen.tv + 1 ELSE users[u].tv
                      /\ users'[u].role = Newer(users[u].role, ChangeOf(j, u).seen.role, ChangeOf(j, u).made.role)
                      /\ users'[u].json = Newer(users[u].json, ChangeOf(j, u).seen.json, ChangeOf(j, u).made.json)
    OBVIOUS
  <2>1. PICK c \in Change : c = ChangeOf(j, u) /\ c.user = u /\ Sensible(users, log, j.row, c)
    BY <1>5
  <2>2. u \in Ids /\ users[u] # None /\ users[u] \in User
    BY <1>5, <1>6, <2>1 DEF Sensible
  <2>3. PICK x \in User : x = users[u]
    BY <2>2
  <2>4. /\ Written(x, c) \in User
        /\ Written(x, c).tv = IF Expels(j.row) THEN c.seen.tv + 1 ELSE x.tv
        /\ Written(x, c).role = Newer(x.role, c.seen.role, c.made.role)
        /\ Written(x, c).json = Newer(x.json, c.seen.json, c.made.json)
    BY <2>1, WrittenIs DEF Sensible
  <2>5. users'[u] = Written(x, c)
    BY <1>9, <2>1, <2>2, <2>3
  <2>6. users'[u] # None
    BY <2>4, <2>5, AccountsAssumption
  <2> QED BY <1>7, <2>1, <2>2, <2>3, <2>4, <2>5, <2>6
<1>16. \A u \in Ids \ C : users'[u] = users[u]
  BY <1>9
<1>17. users' \in [Ids -> User \cup {None}]
  <2>1. \A u \in Ids : users'[u] \in User \cup {None}
    BY <1>6, <1>15, <1>16
  <2>2. users' = [u \in Ids |-> users'[u]]
    BY <1>9
  <2> QED BY <2>1, <2>2
<1>18. \A u \in Ids : users[u] # None <=> users'[u] # None
  BY <1>15, <1>16
<1>19. VersionsCounted'
  <2> SUFFICES ASSUME NEW u \in Ids, users'[u] # None PROVE users'[u].tv <= Cardinality(Blocks(log', u))
    BY DEF VersionsCounted
  <2>1. users[u] \in User /\ users[u].tv \in Nat /\ users[u].tv <= Cardinality(Blocks(log, u))
    BY <1>6, <1>18 DEF AccountsInv, VersionsCounted, User
  <2>2. CASE u \in X
    <3>1. PICK c \in Change : c = ChangeOf(j, u) /\ c.seen.tv <= Cardinality(Blocks(log, u))
      BY <1>5, <1>8, <2>2 DEF Sensible
    <3>2. c.seen.tv \in Nat
      BY DEF Change, User
    <3>3. users'[u].tv = c.seen.tv + 1
      BY <1>8, <1>15, <2>2, <3>1
    <3>4. Cardinality(Blocks(log, u)) + 1 <= Cardinality(Blocks(log', u)) /\ Cardinality(Blocks(log, u)) \in Nat
          /\ Cardinality(Blocks(log', u)) \in Nat
      BY <1>14, <2>2
    <3> QED BY <3>1, <3>2, <3>3, <3>4
  <2>3. CASE u \notin X
    <3>1. users'[u].tv = users[u].tv
      BY <1>15, <1>16, <2>3
    <3>2. Cardinality(Blocks(log, u)) <= Cardinality(Blocks(log', u)) /\ Cardinality(Blocks(log, u)) \in Nat
          /\ Cardinality(Blocks(log', u)) \in Nat
      BY <1>14
    <3> QED BY <2>1, <3>1, <3>2
  <2> QED BY <2>2, <2>3
<1>20. \A u \in Ids : users[u] # None /\ u \notin crossed' =>
         /\ u \notin crossed /\ users[u].tv \in Nat /\ users'[u].tv \in Nat
         /\ users'[u].tv = IF u \in X THEN users[u].tv + 1 ELSE users[u].tv
  <2> SUFFICES ASSUME NEW u \in Ids, users[u] # None, u \notin crossed'
               PROVE  /\ u \notin crossed /\ users[u].tv \in Nat /\ users'[u].tv \in Nat
                      /\ users'[u].tv = IF u \in X THEN users[u].tv + 1 ELSE users[u].tv
    OBVIOUS
  <2>1. u \notin crossed /\ (u \in X => ChangeOf(j, u).seen.tv = users[u].tv)
    BY <1>9
  <2>2. users[u] \in User /\ users'[u] \in User
    BY <1>6, <1>17, <1>18
  <2>3. users[u].tv \in Nat /\ users'[u].tv \in Nat
    BY <2>2 DEF User
  <2>4. CASE u \in X
    BY <1>8, <1>15, <2>1, <2>3, <2>4
  <2>5. CASE u \notin X
    BY <1>15, <1>16, <2>1, <2>3, <2>5
  <2> QED BY <2>4, <2>5
<1>21. \A t \in Token : Standing(users, crossed, t) => Standing(users', crossed', t)
  <2> SUFFICES ASSUME NEW t \in Token, Standing(users, crossed, t) PROVE Standing(users', crossed', t)
    OBVIOUS
  <2>1. t.user \in Ids /\ t.tv \in Nat /\ users[t.user] # None
    BY DEF Token, Standing
  <2>2. users'[t.user] # None
    BY <1>18, <2>1
  <2>3. t.user \notin crossed' => t.tv <= users'[t.user].tv
    BY <1>20, <2>1 DEF Standing
  <2> QED BY <2>2, <2>3 DEF Standing
<1>22. TokensStand'
  <2>1. \A q \in Requests : signing[q] # None => signing[q] \in Token
    BY <1>6
  <2> QED BY <1>6, <1>9, <1>21, <2>1 DEF AccountsInv, TokensStand
<1>23. \A u \in X : \A t \in Held(u) : t \in Token /\ t.user = u /\ Standing(users, crossed, t)
  BY <1>6 DEF Held, AccountsInv, TokensStand
<1>24. revoked' \subseteq Token /\ crossed' \subseteq Ids /\ torn' \subseteq Ids
  BY <1>5, <1>6, <1>8, <1>9, <1>10, <1>11, <1>23
<1>25. RevokedBehind'
  <2> SUFFICES ASSUME NEW t \in revoked'
               PROVE  users'[t.user] # None /\ (t.user \notin crossed' => t.tv < users'[t.user].tv)
    BY DEF RevokedBehind
  <2>1. t \in Token /\ t.user \in Ids /\ t.tv \in Nat
    BY <1>24 DEF Token
  <2>2. CASE t \in revoked
    <3>1. users[t.user] # None /\ (t.user \notin crossed => t.tv < users[t.user].tv)
      BY <2>2 DEF AccountsInv, RevokedBehind
    <3>2. t.user \notin crossed' => t.tv < users'[t.user].tv
      BY <1>20, <2>1, <3>1
    <3> QED BY <1>18, <2>1, <3>1, <3>2
  <2>3. CASE t \notin revoked
    <3>1. PICK u \in X : t \in Held(u)
      BY <1>9, <2>3
    <3>2. t.user = u /\ users[u] # None /\ (u \notin crossed => t.tv <= users[u].tv)
      BY <1>23, <3>1 DEF Standing
    <3>3. u \notin crossed' => t.tv < users'[u].tv
      BY <1>20, <2>1, <3>1, <3>2
    <3> QED BY <1>18, <2>1, <3>2, <3>3
  <2> QED BY <2>2, <2>3
<1>26. "role" \notin Keys /\ None \notin Keys /\ None # "role"
  BY AccountsAssumption
<1>27. \A u \in Ids : overrides'[u] \in Overrides
  <2> SUFFICES ASSUME NEW u \in Ids PROVE overrides'[u] \in Overrides
    OBVIOUS
  <2>1. CASE u \notin W
    BY <1>6, <1>11, <2>1
  <2>2. CASE u \in W
    <3>1. PICK c \in Change : c = ChangeOf(j, u) /\ Sensible(users, log, j.row, c) /\ c.sets # None
      BY <1>5, <1>10, <2>2
    <3>2. c.sets = "role" \/ c.sets \in Keys
      BY <3>1 DEF Change
    <3>3. PICK o \in Overrides : o = overrides[u]
      BY <1>6
    <3>4. overrides'[u] = IF c.sets = "role" THEN NoKeys ELSE SetKey(o, c.sets, c.made.json[c.sets])
      BY <1>11, <2>2, <3>1, <3>3
    <3>5. CASE c.sets = "role"
      BY <3>4, <3>5, NoKeysTyped
    <3>6. CASE c.sets # "role"
      BY <3>1, <3>2, <3>4, <3>6, OverridesTyped DEF Sensible
    <3> QED BY <3>5, <3>6
  <2> QED BY <2>1, <2>2
<1>28. overrides' \in [Ids -> Overrides]
  <2>1. overrides' = [u \in Ids |-> overrides'[u]]
    BY <1>11
  <2> QED BY <1>27, <2>1
<1>29. ASSUME NEW u \in Ids, users'[u] = None PROVE overrides'[u] = NoKeys
  <2>1. users[u] = None /\ u \notin W
    BY <1>10, <1>15, <1>18, <1>29
  <2> QED BY <1>11, <2>1 DEF AccountsInv, PeopleFollow
<1>30. ASSUME NEW u \in Ids, users'[u] # None, u \notin torn' PROVE Follows(users'[u], overrides'[u])
  <2>1. users[u] # None
    BY <1>18, <1>30
  <2>2. CASE u \notin C
    <3>1. u \notin torn /\ users'[u] = users[u] /\ overrides'[u] = overrides[u]
      BY <1>10, <1>11, <1>16, <1>30, <2>2
    <3> QED BY <2>1, <3>1 DEF AccountsInv, PeopleFollow
  <2>3. CASE u \in C
    <3>1. PICK c \in Change : c = ChangeOf(j, u) /\ Sensible(users, log, j.row, c)
      BY <1>5, <2>3
    <3>2. PICK x \in User : x = users[u]
      BY <1>15, <2>3
    <3>3. PICK y \in User : y = users'[u]
      BY <1>15, <2>3
    <3>4. y.role = Newer(x.role, c.seen.role, c.made.role) /\ y.json = Newer(x.json, c.seen.json, c.made.json)
      BY <1>15, <2>3, <3>1, <3>2, <3>3
    <3>5. CASE c.sets = None
      <4>1. u \notin W /\ overrides'[u] = overrides[u] /\ u \notin torn
        BY <1>10, <1>11, <1>30, <3>1, <3>5
      <4>2. y.role = x.role /\ y.json = x.json
        BY <1>26, <3>1, <3>4, <3>5 DEF Sensible, Newer
      <4>3. Follows(x, overrides[u])
        BY <2>1, <3>2, <4>1 DEF AccountsInv, PeopleFollow
      <4> QED BY <3>3, <4>1, <4>2, <4>3 DEF Follows
    <3>6. CASE c.sets # None
      <4>1. u \in W /\ ~Stale(j, u)
        BY <1>10, <1>11, <1>30, <2>3, <3>1, <3>6
      <4>2. c.seen.json = x.json /\ (c.sets = "role" => c.seen.role = x.role)
        BY <3>1, <3>2, <4>1 DEF Stale
      <4>3. CASE c.sets = "role"
        <5>1. overrides'[u] = NoKeys
          BY <1>11, <3>1, <4>1, <4>3
        <5>2. c.made.json = Template(c.made.role)
          BY <3>1, <4>3 DEF Sensible
        <5>3. Follows(y, NoKeys)
          BY <3>4, <4>2, <4>3, <5>2, WrittenFollows
        <5> QED BY <3>3, <5>1, <5>3
      <4>4. CASE c.sets # "role"
        <5>1. c.sets \in Keys
          BY <3>6, <4>4 DEF Change
        <5>2. overrides'[u] = SetKey(overrides[u], c.sets, c.made.json[c.sets])
          BY <1>11, <3>1, <4>1, <4>4
        <5>3. c.made.role = c.seen.role /\ c.made.json = SetKey(c.seen.json, c.sets, c.made.json[c.sets])
          BY <3>1, <4>4, <5>1 DEF Sensible
        <5>4. u \notin torn
          BY <1>11, <1>30, <3>1, <4>4
        <5>5. PICK o : o = overrides[u] /\ Follows(x, o)
          BY <2>1, <3>2, <5>4 DEF AccountsInv, PeopleFollow
        <5>6. Follows(y, SetKey(o, c.sets, c.made.json[c.sets]))
          BY <3>4, <4>2, <5>1, <5>3, <5>5, WrittenFollows
        <5> QED BY <3>3, <5>2, <5>5, <5>6
      <4> QED BY <4>3, <4>4
    <3> QED BY <3>5, <3>6
  <2> QED BY <2>2, <2>3
<1>31. PeopleFollow'
  BY <1>29, <1>30 DEF PeopleFollow
<1>32. TasksSound'
  <2> SUFFICES ASSUME NEW q \in Requests, tasks'[q] # None PROVE TaskSound(users', log', tasks'[q])
    BY DEF TasksSound
  <2>1. q # r /\ tasks'[q] = tasks[q]
    BY <1>6, <1>9
  <2>2. PICK k \in Task : k = tasks[q] /\ TaskSound(users, log, k)
    BY <1>6, <2>1 DEF AccountsInv, TasksSound
  <2>3. TaskSound(users', log', k)
    BY <1>14, <1>18, <2>2, TaskStays
  <2> QED BY <2>1, <2>2, <2>3
<1>33. AccountsTyped'
  BY <1>6, <1>9, <1>14, <1>17, <1>24, <1>28 DEF AccountsTyped
<1>34. ListsFit' /\ ListFitsRole'
  BY <1>9 DEF AccountsInv, ListsFit, ListFitsRole
<1> QED BY <1>19, <1>22, <1>25, <1>31, <1>32, <1>33, <1>34 DEF AccountsInv

\* A row more in the log, and a member hired with it or not.
LEMMA RowKeeps ==
  ASSUME AccountsInv, NEW e \in Row, log' = Append(log, e), users' \in [Ids -> User \cup {None}],
         \A u \in Ids : users[u] # None => users'[u] = users[u],
         \A u \in Ids : users[u] = None /\ users'[u] # None => users'[u].tv = 0 /\ Follows(users'[u], NoKeys),
         UNCHANGED <<revoked, overrides, torn, crossed, tasks, tokens, signing, shown, clock>>, ListsFit'
  PROVE  AccountsInv'
<1>1. log' \in Seq(Row) /\ \A u : /\ Cardinality(Blocks(log, u)) \in Nat /\ Cardinality(Blocks(log', u)) \in Nat
                                  /\ Cardinality(Blocks(log, u)) <= Cardinality(Blocks(log', u))
  <2>1. log \in Seq(Row)
    BY DEF AccountsInv, AccountsTyped
  <2>2. <<e>> \in Seq(Row) /\ Append(log, e) = log \o <<e>>
    BY <2>1
  <2> QED BY <2>1, <2>2, LogJoins
<1>2. AccountsTyped'
  BY <1>1 DEF AccountsInv, AccountsTyped
<1>3. VersionsCounted'
  <2> SUFFICES ASSUME NEW u \in Ids, users'[u] # None PROVE users'[u].tv <= Cardinality(Blocks(log', u))
    BY DEF VersionsCounted
  <2>1. PICK n \in Nat, m \in Nat : n = Cardinality(Blocks(log, u)) /\ m = Cardinality(Blocks(log', u)) /\ n <= m
    BY <1>1
  <2>2. users'[u].tv \in Nat
    BY DEF User
  <2> QED BY <2>1, <2>2 DEF AccountsInv, VersionsCounted
<1>4. \A t \in Token : t.user \in Ids
  BY DEF Token
<1>5. TokensStand'
  <2>1. \A t \in Token : Standing(users, crossed, t) => Standing(users', crossed, t)
    BY <1>4 DEF Standing
  <2>2. tokens \subseteq Token /\ \A q \in Requests : signing[q] # None => signing[q] \in Token
    BY DEF AccountsInv, AccountsTyped
  <2> QED BY <2>1, <2>2 DEF AccountsInv, TokensStand
<1>6. RevokedBehind'
  BY <1>4 DEF AccountsInv, AccountsTyped, RevokedBehind
<1>7. PeopleFollow'
  <2> SUFFICES ASSUME NEW u \in Ids
               PROVE  /\ users'[u] = None => overrides[u] = NoKeys
                      /\ users'[u] # None /\ u \notin torn => Follows(users'[u], overrides[u])
    BY DEF PeopleFollow
  <2>1. CASE users[u] = None
    BY <2>1 DEF AccountsInv, PeopleFollow
  <2>2. CASE users[u] # None
    BY <2>2 DEF AccountsInv, PeopleFollow
  <2> QED BY <2>1, <2>2
<1>8. TasksSound'
  <2> SUFFICES ASSUME NEW q \in Requests, tasks[q] # None PROVE TaskSound(users', log', tasks[q])
    BY DEF TasksSound
  <2>1. PICK k \in Task : k = tasks[q] /\ TaskSound(users, log, k)
    BY DEF AccountsInv, AccountsTyped, TasksSound
  <2>2. TaskSound(users', log', k)
    BY <1>1, <2>1, TaskStays
  <2> QED BY <2>1, <2>2
<1>9. ListFitsRole'
  BY DEF AccountsInv, ListFitsRole
<1> QED BY <1>2, <1>3, <1>5, <1>6, <1>7, <1>8, <1>9 DEF AccountsInv

LEMMA CreateKeeps ==
  ASSUME AccountsInv, NEW actor \in Ids, NEW u \in Ids, NEW role \in Roles, CreateUser(actor, u, role)
  PROVE  AccountsInv'
<1>1. PICK x : x = [live |-> TRUE, active |-> TRUE, blocked |-> FALSE, tv |-> 0,
                    role |-> role, json |-> Effective(role, NoKeys)]
  OBVIOUS
<1>2. PICK e : e = [by |-> actor, about |-> u, action |-> "USER_CREATE", at |-> clock]
  OBVIOUS
<1>3. /\ users[u] = None /\ users' = [users EXCEPT ![u] = x] /\ log' = Append(log, e)
      /\ UNCHANGED <<revoked, overrides, torn, crossed, tasks, tokens, signing, lists, shown, clock>>
  BY <1>1, <1>2 DEF CreateUser, Logged, Desk
<1>4. x \in User /\ x.tv = 0 /\ x.role = role /\ x.json = Template(role)
  <2>1. Effective(role, NoKeys) = Template(role) /\ Template(role) \in Json
    BY TemplateFollows
  <2> QED BY <1>1, <2>1 DEF User
<1>5. e \in Row
  BY <1>2 DEF Row, Actions, AccountsInv, AccountsTyped
<1>6. Follows(x, NoKeys)
  BY <1>4, TemplateFollows, NoKeysTyped DEF Follows
<1>7. /\ users' \in [Ids -> User \cup {None}] /\ users'[u] = x
      /\ \A v \in Ids : v # u => users'[v] = users[v]
  BY <1>3, <1>4 DEF AccountsInv, AccountsTyped
<1>8. ListsFit'
  BY <1>3 DEF AccountsInv, ListsFit
<1>9. /\ \A v \in Ids : users[v] # None => users'[v] = users[v]
      /\ \A v \in Ids : users[v] = None /\ users'[v] # None => users'[v].tv = 0 /\ Follows(users'[v], NoKeys)
  BY <1>3, <1>4, <1>6, <1>7
<1> QED BY <1>3, <1>5, <1>7, <1>8, <1>9, RowKeeps

LEMMA ActivityKeeps ==
  ASSUME AccountsInv, NEW u \in Ids
  PROVE  /\ \A p \in Posted : PostActivity(u, p) => AccountsInv'
         /\ EditStock(u) => AccountsInv'
<1>1. ASSUME NEW e \in Row, log' = Append(log, e), ListsFit',
             UNCHANGED <<users, revoked, overrides, torn, crossed, tasks, tokens, signing, shown, clock>>
      PROVE  AccountsInv'
  <2>1. users' \in [Ids -> User \cup {None}]
    BY <1>1 DEF AccountsInv, AccountsTyped
  <2> QED BY <1>1, <2>1, RowKeeps
<1>2. ASSUME NEW p \in Posted, PostActivity(u, p) PROVE AccountsInv'
  <2>1. PICK e : e = [by |-> u, about |-> p.about, action |-> p.action, at |-> clock]
    OBVIOUS
  <2>2. p.about \in Ids \cup {None} /\ p.action \in Actions
    BY AccountsAssumption
  <2>3. e \in Row
    BY <2>1, <2>2 DEF Row, AccountsInv, AccountsTyped
  <2>4. /\ log' = Append(log, e)
        /\ UNCHANGED <<users, revoked, overrides, torn, crossed, tasks, tokens, signing, lists, shown, clock>>
    BY <1>2, <2>1 DEF PostActivity, Logged, Desk
  <2>5. ListsFit'
    BY <2>4 DEF AccountsInv, ListsFit
  <2> QED BY <1>1, <2>3, <2>4, <2>5
<1>3. ASSUME EditStock(u) PROVE AccountsInv'
  <2>1. PICK e : e = [by |-> u, about |-> None, action |-> "STOCK_UPDATE", at |-> clock]
    OBVIOUS
  <2>2. e \in Row
    BY <2>1 DEF Row, Actions, AccountsInv, AccountsTyped
  <2>3. /\ log' = Append(log, e) /\ lists' = [role \in Roles |-> None]
        /\ UNCHANGED <<users, revoked, overrides, torn, crossed, tasks, tokens, signing, shown, clock>>
    BY <1>3, <2>1 DEF EditStock, Logged
  <2>4. ListsFit'
    BY <2>3 DEF ListsFit
  <2> QED BY <1>1, <2>2, <2>3, <2>4
<1> QED BY <1>2, <1>3

\* The token a sign-in or a refresh is going to issue is not ahead, and one
\* that is issued was held before.
LEMMA IssueKeeps ==
  ASSUME AccountsInv, NEW r \in Requests,
         IssueEnd(r) \/ \E u \in Ids, how \in {"password", "refresh"} : IssueBegin(r, u, how)
  PROVE  AccountsInv'
<1>1. UNCHANGED People /\ UNCHANGED <<tasks, edits, lists, shown, clock>>
  BY DEF IssueEnd, IssueBegin
<1>2. /\ VersionsCounted' /\ RevokedBehind' /\ PeopleFollow'
      /\ users' = users /\ log' = log /\ crossed' = crossed
      /\ revoked' \subseteq Token /\ torn' \subseteq Ids /\ overrides' \in [Ids -> Overrides]
  BY <1>1, PeopleStay
<1>3. /\ tokens' \subseteq Token /\ signing' \in [Requests -> Token \cup {None}]
      /\ \A t \in tokens' : Standing(users, crossed, t)
      /\ \A q \in Requests : signing'[q] # None => Standing(users, crossed, signing'[q])
  <2>1. CASE IssueEnd(r)
    <3>1. signing[r] # None /\ tokens' = tokens \cup {signing[r]} /\ signing' = [signing EXCEPT ![r] = None]
      BY <2>1 DEF IssueEnd
    <3>2. signing[r] \in Token /\ Standing(users, crossed, signing[r])
      BY <3>1 DEF AccountsInv, AccountsTyped, TokensStand
    <3> QED BY <3>1, <3>2 DEF AccountsInv, AccountsTyped, TokensStand
  <2>2. ASSUME NEW u \in Ids, NEW how, IssueBegin(r, u, how)
        PROVE  /\ tokens' \subseteq Token /\ signing' \in [Requests -> Token \cup {None}]
               /\ \A t \in tokens' : Standing(users, crossed, t)
               /\ \A q \in Requests : signing'[q] # None => Standing(users, crossed, signing'[q])
    <3>1. PICK t : t = [user |-> u, tv |-> users[u].tv]
      OBVIOUS
    <3>2. signing' = [signing EXCEPT ![r] = t] /\ users[u] # None /\ tokens' = tokens
      BY <2>2, <3>1 DEF IssueBegin, Known
    <3>3. users[u].tv \in Nat
      BY <3>2 DEF AccountsInv, AccountsTyped, User
    <3>4. t \in Token /\ t.user = u /\ t.tv = users[u].tv
      BY <3>1, <3>3 DEF Token
    <3>5. Standing(users, crossed, t)
      BY <3>2, <3>3, <3>4 DEF Standing
    <3> QED BY <3>2, <3>4, <3>5 DEF AccountsInv, AccountsTyped, TokensStand
  <2> QED BY <2>1, <2>2
<1>4. AccountsTyped'
  BY <1>1, <1>2, <1>3 DEF AccountsInv, AccountsTyped
<1>5. TokensStand' /\ TasksSound' /\ ListsFit' /\ ListFitsRole'
  BY <1>1, <1>2, <1>3 DEF AccountsInv, TokensStand, TasksSound, ListsFit, ListFitsRole
<1> QED BY <1>2, <1>4, <1>5 DEF AccountsInv

\* What staff see of the amounts is their second names.
LEMMA ListsFor ==
  ListFor("staff") = {"header_discount", "freight_value"} /\ \A role : role # "staff" => ListFor(role) = Amounts
<1>1. Amounts \ HeaderFinancialKeys = {"header_discount", "freight_value"}
  BY DEF Amounts, HeaderFinancialKeys
<1> QED BY <1>1 DEF ListFor, Redacts

LEMMA ListKeeps ==
  ASSUME AccountsInv, NEW u \in Ids, ListPurchases(u)
  PROVE  AccountsInv'
<1>1. users[u] \in User /\ users[u].role \in Roles
  <2>1. users[u] # None
    BY ActorIs DEF ListPurchases
  <2> QED BY <2>1, ActorCounted DEF User
<1>2. PICK role : role = users[u].role
  OBVIOUS
<1>3. PICK answer : answer = IF lists[role] = None THEN ListFor(role) ELSE lists[role]
  OBVIOUS
<1>4. answer = ListFor(role) /\ role \in Roles
  BY <1>1, <1>2, <1>3 DEF AccountsInv, ListsFit
<1>5. /\ lists' = [lists EXCEPT ![role] = answer] /\ shown' = [role |-> role, amounts |-> answer]
      /\ UNCHANGED People /\ UNCHANGED <<tasks, tokens, signing, edits, clock>>
  BY <1>2, <1>3 DEF ListPurchases, ListKey
<1>6. ListsFit'
  BY <1>4, <1>5 DEF AccountsInv, ListsFit
<1>7. ListFitsRole'
  <2>1. shown'.role = role /\ shown'.amounts = ListFor(role)
    BY <1>4, <1>5
  <2> QED BY <2>1, ListsFor DEF ListFitsRole
<1>8. clock' \in Nat
  BY <1>5 DEF AccountsInv, AccountsTyped
<1> QED BY <1>5, <1>6, <1>7, <1>8, DeskOnly

LEMMA AccountsStart == Init => AccountsInv
<1> SUFFICES ASSUME Init PROVE AccountsInv
  OBVIOUS
<1>1. PICK role \in HiredAs :
        users = [u \in Ids |->
                  CASE u = Boss -> [live |-> TRUE, active |-> TRUE, blocked |-> FALSE, tv |-> 0,
                                    role |-> "owner", json |-> NoKeys]
                    [] u = Hired -> [live |-> TRUE, active |-> TRUE, blocked |-> FALSE, tv |-> 0,
                                     role |-> role, json |-> Legacy]
                    [] OTHER -> None]
  BY DEF Init
<1>2. /\ Boss \in Ids /\ Hired \in Ids \ {Boss} /\ role \in Roles /\ "owner" \in Roles
      /\ "delete_access" \in Keys /\ "delete_items" \notin Keys
      /\ Start \in Nat /\ PastScans \in Seq(0..Start)
  BY AccountsAssumption DEF Roles
<1>3. Legacy \in Json
  <2>1. {} \in SUBSET (Keys \cup {"delete_items"}) /\ {"delete_items"} \in SUBSET (Keys \cup {"delete_items"})
    OBVIOUS
  <2> QED BY <2>1, AccountsAssumption DEF Json
<1>4. /\ users[Boss] \in User /\ users[Boss].tv = 0 /\ users[Boss].role = "owner" /\ users[Boss].json = NoKeys
      /\ users[Hired] \in User /\ users[Hired].tv = 0 /\ users[Hired].role = role /\ users[Hired].json = Legacy
      /\ \A u \in Ids \ {Boss, Hired} : users[u] = None
      /\ DOMAIN users = Ids /\ users[Boss] # None /\ users[Hired] # None
  <2>1. PICK boss : boss = [live |-> TRUE, active |-> TRUE, blocked |-> FALSE, tv |-> 0,
                            role |-> "owner", json |-> NoKeys]
    OBVIOUS
  <2>2. PICK hired : hired = [live |-> TRUE, active |-> TRUE, blocked |-> FALSE, tv |-> 0,
                              role |-> role, json |-> Legacy]
    OBVIOUS
  <2>3. boss \in User /\ boss.tv = 0 /\ boss.role = "owner" /\ boss.json = NoKeys
    BY <1>2, <2>1, NoKeysTyped DEF User
  <2>4. hired \in User /\ hired.tv = 0 /\ hired.role = role /\ hired.json = Legacy
    BY <1>2, <1>3, <2>2 DEF User
  <2>5. users = [u \in Ids |-> CASE u = Boss -> boss [] u = Hired -> hired [] OTHER -> None]
    BY <1>1, <2>1, <2>2
  <2> HIDE <2>1, <2>2
  <2>6. DOMAIN users = Ids /\ users[Boss] = boss /\ users[Hired] = hired /\ \A u \in Ids \ {Boss, Hired} : users[u] = None
    BY <1>2, <2>5
  <2> QED BY <2>3, <2>4, <2>6, AccountsAssumption
<1>5. users \in [Ids -> User \cup {None}]
  <2>1. \A u \in Ids : users[u] \in User \cup {None}
    BY <1>4
  <2>2. users = [u \in Ids |-> users[u]]
    BY <1>1
  <2> QED BY <2>1, <2>2
<1>6. /\ tokens = {[user |-> Boss, tv |-> 0], [user |-> Hired, tv |-> 0]}
      /\ signing = [r \in Requests |-> None] /\ tasks = [r \in Requests |-> None]
      /\ clock = Start /\ revoked = {} /\ torn = {} /\ crossed = {}
      /\ log = [i \in DOMAIN PastScans |-> [by |-> Hired, about |-> None, action |-> "SCAN", at |-> PastScans[i]]]
      /\ lists = [r \in Roles |-> None] /\ shown = [role |-> "owner", amounts |-> Amounts]
      /\ overrides = [u \in Ids |-> IF u = Hired /\ "delete_items" \in DOMAIN Legacy
                                    THEN [k \in {"delete_access"} |-> Legacy["delete_items"]] ELSE NoKeys]
  BY DEF Init
<1>7. log \in Seq(Row) /\ \A u : Blocks(log, u) = {}
  <2>1. DOMAIN PastScans = 1..Len(PastScans) /\ Len(PastScans) \in Nat /\ \A i \in 1..Len(PastScans) : PastScans[i] \in Nat
    BY <1>2
  <2>2. \A i \in 1..Len(PastScans) :
          /\ [by |-> Hired, about |-> None, action |-> "SCAN", at |-> PastScans[i]] \in Row
          /\ [by |-> Hired, about |-> None, action |-> "SCAN", at |-> PastScans[i]].action = "SCAN"
    BY <1>2, <2>1 DEF Row, Actions
  <2>3. log \in [1..Len(PastScans) -> Row] /\ \A i \in DOMAIN log : log[i].action = "SCAN"
    BY <1>6, <2>1, <2>2
  <2>4. log \in Seq(Row)
    BY <2>1, <2>3
  <2> QED BY <2>3, <2>4 DEF Blocks
<1>8. /\ overrides \in [Ids -> Overrides]
      /\ \A u \in Ids \ {Hired} : overrides[u] = NoKeys
  <2>1. [k \in {"delete_access"} |-> Legacy["delete_items"]] \in Overrides \/ "delete_items" \notin DOMAIN Legacy
    <3>1. CASE Legacy \in [{} -> BOOLEAN]
      BY <3>1
    <3>2. CASE Legacy \in [{"delete_items"} -> BOOLEAN]
      <4>1. [k \in {"delete_access"} |-> Legacy["delete_items"]] \in [{"delete_access"} -> BOOLEAN]
        BY <3>2
      <4>2. {"delete_access"} \in SUBSET Keys
        BY <1>2
      <4> QED BY <4>1, <4>2 DEF Overrides
    <3> QED BY <3>1, <3>2, AccountsAssumption
  <2> QED BY <1>6, <2>1, NoKeysTyped
<1>9. Follows(users[Boss], overrides[Boss])
  BY <1>2, <1>4, <1>8, TemplateFollows, NoKeysTyped DEF Follows
<1>10. Follows(users[Hired], overrides[Hired])
  <2>1. CASE Legacy \in [{} -> BOOLEAN]
    <3>1. Legacy = NoKeys /\ overrides[Hired] = NoKeys
      BY <1>2, <1>6, <2>1 DEF NoKeys
    <3> QED BY <1>2, <1>4, <3>1, TemplateFollows, NoKeysTyped DEF Follows
  <2>2. CASE Legacy \in [{"delete_items"} -> BOOLEAN]
    <3>1. /\ overrides[Hired] = [k \in {"delete_access"} |-> Legacy["delete_items"]]
          /\ DOMAIN overrides[Hired] = {"delete_access"} /\ overrides[Hired]["delete_access"] = Legacy["delete_items"]
      BY <1>2, <1>6, <2>2
    <3>2. /\ DOMAIN Merged(Legacy) = {"delete_items", "delete_access"}
          /\ Merged(Legacy)["delete_access"] = Legacy["delete_items"]
      BY <2>2 DEF Merged, SetKey
    <3>3. \A k \in Keys : Effective(role, Legacy)[k] =
                            IF k = "delete_access" THEN Legacy["delete_items"] ELSE Template(role)[k]
      BY <1>2, <3>2 DEF Effective
    <3> QED BY <1>4, <3>1, <3>3 DEF Follows
  <2> QED BY <2>1, <2>2, AccountsAssumption
<1>11. /\ VersionsCounted /\ RevokedBehind /\ PeopleFollow
  <2>1. \A u \in Ids : users[u] # None => u \in {Boss, Hired} /\ users[u].tv = Cardinality(Blocks(log, u))
    BY <1>4, <1>7, FS_EmptySet
  <2>2. \A u \in Ids : users[u] = None => overrides[u] = NoKeys
    BY <1>4, <1>8
  <2>3. \A u \in Ids : users[u] # None => Follows(users[u], overrides[u])
    BY <1>9, <1>10, <2>1
  <2>4. \A u \in Ids : users[u] # None => users[u].tv = 0
    BY <1>4, <2>1
  <2>5. VersionsCounted
    BY <2>1, <2>4 DEF VersionsCounted
  <2> QED BY <1>6, <2>2, <2>3, <2>5 DEF RevokedBehind, PeopleFollow
<1>12. tokens \subseteq Token /\ TokensStand
  <2>1. \A t \in tokens : t \in Token /\ t.tv = 0 /\ t.user \in {Boss, Hired}
    BY <1>2, <1>6 DEF Token
  <2> QED BY <1>4, <1>6, <2>1 DEF TokensStand, Standing
<1>13. AccountsTyped
  BY <1>2, <1>5, <1>6, <1>7, <1>8, <1>12 DEF AccountsTyped
<1>14. TasksSound /\ ListsFit /\ ListFitsRole
  BY <1>6 DEF TasksSound, ListsFit, ListFitsRole
<1> QED BY <1>11, <1>12, <1>13, <1>14 DEF AccountsInv

LEMMA AdministrationStep ==
  ASSUME AccountsInv, NEW actor \in Ids, Administer(actor)
  PROVE  AccountsInv'
<1>1. ASSUME NEW u \in Ids, NEW role \in Hirings, CreateUser(actor, u, role) PROVE AccountsInv'
  BY <1>1, CreateKeeps, AccountsAssumption
<1>2. ASSUME NEW r \in Requests, Administrator(actor)
      PROVE  /\ \A u \in Ids, body \in Patches : PatchUser(r, actor, u, body) => AccountsInv'
             /\ \A u \in Ids : DeleteUser(r, actor, u) => AccountsInv'
             /\ \A u \in Ids : ResetPassword(r, actor, u) => AccountsInv'
             /\ \A u \in Ids, g \in Grants : PatchPermissions(r, actor, u, g.key, g.value) => AccountsInv'
             /\ \A ids \in Batches, action \in BulkActions : BulkUsers(r, actor, ids, action) => AccountsInv'
  <2>1. \A g \in Grants : g.key \in Keys /\ g.value \in BOOLEAN
    BY AccountsAssumption
  <2> QED BY <1>2, <2>1, RequestStarts
<1>3. (~\E u \in Ids, role \in Hirings : CreateUser(actor, u, role)) => Administrator(actor)
  BY DEF Administer, PatchUser, DeleteUser, ResetPassword, PatchPermissions, BulkUsers
<1>4. CASE \E u \in Ids, role \in Hirings : CreateUser(actor, u, role)
  BY <1>1, <1>4
<1>5. CASE ~\E u \in Ids, role \in Hirings : CreateUser(actor, u, role)
  BY <1>2, <1>3, <1>5 DEF Administer
<1> QED BY <1>4, <1>5

LEMMA AccountsInvariant == Spec => []AccountsInv
<1>1. AccountsInv /\ [Next]_vars => AccountsInv'
  <2> SUFFICES ASSUME AccountsInv, [Next]_vars PROVE AccountsInv'
    OBVIOUS
  <2>1. ASSUME NEW u \in Ids, Work(u) PROVE AccountsInv'
    BY <2>1, IssueKeeps, ActivityKeeps, ListKeeps DEF Work
  <2>2. CASE Tick \/ DropLists \/ \E t \in tokens : Expire(t)
    <3>1. UNCHANGED People /\ tokens' \subseteq tokens /\ UNCHANGED <<tasks, signing, shown>> /\ clock' \in Nat
      BY <2>2 DEF Tick, DropLists, Expire, AccountsInv, AccountsTyped
    <3>2. lists' = lists \/ lists' = [role \in Roles |-> None]
      BY <2>2 DEF Tick, DropLists, Expire
    <3>3. ListsFit' /\ ListFitsRole'
      BY <3>1, <3>2 DEF AccountsInv, ListsFit, ListFitsRole
    <3> QED BY <3>1, <3>3, DeskOnly
  <2>3. CASE UNCHANGED vars
    <3>1. UNCHANGED People /\ tokens' \subseteq tokens /\ UNCHANGED <<tasks, signing, lists, shown>> /\ clock' \in Nat
      BY <2>3 DEF vars, Desk, AccountsInv, AccountsTyped
    <3>2. ListsFit' /\ ListFitsRole'
      BY <3>1 DEF AccountsInv, ListsFit, ListFitsRole
    <3> QED BY <3>1, <3>2, DeskOnly
  <2> QED BY <2>1, <2>2, <2>3, AdministrationStep, BulkReadKeeps, CommitKeeps, IssueKeeps DEF Next
<1> QED BY <1>1, AccountsStart, PTL DEF Spec

\* Accounts, tokens and the activity log stay in their types, and nobody holds
\* a token of an account that does not exist.
THEOREM AccountsTypeCorrect == Spec => []TypeOK
<1>1. AccountsInv => TypeOK
  <2> SUFFICES ASSUME AccountsInv PROVE TypeOK
    OBVIOUS
  <2>1. \A t \in tokens : users[t.user] # None
    BY DEF AccountsInv, TokensStand, Standing
  <2> QED BY <2>1 DEF AccountsInv, AccountsTyped, TypeOK
<1> QED BY <1>1, AccountsInvariant, PTL

\* A token that existed, or was being issued, at a block or a deletion is never
\* accepted again, unless another block or deletion of the member crossed it;
\* and no version moves on without a row of the log.
THEOREM RevokedOut == Spec => []RevokedStaysOut
<1>1. AccountsInv => RevokedStaysOut
  <2> SUFFICES ASSUME AccountsInv PROVE RevokedStaysOut
    OBVIOUS
  <2>1. \A t \in revoked : t.user \in Ids /\ t.tv \in Nat /\ users[t.user] # None
                           /\ (t.user \notin crossed => t.tv < users[t.user].tv)
    BY DEF AccountsInv, AccountsTyped, RevokedBehind, Token
  <2>2. \A t \in revoked : users[t.user].tv \in Nat
    BY <2>1 DEF AccountsInv, AccountsTyped, User
  <2>3. \A t \in revoked : t.user \notin crossed => ~Accepted(t)
    BY <2>1, <2>2 DEF Accepted
  <2> QED BY <2>3 DEF AccountsInv, VersionsCounted, RevokedStaysOut, Blocks
<1> QED BY <1>1, AccountsInvariant, PTL

\* What a member may do is his role's template and the keys set by hand since,
\* unless a change of either was made on a copy read before another one.
THEOREM PermissionsFollow == Spec => []PermissionsFollowRole
<1>1. AccountsInv => PermissionsFollowRole
  BY DEF AccountsInv, PeopleFollow, Follows, PermissionsFollowRole
<1> QED BY <1>1, AccountsInvariant, PTL

\* A purchase list shows all amounts to everybody but staff, and staff the
\* second names of the discount and the freight.
THEOREM ListsFitTheRole == Spec => []ListFitsRole
<1>1. AccountsInv => ListFitsRole
  BY DEF AccountsInv
<1> QED BY <1>1, AccountsInvariant, PTL

-----------------------------------------------------------------------------
(***************************************************************************)
(* The ledger of a user.  Of a finite set of rows the newest n exist, and  *)
(* since any time they are n or all there are; so the newest of the newest *)
(* of two logs are the newest of both.                                     *)
(***************************************************************************)
\* Finite sets without a common element count together.
LEMMA TwoParts ==
  ASSUME NEW A, IsFiniteSet(A), NEW B, IsFiniteSet(B), A \cap B = {}
  PROVE  IsFiniteSet(A \cup B) /\ Cardinality(A \cup B) = Cardinality(A) + Cardinality(B)
<1>1. /\ IsFiniteSet(A \cup B)
      /\ Cardinality(A \cup B) = Cardinality(A) + Cardinality(B) - Cardinality(A \cap B)
  BY FS_Union
<1>2. Cardinality(A \cap B) = 0 /\ Cardinality(A) \in Nat /\ Cardinality(B) \in Nat
  BY FS_EmptySet, FS_CardinalityType
<1> QED BY <1>1, <1>2

\* Rows with a time.
Timed(S) == IsFiniteSet(S) /\ \A e \in S : e.at \in Int

\* Some row is at least as new as all others: the one with the fewest rows since.
LEMMA SomeNewest ==
  ASSUME NEW S, Timed(S), S # {}
  PROVE  \E e \in S : \A f \in S : e.at >= f.at
<1> DEFINE Sinces == {Since(S, e.at) : e \in S}
<1>1. \A e \in S : Since(S, e.at) \subseteq S /\ IsFiniteSet(Since(S, e.at)) /\ e \in Since(S, e.at)
  <2> SUFFICES ASSUME NEW e \in S
               PROVE  Since(S, e.at) \subseteq S /\ IsFiniteSet(Since(S, e.at)) /\ e \in Since(S, e.at)
    OBVIOUS
  <2>1. Since(S, e.at) \in SUBSET S /\ e \in Since(S, e.at)
    BY DEF Since, Timed
  <2> QED BY <2>1, FS_Subset DEF Timed
<1>2. Sinces \subseteq FiniteSubsetsOf(S) /\ Sinces # {}
  BY <1>1 DEF FiniteSubsetsOf
<1>3. PICK U \in Sinces : \A V \in Sinces : <<V, U>> \notin StrictSubsetOrdering(S)
  <2>1. IsWellFoundedOn(StrictSubsetOrdering(S), FiniteSubsetsOf(S))
    BY FS_StrictSubsetOrderingWellFounded
  <2> HIDE DEF Sinces
  <2> QED BY <1>2, <2>1, WFMin
<1>4. PICK e \in S : U = Since(S, e.at)
  BY <1>3
<1>5. ASSUME NEW f \in S, f.at > e.at
      PROVE  FALSE
  <2>1. e.at \in Int /\ f.at \in Int
    BY DEF Timed
  <2>2. Since(S, f.at) \subseteq U /\ e \in U /\ e \notin Since(S, f.at)
    BY <1>1, <1>4, <1>5, <2>1 DEF Since, Timed
  <2>3. <<Since(S, f.at), U>> \in StrictSubsetOrdering(S)
    BY <1>1, <1>4, <2>2 DEF StrictSubsetOrdering
  <2> QED BY <1>3, <2>3
<1> QED BY <1>5 DEF Timed

\* A set of n rows with none newer outside exists for every n the rows allow:
\* take the newest of the others to such a set of n - 1.
LEMMA NewestExist ==
  ASSUME NEW S, Timed(S), NEW n \in Nat, n <= Cardinality(S)
  PROVE  \E T \in SUBSET S : IsNewest(T, S, n)
<1> DEFINE Bad == {m \in Nat : m <= Cardinality(S) /\ ~\E T \in SUBSET S : IsNewest(T, S, m)}
<1>1. Cardinality(S) \in Nat /\ IsFiniteSet(S)
  BY FS_CardinalityType DEF Timed
<1>2. Bad = {}
  <2> SUFFICES ASSUME Bad # {} PROVE FALSE
    OBVIOUS
  <2>1. PICK m \in Bad : \A k \in Bad : ~(<<k, m>> \in OpToRel(<, Nat))
    <3>1. Bad \subseteq Nat
      OBVIOUS
    <3> HIDE DEF Bad
    <3> QED BY <3>1, NatLessThanWellFounded, WFMin
  <2>2. m # 0
    <3>1. {} \in SUBSET S /\ IsNewest({}, S, 0)
      BY FS_EmptySet DEF IsNewest
    <3> QED BY <3>1
  <2>3. m \in Nat /\ m <= Cardinality(S) /\ m - 1 \in Nat /\ m - 1 < m
    BY <2>2
  <2>4. m - 1 \notin Bad
    <3>1. OpToRel(<, Nat) = {x \in Nat \X Nat : x[1] < x[2]}
      BY DEF OpToRel
    <3>2. <<m - 1, m>> \in OpToRel(<, Nat)
      BY <2>3, <3>1
    <3> HIDE DEF Bad
    <3> QED BY <2>1, <3>2
  <2>5. PICK T \in SUBSET S : IsNewest(T, S, m - 1)
    BY <1>1, <2>3, <2>4
  <2>6. IsFiniteSet(T) /\ Cardinality(T) = m - 1 /\ \A e \in T, f \in S \ T : e.at >= f.at
    BY <1>1, <2>5, FS_Subset DEF IsNewest
  <2>7. Timed(S \ T) /\ S \ T # {}
    <3>1. S \ T \in SUBSET S
      OBVIOUS
    <3>2. IsFiniteSet(S \ T)
      BY <1>1, <3>1, FS_Subset
    <3>3. S # T
      BY <1>1, <2>3, <2>6
    <3> QED BY <3>2, <3>3 DEF Timed
  <2>8. PICK e \in S \ T : \A f \in S \ T : e.at >= f.at
    BY <2>7, SomeNewest
  <2>9. Cardinality(T \cup {e}) = m
    <3>1. Cardinality(T \cup {e}) = Cardinality(T) + 1
      BY <2>6, <2>8, FS_AddElement
    <3> QED BY <2>3, <2>6, <3>1
  <2>10. IsNewest(T \cup {e}, S, m)
    BY <2>6, <2>8, <2>9 DEF IsNewest
  <2> QED BY <2>8, <2>10
<1>3. n \notin Bad
  BY <1>2
<1> QED BY <1>3

\* What a query with a limit returns.
LEMMA NewestIs ==
  ASSUME NEW S, Timed(S), NEW n \in Nat
  PROVE  /\ Newest(S, n) \subseteq S /\ Timed(Newest(S, n))
         /\ Cardinality(Newest(S, n)) = AtMost(n, Cardinality(S))
         /\ \A e \in Newest(S, n), f \in S \ Newest(S, n) : e.at >= f.at
<1>1. Cardinality(S) \in Nat
  BY FS_CardinalityType DEF Timed
<1>2. CASE Cardinality(S) <= n
  BY <1>1, <1>2 DEF Newest, AtMost
<1>3. CASE ~(Cardinality(S) <= n)
  <2>1. \E T \in SUBSET S : IsNewest(T, S, n)
    BY <1>1, <1>3, NewestExist
  <2>2. Newest(S, n) = CHOOSE T \in SUBSET S : IsNewest(T, S, n)
    BY <1>3 DEF Newest
  <2>3. Newest(S, n) \in SUBSET S /\ IsNewest(Newest(S, n), S, n)
    BY <2>1, <2>2
  <2>4. IsFiniteSet(Newest(S, n))
    BY <2>3, FS_Subset DEF Timed
  <2>5. AtMost(n, Cardinality(S)) = n
    BY <1>1, <1>3 DEF AtMost
  <2> QED BY <2>3, <2>4, <2>5 DEF IsNewest, Timed
<1> QED BY <1>2, <1>3

\* Since any time a limited query returns all rows, or as many as it may.
LEMMA NewestSince ==
  ASSUME NEW S, Timed(S), NEW n \in Nat, NEW t \in Int
  PROVE  Cardinality(Since(Newest(S, n), t)) = AtMost(n, Cardinality(Since(S, t)))
<1>1. PICK T : T = Newest(S, n)
  OBVIOUS
<1>2. /\ T \subseteq S /\ Timed(T) /\ Cardinality(T) = AtMost(n, Cardinality(S))
      /\ \A e \in T, f \in S \ T : e.at >= f.at
  BY <1>1, NewestIs
<1>3. PICK U : U = Since(T, t)
  OBVIOUS
<1>4. PICK V : V = Since(S, t)
  OBVIOUS
<1>5. U \subseteq V /\ U \subseteq T /\ V \subseteq S
  BY <1>2, <1>3, <1>4 DEF Since
<1>6. /\ IsFiniteSet(S) /\ IsFiniteSet(T) /\ IsFiniteSet(U) /\ IsFiniteSet(V)
      /\ Cardinality(S) \in Nat /\ Cardinality(T) \in Nat /\ Cardinality(U) \in Nat /\ Cardinality(V) \in Nat
      /\ Cardinality(U) <= Cardinality(T)
  <2>1. IsFiniteSet(S) /\ IsFiniteSet(T)
    BY <1>2 DEF Timed
  <2>2. IsFiniteSet(U) /\ IsFiniteSet(V) /\ Cardinality(U) <= Cardinality(T)
    BY <1>5, <2>1, FS_Subset
  <2> QED BY <2>1, <2>2, FS_CardinalityType
<1>7. CASE U = V
  <2>1. Cardinality(T) <= n
    BY <1>2, <1>6 DEF AtMost
  <2> QED BY <1>1, <1>3, <1>4, <1>6, <1>7, <2>1 DEF AtMost
<1>8. CASE U # V
  <2>1. PICK f \in V : f \notin U
    BY <1>5, <1>8
  <2>2. f \in S \ T /\ f.at >= t /\ f.at \in Int
    BY <1>3, <1>4, <1>5, <2>1 DEF Since, Timed
  <2>3. U = T
    <3>1. ASSUME NEW e \in T
          PROVE  e \in U
      <4>1. e.at \in Int /\ e.at >= f.at
        BY <1>2, <2>2 DEF Timed
      <4> QED BY <1>3, <2>2, <4>1 DEF Since
    <3> QED BY <1>5, <3>1
  <2>4. Cardinality(T) < Cardinality(V) /\ Cardinality(V) <= Cardinality(S)
    <3>1. T \in SUBSET V /\ V \in SUBSET S
      BY <1>5, <2>3
    <3>2. Cardinality(T) <= Cardinality(V) /\ Cardinality(V) <= Cardinality(S)
          /\ (Cardinality(V) = Cardinality(T) => V = T)
      BY <1>6, <3>1, FS_Subset
    <3>3. V # T
      BY <1>8, <2>3
    <3> QED BY <1>6, <3>2, <3>3
  <2>5. Cardinality(T) = n
    BY <1>2, <1>6, <2>4 DEF AtMost
  <2> QED BY <1>1, <1>3, <1>4, <1>6, <2>3, <2>4, <2>5 DEF AtMost
<1> QED BY <1>7, <1>8

\* Cut to the limit each, merged and cut again: since any time there are all
\* rows of both sets, or as many as there may be.
LEMMA MergedSince ==
  ASSUME NEW A, Timed(A), NEW B, Timed(B), A \cap B = {}, NEW n \in Nat, NEW t \in Int,
         NEW both, both = Newest(Newest(A, n) \cup Newest(B, n), n)
  PROVE  both \subseteq A \cup B /\ Cardinality(Since(both, t)) = AtMost(n, Cardinality(Since(A \cup B, t)))
<1>1. PICK TA : TA = Newest(A, n)
  OBVIOUS
<1>2. PICK TB : TB = Newest(B, n)
  OBVIOUS
<1>3. TA \subseteq A /\ Timed(TA) /\ TB \subseteq B /\ Timed(TB)
  BY <1>1, <1>2, NewestIs
<1>4. Timed(TA \cup TB)
  BY <1>3, FS_Union DEF Timed
<1>5. /\ Newest(TA \cup TB, n) \subseteq TA \cup TB
      /\ Cardinality(Since(Newest(TA \cup TB, n), t)) = AtMost(n, Cardinality(Since(TA \cup TB, t)))
  BY <1>4, NewestIs, NewestSince
<1>6. ASSUME NEW X, NEW Y, Timed(X), Timed(Y), X \cap Y = {}
      PROVE  /\ Cardinality(Since(X \cup Y, t)) = Cardinality(Since(X, t)) + Cardinality(Since(Y, t))
             /\ Cardinality(Since(X, t)) \in Nat /\ Cardinality(Since(Y, t)) \in Nat
  <2>1. Since(X, t) \in SUBSET X /\ Since(Y, t) \in SUBSET Y
    BY DEF Since
  <2>2. IsFiniteSet(Since(X, t)) /\ IsFiniteSet(Since(Y, t))
    BY <1>6, <2>1, FS_Subset DEF Timed
  <2>3. Since(X \cup Y, t) = Since(X, t) \cup Since(Y, t) /\ Since(X, t) \cap Since(Y, t) = {}
    BY <1>6 DEF Since
  <2> QED BY <2>2, <2>3, TwoParts, FS_CardinalityType
<1>7. /\ Cardinality(Since(A \cup B, t)) = Cardinality(Since(A, t)) + Cardinality(Since(B, t))
      /\ Cardinality(Since(A, t)) \in Nat /\ Cardinality(Since(B, t)) \in Nat
  BY <1>6
<1>8. Cardinality(Since(TA \cup TB, t)) = Cardinality(Since(TA, t)) + Cardinality(Since(TB, t))
  <2>1. TA \cap TB = {}
    BY <1>3
  <2> QED BY <1>3, <1>6, <2>1
<1>9. /\ Cardinality(Since(TA, t)) = AtMost(n, Cardinality(Since(A, t)))
      /\ Cardinality(Since(TB, t)) = AtMost(n, Cardinality(Since(B, t)))
  BY <1>1, <1>2, NewestSince
<1>10. AtMost(n, Cardinality(Since(TA \cup TB, t))) = AtMost(n, Cardinality(Since(A \cup B, t)))
  BY <1>7, <1>8, <1>9 DEF AtMost
<1> QED BY <1>1, <1>2, <1>3, <1>5, <1>10

\* The stock adjustments keep their times.
LEMMA EditsTyped == Spec => [](edits \in [Ids -> Seq(Nat)])
<1> DEFINE Edits == edits \in [Ids -> Seq(Nat)]
<1>1. Init => Edits
  <2> SUFFICES ASSUME Init PROVE Edits
    OBVIOUS
  <2>1. PastEdits \in Seq(Nat)
    <3>1. PastEdits \in Seq(0..Start) /\ Start \in Nat
      BY AccountsAssumption
    <3> QED BY <3>1
  <2> QED BY <2>1 DEF Init
<1>2. Edits /\ AccountsInv /\ [Next]_vars => Edits'
  <2> SUFFICES ASSUME Edits, AccountsInv, [Next]_vars PROVE Edits'
    OBVIOUS
  <2>1. clock \in Nat
    BY DEF AccountsInv, AccountsTyped
  <2>2. CASE \E u \in Ids : EditStock(u)
    <3>1. PICK u \in Ids : edits' = [edits EXCEPT ![u] = Append(@, clock)]
      BY <2>2 DEF EditStock
    <3>2. Append(edits[u], clock) \in Seq(Nat)
      BY <2>1
    <3> QED BY <3>1, <3>2
  <2>3. CASE ~\E u \in Ids : EditStock(u)
    <3>1. edits' = edits
      <4>1. ASSUME NEW u \in Ids, Administer(u) PROVE edits' = edits
        <5>1. ASSUME UNCHANGED Desk PROVE edits' = edits
          BY <5>1 DEF Desk
        <5> QED BY <4>1, <5>1 DEF Administer, CreateUser, PatchUser, DeleteUser, ResetPassword, PatchPermissions,
                                  BulkUsers, Starts
      <4>2. ASSUME NEW u \in Ids, Work(u) PROVE edits' = edits
        <5>1. ASSUME UNCHANGED Desk PROVE edits' = edits
          BY <5>1 DEF Desk
        <5> QED BY <2>3, <4>2, <5>1 DEF Work, IssueBegin, PostActivity, ListPurchases
      <4>3. ASSUME NEW r \in Requests, IssueEnd(r) \/ BulkRead(r) \/ Commit(r) PROVE edits' = edits
        <5>1. ASSUME UNCHANGED Desk PROVE edits' = edits
          BY <5>1 DEF Desk
        <5> QED BY <4>3, <5>1 DEF IssueEnd, BulkRead, Commit
      <4>4. CASE Tick \/ DropLists \/ (\E t \in tokens : Expire(t)) \/ UNCHANGED vars
        BY <4>4 DEF Expire, Tick, DropLists, vars, Desk
      <4> QED BY <4>1, <4>2, <4>3, <4>4 DEF Next
    <3> QED BY <3>1
  <2> QED BY <2>2, <2>3
<1> QED BY <1>1, <1>2, AccountsInvariant, PTL DEF Spec

\* The rows of both logs have times, and none is in both.
LEMMA RowsTimed ==
  ASSUME AccountsInv, edits \in [Ids -> Seq(Nat)], NEW u \in Ids
  PROVE  /\ Timed(ActRows(u)) /\ Timed(StockRows(u))
         /\ \A e \in ActRows(u) : e.kind = "activity"
         /\ \A e \in StockRows(u) : e.kind = "stock"
<1>1. log \in Seq(Row) /\ Len(log) \in Nat /\ DOMAIN log = 1..Len(log)
  BY DEF AccountsInv, AccountsTyped
<1>2. edits[u] \in Seq(Nat) /\ Len(edits[u]) \in Nat /\ DOMAIN edits[u] = 1..Len(edits[u])
  OBVIOUS
<1>3. IsFiniteSet(1..Len(log)) /\ IsFiniteSet(1..Len(edits[u]))
  <2>1. 1 \in Int /\ Len(log) \in Int /\ Len(edits[u]) \in Int
    BY <1>1, <1>2
  <2> QED BY <2>1, FS_Interval
<1>4. PICK mine : mine = {j \in DOMAIN log : log[j].by = u}
  OBVIOUS
<1>5. IsFiniteSet(mine)
  <2>1. mine \in SUBSET (1..Len(log))
    BY <1>1, <1>4
  <2> QED BY <1>3, <2>1, FS_Subset
<1>6. IsFiniteSet(ActRows(u))
  <2> DEFINE f == [i \in mine |-> [kind |-> "activity", row |-> i, at |-> log[i].at]]
  <2>1. f \in Surjection(mine, ActRows(u))
    BY <1>4 DEF Surjection, ActRows
  <2> QED BY <1>5, <2>1, FS_Surjection
<1>7. IsFiniteSet(StockRows(u))
  <2> DEFINE f == [i \in 1..Len(edits[u]) |-> [kind |-> "stock", row |-> i, at |-> edits[u][i]]]
  <2>1. f \in Surjection(1..Len(edits[u]), StockRows(u))
    BY <1>2 DEF Surjection, StockRows
  <2> QED BY <1>3, <2>1, FS_Surjection
<1>8. \A e \in ActRows(u) : e.at \in Int /\ e.kind = "activity"
  <2> SUFFICES ASSUME NEW e \in ActRows(u) PROVE e.at \in Int /\ e.kind = "activity"
    OBVIOUS
  <2>1. PICK i \in DOMAIN log : e = [kind |-> "activity", row |-> i, at |-> log[i].at]
    BY DEF ActRows
  <2>2. log[i] \in Row
    BY <1>1
  <2> QED BY <2>1, <2>2 DEF Row
<1>9. \A e \in StockRows(u) : e.at \in Int /\ e.kind = "stock"
  <2> SUFFICES ASSUME NEW e \in StockRows(u) PROVE e.at \in Int /\ e.kind = "stock"
    OBVIOUS
  <2>1. PICK i \in DOMAIN edits[u] : e = [kind |-> "stock", row |-> i, at |-> edits[u][i]]
    BY DEF StockRows
  <2>2. edits[u][i] \in Nat
    BY <1>2
  <2> QED BY <2>1, <2>2
<1> QED BY <1>6, <1>7, <1>8, <1>9 DEF Timed

\* Where days and weeks begin.
LEMMA DaysBegin ==
  ASSUME clock \in Nat
  PROVE  /\ Midnight \in Int /\ WeekStart \in Int /\ Midnight - Day \in Int /\ clock - WeekDays * Day \in Int
         /\ WeekStart <= Midnight - Day /\ Midnight - Day <= Midnight
         /\ WeekStart <= clock - WeekDays * Day
<1>1. Day \in Nat \ {0} /\ WeekDays \in Nat \ {0}
  BY AccountsAssumption
<1>2. clock % Day \in Nat
  BY <1>1
<1>3. WeekDays * Day \in Nat /\ WeekDays * Day >= Day
  BY <1>1
<1>4. PICK w \in Nat : w = WeekDays * Day
  BY <1>3
<1>5. PICK r \in Nat : r = clock % Day
  BY <1>2
<1>6. Midnight = clock - r /\ WeekStart = clock - r - w /\ Day \in Nat /\ Day <= w
  BY <1>1, <1>3, <1>4, <1>5 DEF Midnight, WeekStart
<1> QED BY <1>4, <1>6

\* When the ledger has room for the week, its groups are the week.
LEMMA GroupsAreTheWeek ==
  ASSUME clock \in Nat, NEW S, Timed(S), NEW ledger \in SUBSET S,
         Cardinality(Since(ledger, WeekStart)) = Cardinality(Since(S, WeekStart))
  PROVE  LET groups == LedgerGroups(ledger)
         IN  /\ groups.today \cup groups.yesterday \cup groups.thisWeek = Since(S, WeekStart)
             /\ groups.today = Since(S, Midnight)
             /\ Cardinality(groups.today) + Cardinality(groups.yesterday) + Cardinality(groups.thisWeek)
                  = Cardinality(Since(S, WeekStart))
<1>1. /\ Midnight \in Int /\ WeekStart \in Int /\ Midnight - Day \in Int
      /\ WeekStart <= Midnight - Day /\ Midnight - Day <= Midnight
  BY DaysBegin
<1>2. PICK m \in Int, d \in Int, w \in Int : m = Midnight /\ d = Midnight - Day /\ w = WeekStart /\ w <= d /\ d <= m
  BY <1>1
<1>3. Since(ledger, w) = Since(S, w)
  <2>1. Since(ledger, w) \in SUBSET Since(S, w) /\ Since(S, w) \in SUBSET S
    BY DEF Since
  <2>2. IsFiniteSet(Since(S, w))
    BY <2>1, FS_Subset DEF Timed
  <2> QED BY <1>2, <2>1, <2>2, FS_Subset
<1>4. \A t \in Int : t >= w => Since(ledger, t) = Since(S, t)
  <2> SUFFICES ASSUME NEW t \in Int, t >= w PROVE Since(ledger, t) = Since(S, t)
    OBVIOUS
  <2>1. Since(ledger, t) = Since(Since(ledger, w), t) /\ Since(S, t) = Since(Since(S, w), t)
    BY DEF Since, Timed
  <2> QED BY <1>3, <2>1
<1>5. PICK M : M = Since(S, m)
  OBVIOUS
<1>6. PICK D : D = Since(S, d)
  OBVIOUS
<1>7. PICK W : W = Since(S, w)
  OBVIOUS
<1>8. M \subseteq D /\ D \subseteq W /\ W \subseteq S
  BY <1>2, <1>5, <1>6, <1>7 DEF Since, Timed
<1>9. IsFiniteSet(M) /\ IsFiniteSet(D \ M) /\ IsFiniteSet(W \ D)
  <2>1. M \in SUBSET S /\ D \ M \in SUBSET S /\ W \ D \in SUBSET S
    BY <1>8
  <2> QED BY <2>1, FS_Subset DEF Timed
<1>10. IsFiniteSet(M \cup (D \ M)) /\ Cardinality(M \cup (D \ M)) = Cardinality(M) + Cardinality(D \ M)
  <2>1. M \cap (D \ M) = {}
    OBVIOUS
  <2> QED BY <1>9, <2>1, TwoParts
<1>11. Cardinality(D \cup (W \ D)) = Cardinality(D) + Cardinality(W \ D)
  <2>1. D \cap (W \ D) = {} /\ D = M \cup (D \ M)
    BY <1>8
  <2> QED BY <1>9, <1>10, <2>1, TwoParts
<1>12. M \cup (D \ M) = D /\ D \cup (W \ D) = W /\ M \cup (D \ M) \cup (W \ D) = W
  BY <1>8
<1>13. /\ LedgerGroups(ledger).today = M /\ LedgerGroups(ledger).yesterday = D \ M
       /\ LedgerGroups(ledger).thisWeek = W \ D
  <2>1. Since(ledger, Midnight) = M /\ Since(ledger, Midnight - Day) = D /\ Since(ledger, WeekStart) = W
    BY <1>2, <1>4, <1>5, <1>6, <1>7
  <2> QED BY <2>1 DEF LedgerGroups
<1>14. Cardinality(M) + Cardinality(D \ M) + Cardinality(W \ D) = Cardinality(W)
  BY <1>10, <1>11, <1>12
<1> QED BY <1>2, <1>5, <1>7, <1>12, <1>13, <1>14

\* A user's ledger holds the newest rows of both logs and leaves none out; its
\* groups hold the week, if it has room for it, and the rows the figures beside
\* it count.
THEOREM LedgerHeld == Spec => []LedgerTrue
<1>1. AccountsInv /\ edits \in [Ids -> Seq(Nat)] => LedgerTrue
  <2> SUFFICES ASSUME AccountsInv, edits \in [Ids -> Seq(Nat)], NEW u \in Ids
               PROVE  LET all == ActRows(u) \cup StockRows(u)
                          ledger == Ledger(u)
                          groups == LedgerGroups(ledger)
                          inGroups == groups.today \cup groups.yesterday \cup groups.thisWeek
                          week == Since(all, WeekStart)
                      IN  /\ ledger \subseteq all
                          /\ \A e \in all :
                               Cardinality(Since(ledger, e.at)) = AtMost(LedgerLimit, Cardinality(Since(all, e.at)))
                          /\ Cardinality(week) <= LedgerLimit =>
                               /\ inGroups = week
                               /\ Cardinality(groups.today) + Cardinality(groups.yesterday)
                                    + Cardinality(groups.thisWeek) = Cardinality(week)
                               /\ ActivityCountWeek(u) = Cardinality(Since(OfActivity(inGroups), clock - WeekDays * Day))
                               /\ ScansToday(u) <= Cardinality(OfActivity(groups.today))
                          /\ ScansToday(u) <= ScansTotal(u)
    BY DEF LedgerTrue
  <2>1. PICK A : A = ActRows(u)
    OBVIOUS
  <2>2. PICK B : B = StockRows(u)
    OBVIOUS
  <2>3. PICK all : all = A \cup B
    OBVIOUS
  <2>4. PICK ledger : ledger = Ledger(u)
    OBVIOUS
  <2>5. /\ Timed(A) /\ Timed(B) /\ A \cap B = {} /\ \A e \in all : e.kind = "activity" <=> e \in A
    BY <2>1, <2>2, <2>3, RowsTimed
  <2>6. Timed(all)
    BY <2>3, <2>5, FS_Union DEF Timed
  <2>7. clock \in Nat /\ LedgerLimit \in Nat
    BY AccountsAssumption DEF AccountsInv, AccountsTyped
  <2>8. ledger = Newest(Newest(A, LedgerLimit) \cup Newest(B, LedgerLimit), LedgerLimit)
    BY <2>1, <2>2, <2>4 DEF Ledger
  <2>9. /\ ledger \subseteq all
        /\ \A t \in Int : Cardinality(Since(ledger, t)) = AtMost(LedgerLimit, Cardinality(Since(all, t)))
    <3>1. ASSUME NEW t \in Int
          PROVE  ledger \subseteq all /\ Cardinality(Since(ledger, t)) = AtMost(LedgerLimit, Cardinality(Since(all, t)))
      <4>1. Timed(A) /\ Timed(B) /\ A \cap B = {} /\ LedgerLimit \in Nat
        BY <2>5, <2>7
      <4>2. PICK n \in Nat : n = LedgerLimit
        BY <4>1
      <4>3. ledger = Newest(Newest(A, n) \cup Newest(B, n), n)
        BY <2>8, <4>2
      <4>4. ledger \subseteq A \cup B /\ Cardinality(Since(ledger, t)) = AtMost(n, Cardinality(Since(A \cup B, t)))
        BY ONLY <4>1, <4>3, n \in Nat, t \in Int, MergedSince
      <4> QED BY <2>3, <4>2, <4>4
    <3>2. 0 \in Int
      OBVIOUS
    <3> QED BY <3>1, <3>2
  <2>10. \A e \in all : Cardinality(Since(ledger, e.at)) = AtMost(LedgerLimit, Cardinality(Since(all, e.at)))
    BY <2>6, <2>9 DEF Timed
  <2>11. /\ Midnight \in Int /\ WeekStart \in Int /\ clock - WeekDays * Day \in Int
         /\ WeekStart <= Midnight /\ WeekStart <= clock - WeekDays * Day
    BY <2>7, DaysBegin
  <2>12. PICK groups : groups = LedgerGroups(ledger)
    OBVIOUS
  <2>13. PICK inGroups : inGroups = groups.today \cup groups.yesterday \cup groups.thisWeek
    OBVIOUS
  <2>14. ASSUME Cardinality(Since(all, WeekStart)) <= LedgerLimit
         PROVE  /\ inGroups = Since(all, WeekStart)
                /\ groups.today = Since(all, Midnight)
                /\ Cardinality(groups.today) + Cardinality(groups.yesterday)
                     + Cardinality(groups.thisWeek) = Cardinality(Since(all, WeekStart))
    <3>1. Cardinality(Since(all, WeekStart)) \in Nat
      <4>1. Since(all, WeekStart) \in SUBSET all
        BY DEF Since
      <4> QED BY <2>6, <4>1, FS_Subset, FS_CardinalityType DEF Timed
    <3>2. Cardinality(Since(ledger, WeekStart)) = Cardinality(Since(all, WeekStart))
      BY <2>7, <2>9, <2>11, <2>14, <3>1 DEF AtMost
    <3>3. ledger \in SUBSET all
      BY <2>9
    <3> QED BY <2>6, <2>7, <2>12, <2>13, <3>2, <3>3, GroupsAreTheWeek
  <2>15. ASSUME Cardinality(Since(all, WeekStart)) <= LedgerLimit
         PROVE  ActivityCountWeek(u) = Cardinality(Since(OfActivity(inGroups), clock - WeekDays * Day))
    <3>1. PICK b \in Int : b = clock - WeekDays * Day /\ WeekStart <= b
      BY <2>11
    <3>2. Since(A, b) = Since(OfActivity(Since(all, WeekStart)), b)
      BY <2>3, <2>5, <2>6, <2>11, <3>1 DEF Since, OfActivity, Timed
    <3> QED BY <2>1, <2>14, <2>15, <3>1, <3>2 DEF ActivityCountWeek
  <2>16. Since(ScanRows(u), Midnight) \subseteq Since(A, Midnight) /\ Since(ScanRows(u), Midnight) \subseteq ScanRows(u)
         /\ ScanRows(u) \subseteq A
    BY <2>1 DEF Since, ScanRows
  <2>17. IsFiniteSet(ScanRows(u)) /\ IsFiniteSet(Since(A, Midnight))
    <3>1. ScanRows(u) \in SUBSET A /\ Since(A, Midnight) \in SUBSET A
      BY <2>16 DEF Since
    <3> QED BY <2>5, <3>1, FS_Subset DEF Timed
  <2>18. ScansToday(u) <= ScansTotal(u) /\ ScansToday(u) <= Cardinality(Since(A, Midnight))
    BY <2>16, <2>17, FS_Subset DEF ScansToday, ScansTotal
  <2>19. ASSUME Cardinality(Since(all, WeekStart)) <= LedgerLimit
         PROVE  ScansToday(u) <= Cardinality(OfActivity(groups.today))
    <3>1. OfActivity(Since(all, Midnight)) = Since(A, Midnight)
      BY <2>3, <2>5 DEF Since, OfActivity
    <3> QED BY <2>14, <2>18, <2>19, <3>1
  <2>20. Cardinality(Since(all, WeekStart)) <= LedgerLimit =>
           /\ inGroups = Since(all, WeekStart)
           /\ Cardinality(groups.today) + Cardinality(groups.yesterday)
                + Cardinality(groups.thisWeek) = Cardinality(Since(all, WeekStart))
           /\ ActivityCountWeek(u) = Cardinality(Since(OfActivity(inGroups), clock - WeekDays * Day))
           /\ ScansToday(u) <= Cardinality(OfActivity(groups.today))
    BY <2>14, <2>15, <2>19
  <2> QED BY <2>1, <2>2, <2>3, <2>4, <2>9, <2>10, <2>12, <2>13, <2>18, <2>20
<1> QED BY <1>1, AccountsInvariant, EditsTyped, PTL

-----------------------------------------------------------------------------
(* Inboxes. *)

NoticeKeys == {"none", "device", "variance", "edit", "evening", "assigned", "verified", "reorder"}
                \X (Goods \cup {Never}) \X (Members \cup {Never}) \X Nat
Notices == [to : Members, kind : Kinds, key : NoticeKeys, roles : SUBSET Ranks, read : BOOLEAN, cleared : BOOLEAN]
Alerts == [item : Goods, day : Nat, to : SUBSET Members, new : SUBSET Members]

InboxTyped ==
  /\ rank \in [Members -> Ranks]
  /\ inbox \in Seq(Notices)
  /\ asking \in [Askers -> Alerts \cup {Never}]
  /\ today \in Nat
  /\ \A d \in due : d.to \subseteq Members

\* Whom a notice with this key is for, as the roles are.
Audience(key) ==
  IF key[1] \in {"edit", "evening", "verified"} THEN InOffice
  ELSE IF key[1] = "assigned" THEN {m \in Members : rank[m] = "staff"}
  ELSE IF key[1] = "reorder" THEN {key[3]}
  ELSE Members

\* Who has a notice is one of those it is for, and may see it, if his role has
\* not changed.
Fits(box) ==
  \A n \in DOMAIN box :
    \/ box[n].to \in moved
    \/ box[n].to \in Audience(box[n].key) /\ Visible(box[n], rank[box[n].to])

Reaches(box, to, key) ==
  \/ to \cap moved # {}
  \/ \E n \in DOMAIN box : box[n].key = key /\ box[n].to \in to \cup moved

\* Those of the office whom a request to tell them leaves out have been told.
ToldToday(box, q) == \A m \in q.to \ q.new : Reaches(box, {m}, AlertKey(q.item, m, q.day))

InboxInv ==
  /\ InboxTyped
  /\ Fits(inbox)
  /\ \A d \in due : Reaches(inbox, d.to, d.key)
  /\ \A a \in Askers : asking[a] # Never => ToldToday(inbox, asking[a])

Grown(box, more) == DOMAIN box \subseteq DOMAIN more /\ \A n \in DOMAIN box : more[n] = box[n]

LEMMA AppendGrows ==
  ASSUME NEW box \in Seq(Notices), NEW n \in Notices
  PROVE  /\ Append(box, n) \in Seq(Notices)
         /\ DOMAIN Append(box, n) = DOMAIN box \cup {Len(box) + 1} /\ Len(box) + 1 \notin DOMAIN box
         /\ Append(box, n)[Len(box) + 1] = n
         /\ Grown(box, Append(box, n))
BY DEF Grown

\* After a notice has been sent, one of those it is for has one with its key.
LEMMA EmitReaches ==
  ASSUME InboxTyped, NEW box \in Seq(Notices), Fits(box),
         NEW to \in SUBSET Members, NEW kind \in Kinds, NEW key \in NoticeKeys, NEW roles \in SUBSET Ranks,
         to \in {{}, Audience(key)},
         \A m \in to : roles = {} \/ rank[m] \in roles,
         NEW more \in Emit1(box, to, kind, key, roles)
  PROVE  /\ more \in Seq(Notices) /\ Fits(more) /\ Grown(box, more)
         /\ to # {} => Reaches(more, to, key)
<1>1. CASE to = {} \/ Holds(box, key)
  <2>1. more = box
    BY <1>1 DEF Emit1
  <2>2. ASSUME to # {}
        PROVE  Reaches(box, to, key)
    <3>1. PICK n \in DOMAIN box : box[n].key = key
      BY <1>1, <2>2 DEF Holds
    <3> QED BY <2>2, <3>1 DEF Fits, Reaches
  <2> QED BY <2>1, <2>2 DEF Grown
<1>2. CASE ~(to = {} \/ Holds(box, key))
  <2>1. PICK m \in to : more = Append(box, Notice(m, kind, key, roles))
    BY <1>2 DEF Emit1
  <2>2. PICK new : new = Notice(m, kind, key, roles)
    OBVIOUS
  <2>3. new \in Notices /\ new.to = m /\ new.key = key /\ new.roles = roles
    BY <2>1, <2>2 DEF Notice, Notices
  <2>4. /\ more \in Seq(Notices) /\ Grown(box, more)
        /\ DOMAIN more = DOMAIN box \cup {Len(box) + 1}
        /\ more[Len(box) + 1] = new
    BY <2>1, <2>2, <2>3, AppendGrows
  <2>5. Fits(more)
    <3> SUFFICES ASSUME NEW n \in DOMAIN more
                 PROVE  \/ more[n].to \in moved
                        \/ more[n].to \in Audience(more[n].key) /\ Visible(more[n], rank[more[n].to])
      BY DEF Fits
    <3>1. CASE n \in DOMAIN box
      BY <2>4, <3>1 DEF Fits, Grown
    <3>2. CASE n = Len(box) + 1
      BY <2>1, <2>3, <2>4, <3>2 DEF Visible
    <3> QED BY <2>4, <3>1, <3>2
  <2>6. Reaches(more, to, key)
    BY <2>1, <2>3, <2>4 DEF Reaches
  <2> QED BY <2>4, <2>5, <2>6
<1> QED BY <1>1, <1>2

LEMMA GrownReaches ==
  ASSUME NEW box, NEW more, Grown(box, more), NEW to, NEW key, Reaches(box, to, key)
  PROVE  Reaches(more, to, key)
BY DEF Grown, Reaches

\* A request that only adds notices, owes some of them, and may be asking.
LEMMA SendKeeps ==
  ASSUME InboxInv, inbox' \in Seq(Notices), Fits(inbox'), Grown(inbox, inbox'),
         UNCHANGED <<rank, today, moved>>,
         asking' \in [Askers -> Alerts \cup {Never}],
         \A a \in Askers : asking'[a] \in {asking[a], Never} \/ ToldToday(inbox', asking'[a]),
         \A d \in due' : d \in due \/ (d.to \subseteq Members /\ Reaches(inbox', d.to, d.key))
  PROVE  InboxInv'
<1>1. InboxTyped'
  BY DEF InboxInv, InboxTyped
<1>2. Fits(inbox)'
  BY DEF Fits, Audience, InOffice, Visible
<1>3. \A d \in due' : Reaches(inbox, d.to, d.key)'
  BY GrownReaches DEF InboxInv, Reaches, Grown
<1>4. ASSUME NEW a \in Askers, asking'[a] # Never
      PROVE  ToldToday(inbox, asking[a])'
  <2>1. ToldToday(inbox', asking'[a])
    <3>1. CASE asking'[a] = asking[a]
      <4>1. ToldToday(inbox, asking[a])
        BY <1>4, <3>1 DEF InboxInv
      <4> QED BY <3>1, <4>1, GrownReaches DEF ToldToday
    <3> QED BY <1>4, <3>1
  <2> QED BY <2>1 DEF ToldToday, Reaches, AlertKey, Key
<1> QED BY <1>1, <1>2, <1>3, <1>4 DEF InboxInv

LEMMA SaveStockKeeps ==
  ASSUME InboxInv, NEW u \in Members, NEW i \in Goods, NEW before, NEW found, NEW isEdit,
         SaveStock(u, i, before, found, isEdit)
  PROVE  InboxInv'
<1> DEFINE varies == Expected[i] # Never /\ Diverges(Expected[i], found)
           byStaff == isEdit /\ rank[u] \notin Office /\ found # before
           key1 == Key("variance", i, Never, today)
           key2 == Key("edit", i, u, today)
<1>1. InboxTyped /\ inbox \in Seq(Notices) /\ Fits(inbox)
  BY DEF InboxInv, InboxTyped
<1>2. /\ key1 \in NoticeKeys /\ key2 \in NoticeKeys
      /\ Audience(key1) = Members /\ Audience(key2) = InOffice
      /\ Recipients(FALSE, {}) = Members /\ Recipients(TRUE, {}) = InOffice
      /\ InOffice \subseteq Members
  BY <1>1 DEF Key, NoticeKeys, InboxTyped, Audience, Recipients, InOffice
<1>3. PICK to1, to2 : to1 = (IF varies THEN Members ELSE {}) /\ to2 = (IF byStaff THEN InOffice ELSE {})
  OBVIOUS
<1>4. PICK box \in Emit1(inbox, to1, "variance", key1, {}) : inbox' \in Emit1(box, to2, "edit", key2, {})
  BY <1>2, <1>3 DEF SaveStock
<1>5. due' = due \cup Owe(to1, key1) \cup Owe(to2, key2) /\ UNCHANGED <<rank, asking, today, moved>>
  BY <1>2, <1>3 DEF SaveStock, Owe
<1> HIDE DEF key1, key2, varies, byStaff
<1>6. to1 \in {{}, Audience(key1)} /\ to2 \in {{}, Audience(key2)} /\ to1 \subseteq Members /\ to2 \subseteq Members
  BY <1>2, <1>3
<1>7. /\ box \in Seq(Notices) /\ Fits(box) /\ Grown(inbox, box)
      /\ to1 # {} => Reaches(box, to1, key1)
  BY <1>1, <1>2, <1>4, <1>6, EmitReaches DEF Kinds
<1>8. /\ inbox' \in Seq(Notices) /\ Fits(inbox') /\ Grown(box, inbox')
      /\ to2 # {} => Reaches(inbox', to2, key2)
  BY <1>1, <1>2, <1>4, <1>6, <1>7, EmitReaches DEF Kinds
<1>9. Grown(inbox, inbox')
  BY <1>7, <1>8 DEF Grown
<1>10. to1 # {} => Reaches(inbox', to1, key1)
  BY <1>7, <1>8, GrownReaches
<1>11. \A d \in due' : d \in due \/ (d.to \subseteq Members /\ Reaches(inbox', d.to, d.key))
  BY <1>5, <1>6, <1>8, <1>10 DEF Owe
<1> QED BY <1>1, <1>5, <1>8, <1>9, <1>11, SendKeeps DEF InboxTyped

LEMMA OneNoticeKeeps ==
  ASSUME InboxInv, NEW to \in SUBSET Members, NEW kind \in Kinds, NEW key \in NoticeKeys, NEW roles \in SUBSET Ranks,
         to = Audience(key), \A m \in to : roles = {} \/ rank[m] \in roles,
         inbox' \in Emit1(inbox, to, kind, key, roles), due' = due \cup Owe(to, key),
         UNCHANGED <<rank, asking, today, moved>>
  PROVE  InboxInv'
<1>1. InboxTyped /\ inbox \in Seq(Notices) /\ Fits(inbox)
  BY DEF InboxInv, InboxTyped
<1>2. /\ inbox' \in Seq(Notices) /\ Fits(inbox') /\ Grown(inbox, inbox')
      /\ to # {} => Reaches(inbox', to, key)
  BY <1>1, EmitReaches
<1>3. \A d \in due' : d \in due \/ (d.to \subseteq Members /\ Reaches(inbox', d.to, d.key))
  BY <1>2 DEF Owe
<1> QED BY <1>1, <1>2, <1>3, SendKeeps DEF InboxTyped

LEMMA NoticesKeep ==
  ASSUME InboxInv, EveningReminder \/ DeliveryNotice("assigned", {"staff"}) \/ DeliveryNotice("verified", Office)
  PROVE  InboxInv'
<1>1. InboxTyped
  BY DEF InboxInv
<1>2. CASE EveningReminder
  <2>1. PICK key : key = Key("evening", Never, Never, today)
    OBVIOUS
  <2>2. key \in NoticeKeys /\ key[1] = "evening"
    BY <1>1, <2>1 DEF Key, NoticeKeys, InboxTyped
  <2>3. Recipients(TRUE, {}) = Audience(key) /\ Audience(key) \in SUBSET Members
    BY <2>2 DEF Recipients, Audience, InOffice
  <2> QED BY <1>2, <2>1, <2>2, <2>3, OneNoticeKeeps DEF EveningReminder, Kinds
<1>3. CASE DeliveryNotice("assigned", {"staff"})
  <2>1. PICK key : key = Key("assigned", Never, Never, 0)
    OBVIOUS
  <2>2. key \in NoticeKeys /\ key[1] = "assigned" /\ {"staff"} \in SUBSET Ranks
    BY <2>1 DEF Key, NoticeKeys, Ranks
  <2>3. /\ Recipients(FALSE, {"staff"}) = Audience(key) /\ Audience(key) \in SUBSET Members
        /\ \A m \in Audience(key) : rank[m] \in {"staff"}
    BY <2>2 DEF Recipients, Audience
  <2> QED BY <1>3, <2>1, <2>2, <2>3, OneNoticeKeeps DEF DeliveryNotice, Kinds
<1>4. CASE DeliveryNotice("verified", Office)
  <2>1. PICK key : key = Key("verified", Never, Never, 0)
    OBVIOUS
  <2>2. key \in NoticeKeys /\ key[1] = "verified" /\ Office \in SUBSET Ranks
    BY <2>1 DEF Key, NoticeKeys, Ranks
  <2>3. /\ Recipients(FALSE, Office) = Audience(key) /\ Audience(key) \in SUBSET Members
        /\ \A m \in Audience(key) : rank[m] \in Office
    BY <2>2 DEF Recipients, Audience, InOffice, Office
  <2> QED BY <1>4, <2>1, <2>2, <2>3, OneNoticeKeeps DEF DeliveryNotice, Kinds
<1> QED BY <1>2, <1>3, <1>4

LEMMA ClientEventKeeps ==
  ASSUME InboxInv, NEW u \in Members, NEW key \in {NoKey, DeviceKey}, ClientEvent(u, key)
  PROVE  InboxInv'
<1>1. InboxTyped /\ inbox \in Seq(Notices) /\ Fits(inbox)
  BY DEF InboxInv, InboxTyped
<1>2. UNCHANGED <<rank, asking, today, moved, due>>
  BY DEF ClientEvent
<1>3. key \in NoticeKeys /\ Audience(key) = Members
  BY DEF NoKey, DeviceKey, Key, NoticeKeys, Audience
<1>4. CASE inbox' = inbox
  BY <1>1, <1>2, <1>4, SendKeeps DEF Grown, InboxTyped
<1>5. CASE inbox' = Append(inbox, Notice(u, "failed", key, {}))
  <2>1. PICK new : new = Notice(u, "failed", key, {})
    OBVIOUS
  <2>2. new \in Notices /\ new.to = u /\ new.key = key /\ new.roles = {}
    BY <1>3, <2>1 DEF Notice, Notices, Kinds
  <2>3. /\ inbox' \in Seq(Notices) /\ Grown(inbox, inbox')
        /\ DOMAIN inbox' = DOMAIN inbox \cup {Len(inbox) + 1}
        /\ inbox'[Len(inbox) + 1] = new
    BY <1>1, <1>5, <2>1, <2>2, AppendGrows
  <2>4. Fits(inbox')
    <3> SUFFICES ASSUME NEW n \in DOMAIN inbox'
                 PROVE  \/ inbox'[n].to \in moved
                        \/ inbox'[n].to \in Audience(inbox'[n].key) /\ Visible(inbox'[n], rank[inbox'[n].to])
      BY DEF Fits
    <3>1. CASE n \in DOMAIN inbox
      BY <1>1, <2>3, <3>1 DEF Fits, Grown
    <3>2. CASE n = Len(inbox) + 1
      BY <1>3, <2>2, <2>3, <3>2 DEF Visible
    <3> QED BY <2>3, <3>1, <3>2
  <2> QED BY <1>1, <1>2, <2>3, <2>4, SendKeeps DEF InboxTyped
<1> QED BY <1>4, <1>5 DEF ClientEvent

LEMMA NotifyBeginKeeps ==
  ASSUME InboxInv, NEW a \in Askers, NEW u \in Members, NEW i \in Goods, NotifyOwnerBegin(a, u, i)
  PROVE  InboxInv'
<1>1. InboxTyped /\ inbox \in Seq(Notices) /\ Fits(inbox)
  BY DEF InboxInv, InboxTyped
<1>2. PICK q : q = [item |-> i, day |-> today, to |-> InOffice \ {u},
                    new |-> {m \in InOffice \ {u} : ~Holds(inbox, AlertKey(i, m, today))}]
  OBVIOUS
<1>3. q \in Alerts /\ q.item = i /\ q.day = today /\ q.to \subseteq Members
  BY <1>1, <1>2 DEF Alerts, InboxTyped, InOffice
<1>4. asking' = [asking EXCEPT ![a] = q] /\ UNCHANGED <<rank, inbox, today, moved, due>>
  BY <1>2 DEF NotifyOwnerBegin
<1>5. ToldToday(inbox, q)
  <2> SUFFICES ASSUME NEW m \in q.to \ q.new
               PROVE  Reaches(inbox, {m}, AlertKey(q.item, m, q.day))
    BY DEF ToldToday
  <2>1. Holds(inbox, AlertKey(q.item, m, q.day))
    BY <1>2
  <2>2. Audience(AlertKey(q.item, m, q.day)) = {m}
    BY DEF Audience, AlertKey, Key
  <2>3. PICK n \in DOMAIN inbox : inbox[n].key = AlertKey(q.item, m, q.day)
    BY <2>1 DEF Holds
  <2> QED BY <1>1, <2>2, <2>3 DEF Fits, Reaches
<1>6. /\ asking' \in [Askers -> Alerts \cup {Never}]
      /\ \A b \in Askers : asking'[b] \in {asking[b], Never} \/ ToldToday(inbox', asking'[b])
  BY <1>1, <1>3, <1>4, <1>5 DEF InboxTyped
<1>7. inbox' \in Seq(Notices) /\ Fits(inbox') /\ Grown(inbox, inbox')
  BY <1>1, <1>4 DEF Grown
<1> QED BY <1>4, <1>6, <1>7, SendKeeps

LEMMA NotifyEndKeeps ==
  ASSUME InboxInv, NEW a \in Askers, NotifyOwnerEnd(a)
  PROVE  InboxInv'
<1>1. InboxTyped /\ inbox \in Seq(Notices) /\ Fits(inbox)
  BY DEF InboxInv, InboxTyped
<1>2. PICK q \in Alerts : q = asking[a]
  BY <1>1 DEF NotifyOwnerEnd, InboxTyped
<1>3. ToldToday(inbox, q)
  BY <1>2 DEF InboxInv, NotifyOwnerEnd
<1>4. /\ asking' = [asking EXCEPT ![a] = Never]
      /\ UNCHANGED <<rank, today, moved>>
  BY DEF NotifyOwnerEnd
<1>5. /\ asking' \in [Askers -> Alerts \cup {Never}]
      /\ \A b \in Askers : asking'[b] \in {asking[b], Never} \/ ToldToday(inbox', asking'[b])
  BY <1>1, <1>4 DEF InboxTyped
<1>6. CASE UNCHANGED <<inbox, due>>
  BY <1>1, <1>4, <1>5, <1>6, SendKeeps DEF Grown
<1>7. CASE ~UNCHANGED <<inbox, due>>
  <2>1. PICK sent : sent = {Notice(m, "reorder", AlertKey(q.item, m, q.day), {}) : m \in q.new}
    OBVIOUS
  <2>2. PICK s \in [1..Cardinality(sent) -> sent] : {s[n] : n \in DOMAIN s} = sent /\ inbox' = inbox \o s
    BY <1>2, <1>7, <2>1 DEF NotifyOwnerEnd
  <2>3. due' = due \cup {[to |-> {m}, key |-> AlertKey(q.item, m, q.day)] : m \in q.to}
    BY <1>2, <1>7, <2>1 DEF NotifyOwnerEnd
  <2>4. \A m \in q.new : LET r == Notice(m, "reorder", AlertKey(q.item, m, q.day), {}) IN
          /\ r \in Notices /\ r.to = m /\ r.key = AlertKey(q.item, m, q.day) /\ r.roles = {}
          /\ Audience(r.key) = {m}
    BY DEF Notice, Notices, Alerts, AlertKey, Key, NoticeKeys, Kinds, Audience
  <2>5. IsFiniteSet(q.new)
    BY InboxAssumption, FS_Subset DEF Alerts
  <2>6. IsFiniteSet(sent)
    <3>1. [m \in q.new |-> Notice(m, "reorder", AlertKey(q.item, m, q.day), {})] \in Surjection(q.new, sent)
      BY <2>1 DEF Surjection
    <3> QED BY <2>5, <3>1, FS_Surjection
  <2>7. Cardinality(sent) \in Nat
    BY <2>6, FS_CardinalityType
  <2>8. s \in Seq(Notices) /\ DOMAIN s = 1..Cardinality(sent)
    BY <2>1, <2>2, <2>4, <2>7
  <2>9. /\ inbox' \in Seq(Notices) /\ Grown(inbox, inbox')
        /\ \A k \in DOMAIN s : Len(inbox) + k \in DOMAIN inbox' /\ inbox'[Len(inbox) + k] = s[k]
        /\ \A n \in DOMAIN inbox' : n \in DOMAIN inbox \/ \E k \in DOMAIN s : n = Len(inbox) + k
    <3>1. inbox' = inbox \o s /\ inbox \in Seq(Notices) /\ s \in Seq(Notices)
      BY <1>1, <2>2, <2>8
    <3>2. Len(inbox) \in Nat /\ Len(s) \in Nat /\ DOMAIN inbox = 1..Len(inbox) /\ DOMAIN s = 1..Len(s)
      BY <3>1
    <3>3. inbox' \in Seq(Notices) /\ DOMAIN inbox' = 1..(Len(inbox) + Len(s))
      BY <3>1
    <3>4. \A n \in 1..(Len(inbox) + Len(s)) : inbox'[n] = IF n <= Len(inbox) THEN inbox[n] ELSE s[n - Len(inbox)]
      BY <3>1
    <3>5. Grown(inbox, inbox')
      BY <3>2, <3>3, <3>4 DEF Grown
    <3>6. ASSUME NEW k \in DOMAIN s
          PROVE  Len(inbox) + k \in DOMAIN inbox' /\ inbox'[Len(inbox) + k] = s[k]
      BY <3>2, <3>3, <3>4
    <3>7. ASSUME NEW n \in DOMAIN inbox', n \notin DOMAIN inbox
          PROVE  \E k \in DOMAIN s : n = Len(inbox) + k
      <4>1. n - Len(inbox) \in DOMAIN s /\ n = Len(inbox) + (n - Len(inbox))
        BY <3>2, <3>3, <3>7
      <4> QED BY <4>1
    <3> QED BY <3>3, <3>5, <3>6, <3>7
  <2>10. \A k \in DOMAIN s : s[k].to \in Audience(s[k].key) /\ s[k].roles = {}
    <3> TAKE k \in DOMAIN s
    <3>1. PICK m \in q.new : s[k] = Notice(m, "reorder", AlertKey(q.item, m, q.day), {})
      BY <2>1, <2>2
    <3> QED BY <2>4, <3>1
  <2>11. Fits(inbox')
    <3> SUFFICES ASSUME NEW n \in DOMAIN inbox'
                 PROVE  \/ inbox'[n].to \in moved
                        \/ inbox'[n].to \in Audience(inbox'[n].key) /\ Visible(inbox'[n], rank[inbox'[n].to])
      BY DEF Fits
    <3>1. CASE n \in DOMAIN inbox
      BY <1>1, <2>9, <3>1 DEF Fits, Grown
    <3>2. CASE n \notin DOMAIN inbox
      BY <2>9, <2>10, <3>2 DEF Visible
    <3> QED BY <3>1, <3>2
  <2>12. ASSUME NEW m \in q.to
         PROVE  Reaches(inbox', {m}, AlertKey(q.item, m, q.day))
    <3>1. CASE m \in q.new
      <4>1. PICK k \in DOMAIN s : s[k] = Notice(m, "reorder", AlertKey(q.item, m, q.day), {})
        BY <2>1, <2>2, <3>1
      <4> QED BY <2>4, <2>9, <3>1, <4>1 DEF Reaches
    <3>2. CASE m \notin q.new
      BY <1>3, <2>9, <3>2, GrownReaches DEF ToldToday
    <3> QED BY <3>1, <3>2
  <2>13. \A d \in due' : d \in due \/ (d.to \subseteq Members /\ Reaches(inbox', d.to, d.key))
    BY <2>3, <2>12 DEF Alerts
  <2> QED BY <1>4, <1>5, <2>9, <2>11, <2>13, SendKeeps
<1> QED BY <1>6, <1>7

\* Reading and clearing leave the notices to whom they are.
LEMMA TouchKeeps ==
  ASSUME InboxInv, inbox' \in Seq(Notices), DOMAIN inbox' = DOMAIN inbox,
         \A n \in DOMAIN inbox : /\ inbox'[n].to = inbox[n].to /\ inbox'[n].key = inbox[n].key
                                 /\ inbox'[n].roles = inbox[n].roles,
         UNCHANGED <<rank, asking, today, due, moved>>
  PROVE  InboxInv'
<1>1. InboxTyped'
  BY DEF InboxInv, InboxTyped
<1>2. Fits(inbox')
  <2> SUFFICES ASSUME NEW n \in DOMAIN inbox'
               PROVE  \/ inbox'[n].to \in moved
                      \/ inbox'[n].to \in Audience(inbox'[n].key) /\ Visible(inbox'[n], rank[inbox'[n].to])
    BY DEF Fits
  <2>1. \/ inbox[n].to \in moved
        \/ inbox[n].to \in Audience(inbox[n].key) /\ Visible(inbox[n], rank[inbox[n].to])
    BY DEF InboxInv, Fits
  <2> QED BY <2>1 DEF Visible
<1>3. Fits(inbox)'
  BY <1>2 DEF Fits, Audience, InOffice, Visible
<1>4. ASSUME NEW to, NEW key, Reaches(inbox, to, key)
      PROVE  Reaches(inbox', to, key)
  BY <1>4 DEF Reaches
<1>5. \A d \in due' : Reaches(inbox, d.to, d.key)'
  BY <1>4 DEF InboxInv, Reaches
<1>6. ASSUME NEW a \in Askers, asking'[a] # Never
      PROVE  ToldToday(inbox, asking[a])'
  <2>1. ToldToday(inbox', asking[a])
    BY <1>4, <1>6 DEF InboxInv, ToldToday
  <2> QED BY <2>1 DEF ToldToday, Reaches, AlertKey, Key
<1> QED BY <1>1, <1>3, <1>5, <1>6 DEF InboxInv

LEMMA ReadingKeeps ==
  ASSUME InboxInv, NEW u \in Members,
         \/ \E n \in DOMAIN inbox, read \in BOOLEAN : PatchNotification(u, n, read)
         \/ \E kinds \in {Kinds, {"reorder"}} : MarkAllRead(u, kinds) \/ ClearAll(u, kinds)
  PROVE  InboxInv'
<1>1. inbox \in Seq(Notices) /\ Len(inbox) \in Nat /\ DOMAIN inbox = 1..Len(inbox)
  BY DEF InboxInv, InboxTyped
<1>2. \A r \in Notices, b \in BOOLEAN :
        LET x == [r EXCEPT !.read = b]  y == [r EXCEPT !.cleared = b] IN
        /\ x \in Notices /\ x.to = r.to /\ x.key = r.key /\ x.roles = r.roles
        /\ y \in Notices /\ y.to = r.to /\ y.key = r.key /\ y.roles = r.roles
  BY DEF Notices
<1>3. ASSUME NEW f \in [DOMAIN inbox -> Notices]
      PROVE  f \in Seq(Notices)
  BY <1>1, <1>3
<1>4. ASSUME NEW n \in DOMAIN inbox, NEW read \in BOOLEAN, PatchNotification(u, n, read)
      PROVE  InboxInv'
  <2>1. inbox[n] \in Notices
    BY <1>1
  <2>2. PICK r \in Notices : r = [inbox[n] EXCEPT !.read = read]
    BY <1>2, <2>1
  <2>3. r.to = inbox[n].to /\ r.key = inbox[n].key /\ r.roles = inbox[n].roles
    BY <1>2, <2>1, <2>2
  <2>4. inbox' = [inbox EXCEPT ![n] = r] /\ UNCHANGED <<rank, asking, today, due, moved>>
    BY <1>4, <2>2 DEF PatchNotification
  <2>5. inbox' \in Seq(Notices) /\ DOMAIN inbox' = DOMAIN inbox
    BY <1>1, <1>3, <2>4
  <2>6. \A k \in DOMAIN inbox : inbox'[k].to = inbox[k].to /\ inbox'[k].key = inbox[k].key
                                  /\ inbox'[k].roles = inbox[k].roles
    BY <1>1, <2>3, <2>4
  <2> QED BY <2>4, <2>5, <2>6, TouchKeeps
<1>5. ASSUME NEW kinds, MarkAllRead(u, kinds) \/ ClearAll(u, kinds)
      PROVE  InboxInv'
  <2>1. UNCHANGED <<rank, asking, today, due, moved>> /\ DOMAIN inbox' = DOMAIN inbox
    BY <1>5 DEF MarkAllRead, ClearAll
  <2>2. ASSUME NEW k \in DOMAIN inbox
        PROVE  /\ inbox'[k] \in Notices
               /\ inbox'[k].to = inbox[k].to /\ inbox'[k].key = inbox[k].key /\ inbox'[k].roles = inbox[k].roles
    <3>1. inbox[k] \in Notices
      BY <1>1
    <3>2. inbox'[k] \in {inbox[k], [inbox[k] EXCEPT !.read = TRUE], [inbox[k] EXCEPT !.cleared = TRUE]}
      BY <1>5 DEF MarkAllRead, ClearAll
    <3> QED BY <1>2, <3>1, <3>2
  <2>3. inbox' \in [DOMAIN inbox -> Notices]
    BY <1>5, <2>2 DEF MarkAllRead, ClearAll
  <2>4. inbox' \in Seq(Notices)
    BY <1>3, <2>3
  <2> QED BY <2>1, <2>2, <2>4, TouchKeeps
<1> QED BY <1>4, <1>5

LEMMA SetRankKeeps ==
  ASSUME InboxInv, NEW u \in Members, NEW role \in {"manager", "staff"}, SetRank(u, role)
  PROVE  InboxInv'
<1>1. /\ rank' = [rank EXCEPT ![u] = role] /\ moved' = moved \cup {u}
      /\ UNCHANGED <<inbox, asking, today, due>>
  BY DEF SetRank
<1>2. InboxTyped'
  BY <1>1 DEF InboxInv, InboxTyped, Ranks, Office
<1>3. rank \in [Members -> Ranks]
  BY DEF InboxInv, InboxTyped
<1>4. Fits(inbox)'
  <2> SUFFICES ASSUME NEW n \in DOMAIN inbox, inbox[n].to \notin moved', inbox[n].to \in Members
               PROVE  inbox[n].to \in Audience(inbox[n].key)' /\ Visible(inbox[n], rank'[inbox[n].to])
    <3>1. \A n \in DOMAIN inbox : inbox[n].to \in Members
      <4>1. inbox \in Seq(Notices) /\ \A r \in Notices : r.to \in Members
        BY DEF InboxInv, InboxTyped, Notices
      <4> QED BY <4>1
    <3> QED BY <1>1, <3>1 DEF Fits, Visible, Audience, InOffice
  <2>1. inbox[n].to # u /\ rank'[inbox[n].to] = rank[inbox[n].to]
    BY <1>1, <1>3
  <2>2. inbox[n].to \in Audience(inbox[n].key) /\ Visible(inbox[n], rank[inbox[n].to])
    BY <1>1 DEF InboxInv, Fits
  <2> QED BY <1>1, <1>3, <2>1, <2>2 DEF Audience, InOffice, Visible
<1>5. ASSUME NEW to, NEW key, Reaches(inbox, to, key)
      PROVE  Reaches(inbox, to, key)'
  BY <1>1, <1>5 DEF Reaches
<1>6. \A d \in due' : Reaches(inbox, d.to, d.key)'
  BY <1>1 DEF InboxInv, Reaches
<1>7. ASSUME NEW a \in Askers, asking'[a] # Never
      PROVE  ToldToday(inbox, asking[a])'
  <2>1. ToldToday(inbox, asking[a])
    BY <1>1, <1>7 DEF InboxInv
  <2> QED BY <1>1, <2>1 DEF ToldToday, Reaches, AlertKey, Key
<1> QED BY <1>2, <1>4, <1>6, <1>7 DEF InboxInv

\* The index a row has on the pages: that of the rows before it is a number.
LEMMA OnSomePage ==
  ASSUME InboxTyped, NEW u \in Members, NEW f \in BOOLEAN,
         NEW n \in Mine(u, f), Visible(inbox[n], rank[u])
  PROVE  n \in Listed(u, f)
<1>1. inbox \in Seq(Notices) /\ Len(inbox) \in Nat /\ DOMAIN inbox = 1..Len(inbox)
  BY DEF InboxTyped
<1>2. PICK newer : newer = {k \in Mine(u, f) : k > n}
  OBVIOUS
<1>3. newer \subseteq 1..Len(inbox)
  BY <1>1, <1>2 DEF Mine
<1>4. IsFiniteSet(1..Len(inbox)) /\ Cardinality(1..Len(inbox)) = Len(inbox)
  <2>1. 1 \in Int /\ Len(inbox) \in Int
    BY <1>1
  <2>2. IsFiniteSet(1..Len(inbox)) /\ Cardinality(1..Len(inbox)) = IF 1 > Len(inbox) THEN 0 ELSE Len(inbox) - 1 + 1
    BY <2>1, FS_Interval
  <2> QED BY <1>1, <2>2
<1>5. IsFiniteSet(newer) /\ Cardinality(newer) <= Len(inbox) /\ Cardinality(newer) \in Nat
  BY <1>3, <1>4, FS_Subset, FS_CardinalityType
<1>6. PICK c \in 0..Len(inbox) : c = Cardinality(newer)
  BY <1>1, <1>5
<1>7. PerPage \in Nat /\ PerPage >= 1
  BY InboxAssumption
<1>8. PICK p \in 1..(Len(inbox) + 1) : (p - 1) * PerPage <= c /\ c < p * PerPage
  <2>1. PICK late : late = {k \in Nat : c < k * PerPage}
    OBVIOUS
  <2>2. c \in Nat /\ c + 1 \in late
    <3>1. c + 1 <= (c + 1) * PerPage
      BY <1>6, <1>7
    <3> QED BY <1>1, <1>6, <1>7, <2>1, <3>1
  <2>3. PICK p \in late : \A k \in late : ~(<<k, p>> \in OpToRel(<, Nat))
    <3>1. late \subseteq Nat /\ late # {}
      BY <2>1, <2>2
    <3> QED BY <3>1, NatLessThanWellFounded, WFMin
  <2>4. \A k \in late : k >= p
    <3>1. OpToRel(<, Nat) = {x \in Nat \X Nat : x[1] < x[2]}
      BY DEF OpToRel
    <3>2. ASSUME NEW k \in late, k < p
          PROVE  FALSE
      <4>1. <<k, p>> \in Nat \X Nat /\ <<k, p>>[1] < <<k, p>>[2]
        BY <2>1, <3>2
      <4> QED BY <2>3, <3>1, <4>1
    <3> QED BY <2>1, <3>2
  <2>5. p \in Nat /\ c < p * PerPage /\ p <= c + 1
    BY <2>1, <2>2, <2>4
  <2>6. p # 0
    BY <1>6, <1>7, <2>2, <2>5
  <2>7. p - 1 \in Nat /\ p - 1 \notin late
    BY <2>4, <2>5, <2>6
  <2>8. (p - 1) * PerPage <= c
    BY <1>7, <2>1, <2>2, <2>7
  <2> QED BY <1>1, <1>6, <2>2, <2>5, <2>6, <2>8
<1>9. n \in Page(u, p, f)
  BY <1>2, <1>6, <1>8 DEF Page
<1> QED BY <1>8, <1>9 DEF Listed

LEMMA AlertsShown ==
  ASSUME InboxInv
  PROVE  AlertShown
<1> SUFFICES ASSUME NEW d \in due, d.to \cap moved = {}
             PROVE  \E n \in DOMAIN inbox :
                      /\ inbox[n].key = d.key /\ inbox[n].to \in d.to \cup moved
                      /\ inbox[n].cleared \/ inbox[n].to \in moved \/ n \in Listed(inbox[n].to, FALSE)
  BY DEF AlertShown
<1>1. InboxTyped /\ inbox \in Seq(Notices)
  BY DEF InboxInv, InboxTyped
<1>2. PICK n \in DOMAIN inbox : inbox[n].key = d.key /\ inbox[n].to \in d.to \cup moved
  BY DEF InboxInv, Reaches
<1>3. inbox[n].to \in Members
  <2>1. inbox[n] \in Notices
    BY <1>1, <1>2
  <2> QED BY <2>1 DEF Notices
<1>4. ASSUME ~inbox[n].cleared, inbox[n].to \notin moved
      PROVE  n \in Listed(inbox[n].to, FALSE)
  <2>1. Visible(inbox[n], rank[inbox[n].to])
    BY <1>2, <1>4 DEF InboxInv, Fits
  <2>2. n \in Mine(inbox[n].to, FALSE)
    BY <1>2, <1>4 DEF Mine
  <2> QED BY <1>1, <1>3, <2>1, <2>2, OnSomePage
<1> QED BY <1>2, <1>4

\* Four sets that divide up a finite set.
LEMMA FourParts ==
  ASSUME NEW S, IsFiniteSet(S), NEW A, NEW B, NEW C, NEW D, S = A \cup B \cup C \cup D,
         A \cap B = {}, (A \cup B) \cap C = {}, (A \cup B \cup C) \cap D = {}
  PROVE  Cardinality(S) = Cardinality(A) + Cardinality(B) + Cardinality(C) + Cardinality(D)
<1>1. IsFiniteSet(A) /\ IsFiniteSet(B) /\ IsFiniteSet(C) /\ IsFiniteSet(D)
  <2>1. A \in SUBSET S /\ B \in SUBSET S /\ C \in SUBSET S /\ D \in SUBSET S
    OBVIOUS
  <2> QED BY <2>1, FS_Subset
<1>2. IsFiniteSet(A \cup B) /\ Cardinality(A \cup B) = Cardinality(A) + Cardinality(B)
  BY <1>1, TwoParts
<1>3. IsFiniteSet((A \cup B) \cup C) /\ Cardinality((A \cup B) \cup C) = Cardinality(A \cup B) + Cardinality(C)
  BY <1>1, <1>2, TwoParts
<1>4. Cardinality(((A \cup B) \cup C) \cup D) = Cardinality((A \cup B) \cup C) + Cardinality(D)
  BY <1>1, <1>3, TwoParts
<1> QED BY <1>2, <1>3, <1>4

LEMMA BadgesTrue ==
  ASSUME InboxInv
  PROVE  BadgeTrue
<1> SUFFICES ASSUME NEW u \in Members \ moved
             PROVE  /\ UnreadCount(u) = Cardinality(Listed(u, TRUE))
                    /\ UnreadCount(u) = UnreadOf(u, "warehouse") + UnreadOf(u, "staff")
                                          + UnreadOf(u, "purchase") + UnreadOf(u, "system")
  BY DEF BadgeTrue
<1>1. InboxTyped /\ inbox \in Seq(Notices) /\ Len(inbox) \in Nat /\ DOMAIN inbox = 1..Len(inbox)
  BY DEF InboxInv, InboxTyped
<1>2. Listed(u, TRUE) = Mine(u, TRUE)
  <2>1. Listed(u, TRUE) \subseteq Mine(u, TRUE)
    BY DEF Listed, Page
  <2>2. ASSUME NEW n \in Mine(u, TRUE)
        PROVE  n \in Listed(u, TRUE)
    <3>1. Visible(inbox[n], rank[u])
      BY DEF InboxInv, Fits, Mine
    <3> QED BY <1>1, <3>1, OnSomePage
  <2> QED BY <2>1, <2>2
<1>3. IsFiniteSet(Mine(u, TRUE))
  <2>1. Mine(u, TRUE) \subseteq 1..Len(inbox)
    BY <1>1 DEF Mine
  <2>2. 1 \in Int /\ Len(inbox) \in Int
    BY <1>1
  <2>3. IsFiniteSet(1..Len(inbox))
    BY <2>2, FS_Interval
  <2> QED BY <2>1, <2>3, FS_Subset
<1>4. \A kind \in Kinds : Category(kind) \in {"warehouse", "staff", "purchase", "system"}
  BY DEF Category, Kinds
<1>5. \A n \in Mine(u, TRUE) : inbox[n].kind \in Kinds
  <2>1. \A n \in DOMAIN inbox : inbox[n] \in Notices
    BY <1>1
  <2> QED BY <2>1 DEF Mine, Notices
<1>6. PICK w, s, p, o :
        /\ w = {n \in Mine(u, TRUE) : Category(inbox[n].kind) = "warehouse"}
        /\ s = {n \in Mine(u, TRUE) : Category(inbox[n].kind) = "staff"}
        /\ p = {n \in Mine(u, TRUE) : Category(inbox[n].kind) = "purchase"}
        /\ o = {n \in Mine(u, TRUE) : Category(inbox[n].kind) = "system"}
  OBVIOUS
<1>7. Mine(u, TRUE) = w \cup s \cup p \cup o
  BY <1>4, <1>5, <1>6
<1>8. w \cap s = {} /\ (w \cup s) \cap p = {} /\ (w \cup s \cup p) \cap o = {}
  BY <1>6
<1>9. Cardinality(Mine(u, TRUE)) = Cardinality(w) + Cardinality(s) + Cardinality(p) + Cardinality(o)
  <2>1. PICK all : all = Mine(u, TRUE)
    OBVIOUS
  <2>2. IsFiniteSet(all) /\ all = w \cup s \cup p \cup o
    BY <1>3, <1>7, <2>1
  <2>3. Cardinality(all) = Cardinality(w) + Cardinality(s) + Cardinality(p) + Cardinality(o)
    BY <1>8, <2>2, FourParts
  <2> QED BY <2>1, <2>3
<1> QED BY <1>2, <1>6, <1>9 DEF UnreadCount, UnreadOf

LEMMA InboxInitially ==
  ASSUME InboxInit
  PROVE  InboxInv
<1>1. inbox = <<>> /\ due = {} /\ today = 1 /\ rank = FirstRank /\ asking = [a \in Askers |-> Never]
  BY DEF InboxInit
<1>2. InboxTyped
  BY <1>1, InboxAssumption DEF InboxTyped
<1> QED BY <1>1, <1>2 DEF InboxInv, Fits

LEMMA InboxStep ==
  ASSUME InboxInv, [InboxNext]_inboxVars
  PROVE  InboxInv'
<1>1. CASE UNCHANGED inboxVars
  BY <1>1, SendKeeps DEF inboxVars, InboxInv, InboxTyped, Grown
<1>2. CASE InboxNext
  <2>1. ASSUME NEW u \in Members, NEW i \in Goods, NEW q \in Saves, NEW isEdit \in BOOLEAN,
               SaveStock(u, i, q[1], q[2], isEdit)
        PROVE  InboxInv'
    BY <2>1, SaveStockKeeps
  <2>2. ASSUME NEW u \in Members, NEW key \in {NoKey, DeviceKey}, ClientEvent(u, key)
        PROVE  InboxInv'
    BY <2>2, ClientEventKeeps
  <2>3. ASSUME NEW a \in Askers, NotifyOwnerEnd(a) \/ \E u \in Members, i \in Goods : NotifyOwnerBegin(a, u, i)
        PROVE  InboxInv'
    BY <2>3, NotifyBeginKeeps, NotifyEndKeeps
  <2>4. ASSUME NEW u \in Members,
               \/ \E n \in DOMAIN inbox, read \in BOOLEAN : PatchNotification(u, n, read)
               \/ \E kinds \in {Kinds, {"reorder"}} : MarkAllRead(u, kinds) \/ ClearAll(u, kinds)
        PROVE  InboxInv'
    BY <2>4, ReadingKeeps
  <2>5. ASSUME NEW u \in Members, NEW role \in {"manager", "staff"}, SetRank(u, role)
        PROVE  InboxInv'
    BY <2>5, SetRankKeeps
  <2>6. CASE NextDay
    <3>1. InboxTyped /\ inbox \in Seq(Notices)
      BY DEF InboxInv, InboxTyped
    <3>2. InboxTyped' /\ UNCHANGED <<rank, inbox, asking, due, moved>>
      BY <2>6, <3>1 DEF NextDay, InboxTyped
    <3>3. Fits(inbox)'
      BY <3>2 DEF InboxInv, Fits, Audience, InOffice, Visible
    <3>4. \A d \in due' : Reaches(inbox, d.to, d.key)'
      BY <3>2 DEF InboxInv, Reaches
    <3>5. \A a \in Askers : asking'[a] # Never => ToldToday(inbox, asking[a])'
      BY <3>2 DEF InboxInv, ToldToday, Reaches, AlertKey, Key
    <3> QED BY <3>2, <3>3, <3>4, <3>5 DEF InboxInv
  <2>7. CASE EveningReminder \/ DeliveryNotice("assigned", {"staff"}) \/ DeliveryNotice("verified", Office)
    BY <2>7, NoticesKeep
  <2> QED BY <1>2, <2>1, <2>2, <2>3, <2>4, <2>5, <2>6, <2>7 DEF InboxNext
<1> QED BY <1>1, <1>2

\* What is sent to an inbox is shown there, and the badge counts what is shown:
\* whatever is sent, asked, read and cleared at the same time.
THEOREM InboxesTrue == InboxSpec => []InboxTrue
<1>1. InboxInit => InboxInv
  BY InboxInitially
<1>2. InboxInv /\ [InboxNext]_inboxVars => InboxInv'
  BY InboxStep
<1>3. InboxInv => InboxTrue
  BY AlertsShown, BadgesTrue DEF InboxTrue
<1> QED BY <1>1, <1>2, <1>3, PTL DEF InboxSpec

-----------------------------------------------------------------------------
(* Workspaces. *)

Counts == [Rows -> Nat]

\* What hangs under a category is there with the category.
Closed(have) ==
  \A e \in Present(have) : e.kind \in {"type", "item"} => CategoryOf(e) \in Present(have)

Orderly(have) == have \in Counts /\ TwinFree(have) /\ Closed(have)

\* Where no two seeds have been at work at once nothing is there twice, nor
\* will be when the seed at work commits: it alone is at work on its workspace.
SeedInv ==
  /\ rows \in [Workspaces -> Counts]
  /\ jobs = [j \in Jobs |-> jobs[j]]
  /\ \A b \in Workspaces \ overlapped :
       /\ Orderly(rows[b])
       /\ \A j \in Seeding(b) : Seeding(b) = {j} /\ Orderly(With(rows[b], jobs[j].adds))

LEMMA RowForms ==
  /\ \A e \in Rows : e = Seed(e.kind, e.name, e.under)
  /\ Catalogue \subseteq Rows /\ Minimum \subseteq Rows
  /\ \A e \in Seeds : e.kind \in {"type", "item"} => CategoryOf(e) \in Rows
<1>1. \A e \in Seeds : e = Seed(e.kind, e.name, e.under)
  BY WorkspaceAssumption
<1>2. \A e \in Seeds : Moved(e) = Seed(Moved(e).kind, Moved(e).name, Moved(e).under)
  <2> SUFFICES ASSUME NEW e \in Seeds PROVE Moved(e) = Seed(Moved(e).kind, Moved(e).name, Moved(e).under)
    OBVIOUS
  <2>1. PICK k, n, u : e = [kind |-> k, name |-> n, under |-> u]
    BY <1>1 DEF Seed
  <2> QED BY <2>1 DEF Moved, Seed
<1>3. \A e \in Seeds : e.kind \in {"type", "item"} => CategoryOf(e) \in Seeds
  BY WorkspaceAssumption DEF Seeds
<1> QED BY <1>1, <1>2, <1>3 DEF Rows, Seeds

LEMMA WithCounts ==
  ASSUME NEW have \in Counts, NEW adds
  PROVE  /\ With(have, adds) \in Counts
         /\ Present(With(have, adds)) = Present(have) \cup (adds \cap Rows)
         /\ \A e \in Rows : With(have, adds)[e] = IF e \in adds THEN have[e] + 1 ELSE have[e]
BY DEF With, Counts, Present

\* A seed found nothing of what it adds.
LEMMA NotThere ==
  ASSUME NEW have \in Counts, NEW e \in Rows, e.kind = "supplier" \/ e.name \notin Spaced
  PROVE  /\ Found(have, e) = {} =>
              e \notin Present(have) /\ (e.kind = "supplier" => \A f \in Present(have) : ~Same(e, f))
         /\ (FoundMinimum(have, e) = {} /\ e.name \notin Spaced) =>
              e \notin Present(have) /\ (e.kind = "supplier" => \A f \in Present(have) : ~Same(e, f))
<1>1. /\ Found(have, e) = {} => IF e.kind = "supplier" THEN WithGst(have, e) = {} ELSE Like(have, e) = {}
      /\ FoundMinimum(have, e) = {} => IF e.kind = "supplier" THEN WithGst(have, e) = {} ELSE Like(have, e) = {}
  BY DEF Found, FoundMinimum, Like
<1>2. e \in Present(have) => /\ e.kind = "supplier" => e \in WithGst(have, e)
                             /\ e.name \notin Spaced => e \in Like(have, e)
  BY DEF WithGst, Like, Named
<1>3. ASSUME e.kind = "supplier", NEW f \in Present(have), Same(e, f)
      PROVE  f \in WithGst(have, e)
  BY <1>3 DEF WithGst, Same
<1> QED BY <1>1, <1>2, <1>3

LEMMA FilesOrderly ==
  ASSUME NEW have, Orderly(have), NEW files \in BOOLEAN, NEW first \in FromFiles(have, files)
  PROVE  Orderly(With(have, first))
<1> DEFINE missing == IF files THEN MissingCatalogue(have) ELSE {}
           now == With(have, first)
<1>1. /\ first \subseteq missing
      /\ \A e \in missing : e \in first <=> Found(With(have, first \ {e}), e) = {}
  BY DEF FromFiles
<1>2. first \subseteq Rows /\ \A e \in first : e \in Catalogue /\ Found(have, e) = {}
  BY <1>1, RowForms DEF MissingCatalogue
<1>3. /\ now \in Counts /\ Present(now) = Present(have) \cup first
      /\ \A e \in Rows : now[e] = IF e \in first THEN have[e] + 1 ELSE have[e]
  BY <1>2, WithCounts DEF Orderly
<1>4. ASSUME NEW e \in first, NEW f \in first, e # f, e.kind = "supplier", Same(e, f)
      PROVE  FALSE
  <2>1. f \in Present(With(have, first \ {e}))
    BY <1>2, <1>4, WithCounts DEF Orderly
  <2>2. Found(With(have, first \ {e}), e) = {}
    BY <1>1
  <2>3. With(have, first \ {e}) \in Counts
    BY WithCounts DEF Orderly
  <2> QED BY <1>2, <1>4, <2>1, <2>2, <2>3, NotThere
<1>5. TwinFree(now)
  <2> SUFFICES ASSUME NEW e \in Present(now), e.kind = "supplier" \/ e.name \notin Spaced
               PROVE  now[e] = 1 /\ \A f \in Present(now) : Same(e, f) => f = e
    BY DEF TwinFree
  <2>1. e \in Rows
    BY DEF Present
  <2>2. now[e] = 1
    <3>1. CASE e \in first
      BY <1>2, <1>3, <2>1, <3>1, NotThere DEF Orderly, Present, Counts
    <3>2. CASE e \notin first
      BY <1>3, <2>1, <3>2 DEF Orderly, TwinFree
    <3> QED BY <3>1, <3>2
  <2>3. ASSUME NEW f \in Present(now), Same(e, f), e.kind = "supplier"
        PROVE  f = e
    <3>1. f \in Rows /\ f.kind = "supplier" /\ Same(f, e)
      BY <2>3 DEF Present, Same
    <3>2. CASE e \in first /\ f \in first
      BY <1>4, <2>3, <3>2
    <3>3. CASE e \in first /\ f \notin first
      BY <1>2, <1>3, <2>1, <2>3, <3>3, NotThere DEF Orderly
    <3>4. CASE e \notin first /\ f \in first
      BY <1>2, <1>3, <3>1, <3>4, NotThere DEF Orderly
    <3>5. CASE e \notin first /\ f \notin first
      BY <1>3, <2>3, <3>5 DEF Orderly, TwinFree
    <3> QED BY <3>2, <3>3, <3>4, <3>5
  <2>4. ASSUME NEW f \in Present(now), Same(e, f), e.kind # "supplier"
        PROVE  f = e
    BY <2>4 DEF Same
  <2> QED BY <2>2, <2>3, <2>4
<1>6. Closed(now)
  <2> SUFFICES ASSUME NEW e \in first, e.kind \in {"type", "item"}
               PROVE  CategoryOf(e) \in Present(now)
    BY <1>3 DEF Closed, Orderly
  <2> DEFINE c == CategoryOf(e)
  <2>1. c \in Catalogue /\ c \in Rows /\ c.kind = "category"
    BY <1>2, WorkspaceAssumption, RowForms DEF CategoryOf, Seed
  <2> HIDE DEF c
  <2>2. Like(have, c) \subseteq {c}
    BY <2>1, RowForms DEF Like, Named, Present, Seed
  <2>3. c \in first \/ c \in Present(have)
    <3>1. SUFFICES ASSUME c \notin Present(have)
                   PROVE  c \in first
      OBVIOUS
    <3>2. Found(have, c) = {} /\ c \in missing
      BY <1>1, <2>1, <2>2, <3>1 DEF MissingCatalogue, Found, Like, Named
    <3>3. With(have, first \ {c}) \in Counts /\ c \notin Present(With(have, first \ {c}))
      BY <2>1, <3>1, WithCounts DEF Orderly
    <3>4. Found(With(have, first \ {c}), c) = {}
      <4>1. Like(With(have, first \ {c}), c) \subseteq {c} \cap Present(With(have, first \ {c}))
        BY <2>1, RowForms DEF Like, Named, Present, Seed
      <4> QED BY <2>1, <3>3, <4>1 DEF Found
    <3> QED BY <1>1, <3>2, <3>4
  <2> QED BY <1>3, <2>3 DEF c
<1> QED BY <1>3, <1>5, <1>6 DEF Orderly

LEMMA SeedOrderly ==
  ASSUME NEW have, Orderly(have)
  PROVE  LET more == {e \in Minimum : FoundMinimum(have, e) = {}}
         IN Orderly(With(have, more)) /\ more \subseteq Rows \ Present(have)
<1> DEFINE more == {e \in Minimum : FoundMinimum(have, e) = {}}
           now == With(have, more)
<1>1. more \subseteq Rows /\ \A e \in more : e \in Minimum /\ e.name \notin Spaced /\ FoundMinimum(have, e) = {}
  BY RowForms, WorkspaceAssumption
<1>2. /\ now \in Counts /\ Present(now) = Present(have) \cup more
      /\ \A e \in Rows : now[e] = IF e \in more THEN have[e] + 1 ELSE have[e]
  BY <1>1, WithCounts DEF Orderly
<1>3. \A e \in more : e \notin Present(have) /\ (e.kind = "supplier" => \A f \in Present(have) : ~Same(e, f))
  BY <1>1, NotThere DEF Orderly
<1> HIDE DEF more, now
<1>4. TwinFree(now)
  <2> SUFFICES ASSUME NEW e \in Present(now), e.kind = "supplier" \/ e.name \notin Spaced
               PROVE  now[e] = 1 /\ \A f \in Present(now) : Same(e, f) => f = e
    BY DEF TwinFree
  <2>1. e \in Rows
    BY DEF Present
  <2>2. now[e] = 1
    BY <1>2, <1>3, <2>1 DEF Orderly, TwinFree, Present, Counts
  <2>3. ASSUME NEW f \in Present(now), Same(e, f), e.kind = "supplier"
        PROVE  f = e
    <3>1. f.kind = "supplier" /\ Same(f, e) /\ e.under = f.under
      BY <2>3 DEF Same
    <3>2. CASE e \in more /\ f \in more
      BY <1>1, <2>3, <3>1, <3>2, WorkspaceAssumption
    <3>3. CASE e \notin more /\ f \notin more
      BY <1>2, <2>3, <3>3 DEF Orderly, TwinFree
    <3> QED BY <1>2, <1>3, <2>3, <3>1, <3>2, <3>3
  <2>4. ASSUME NEW f \in Present(now), Same(e, f), e.kind # "supplier"
        PROVE  f = e
    BY <2>4 DEF Same
  <2> QED BY <2>2, <2>3, <2>4
<1>5. Closed(now)
  <2> SUFFICES ASSUME NEW e \in more, e.kind \in {"type", "item"}
               PROVE  CategoryOf(e) \in Present(now)
    BY <1>2 DEF Closed, Orderly
  <2> DEFINE c == CategoryOf(e)
  <2>1. c \in Minimum /\ c \in Rows /\ c.kind = "category"
    BY <1>1, WorkspaceAssumption, RowForms DEF CategoryOf, Seed
  <2> HIDE DEF c
  <2>2. FoundMinimum(have, c) \subseteq {c} \cap Present(have)
    BY <2>1, RowForms DEF FoundMinimum, Like, Named, Present, Seed
  <2>3. c \in more \/ c \in Present(have)
    BY <2>1, <2>2 DEF more
  <2> QED BY <1>2, <2>3 DEF c
<1> QED BY <1>1, <1>2, <1>3, <1>4, <1>5 DEF Orderly, more, now

\* One insert after the other adds what both add.
LEMMA AddsOrderly ==
  ASSUME NEW have, Orderly(have), NEW files \in BOOLEAN, NEW first \in FromFiles(have, files)
  PROVE  Orderly(With(have, Adds(have, first)))
<1> DEFINE now == With(have, first)
           more == {e \in Minimum : FoundMinimum(now, e) = {}}
<1>1. Orderly(now)
  BY FilesOrderly
<1>2. Orderly(With(now, more)) /\ more \subseteq Rows \ Present(now)
  BY <1>1, SeedOrderly
<1>3. Present(now) = Present(have) \cup (first \cap Rows)
  BY WithCounts DEF Orderly
<1>4. Adds(have, first) = first \cup more
  BY DEF Adds
<1> HIDE DEF more
<1>5. With(now, more) = With(have, first \cup more)
  <2>1. \A e \in Rows : e \in more => e \notin first
    BY <1>2, <1>3
  <2> QED BY <2>1 DEF With, Orderly, Counts
<1> QED BY <1>2, <1>4, <1>5

\* What a move makes of a row.
LEMMA MovedIs ==
  ASSUME NEW e \in Rows
  PROVE  /\ Moved(e).kind = e.kind
         /\ e.kind \in {"type", "item"} => Moved(e).name = e.name /\ Moved(e).under[1] = Renamed
         /\ e.kind \notin {"type", "item"} => Moved(e).name = Renamed /\ Moved(e).under = e.under
         /\ (e.kind = "category" /\ e.name # Renamed) => Moved(e) \in Rows /\ e.under = <<>> /\ e.name \notin Spaced
         /\ e.kind \in {"type", "item"} => CategoryOf(e).kind = "category" /\ CategoryOf(Moved(e)) = Seed("category", Renamed, <<>>)
<1>1. e \in Seeds \/ \E d \in Seeds : e = Moved(d)
  BY DEF Rows
<1>2. PICK k, n, u : e = [kind |-> k, name |-> n, under |-> u]
  BY RowForms DEF Seed
<1>3. e.kind \in {"type", "item"} => 1 \in DOMAIN e.under
  <2>1. ASSUME NEW d \in Seeds, d.kind \in {"type", "item"}
        PROVE  1 \in DOMAIN d.under
    BY <2>1, WorkspaceAssumption
  <2>2. ASSUME NEW d \in Seeds, e = Moved(d), e.kind \in {"type", "item"}
        PROVE  1 \in DOMAIN e.under
    <3>1. d.kind = e.kind /\ e.under = [d.under EXCEPT ![1] = Renamed]
      <4>1. PICK dk, dn, du : d = [kind |-> dk, name |-> dn, under |-> du]
        BY RowForms DEF Rows, Seed
      <4> QED BY <2>2, <4>1 DEF Moved
    <3> QED BY <2>1, <2>2, <3>1
  <2> QED BY <1>1, <2>1, <2>2
<1>4. ASSUME e.kind = "category", e.name # Renamed
      PROVE  e \in Seeds
  <2>1. ASSUME NEW d \in Seeds, e = Moved(d)
        PROVE  FALSE
    <3>1. PICK dk, dn, du : d = [kind |-> dk, name |-> dn, under |-> du]
      BY RowForms DEF Rows, Seed
    <3> QED BY <1>4, <2>1, <3>1 DEF Moved
  <2> QED BY <1>1, <2>1
<1>5. (e.kind = "category" /\ e.name # Renamed) => Moved(e) \in Rows /\ e.under = <<>> /\ e.name \notin Spaced
  BY <1>4, WorkspaceAssumption DEF Rows
<1>6. /\ Moved(e).kind = e.kind
      /\ e.kind \in {"type", "item"} => Moved(e).name = e.name /\ Moved(e).under = [e.under EXCEPT ![1] = Renamed]
      /\ e.kind \notin {"type", "item"} => Moved(e).name = Renamed /\ Moved(e).under = e.under
  BY <1>2 DEF Moved
<1> QED BY <1>3, <1>5, <1>6 DEF CategoryOf, Seed

\* A renamed category takes along what hangs under it, and nothing is under
\* the new name before.
LEMMA CategoryRenamed ==
  ASSUME NEW b \in Workspaces, NEW c \in Rows, rows \in [Workspaces -> Counts], Orderly(rows[b]),
         RenameCategory(b, c)
  PROVE  Orderly(rows'[b])
<1> DEFINE moves == {c} \cup {e \in Rows : e.kind \in {"type", "item"} /\ e.under[1] = c.name}
           Came(e) == CHOOSE m \in moves : Moved(m) = e
           have == rows[b]
           now == rows'[b]
<1>1. /\ c.kind = "category" /\ have[c] = 1 /\ c.name # Renamed /\ have[Moved(c)] = 0
      /\ have \in Counts
  BY DEF RenameCategory
<1>2. now = [e \in Rows |-> IF e \in moves THEN 0
                            ELSE have[e] + IF \E m \in moves : Moved(m) = e THEN have[Came(e)] ELSE 0]
  BY DEF RenameCategory
<1>3. \A e : (\E m \in moves : Moved(m) = e) => Came(e) \in moves /\ Moved(Came(e)) = e
  OBVIOUS
<1> HIDE DEF Came
<1>4. moves \subseteq Rows
  OBVIOUS
<1>5. now \in Counts
  BY <1>1, <1>2, <1>3, <1>4 DEF Counts
<1>6. Moved(c) = Seed("category", Renamed, <<>>) /\ Moved(c) \in Rows /\ Moved(c) \notin moves
  <2>1. Moved(c).kind = "category" /\ Moved(c).name = Renamed /\ Moved(c).under = <<>> /\ Moved(c) \in Rows
    BY <1>1, MovedIs
  <2> QED BY <1>1, <2>1, RowForms
<1> HIDE DEF moves
<1>7. \A m \in moves : m = c \/ (m \in Rows /\ m.kind \in {"type", "item"} /\ m.under[1] = c.name)
  BY DEF moves
\* Whatever comes under the new name was not there.
<1>8. ASSUME NEW e \in Rows, e \notin moves, \E m \in moves : Moved(m) = e
      PROVE  have[e] = 0 /\ now[e] = have[Came(e)] /\ Came(e) \in moves /\ Moved(Came(e)) = e
  <2>1. Came(e) \in moves /\ Moved(Came(e)) = e
    BY <1>3, <1>8
  <2>2. ASSUME Came(e) # c, e \in Present(have)
        PROVE  FALSE
    <3>1. Came(e) \in Rows /\ Came(e).kind \in {"type", "item"}
      BY <1>7, <2>1, <2>2
    <3>2. e.kind \in {"type", "item"} /\ CategoryOf(e) = Moved(c)
      BY <1>6, <2>1, <3>1, MovedIs
    <3> QED BY <1>1, <2>2, <3>2 DEF Orderly, Closed, Present
  <2>3. have[e] = 0
    BY <1>1, <2>1, <2>2 DEF Present, Counts
  <2>4. have[Came(e)] \in Nat
    BY <1>1, <1>4, <2>1 DEF Counts, moves
  <2> QED BY <1>2, <1>8, <2>1, <2>3, <2>4
<1>9. ASSUME NEW e \in Rows, e \notin moves, ~\E m \in moves : Moved(m) = e
      PROVE  now[e] = have[e]
  BY <1>1, <1>2, <1>9 DEF Counts
<1>10. \A e \in Present(now) : e \in Rows /\ e \notin moves
  BY <1>2 DEF Present
<1>11. TwinFree(now)
  <2> SUFFICES ASSUME NEW e \in Present(now), e.kind = "supplier" \/ e.name \notin Spaced
               PROVE  now[e] = 1 /\ \A f \in Present(now) : Same(e, f) => f = e
    BY DEF TwinFree
  <2>1. CASE \E m \in moves : Moved(m) = e
    <3>1. now[e] = have[Came(e)] /\ Came(e) \in moves /\ Moved(Came(e)) = e
      BY <1>8, <1>10, <2>1
    <3>2. e.kind = Came(e).kind /\ e.kind # "supplier"
      BY <1>1, <1>7, <3>1, MovedIs
    <3>3. now[e] = 1
      <4>1. CASE Came(e) = c
        BY <1>1, <3>1, <4>1
      <4>2. CASE Came(e) # c
        <5>1. Came(e) \in Rows /\ Came(e).name = e.name /\ Came(e) \in Present(have)
          BY <1>7, <3>1, <4>2, MovedIs DEF Present
        <5> QED BY <3>1, <3>2, <5>1 DEF Orderly, TwinFree
      <4> QED BY <4>1, <4>2
    <3> QED BY <3>2, <3>3 DEF Same
  <2>2. CASE ~\E m \in moves : Moved(m) = e
    <3>1. now[e] = have[e] /\ e \in Present(have)
      BY <1>9, <1>10, <2>2 DEF Present
    <3>2. ASSUME NEW f \in Present(now), Same(e, f), e.kind = "supplier"
          PROVE  f \in Present(have)
      <4>1. ~\E m \in moves : Moved(m) = f
        <5>1. \A m \in moves : m \in Rows /\ m.kind # "supplier"
          BY <1>1, <1>7
        <5>2. \A m \in moves : Moved(m).kind # "supplier"
          BY <5>1, MovedIs
        <5>3. f.kind = "supplier"
          BY <3>2 DEF Same
        <5> QED BY <5>2, <5>3
      <4> QED BY <1>9, <1>10, <4>1 DEF Present
    <3> QED BY <3>1, <3>2 DEF Orderly, TwinFree, Same
  <2> QED BY <2>1, <2>2
<1>12. Closed(now)
  <2> SUFFICES ASSUME NEW e \in Present(now), e.kind \in {"type", "item"}
               PROVE  CategoryOf(e) \in Present(now)
    BY DEF Closed
  <2>1. CASE \E m \in moves : Moved(m) = e
    <3>1. Came(e) \in moves /\ Moved(Came(e)) = e
      BY <1>8, <1>10, <2>1
    <3>2. Came(e) \in Rows /\ Came(e).kind \in {"type", "item"}
      BY <1>1, <1>7, <3>1, MovedIs
    <3>3. CategoryOf(e) = Moved(c)
      BY <1>6, <3>1, <3>2, MovedIs
    <3>4. c \in moves /\ Moved(c) \notin moves
      BY <1>6 DEF moves
    <3>5. now[Moved(c)] = have[Came(Moved(c))] /\ Came(Moved(c)) \in moves /\ Moved(Came(Moved(c))) = Moved(c)
      BY <1>6, <1>8, <3>4
    <3>6. Came(Moved(c)) = c
      BY <1>1, <1>6, <1>7, <3>5, MovedIs
    <3> QED BY <1>1, <1>6, <3>3, <3>5, <3>6 DEF Present
  <2>2. CASE ~\E m \in moves : Moved(m) = e
    <3>1. e \in Present(have) /\ e \in Rows /\ e \notin moves
      BY <1>9, <1>10, <2>2 DEF Present
    <3>2. CategoryOf(e) \in Present(have)
      BY <3>1 DEF Orderly, Closed
    <3>3. CategoryOf(e).kind = "category" /\ CategoryOf(e).name = e.under[1]
      BY DEF CategoryOf, Seed
    <3>4. CategoryOf(e) \notin moves
      BY <1>7, <3>1, <3>3 DEF moves
    <3>5. CategoryOf(e) \in Rows
      BY <3>2 DEF Present
    <3>6. now[CategoryOf(e)] = have[CategoryOf(e)]
      <4>1. CASE \E m \in moves : Moved(m) = CategoryOf(e)
        BY <1>8, <3>2, <3>4, <3>5, <4>1 DEF Present
      <4> QED BY <1>9, <3>4, <3>5, <4>1
    <3> QED BY <3>2, <3>6 DEF Present
  <2> QED BY <2>1, <2>2
<1> QED BY <1>5, <1>11, <1>12 DEF Orderly

LEMMA SupplierRenamed ==
  ASSUME NEW b \in Workspaces, NEW s \in Rows, rows \in [Workspaces -> Counts], Orderly(rows[b]),
         RenameSupplier(b, s)
  PROVE  Orderly(rows'[b])
<1> DEFINE have == rows[b]
           new == Moved(s)
           now == rows'[b]
<1>1. s.kind = "supplier" /\ have[s] = 1 /\ s.name # Renamed /\ have \in Counts
  BY DEF RenameSupplier
<1>2. now = [With(have, {new}) EXCEPT ![s] = 0]
  BY DEF RenameSupplier
<1>3. new.kind = "supplier" /\ new.under = s.under /\ new # s
  BY <1>1, MovedIs
<1> HIDE DEF new
<1>4. With(have, {new}) \in Counts
  BY <1>1, WithCounts
<1>5. now \in Counts /\ now[s] = 0
  <2>1. PICK w \in [Rows -> Nat] : now = [w EXCEPT ![s] = 0]
    BY <1>2, <1>4 DEF Counts
  <2> HIDE DEF now
  <2> QED BY <2>1 DEF Counts
<1>6. \A e \in Rows : e # s => now[e] = IF e = new THEN have[e] + 1 ELSE have[e]
  BY <1>1, <1>2, <1>4, WithCounts DEF Counts
<1> HIDE DEF now, have
<1>7. \A f \in Present(have) : Same(s, f) => f = s
  BY <1>1 DEF Orderly, TwinFree, Present, have
<1>8. new \notin Present(have)
  BY <1>1, <1>3, <1>7 DEF Same
<1>9. Present(now) \subseteq (Present(have) \ {s}) \cup {new}
  BY <1>5, <1>6 DEF Present
<1>10. \A e \in Present(now) : e # new => now[e] = have[e] /\ e \in Present(have) /\ e # s
  BY <1>6, <1>9 DEF Present
<1>11. new \in Present(now) => now[new] = 1
  BY <1>1, <1>3, <1>6, <1>8 DEF Present, Counts
<1>12. \A f \in Present(have) : f # s => ~Same(new, f) /\ ~Same(f, new)
  BY <1>1, <1>3, <1>7 DEF Same
<1>13. TwinFree(now)
  <2> SUFFICES ASSUME NEW e \in Present(now), e.kind = "supplier" \/ e.name \notin Spaced
               PROVE  now[e] = 1 /\ \A f \in Present(now) : Same(e, f) => f = e
    BY DEF TwinFree
  <2>1. CASE e = new
    BY <1>10, <1>11, <1>12, <2>1
  <2>2. CASE e # new
    <3>1. e \in Present(have) /\ e # s /\ now[e] = have[e]
      BY <1>10, <2>2
    <3>2. have[e] = 1 /\ \A f \in Present(have) : Same(e, f) => f = e
      BY <3>1 DEF Orderly, TwinFree, have
    <3> QED BY <1>10, <1>12, <3>1, <3>2
  <2> QED BY <2>1, <2>2
<1>14. Closed(now)
  <2> SUFFICES ASSUME NEW e \in Present(now), e.kind \in {"type", "item"}
               PROVE  CategoryOf(e) \in Present(now)
    BY DEF Closed
  <2>1. e \in Present(have)
    BY <1>3, <1>10
  <2>2. CategoryOf(e) \in Present(have)
    BY <2>1 DEF Orderly, Closed, have
  <2>3. CategoryOf(e).kind = "category"
    BY DEF CategoryOf, Seed
  <2> QED BY <1>1, <1>3, <1>6, <2>2, <2>3 DEF Present
<1> QED BY <1>5, <1>13, <1>14 DEF Orderly, now

LEMMA SupplierRemoved ==
  ASSUME NEW b \in Workspaces, NEW s \in Rows, rows \in [Workspaces -> Counts], Orderly(rows[b]),
         RemoveSupplier(b, s)
  PROVE  Orderly(rows'[b])
<1> DEFINE have == rows[b]
           now == rows'[b]
<1>1. s.kind = "supplier" /\ have[s] > 0 /\ have \in Counts
  BY DEF RemoveSupplier
<1>2. now = [have EXCEPT ![s] = @ - 1]
  BY DEF RemoveSupplier
<1>3. now \in Counts /\ \A e \in Rows : now[e] = IF e = s THEN have[e] - 1 ELSE have[e]
  BY <1>1, <1>2 DEF Counts
<1> HIDE DEF now, have
<1>4. have[s] = 1
  BY <1>1 DEF Orderly, TwinFree, Present, have
<1>5. Present(now) = Present(have) \ {s}
  BY <1>1, <1>3, <1>4 DEF Present
<1>6. TwinFree(now)
  <2>1. TwinFree(have)
    BY DEF Orderly, have
  <2> QED BY <1>3, <1>5, <2>1 DEF TwinFree, Present
<1>7. Closed(now)
  <2>1. Closed(have)
    BY DEF Orderly, have
  <2>2. \A e : CategoryOf(e).kind = "category"
    BY DEF CategoryOf, Seed
  <2> QED BY <1>1, <1>5, <2>1, <2>2 DEF Closed
<1> QED BY <1>3, <1>6, <1>7 DEF Orderly, now

LEMMA EditCounts ==
  ASSUME NEW b \in Workspaces, NEW e \in Rows, rows \in [Workspaces -> Counts],
         RenameCategory(b, e) \/ RenameSupplier(b, e) \/ RemoveSupplier(b, e)
  PROVE  rows'[b] \in Counts
<1>1. rows[b] \in Counts
  OBVIOUS
<1>2. CASE RenameCategory(b, e)
  <2> DEFINE moves == {e} \cup {f \in Rows : f.kind \in {"type", "item"} /\ f.under[1] = e.name}
             Came(f) == CHOOSE m \in moves : Moved(m) = f
  <2>1. rows'[b] = [f \in Rows |-> IF f \in moves THEN 0
                                   ELSE rows[b][f] + IF \E m \in moves : Moved(m) = f THEN rows[b][Came(f)] ELSE 0]
    BY <1>2 DEF RenameCategory
  <2>2. \A f : (\E m \in moves : Moved(m) = f) => Came(f) \in moves
    OBVIOUS
  <2>3. moves \subseteq Rows
    OBVIOUS
  <2> HIDE DEF moves, Came
  <2> QED BY <1>1, <2>1, <2>2, <2>3 DEF Counts
<1>3. CASE RenameSupplier(b, e)
  <2>1. rows'[b] = [With(rows[b], {Moved(e)}) EXCEPT ![e] = 0]
    BY <1>3 DEF RenameSupplier
  <2>2. PICK w \in [Rows -> Nat] : rows'[b] = [w EXCEPT ![e] = 0]
    BY <1>1, <2>1, WithCounts DEF Counts
  <2> QED BY <2>2 DEF Counts
<1>4. CASE RemoveSupplier(b, e)
  <2>1. rows[b][e] > 0 /\ rows'[b] = [rows[b] EXCEPT ![e] = @ - 1]
    BY <1>4 DEF RemoveSupplier
  <2> QED BY <1>1, <2>1 DEF Counts
<1> QED BY <1>2, <1>3, <1>4

\* An edit: the office works where nobody seeds.
LEMMA EditKeeps ==
  ASSUME SeedInv, NEW b \in Taken, NEW e \in Rows,
         RenameCategory(b, e) \/ RenameSupplier(b, e) \/ RemoveSupplier(b, e)
  PROVE  SeedInv'
<1>1. jobs' = jobs /\ overlapped' = overlapped /\ Seeding(b) = {}
  BY DEF RenameCategory, RenameSupplier, RemoveSupplier, Edit
<1>2. \E v : rows' = [rows EXCEPT ![b] = v]
  BY DEF RenameCategory, RenameSupplier, RemoveSupplier
<1>3. \A w : w # b => rows'[w] = rows[w]
  BY <1>2 DEF SeedInv
<1>4. \A w : Seeding(w)' = Seeding(w)
  BY <1>1 DEF Seeding
<1>5. rows' \in [Workspaces -> Counts]
  <2>1. b \in Workspaces => rows'[b] \in Counts
    BY EditCounts DEF SeedInv
  <2> QED BY <1>2, <2>1 DEF SeedInv
<1>6. ASSUME b \in Workspaces \ overlapped
      PROVE  Orderly(rows'[b])
  BY <1>6, CategoryRenamed, SupplierRenamed, SupplierRemoved DEF SeedInv
<1> QED BY <1>1, <1>3, <1>4, <1>5, <1>6 DEF SeedInv

\* A job that begins, goes on to its next step or ends beside the seeds.
LEMMA JobKeeps ==
  ASSUME SeedInv, NEW j \in Jobs, rows' = rows, overlapped' = overlapped,
         NEW job, jobs' = [jobs EXCEPT ![j] = job], job = Nobody \/ job.op # "seed"
  PROVE  SeedInv'
<1>1. jobs' = [k \in Jobs |-> jobs'[k]] /\ jobs'[j] = job /\ \A k \in Jobs \ {j} : jobs'[k] = jobs[k]
  <2>1. PICK old : jobs = [k \in Jobs |-> old[k]]
    BY DEF SeedInv
  <2> QED BY <2>1
<1>2. \A w : Seeding(w)' \subseteq Seeding(w) \ {j}
  BY <1>1 DEF Seeding
<1>3. ASSUME NEW b \in Workspaces \ overlapped, NEW k \in Seeding(b)'
      PROVE  Seeding(b)' = {k} /\ Orderly(With(rows[b], jobs[k].adds))'
  <2>1. k \in Seeding(b) /\ k # j /\ k \in Jobs
    BY <1>2, <1>3 DEF Seeding
  <2>2. Seeding(b) = {k} /\ Orderly(With(rows[b], jobs[k].adds))
    BY <2>1 DEF SeedInv
  <2>3. jobs'[k] = jobs[k]
    BY <1>1, <2>1
  <2>4. Seeding(b)' = {k}
    BY <1>2, <1>3, <2>2
  <2>5. With(rows'[b], jobs'[k].adds) = With(rows[b], jobs[k].adds)
    BY <2>3 DEF With
  <2> QED BY <2>2, <2>4, <2>5 DEF Orderly
<1> QED BY <1>1, <1>3 DEF SeedInv

\* A seed that has read: it is alone at work on the workspace, or both are
\* noted.
LEMMA ReadKeeps ==
  ASSUME SeedInv, NEW j \in Jobs, NEW p, NEW b, NEW files \in BOOLEAN, rows' = rows,
         j \notin Seeding(b), ReadForSeed(j, p, b, files)
  PROVE  SeedInv'
<1>1. PICK first \in FromFiles(rows[b], files) :
        jobs' = [jobs EXCEPT ![j] =
                   IF Ambiguous(rows[b], first, files) THEN Nobody
                   ELSE [op |-> "seed", who |-> p, at |-> b, adds |-> Adds(rows[b], first)]]
  BY DEF ReadForSeed
<1>2. overlapped' = IF Seeding(b) # {} THEN overlapped \cup {b} ELSE overlapped
  BY DEF ReadForSeed
<1> DEFINE job == IF Ambiguous(rows[b], first, files) THEN Nobody
                  ELSE [op |-> "seed", who |-> p, at |-> b, adds |-> Adds(rows[b], first)]
<1>3. job = Nobody \/ (job.at = b /\ job.adds = Adds(rows[b], first))
  OBVIOUS
<1>4. jobs' = [jobs EXCEPT ![j] = job]
  BY <1>1
<1> HIDE DEF job
<1>5. jobs' = [k \in Jobs |-> jobs'[k]] /\ jobs'[j] = job /\ \A k \in Jobs \ {j} : jobs'[k] = jobs[k]
  <2>1. PICK old : jobs = [k \in Jobs |-> old[k]]
    BY DEF SeedInv
  <2> QED BY <1>4, <2>1
<1>6. \A w : \A k \in Seeding(w)' : k \in Seeding(w) \/ (k = j /\ w = b /\ job # Nobody)
  BY <1>3, <1>5 DEF Seeding
<1>7. ASSUME NEW w \in Workspaces \ overlapped'
      PROVE  /\ Orderly(rows'[w])
             /\ \A k \in Seeding(w)' : Seeding(w)' = {k} /\ Orderly(With(rows[w], jobs[k].adds))'
  <2>1. w \in Workspaces \ overlapped /\ (w = b => Seeding(w) = {})
    BY <1>2, <1>7
  <2>2. Orderly(rows[w]) /\ \A k \in Seeding(w) : Seeding(w) = {k} /\ Orderly(With(rows[w], jobs[k].adds))
    BY <2>1 DEF SeedInv
  <2>3. ASSUME NEW k \in Seeding(w)'
        PROVE  Seeding(w)' = {k} /\ Orderly(With(rows[w], jobs[k].adds))'
    <3>1. CASE w = b
      <4>1. k = j /\ job # Nobody /\ Seeding(w)' = {k}
        BY <1>6, <2>1, <2>3, <3>1
      <4>2. With(rows'[w], jobs'[k].adds) = With(rows[b], Adds(rows[b], first))
        BY <1>3, <1>5, <3>1, <4>1 DEF With
      <4>3. Orderly(With(rows[b], Adds(rows[b], first)))
        BY <2>2, <3>1, AddsOrderly
      <4> QED BY <4>1, <4>2, <4>3 DEF Orderly
    <3>2. CASE w # b
      <4>1. k \in Seeding(w) /\ k \in Jobs /\ Seeding(w) = {k} /\ Seeding(w)' = {k}
        BY <1>6, <2>2, <2>3, <3>2 DEF Seeding
      <4>2. jobs'[k] = jobs[k]
        <5>1. j \notin Seeding(w)'
          BY <1>3, <1>5, <3>2 DEF Seeding
        <5> QED BY <1>5, <2>3, <4>1, <5>1
      <4>3. With(rows'[w], jobs'[k].adds) = With(rows[w], jobs[k].adds)
        BY <4>2 DEF With
      <4> QED BY <2>2, <4>1, <4>3 DEF Orderly
    <3> QED BY <3>1, <3>2
  <2> QED BY <2>2, <2>3
<1> QED BY <1>5, <1>7 DEF SeedInv

\* The commit brings what was found missing.
LEMMA SeedEndKeeps ==
  ASSUME SeedInv, NEW j \in Jobs, SeedEnd(j)
  PROVE  SeedInv'
<1> DEFINE b == jobs[j].at
           adds == jobs[j].adds
<1>1. /\ jobs[j] # Nobody /\ jobs[j].op = "seed" /\ jobs' = [jobs EXCEPT ![j] = Nobody] /\ overlapped' = overlapped
      /\ rows' = rows \/ rows' = [rows EXCEPT ![b] = With(rows[b], adds)]
  BY DEF SeedEnd
<1>2. j \in Seeding(b)
  BY <1>1 DEF Seeding
<1>3. jobs' = [k \in Jobs |-> jobs'[k]] /\ jobs'[j] = Nobody /\ \A k \in Jobs \ {j} : jobs'[k] = jobs[k]
  <2>1. PICK old : jobs = [k \in Jobs |-> old[k]]
    BY DEF SeedInv
  <2> QED BY <1>1, <2>1
<1>4. \A w : Seeding(w)' \subseteq Seeding(w) \ {j}
  BY <1>3 DEF Seeding
<1>5. rows' \in [Workspaces -> Counts]
  <2>1. b \in Workspaces => With(rows[b], adds) \in Counts
    BY WithCounts DEF SeedInv
  <2> HIDE DEF adds, b
  <2> QED BY <1>1, <2>1 DEF SeedInv
<1>6. ASSUME NEW w \in Workspaces \ overlapped
      PROVE  /\ Orderly(rows'[w])
             /\ \A k \in Seeding(w)' : Seeding(w)' = {k} /\ Orderly(With(rows[w], jobs[k].adds))'
  <2>1. Orderly(rows[w]) /\ \A k \in Seeding(w) : Seeding(w) = {k} /\ Orderly(With(rows[w], jobs[k].adds))
    BY <1>6 DEF SeedInv
  <2> HIDE DEF b, adds
  <2>2. CASE w = b
    <3>1. Orderly(rows'[w])
      <4>1. Orderly(With(rows[w], adds))
        BY <1>2, <2>1, <2>2 DEF adds
      <4>2. rows'[w] = rows[w] \/ rows'[w] = With(rows[w], adds)
        BY <1>1, <1>6, <2>2 DEF SeedInv
      <4> QED BY <2>1, <4>1, <4>2
    <3>2. Seeding(w)' = {}
      BY <1>2, <1>4, <2>1, <2>2
    <3> QED BY <3>1, <3>2
  <2>3. CASE w # b
    <3>1. rows'[w] = rows[w]
      BY <1>1, <1>6, <2>3 DEF SeedInv
    <3>2. ASSUME NEW k \in Seeding(w)'
          PROVE  Seeding(w)' = {k} /\ Orderly(With(rows[w], jobs[k].adds))'
      <4>1. k \in Seeding(w) /\ k # j /\ k \in Jobs
        BY <1>4, <3>2 DEF Seeding
      <4>2. jobs'[k] = jobs[k] /\ Seeding(w) = {k} /\ Seeding(w)' = {k}
        BY <1>3, <1>4, <2>1, <3>2, <4>1
      <4>3. With(rows'[w], jobs'[k].adds) = With(rows[w], jobs[k].adds)
        BY <3>1, <4>2 DEF With
      <4> QED BY <2>1, <4>1, <4>2, <4>3 DEF Orderly
    <3> QED BY <2>1, <3>1, <3>2
  <2> QED BY <2>2, <2>3
<1> QED BY <1>1, <1>3, <1>5, <1>6 DEF SeedInv

LEMMA WorkspaceStarts == WorkspaceInit => SeedInv
<1> SUFFICES ASSUME WorkspaceInit PROVE SeedInv
  OBVIOUS
<1>1. rows = [b \in Workspaces |-> [e \in Rows |-> 0]] /\ jobs = [j \in Jobs |-> Nobody]
  BY DEF WorkspaceInit
<1>2. \A b \in Workspaces : rows[b] \in Counts /\ Present(rows[b]) = {} /\ Seeding(b) = {}
  BY <1>1 DEF Counts, Present, Seeding
<1>3. \A b \in Workspaces : Orderly(rows[b])
  BY <1>2 DEF Orderly, TwinFree, Closed
<1> QED BY <1>1, <1>2, <1>3 DEF SeedInv

LEMMA WorkspaceStep == SeedInv /\ [WorkspaceNext]_workspaceVars => SeedInv'
<1> SUFFICES ASSUME SeedInv, [WorkspaceNext]_workspaceVars PROVE SeedInv'
  OBVIOUS
<1>1. ASSUME NEW j \in Jobs, NEW p \in Persons, SignUpBegin(j, p) \/ BootstrapBegin(j, p)
      PROVE  SeedInv'
  <2>1. rows' = rows /\ overlapped' = overlapped
    BY <1>1 DEF SignUpBegin, BootstrapBegin
  <2>2. \E job : jobs' = [jobs EXCEPT ![j] = job] /\ job.op # "seed"
    <3>1. CASE SignUpBegin(j, p)
      <4>1. jobs' = [jobs EXCEPT ![j] = Job("signup", p, Nobody)] /\ Job("signup", p, Nobody).op = "signup"
        BY <3>1 DEF SignUpBegin, Launch, Job
      <4> QED BY <4>1
    <3>2. CASE BootstrapBegin(j, p)
      <4>1. CASE homes[p] = <<>>
        <5>1. jobs' = [jobs EXCEPT ![j] = Job("create", p, Nobody)] /\ Job("create", p, Nobody).op = "create"
          BY <3>2, <4>1 DEF BootstrapBegin, Launch, Job
        <5> QED BY <5>1
      <4>2. CASE homes[p] # <<>>
        <5>1. jobs' = [jobs EXCEPT ![j] = Job("check", p, homes[p][1])] /\ Job("check", p, homes[p][1]).op = "check"
          BY <3>2, <4>2 DEF BootstrapBegin, Launch, Job
        <5> QED BY <5>1
      <4> QED BY <4>1, <4>2
    <3> QED BY <1>1, <3>1, <3>2
  <2> QED BY <2>1, <2>2, JobKeeps
<1>2. ASSUME NEW j \in Jobs, NEW b \in Workspaces, RunScript(j, b)
      PROVE  SeedInv'
  <2>1. j \notin Seeding(b) /\ rows' = rows /\ ReadForSeed(j, Nobody, b, TRUE)
    BY <1>2 DEF RunScript, FreeJob, Seeding
  <2> QED BY <2>1, ReadKeeps
<1>3. ASSUME NEW j \in Jobs, NEW files \in BOOLEAN, CheckWorkspace(j, files)
      PROVE  SeedInv'
  <2>1. CASE NeedsSeed(jobs[j].at)
    <3>1. /\ j \notin Seeding(jobs[j].at) /\ rows' = rows
          /\ ReadForSeed(j, jobs[j].who, jobs[j].at, files)
      BY <1>3, <2>1 DEF CheckWorkspace, Seeding
    <3> QED BY <3>1, ReadKeeps
  <2>2. CASE ~NeedsSeed(jobs[j].at)
    <3>1. jobs' = [jobs EXCEPT ![j] = Nobody] /\ rows' = rows /\ overlapped' = overlapped
      BY <1>3, <2>2 DEF CheckWorkspace
    <3> QED BY <3>1, JobKeeps
  <2> QED BY <2>1, <2>2
<1>4. ASSUME NEW j \in Jobs, SignUpEnd(j)
      PROVE  SeedInv'
  <2>1. jobs' = [jobs EXCEPT ![j] = Nobody] /\ rows' = rows /\ overlapped' = overlapped
    BY <1>4 DEF SignUpEnd
  <2> QED BY <2>1, JobKeeps
<1>5. ASSUME NEW j \in Jobs, CreateWorkspace(j)
      PROVE  SeedInv'
  <2> DEFINE job == Job("check", jobs[j].who, NewWorkspace)
  <2>1. jobs' = [jobs EXCEPT ![j] = job] /\ rows' = rows /\ overlapped' = overlapped /\ job.op # "seed"
    BY <1>5 DEF CreateWorkspace, Job
  <2> HIDE DEF job
  <2> QED BY <2>1, JobKeeps
<1>6. ASSUME NEW j \in Jobs, SeedEnd(j)
      PROVE  SeedInv'
  BY <1>6, SeedEndKeeps
<1>7. ASSUME NEW b \in Taken, NEW e \in Rows,
             RenameCategory(b, e) \/ RenameSupplier(b, e) \/ RemoveSupplier(b, e)
      PROVE  SeedInv'
  BY <1>7, EditKeeps
<1>8. ASSUME StopProcess
      PROVE  SeedInv'
  <2>1. jobs' = [j \in Jobs |-> Nobody] /\ rows' = rows /\ overlapped' = overlapped
    BY <1>8 DEF StopProcess
  <2>2. \A w : Seeding(w)' = {}
    BY <2>1 DEF Seeding
  <2> QED BY <2>1, <2>2 DEF SeedInv
<1>9. ASSUME UNCHANGED workspaceVars
      PROVE  SeedInv'
  <2>1. jobs' = jobs /\ rows' = rows /\ overlapped' = overlapped
    BY <1>9 DEF workspaceVars
  <2>2. \A b : Seeding(b)' = Seeding(b)
    BY <2>1 DEF Seeding
  <2>3. \A b, j : With(rows'[b], jobs'[j].adds) = With(rows[b], jobs[j].adds)
    BY <2>1
  <2> QED BY <2>1, <2>2, <2>3 DEF SeedInv
<1> QED BY <1>1, <1>2, <1>3, <1>4, <1>5, <1>6, <1>7, <1>8, <1>9 DEF WorkspaceNext

\* However often workspaces are bootstrapped or seeded, whatever the office
\* renames or removes in between and whenever the process stops: where no two
\* seeds were at work at once, nothing is there twice.
THEOREM NothingTwice == WorkspaceSpec => []NoTwins
<1>1. SeedInv => NoTwins
  BY DEF SeedInv, NoTwins, Orderly
<1> QED BY <1>1, WorkspaceStarts, WorkspaceStep, PTL DEF WorkspaceSpec
=============================================================================
