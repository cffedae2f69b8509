------------------------------- MODULE Damage -------------------------------
(***************************************************************************)
(* Damage reports of a purchase: what staff report at the delivery, the    *)
(* decision of the owner or a manager, and the notices both cause          *)
(* (services/purchase_damage_service.py, routers/damage_reports.py, the    *)
(* damage-reports endpoints of routers/trade_purchases.py).                *)
(*                                                                         *)
(* A report and its notice are one transaction.  A decision reads the      *)
(* report, commits its status, reads it again and then tells the reporter: *)
(* three steps, with anything in between.                                  *)
(***************************************************************************)
EXTENDS Integers, Sequences, FiniteSets

CONSTANTS
  Reporters,    \* people with the stock_edit permission
  Lines,        \* Lines[l]: the catalogue item of a line of the purchase
  Items,        \* catalogue items
  Given,        \* the damage types and reasons clients give, as pairs
  MaxReports,   \* bound on the reports
  MaxDecisions, \* bound on the decisions
  NoOne         \* no decision at work, no field sent

Reasons == {"torn_bag", "wet_damage", "wrong_item", "short_weight", "other"}
DamageTypes == {"damaged", "short", "missing", "returned"}
Decisions == {"approved", "returned", "rejected"}
Decision == [id : Nat, status : Decisions, prev : Decisions \cup {"pending"}, done : BOOLEAN]

ASSUME DamageAssumption ==
  /\ Lines \in Seq(Items)
  /\ Given \subseteq (DamageTypes \cup {NoOne}) \X (Reasons \cup {NoOne}) /\ {MaxReports, MaxDecisions} \subseteq Nat
  /\ NoOne \notin Decision

VARIABLES
  reports,     \* purchase_damage_reports, oldest first
  notices,     \* app_notifications: [to, about, says], unique by what it is about and says
  deciding,    \* decisions at work
  decisions,   \* decisions so far
  cut          \* reports a decision on which a crash has cut short

damageVars == <<reports, notices, deciding, decisions, cut>>

Desks == 1..2

\* reason_to_damage_type
TypeOf(reason) ==
  CASE reason = "short_weight" -> "short"
    [] reason = "wrong_item" -> "missing"
    [] OTHER -> "damaged"

\* The item of a report: named by the client, or the item of the one line
\* that has it; two lines of an item make the lookup fail.
Resolves(named, item) ==
  named \/ Cardinality({l \in DOMAIN Lines : Lines[l] = item}) = 1

\* emit_notification: a key that is there already is skipped.
Tell(to, about, says) ==
  IF \E n \in notices : n.about = about /\ n.says = says THEN notices
  ELSE notices \cup {[to |-> to, about |-> about, says |-> says]}

\* create_damage_report: the report is pending, and the notice to the office
\* is committed with it unless the client asks for none.
CreateDamageReport(u, named, item, type, reason, notify) ==
  /\ Len(reports) < MaxReports
  /\ Resolves(named, item)
  /\ type # NoOne \/ reason # NoOne
  /\ reports' = Append(reports, [by |-> u, status |-> "pending",
                                 type |-> IF type # NoOne THEN type ELSE TypeOf(reason)])
  /\ notices' = IF notify THEN Tell("office", Len(reports) + 1, "reported") ELSE notices
  /\ UNCHANGED <<deciding, decisions, cut>>

\* update_damage_report_status: the report as it was.
DecideRead(d, id, status) ==
  /\ decisions < MaxDecisions /\ decisions' = decisions + 1
  /\ deciding[d] = NoOne /\ \A e \in 1..(d - 1) : deciding[e] # NoOne
  /\ deciding' = [deciding EXCEPT ![d] =
                    [id |-> id, status |-> status, prev |-> reports[id].status, done |-> FALSE]]
  /\ UNCHANGED <<reports, notices, cut>>

\* Mutant: the previous status is read after the new one is set.
WriteThenRead(d) ==
  /\ deciding[d] # NoOne /\ ~deciding[d].done
  /\ reports' = [reports EXCEPT ![deciding[d].id].status = deciding[d].status]
  /\ deciding' = [deciding EXCEPT ![d].done = TRUE, ![d].prev = deciding[d].status]
  /\ UNCHANGED <<notices, decisions, cut>>

\* The status is written when it differs from what was read, and committed.
DecideWrite(d) ==
  /\ deciding[d] # NoOne /\ ~deciding[d].done
  /\ reports' = IF deciding[d].status = deciding[d].prev THEN reports
                ELSE [reports EXCEPT ![deciding[d].id].status = deciding[d].status]
  /\ deciding' = [deciding EXCEPT ![d].done = TRUE]
  /\ UNCHANGED <<notices, decisions, cut>>

\* The report is read again; an approval that changed it tells the reporter
\* the status it has now, whatever that is.
DecideTell(d) ==
  /\ deciding[d] # NoOne /\ deciding[d].done
  /\ LET q == deciding[d] IN
     notices' = IF q.status = "approved" /\ q.prev # "approved"
                THEN Tell(reports[q.id].by, q.id, reports[q.id].status) ELSE notices
  /\ deciding' = [deciding EXCEPT ![d] = NoOne]
  /\ UNCHANGED <<reports, decisions, cut>>

\* The process stops: a status that was committed stays, its notice is lost.
StopDesk ==
  /\ \E d \in Desks : deciding[d] # NoOne
  /\ cut' = cut \cup {deciding[d].id : d \in {e \in Desks : deciding[e] # NoOne /\ deciding[e].done}}
  /\ deciding' = [d \in Desks |-> NoOne]
  /\ UNCHANGED <<reports, notices, decisions>>

DamageInit ==
  /\ reports = <<>> /\ notices = {} /\ cut = {} /\ decisions = 0
  /\ deciding = [d \in Desks |-> NoOne]

DamageNext ==
  \/ \E u \in Reporters, named, notify \in BOOLEAN, item \in Items, given \in Given :
       CreateDamageReport(u, named, item, given[1], given[2], notify)
  \/ \E d \in Desks :
       \/ \E id \in DOMAIN reports, status \in Decisions : DecideRead(d, id, status)
       \/ DecideWrite(d)
       \/ DecideTell(d)
  \/ StopDesk

DamageSpec == DamageInit /\ [][DamageNext]_damageVars

\* Who reported damage that stands approved has been told so, once no decision
\* on it is at work: whichever decisions overlapped, except where the process
\* stopped between the status and the notice.
ApprovedTold ==
  \A id \in DOMAIN reports :
    (/\ reports[id].status = "approved"
     /\ id \notin cut
     /\ \A d \in Desks : deciding[d] # NoOne => deciding[d].id # id)
    => \E n \in notices : n.to = reports[id].by /\ n.about = id /\ n.says = "approved"
=============================================================================
