----------------------------- MODULE MCAccounts -----------------------------
(* Administration: accounts, workspaces, damage reports and inboxes.  They   *)
(* have no variable in common, so a behaviour moves the one it starts with. *)
(*                                                                         *)
(* Accounts has an owner, a member to start with and a person to be hired,  *)
(* and two permission keys; the workspaces are seeded with one row of each  *)
(* kind, an item with two spaces in its name, two suppliers with one GST    *)
(* number and the mandatory rows; two lines of the purchase with the damage *)
(* have the same item; the inboxes are an owner's, a manager's and a        *)
(* member's of the staff.                                                   *)
EXTENDS Accounts, Workspace, Damage, Inbox
CONSTANTS ann, ben, cai, rice, oil

VARIABLE part
allVars == <<vars, workspaceVars, damageVars, inboxVars, part>>

MCDenied == [r \in Roles |-> CASE r \in {"owner", "admin"} -> {}
                               [] r = "manager" -> {"delete_access"}
                               [] OTHER -> {"reports_access", "delete_access"}]
MCLegacy == ("delete_items" :> TRUE)
MCScans == <<0, 3>>
MCEdits == <<0, 2>>
Body(role, active, blocked) == [role |-> role, active |-> active, blocked |-> blocked]
MCPatches == {Body("staff", None, None), Body(None, TRUE, TRUE), Body(None, None, FALSE)}
MCBatches == {<<ann, ben>>}
MCGrants == {[key |-> "reports_access", value |-> TRUE], [key |-> "delete_access", value |-> FALSE]}
MCPosted == {[action |-> "SCAN", about |-> None], [action |-> "USER_BLOCK", about |-> ben]}

MCCatalogue == {Seed("category", "rice", <<>>), Seed("type", "sona", <<"rice">>),
                Seed("item", "sona 25kg", <<"rice", "sona">>), Seed("item", "chilli  ar", <<"rice", "sona">>),
                Seed("supplier", "vadakara", <<"gst1">>), Seed("supplier", "ernad", <<"gst1">>),
                Seed("broker", "sebi", <<>>)}
MCMinimum == {Seed("category", "rice", <<>>), Seed("type", "basmati", <<"rice">>),
              Seed("item", "basmati rice", <<"rice", "basmati">>),
              Seed("supplier", "surag", <<"gst2">>), Seed("broker", "kim", <<>>)}
MCLines == <<rice, rice, oil>>
MCGiven == {<<NoOne, "short_weight">>, <<NoOne, NoOne>>}
MCRank == (ann :> "owner" @@ ben :> "manager" @@ cai :> "staff")
MCExpected == (rice :> 10)
MCSaves == {<<8, 9>>, <<8, 10>>}

AllInit == Init /\ WorkspaceInit /\ DamageInit /\ InboxInit
           /\ part \in {"accounts", "workspace", "damage", "inbox"}
AllNext ==
  \/ part = "accounts" /\ Next /\ UNCHANGED <<workspaceVars, damageVars, inboxVars, part>>
  \/ part = "workspace" /\ WorkspaceNext /\ UNCHANGED <<vars, damageVars, inboxVars, part>>
  \/ part = "damage" /\ DamageNext /\ UNCHANGED <<vars, workspaceVars, inboxVars, part>>
  \/ part = "inbox" /\ InboxNext /\ UNCHANGED <<vars, workspaceVars, damageVars, part>>
AllSpec == AllInit /\ [][AllNext]_allVars
=============================================================================
