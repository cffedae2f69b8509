----------------------------- MODULE Workspace ------------------------------
(***************************************************************************)
(* How a person gets a workspace and how a workspace gets its first        *)
(* catalogue and contacts (register and auth_google in routers/auth.py,    *)
(* post_bootstrap_workspace, services/default_workspace.py,                *)
(* services/catalog_suppliers_seed.py, services/mandatory_workspace_seed.py *)
(* and the scripts that seed every business).                              *)
(*                                                                         *)
(* A sign-up looks for the account and then creates it; a bootstrap finds  *)
(* or creates the workspace, asks whether it needs the seed, looks up what *)
(* is missing and commits it: each of these is a step.  A row is           *)
(* identified by its kind, its name and what it hangs under: the category  *)
(* of a type, the category and type of an item, the GST number of a        *)
(* supplier.                                                               *)
(***************************************************************************)
EXTENDS Integers, Sequences

CONSTANTS
  Persons,      \* people, each with an e-mail address of his own
  Accounts0,    \* those with an account and no workspace yet
  Workspaces,   \* identifiers of businesses
  Catalogue,    \* rows of the three JSON files and of brokers_seed.json
  Minimum,      \* rows of the mandatory seed
  Spaced,       \* names with two spaces in a row
  Renamed,      \* the name the office gives to what it renames
  MaxEdits,     \* bound on the edits of the office
  MaxJobs,      \* bound on sign-ups, bootstraps and runs of the scripts
  Nobody        \* no job

Seed(kind, name, under) == [kind |-> kind, name |-> name, under |-> under]

\* Everything a row may be, what the office renames included.
Moved(e) ==
  IF e.kind \in {"type", "item"} THEN [e EXCEPT !.under = [@ EXCEPT ![1] = Renamed]]
  ELSE [e EXCEPT !.name = Renamed]
Seeds == Catalogue \cup Minimum
Rows == Seeds \cup {Moved(e) : e \in Seeds}

\* The category that a type or an item hangs under.
CategoryOf(e) == Seed("category", e.under[1], <<>>)

\* The files name the category of each type and item; their names with two
\* spaces are those of items, suppliers and brokers.  The mandatory rows are
\* different things.
ASSUME WorkspaceAssumption ==
  /\ Accounts0 \subseteq Persons /\ {MaxEdits, MaxJobs} \subseteq Nat
  /\ \A e \in Seeds :
       /\ e = Seed(e.kind, e.name, e.under)
       /\ e.kind \in {"category", "type", "item", "supplier", "broker"}
       /\ e.kind \in {"category", "type"} => e.name \notin Spaced
       /\ e.kind = "category" => e.under = <<>>
       /\ e.kind = "type" => e.under \in Seq(STRING) /\ Len(e.under) = 1
       /\ e.kind = "item" => e.under \in Seq(STRING) /\ Len(e.under) = 2
  /\ \A files \in {Catalogue, Minimum} : \A e \in files :
       e.kind \in {"type", "item"} => CategoryOf(e) \in files
  /\ \A e \in Minimum : e.name \notin Spaced
  /\ \A e, f \in Minimum :
       (e.kind = f.kind /\ e # f) => e.name # f.name /\ (e.kind = "supplier" => e.under # f.under)

VARIABLES
  accounts,    \* people with a row in users
  homes,       \* homes[p]: the workspaces p is a member of, oldest membership first
  rows,        \* rows[b][e]: how many rows e the workspace b has
  jobs,        \* sign-ups, bootstraps and script runs at work
  edited, began,
  overlapped   \* workspaces two seeds have been at work on at once

workspaceVars == <<accounts, homes, rows, jobs, edited, began, overlapped>>

Jobs == 1..2
Taken == UNION {{homes[p][i] : i \in DOMAIN homes[p]} : p \in Persons}
NewWorkspace == CHOOSE b \in Workspaces : b \notin Taken
FreeJob(j) == jobs[j] = Nobody /\ \A k \in 1..(j - 1) : jobs[k] # Nobody
Job(op, p, b) == [op |-> op, who |-> p, at |-> b, adds |-> {}]
Seeding(b) == {j \in Jobs : jobs[j] # Nobody /\ jobs[j].op = "seed" /\ jobs[j].at = b}

Launch(j, job) ==
  /\ began < MaxJobs
  /\ FreeJob(j)
  /\ began' = began + 1
  /\ jobs' = [jobs EXCEPT ![j] = job]

(***************************************************************************)
(* Sign-up.                                                                *)
(***************************************************************************)
\* register, or auth_google with neither its subject nor its e-mail known.
SignUpBegin(j, p) ==
  /\ p \notin accounts
  /\ Launch(j, Job("signup", p, Nobody))
  /\ UNCHANGED <<accounts, homes, rows, edited, overlapped>>

\* The account, its workspace and the membership are one transaction; the
\* e-mail address is unique, so the second of two sign-ups fails.
SignUpEnd(j) ==
  /\ jobs[j] # Nobody /\ jobs[j].op = "signup"
  /\ LET p == jobs[j].who IN
     IF p \in accounts THEN UNCHANGED <<accounts, homes>>
     ELSE /\ accounts' = accounts \cup {p}
          /\ homes' = [homes EXCEPT ![p] = <<NewWorkspace>>]
  /\ jobs' = [jobs EXCEPT ![j] = Nobody]
  /\ UNCHANGED <<rows, edited, began, overlapped>>

(***************************************************************************)
(* The seed.                                                               *)
(***************************************************************************)
Present(have) == {e \in Rows : have[e] > 0}
With(have, adds) == [e \in Rows |-> have[e] + IF e \in adds THEN 1 ELSE 0]

\* A row is found when its name in small letters is the name looked for with
\* its spaces collapsed: a name with two spaces in a row is never found.
Named(have, e) == {f \in Present(have) : f.kind = e.kind /\ f.name = e.name /\ f.name \notin Spaced}
Like(have, e) == {f \in Named(have, e) : f.under = e.under}
WithGst(have, e) == {f \in Present(have) : f.kind = "supplier" /\ f.under = e.under}

\* Mutant: a supplier is looked up by its name alone.
FoundByName(have, e) == IF e.kind = "supplier" THEN Named(have, e) ELSE Like(have, e)

\* What the seed from the files finds of e: a supplier by its GST number, then
\* by its name.
Found(have, e) ==
  IF e.kind # "supplier" THEN Like(have, e)
  ELSE IF WithGst(have, e) # {} THEN WithGst(have, e) ELSE Named(have, e)

\* The mandatory seed looks for an item in the whole workspace and for a
\* supplier by its name before its GST number.
FoundMinimum(have, e) ==
  CASE e.kind = "item" -> Named(have, e)
    [] e.kind = "supplier" -> IF Named(have, e) # {} THEN Named(have, e) ELSE WithGst(have, e)
    [] OTHER -> Like(have, e)

MissingCatalogue(have) == {e \in Catalogue : Found(have, e) = {}}

\* What the files may add, when they are there.  They are read row by row, and
\* a row finds what those before it have added: of two suppliers with one GST
\* number the first is added.  Which comes first is left open.
FromFiles(have, files) ==
  LET missing == IF files THEN MissingCatalogue(have) ELSE {}
  IN {first \in SUBSET missing :
        \A e \in missing : e \in first <=> Found(With(have, first \ {e}), e) = {}}

\* ... and the minimum that is missing still.
Adds(have, first) == first \cup {e \in Minimum : FoundMinimum(With(have, first), e) = {}}

\* scalar_one_or_none raises on two rows: the whole seed is rolled back.
Several(have, found) == \E f \in found : have[f] > 1 \/ \E g \in found : g # f
Ambiguous(have, first, files) ==
  \/ files /\ \E e \in Catalogue : Several(have, Found(have, e))
  \/ LET now == With(have, first) IN \E e \in Minimum : Several(now, FoundMinimum(now, e))

NeedsSeed(b) == ~{"supplier", "category"} \subseteq {e.kind : e \in Present(rows[b])}

(***************************************************************************)
(* Bootstrap and scripts.                                                  *)
(***************************************************************************)
\* ensure_user_has_business, first half: the oldest membership.
BootstrapBegin(j, p) ==
  /\ p \in accounts
  /\ Launch(j, IF homes[p] = <<>> THEN Job("create", p, Nobody) ELSE Job("check", p, homes[p][1]))
  /\ UNCHANGED <<accounts, homes, rows, edited, overlapped>>

\* ... and the workspace it creates and commits when there was none.
CreateWorkspace(j) ==
  /\ jobs[j] # Nobody /\ jobs[j].op = "create"
  /\ homes' = [homes EXCEPT ![jobs[j].who] = Append(@, NewWorkspace)]
  /\ jobs' = [jobs EXCEPT ![j] = Job("check", jobs[j].who, NewWorkspace)]
  /\ UNCHANGED <<accounts, rows, edited, began, overlapped>>

\* The transaction of a seed reads b; a failed lookup ends the job.
ReadForSeed(j, p, b, files) ==
  /\ \E first \in FromFiles(rows[b], files) :
       jobs' = [jobs EXCEPT ![j] =
                  IF Ambiguous(rows[b], first, files) THEN Nobody
                  ELSE [op |-> "seed", who |-> p, at |-> b, adds |-> Adds(rows[b], first)]]
  /\ overlapped' = IF Seeding(b) # {} THEN overlapped \cup {b} ELSE overlapped

CheckWorkspace(j, files) ==
  /\ jobs[j] # Nobody /\ jobs[j].op = "check"
  /\ IF NeedsSeed(jobs[j].at) THEN ReadForSeed(j, jobs[j].who, jobs[j].at, files)
     ELSE jobs' = [jobs EXCEPT ![j] = Nobody] /\ UNCHANGED overlapped
  /\ UNCHANGED <<accounts, homes, rows, edited, began>>

\* seed_all_businesses seeds a workspace whether it needs it or not.
RunScript(j, b) ==
  /\ began < MaxJobs /\ began' = began + 1
  /\ FreeJob(j)
  /\ b \in Taken
  /\ ReadForSeed(j, Nobody, b, TRUE)
  /\ UNCHANGED <<accounts, homes, rows, edited>>

\* The commit.  A type is unique in its category: when the category was there
\* and somebody else has added the type since, the seed fails.
Clashes(b, adds) ==
  \E e \in adds : e.kind = "type" /\ rows[b][e] > 0 /\ \A c \in adds : c.kind = "category" => <<c.name>> # e.under

SeedEnd(j) ==
  /\ jobs[j] # Nobody /\ jobs[j].op = "seed"
  /\ LET b == jobs[j].at IN
     rows' = IF Clashes(b, jobs[j].adds) THEN rows ELSE [rows EXCEPT ![b] = With(@, jobs[j].adds)]
  /\ jobs' = [jobs EXCEPT ![j] = Nobody]
  /\ UNCHANGED <<accounts, homes, edited, began, overlapped>>

\* The process stops: what was not committed is rolled back.
StopProcess ==
  /\ \E j \in Jobs : jobs[j] # Nobody
  /\ jobs' = [j \in Jobs |-> Nobody]
  /\ UNCHANGED <<accounts, homes, rows, edited, began, overlapped>>

(***************************************************************************)
(* The office edits a workspace nobody is seeding.                         *)
(***************************************************************************)
Edit(b) == edited < MaxEdits /\ edited' = edited + 1 /\ Seeding(b) = {}

\* update_item_category, to a name no category has: types and items stay
\* under the renamed category.
RenameCategory(b, c) ==
  /\ Edit(b)
  /\ c.kind = "category" /\ rows[b][c] = 1 /\ c.name # Renamed /\ rows[b][Moved(c)] = 0
  /\ LET moves == {c} \cup {e \in Rows : e.kind \in {"type", "item"} /\ e.under[1] = c.name}
         Arrived(e) == IF \E m \in moves : Moved(m) = e THEN rows[b][CHOOSE m \in moves : Moved(m) = e] ELSE 0
     IN rows' = [rows EXCEPT ![b] = [e \in Rows |-> IF e \in moves THEN 0 ELSE rows[b][e] + Arrived(e)]]
  /\ UNCHANGED <<accounts, homes, jobs, began, overlapped>>

\* update_supplier, to a name no supplier has: the GST number stays.
RenameSupplier(b, s) ==
  /\ Edit(b)
  /\ s.kind = "supplier" /\ rows[b][s] = 1 /\ s.name # Renamed
  /\ \A e \in Present(rows[b]) : e.kind = "supplier" => e.name # Renamed
  /\ rows' = [rows EXCEPT ![b] = [With(rows[b], {Moved(s)}) EXCEPT ![s] = 0]]
  /\ UNCHANGED <<accounts, homes, jobs, began, overlapped>>

\* delete_supplier, of one without purchases.
RemoveSupplier(b, s) ==
  /\ Edit(b)
  /\ s.kind = "supplier" /\ rows[b][s] > 0
  /\ rows' = [rows EXCEPT ![b][s] = @ - 1]
  /\ UNCHANGED <<accounts, homes, jobs, began, overlapped>>

(***************************************************************************)
(* Specification.                                                          *)
(***************************************************************************)
WorkspaceInit ==
  /\ accounts = Accounts0
  /\ homes = [p \in Persons |-> <<>>]
  /\ rows = [b \in Workspaces |-> [e \in Rows |-> 0]]
  /\ jobs = [j \in Jobs |-> Nobody]
  /\ edited = 0 /\ began = 0 /\ overlapped = {}

WorkspaceNext ==
  \/ \E j \in Jobs :
       \/ \E p \in Persons : SignUpBegin(j, p) \/ BootstrapBegin(j, p)
       \/ \E b \in Workspaces : RunScript(j, b)
       \/ \E files \in BOOLEAN : CheckWorkspace(j, files)
       \/ SignUpEnd(j)
       \/ CreateWorkspace(j)
       \/ SeedEnd(j)
  \/ \E b \in Taken, e \in Rows : RenameCategory(b, e) \/ RenameSupplier(b, e) \/ RemoveSupplier(b, e)
  \/ StopProcess

WorkspaceSpec == WorkspaceInit /\ [][WorkspaceNext]_workspaceVars

(***************************************************************************)
(* Properties.                                                             *)
(***************************************************************************)
\* What identifies a row to the people of the business: the GST number of a
\* supplier, the name of anything else where it hangs.
Same(e, f) ==
  /\ e.kind = f.kind
  /\ IF e.kind = "supplier" THEN e.under = f.under ELSE e = f

\* Nothing is in a workspace twice, but for names with two spaces in a row,
\* which the seed stores as they are and looks for with one.
TwinFree(have) ==
  \A e \in Present(have) :
    (e.kind = "supplier" \/ e.name \notin Spaced) =>
      have[e] = 1 /\ \A f \in Present(have) : Same(e, f) => f = e

\* However often a workspace is bootstrapped or seeded by a script, and
\* whatever the office renamed or removed in between, nothing is in it twice;
\* except what two seeds at once have added.
NoTwins == \A b \in Workspaces \ overlapped : TwinFree(rows[b])
=============================================================================
