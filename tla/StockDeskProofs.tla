-------------------------- MODULE StockDeskProofs --------------------------
(***************************************************************************)
(* Theorems about StockDesk, for any items, members, audits and sessions.  *)
(***************************************************************************)
EXTENDS StockDesk, FiniteSetTheorems, TLAPS

DInv == TypeOK /\ LinesChecked /\ NothingPending /\ LargeNeedsApproval

-----------------------------------------------------------------------------
(* Rows. *)

\* A row is a Move when its parts have their types.
LEMMA RowType ==
  ASSUME TypeOK, NEW i \in Items, NEW u \in Users, NEW kind \in MoveKinds, NEW after \in Nat,
         NEW undoes \in Nat, NEW of \in Origin \cup {None}, NEW by \in {"desk", "approve"}
  PROVE  MoveRow(i, u, kind, after, undoes, of, by) \in Move
BY DEF MoveRow, Move, TypeOK, Qty

\* Appending rows that are authorised, or of audits that were written from a
\* stale copy, keeps the property of the ledger.
LEMMA ConcatKeeps ==
  ASSUME TypeOK, LargeNeedsApproval, crossed \subseteq crossed',
         NEW rows \in Seq(Move),
         \A n \in DOMAIN rows : (rows[n].of # None => rows[n].of.audit \notin crossed') => Authorised(rows[n]),
         ledger' = ledger \o rows
  PROVE  ledger' \in Seq(Move) /\ LargeNeedsApproval'
<1>1. ledger \in Seq(Move)
  BY DEF TypeOK
<1>2. /\ ledger' \in Seq(Move)
      /\ \A n \in DOMAIN ledger' :
           \/ n \in DOMAIN ledger /\ ledger'[n] = ledger[n]
           \/ /\ n - Len(ledger) \in DOMAIN rows
              /\ ledger'[n] = rows[n - Len(ledger)]
  BY <1>1
<1>3. LargeNeedsApproval'
  BY <1>2 DEF LargeNeedsApproval, Authorised
<1> QED BY <1>2, <1>3

\* A movement keeps the ledger and the stock well formed.
LEMMA MovementKeeps ==
  ASSUME TypeOK, LargeNeedsApproval, crossed \subseteq crossed',
         NEW i \in Items, NEW u \in Users, NEW kind \in MoveKinds, NEW after \in Nat,
         NEW undoes \in Nat, NEW of \in Origin \cup {None}, NEW by \in {"desk", "approve"},
         Movement(i, u, kind, after, undoes, of, by),
         of # None /\ VarianceNeedsApproval(of.line.system, of.line.difference)
           => by = "approve" /\ Role[u] \in Approvers
  PROVE  stock' \in [Items -> Nat] /\ ledger' \in Seq(Move) /\ LargeNeedsApproval'
<1> DEFINE row == MoveRow(i, u, kind, after, undoes, of, by)
<1>1. row \in Move
  BY RowType
<1>2. Authorised(row)
  BY DEF Authorised, MoveRow
<1>3. ledger' = Append(ledger, row)
  BY DEF Movement
<1>4. stock' \in [Items -> Nat]
  BY DEF Movement, TypeOK
<1> HIDE DEF row
<1>5. /\ <<row>> \in Seq(Move) /\ DOMAIN <<row>> = {1} /\ <<row>>[1] = row
      /\ ledger' = ledger \o <<row>>
  BY <1>1, <1>3 DEF TypeOK
<1>6. ledger' \in Seq(Move) /\ LargeNeedsApproval'
  <2>1. \A n \in DOMAIN <<row>> : Authorised(<<row>>[n])
    BY <1>2, <1>5
  <2>2. PICK rows \in Seq(Move) : rows = <<row>>
    BY <1>5
  <2> QED BY <1>5, <2>1, <2>2, ConcatKeeps
<1> QED BY <1>4, <1>6

\* Steps that leave stock, ledger and audits alone.
LEMMA QuietKeeps ==
  ASSUME DInv, UNCHANGED <<stock, ledger, audits, crossed>>
  PROVE  /\ LargeNeedsApproval' /\ LinesChecked' /\ NothingPending'
         /\ stock' \in [Items -> Nat] /\ ledger' \in Seq(Move)
BY DEF DInv, TypeOK, LargeNeedsApproval, LinesChecked, NothingPending

-----------------------------------------------------------------------------
(* Audits. *)

\* The status given to a count says whether it may be applied unapproved.
LEMMA StatusOfCount ==
  ASSUME NEW system \in Nat, NEW difference \in Int
  PROVE  /\ LineStatusForDiff(system, difference) \in LineStatuses \ {"applied"}
         /\ LineStatusForDiff(system, difference) # "pending_approval" /\ difference # 0
              => ~VarianceNeedsApproval(system, difference)
BY DEF LineStatusForDiff, LineStatuses

\* A count gives a line whose status fits its difference.
LEMMA CountedChecked ==
  ASSUME NEW seen \in [Items -> Nat], NEW i \in Items, NEW counted \in Nat
  PROVE  /\ Counted(seen, i, counted) \in Line
         /\ LineChecked(Counted(seen, i, counted))
         /\ Counted(seen, i, counted).counted = counted
<1> DEFINE st == LineStatusForDiff(seen[i], counted - seen[i])
<1>1. seen[i] \in Nat /\ counted - seen[i] \in Int
  OBVIOUS
<1>2. /\ st \in LineStatuses
      /\ st # "pending_approval" /\ counted - seen[i] # 0 => ~VarianceNeedsApproval(seen[i], counted - seen[i])
  BY <1>1, StatusOfCount
<1>3. Counted(seen, i, counted) =
        [system |-> seen[i], counted |-> counted, difference |-> counted - seen[i], status |-> st]
  BY DEF Counted
<1> HIDE DEF st
<1> QED BY <1>1, <1>2, <1>3 DEF Line, Qty, LineChecked

\* A request at work on an audit, and the audit it works on.
LEMMA LoadedTyped ==
  ASSUME TypeOK, NEW s \in Sessions, Loaded(s)
  PROVE  /\ req[s] \in Request /\ req[s].audit \in Audits
         /\ CopyOf(s) \in Audit /\ There(s) \in Audit
         /\ req[s].stock \in [Items -> Nat] /\ req[s].gone \subseteq Items
<1>1. req[s] \in Request /\ req[s].op = "audit"
  BY DEF TypeOK, Loaded
<1>2. req[s] \in [op : {"audit"}, audit : Audits, copy : Audit, stock : [Items -> Qty], gone : SUBSET Items]
  BY <1>1 DEF Request
<1> QED BY <1>1, <1>2 DEF CopyOf, There, TypeOK, Qty

\* The parts of an audit.
LEMMA AuditTyped ==
  ASSUME NEW au \in Audit
  PROVE  /\ au.lines \in [Items -> Line \cup {None}]
         /\ au.status \in {"none", "draft", "pending_review", "completed", "deleted"}
BY DEF Audit

\* What was seen of the stock is a quantity.
LEMMA SeenTyped ==
  ASSUME TypeOK, NEW s \in Sessions, Loaded(s), NEW seen \in Seen(s)
  PROVE  seen \in [Items -> Nat]
BY LoadedTyped DEF Seen, TypeOK

\* A line merged column by column is a line.
LEMMA MergedTyped ==
  ASSUME NEW old \in Line, NEW new \in Line, NEW there \in Line
  PROVE  /\ MergedLine(old, new, there) \in Line
         /\ there.system = old.system /\ there.counted = old.counted /\ there.difference = old.difference
              /\ (there.status = old.status \/ new.status # old.status)
            => MergedLine(old, new, there) = new
BY DEF MergedLine, Column, Line

\* What a commit is given: lines as they were flushed, and lines to write.
Fits(s, old, lines) ==
  /\ old \in [Items -> Line \cup {None}] /\ lines \in [Items -> Line \cup {None}]
  /\ \A i \in Items :
       \/ old[i] = None /\ CopyOf(s).lines[i] = None
       \/ /\ old[i] # None /\ CopyOf(s).lines[i] # None /\ lines[i] # None
          /\ \/ old[i] = CopyOf(s).lines[i]
             \/ /\ CopyOf(s).lines[i].system = old[i].system
                /\ CopyOf(s).lines[i].counted = old[i].counted
                /\ CopyOf(s).lines[i].difference = old[i].difference
                /\ lines[i].status # old[i].status

\* A commit leaves well-typed audits; on a copy that was up to date it writes
\* what the request has computed.
LEMMA CommitWrites ==
  ASSUME TypeOK, NEW s \in Sessions, Loaded(s), NEW old, NEW lines,
         NEW status \in {"none", "draft", "pending_review", "completed", "deleted"},
         Fits(s, old, lines), Commit(s, old, status, lines)
  PROVE  /\ Written(s, old, status, lines) \in Audit
         /\ audits' = [audits EXCEPT ![req[s].audit] = Written(s, old, status, lines)]
         /\ CopyOf(s) = There(s) => Written(s, old, status, lines) = [status |-> status, lines |-> lines]
<1>1. /\ CopyOf(s) \in Audit /\ There(s) \in Audit
      /\ CopyOf(s).lines \in [Items -> Line \cup {None}] /\ There(s).lines \in [Items -> Line \cup {None}]
      /\ There(s).status \in {"none", "draft", "pending_review", "completed", "deleted"}
  BY LoadedTyped, AuditTyped
<1>2. /\ CanCommit(s, old, status, lines)
      /\ audits' = [audits EXCEPT ![req[s].audit] = Written(s, old, status, lines)]
  BY DEF Commit
<1> DEFINE line(i) == IF lines[i] = old[i] THEN There(s).lines[i]
                      ELSE IF old[i] = None THEN lines[i] ELSE MergedLine(old[i], lines[i], There(s).lines[i])
           st == Column(CopyOf(s).status, status, There(s).status)
<1>3. ASSUME NEW i \in Items
      PROVE  /\ line(i) \in Line \cup {None}
             /\ CopyOf(s) = There(s) => line(i) = lines[i]
  <2>1. PICK o, n, t \in Line \cup {None} : o = old[i] /\ n = lines[i] /\ t = There(s).lines[i]
    BY <1>1 DEF Fits
  <2>2. line(i) = IF n = o THEN t ELSE IF o = None THEN n ELSE MergedLine(o, n, t)
    BY <2>1
  <2>3. n # o /\ o # None => t # None /\ n # None
    BY <1>2, <2>1 DEF CanCommit, RowThere, Fits
  <2>4. n # o /\ o # None => MergedLine(o, n, t) \in Line
    BY <2>1, <2>3, MergedTyped
  <2>5. CopyOf(s) = There(s) =>
          \/ o = None /\ t = None
          \/ /\ o # None /\ t # None /\ n # None
             /\ \/ o = t
                \/ /\ t.system = o.system /\ t.counted = o.counted /\ t.difference = o.difference
                   /\ n.status # o.status
    BY <2>1 DEF Fits
  <2>6. ASSUME CopyOf(s) = There(s) PROVE line(i) = lines[i]
    <3>1. CASE o = None /\ t = None
      BY <2>1, <2>2, <3>1
    <3>2. CASE o # None /\ t # None /\ n # None /\ o = t
      BY <2>1, <2>2, <3>2, MergedTyped
    <3>3. CASE /\ o # None /\ t # None /\ n # None
               /\ t.system = o.system /\ t.counted = o.counted /\ t.difference = o.difference
               /\ n.status # o.status
      BY <2>1, <2>2, <3>3, MergedTyped
    <3> QED BY <2>5, <2>6, <3>1, <3>2, <3>3
  <2> QED BY <2>1, <2>2, <2>4, <2>6
<1>4. /\ st \in {"none", "draft", "pending_review", "completed", "deleted"}
      /\ CopyOf(s) = There(s) => st = status
  BY <1>1 DEF Column
<1>5. Written(s, old, status, lines) = [status |-> st, lines |-> [i \in Items |-> line(i)]]
  BY DEF Written
<1> HIDE DEF line, st
<1>6. lines = [i \in Items |-> lines[i]]
  BY DEF Fits
<1>7. ASSUME CopyOf(s) = There(s) PROVE Written(s, old, status, lines) = [status |-> status, lines |-> lines]
  <2>1. [i \in Items |-> line(i)] = lines
    BY <1>3, <1>6, <1>7
  <2> QED BY <1>4, <1>5, <1>7, <2>1
<1>8. Written(s, old, status, lines) \in Audit
  BY <1>3, <1>4, <1>5 DEF Audit
<1> QED BY <1>2, <1>7, <1>8

\* What an audit has to be for the invariant.
Sound(au) ==
  /\ \A i \in Items : au.lines[i] # None => LineChecked(au.lines[i])
  /\ au.status = "completed" => ~HasPending(au.lines)

\* What a change of one audit has to keep.
LEMMA AuditKeeps ==
  ASSUME TypeOK, LinesChecked, NothingPending, NEW a \in Audits, NEW au \in Audit,
         audits' = [audits EXCEPT ![a] = au], crossed \subseteq crossed',
         a \notin crossed' => Sound(au)
  PROVE  audits' \in [Audits -> Audit] /\ LinesChecked' /\ NothingPending'
<1>1. audits \in [Audits -> Audit]
  BY DEF TypeOK
<1>2. audits' \in [Audits -> Audit]
  BY <1>1
<1>3. \A b \in Audits : audits'[b] = IF b = a THEN au ELSE audits[b]
  BY <1>1
<1>4. LinesChecked'
  BY <1>3 DEF LinesChecked, Sound
<1>5. NothingPending'
  BY <1>3 DEF NothingPending, Sound
<1> QED BY <1>2, <1>4, <1>5

\* An audit no stale copy was written to is sound, and so is a copy of it.
LEMMA UncrossedSound ==
  ASSUME TypeOK, LinesChecked, NothingPending, NEW s \in Sessions, Loaded(s), crossed' = Crossed(s)
  PROVE  /\ crossed \subseteq crossed' /\ crossed' \subseteq Audits
         /\ req[s].audit \notin crossed' => CopyOf(s) = There(s) /\ Sound(CopyOf(s))
<1>1. req[s].audit \in Audits
  BY LoadedTyped
<1> QED BY <1>1 DEF Crossed, There, Sound, LinesChecked, NothingPending, TypeOK

-----------------------------------------------------------------------------
(* One lemma per action. *)

LEMMA CreateAuditKeeps ==
  ASSUME DInv, NEW a \in Audits, NEW sheet \in Sheets, CreateAudit(a, sheet)
  PROVE  DInv'
<1>1. TypeOK /\ LinesChecked /\ NothingPending /\ LargeNeedsApproval
  BY DEF DInv
<1> DEFINE line(i) == IF sheet[i] = None THEN None ELSE Counted(stock, i, sheet[i])
           au == [status |-> "draft", lines |-> [i \in Items |-> line(i)]]
<1>2. ASSUME NEW i \in Items
      PROVE  line(i) = None \/ (line(i) \in Line /\ LineChecked(line(i)))
  <2>1. CASE sheet[i] = None
    BY <2>1
  <2>2. CASE sheet[i] # None
    <3>1. sheet[i] \in Nat
      BY <2>2, DeskAssumption DEF Sheets
    <3>2. stock \in [Items -> Nat]
      BY <1>1 DEF TypeOK
    <3>3. Counted(stock, i, sheet[i]) \in Line /\ LineChecked(Counted(stock, i, sheet[i]))
      BY <3>1, <3>2, CountedChecked
    <3> QED BY <2>2, <3>3
  <2> QED BY <2>1, <2>2
<1>3. audits' = [audits EXCEPT ![a] = au] /\ UNCHANGED <<stock, ledger, opened, bought, usage, prior, req, crossed, loads>>
  BY DEF CreateAudit
<1> HIDE DEF line
<1>4. au \in Audit /\ Sound(au)
  BY <1>2 DEF Audit, Sound
<1> HIDE DEF au
<1>5. audits' \in [Audits -> Audit] /\ LinesChecked' /\ NothingPending'
  BY <1>1, <1>3, <1>4, AuditKeeps
<1>6. TypeOK'
  BY <1>1, <1>3, <1>5 DEF TypeOK
<1>7. LargeNeedsApproval'
  BY <1>1, <1>3 DEF LargeNeedsApproval
<1> QED BY <1>5, <1>6, <1>7 DEF DInv

LEMMA LoadAuditKeeps ==
  ASSUME DInv, NEW s \in Sessions, NEW a \in Audits, LoadAudit(s, a)
  PROVE  DInv'
<1>1. TypeOK
  BY DEF DInv
<1>2. /\ req' = [req EXCEPT ![s] = [op |-> "audit", audit |-> a, copy |-> audits[a], stock |-> stock, gone |-> {}]]
      /\ loads' = loads + 1
      /\ UNCHANGED <<stock, ledger, audits, opened, bought, usage, prior, crossed>>
  BY DEF LoadAudit
<1>3. [op |-> "audit", audit |-> a, copy |-> audits[a], stock |-> stock, gone |-> {}] \in Request
  BY <1>1 DEF TypeOK, Request, Qty
<1>4. req' \in [Sessions -> Request \cup {None}] /\ loads' \in Nat
  BY <1>1, <1>2, <1>3 DEF TypeOK
<1> QED BY <1>1, <1>2, <1>4, QuietKeeps DEF DInv, TypeOK

LEMMA DeleteStockAuditKeeps ==
  ASSUME DInv, NEW s \in Sessions, DeleteStockAudit(s)
  PROVE  DInv'
<1>1. TypeOK /\ LinesChecked /\ NothingPending /\ LargeNeedsApproval
  BY DEF DInv
<1> DEFINE au == [status |-> "deleted", lines |-> [i \in Items |-> None]]
<1>2. au \in Audit /\ Sound(au)
  BY DEF Audit, Sound
<1>3. /\ Loaded(s) /\ audits' = [audits EXCEPT ![req[s].audit] = au] /\ crossed' = Crossed(s)
      /\ req' = [req EXCEPT ![s] = None]
      /\ UNCHANGED <<stock, ledger, opened, bought, usage, prior, loads>>
  BY DEF DeleteStockAudit
<1> HIDE DEF au
<1>4. req[s].audit \in Audits /\ crossed \subseteq crossed' /\ crossed' \subseteq Audits
  BY <1>1, <1>3, LoadedTyped, UncrossedSound
<1>5. audits' \in [Audits -> Audit] /\ LinesChecked' /\ NothingPending'
  BY <1>1, <1>2, <1>3, <1>4, AuditKeeps
<1>6. TypeOK'
  BY <1>1, <1>3, <1>4, <1>5 DEF TypeOK
<1>7. LargeNeedsApproval'
  BY <1>1, <1>3, <1>4 DEF LargeNeedsApproval
<1> QED BY <1>5, <1>6, <1>7 DEF DInv

LEMMA ReplaceAuditLinesKeeps ==
  ASSUME DInv, NEW s \in Sessions, Loaded(s), NEW seen \in Seen(s), NEW sheet \in Sheets,
         ReplaceAuditLines(s, seen, sheet)
  PROVE  DInv'
<1>1. TypeOK /\ LinesChecked /\ NothingPending /\ LargeNeedsApproval
  BY DEF DInv
<1> DEFINE a == req[s].audit
           line(i) == IF i \in {j \in Items : sheet[j] # None} THEN Counted(seen, i, sheet[i])
                      ELSE IF i \in Deleted(s) THEN None ELSE There(s).lines[i]
           au == [status |-> There(s).status, lines |-> [i \in Items |-> line(i)]]
           after(t) == IF t = s THEN None
                       ELSE IF Loaded(t) /\ req[t].audit = a
                            THEN [req[t] EXCEPT !.gone = @ \cup Deleted(s)] ELSE req[t]
<1>2. /\ CopyOf(s).status \in OpenStatuses
      /\ audits' = [audits EXCEPT ![a].lines = [i \in Items |-> line(i)]]
      /\ crossed' = Crossed(s)
      /\ req' = [t \in Sessions |-> after(t)]
      /\ UNCHANGED <<stock, ledger, opened, bought, usage, prior, loads>>
  BY DEF ReplaceAuditLines
<1>3. /\ a \in Audits /\ There(s) \in Audit /\ CopyOf(s) \in Audit
      /\ There(s).lines \in [Items -> Line \cup {None}]
      /\ crossed \subseteq crossed' /\ crossed' \subseteq Audits
      /\ a \notin crossed' => CopyOf(s) = There(s) /\ Sound(CopyOf(s))
  BY <1>1, <1>2, LoadedTyped, AuditTyped, UncrossedSound
<1>4. ASSUME NEW i \in Items
      PROVE  /\ line(i) \in Line \cup {None}
             /\ a \notin crossed' => line(i) = None \/ LineChecked(line(i))
  <2>1. CASE sheet[i] # None
    <3>1. sheet[i] \in Nat /\ seen \in [Items -> Nat]
      BY <1>1, <2>1, SeenTyped, DeskAssumption DEF Sheets
    <3>2. Counted(seen, i, sheet[i]) \in Line /\ LineChecked(Counted(seen, i, sheet[i]))
      BY <3>1, CountedChecked
    <3>3. line(i) = Counted(seen, i, sheet[i])
      BY <2>1
    <3> HIDE DEF line
    <3> QED BY <3>2, <3>3
  <2>2. CASE sheet[i] = None
    <3>1. line(i) = None \/ line(i) = There(s).lines[i]
      BY <2>2
    <3> HIDE DEF line
    <3>2. a \notin crossed' => There(s).lines[i] = None \/ LineChecked(There(s).lines[i])
      BY <1>3 DEF Sound
    <3> QED BY <1>3, <3>1, <3>2
  <2> QED BY <2>1, <2>2
<1>5. audits' = [audits EXCEPT ![a] = au]
  <2>1. PICK f : f = [i \in Items |-> line(i)]
    OBVIOUS
  <2>2. PICK t \in Audit : t = audits[a] /\ t = There(s)
    BY <1>3 DEF There
  <2>3. audits' = [audits EXCEPT ![a] = [t EXCEPT !.lines = f]] /\ au = [status |-> t.status, lines |-> f]
    BY <1>2, <2>1, <2>2
  <2>4. [t EXCEPT !.lines = f] = [status |-> t.status, lines |-> f]
    BY <2>2 DEF Audit
  <2> QED BY <2>3, <2>4
<1> HIDE DEF line
<1>6. au \in Audit /\ (a \notin crossed' => Sound(au))
  BY <1>2, <1>3, <1>4 DEF Audit, Sound, OpenStatuses
<1> HIDE DEF au
<1>7. audits' \in [Audits -> Audit] /\ LinesChecked' /\ NothingPending'
  BY <1>1, <1>3, <1>5, <1>6, AuditKeeps
<1>8. ASSUME NEW t \in Sessions PROVE after(t) \in Request \cup {None}
  <2>1. req[t] \in Request \cup {None}
    BY <1>1 DEF TypeOK
  <2>2. CASE t # s /\ Loaded(t) /\ req[t].audit = a
    <3>1. req[t] \in [op : {"audit"}, audit : Audits, copy : Audit, stock : [Items -> Qty], gone : SUBSET Items]
      BY <2>1, <2>2 DEF Loaded, Request
    <3>2. Deleted(s) \subseteq Items
      BY DEF Deleted
    <3>3. [req[t] EXCEPT !.gone = @ \cup Deleted(s)] \in Request
      BY <3>1, <3>2 DEF Request
    <3> QED BY <2>2, <3>3
  <2> QED BY <2>1, <2>2
<1>9. TypeOK'
  BY <1>1, <1>2, <1>3, <1>7, <1>8 DEF TypeOK
<1>10. LargeNeedsApproval'
  BY <1>1, <1>2, <1>3 DEF LargeNeedsApproval
<1> QED BY <1>7, <1>9, <1>10 DEF DInv

LEMMA UpsertAuditLineKeeps ==
  ASSUME DInv, NEW s \in Sessions, Loaded(s), NEW i \in Items, NEW seen \in Seen(s), NEW counted \in Nat,
         NEW now \in BOOLEAN, UpsertAuditLine(s, i, seen, counted, now)
  PROVE  DInv'
<1>1. TypeOK /\ LinesChecked /\ NothingPending /\ LargeNeedsApproval
  BY DEF DInv
<1> DEFINE lines == CopyOf(s).lines
           line == Counted(seen, i, counted)
           applies == now /\ line.status # "pending_approval" /\ line.difference # 0
           flushed == IF applies /\ lines[i] # None THEN [lines EXCEPT ![i].status = line.status] ELSE lines
           put == IF applies THEN [line EXCEPT !.status = "applied"] ELSE line
           new == [lines EXCEPT ![i] = put]
<1>2. /\ CopyOf(s).status \in OpenStatuses
      /\ Commit(s, flushed, CopyOf(s).status, new)
      /\ IF applies THEN Movement(i, UserOf[s], "correction", counted, 0, OriginOf(s, line), "desk")
                    ELSE UNCHANGED <<stock, ledger>>
      /\ UNCHANGED <<opened, bought, usage, prior, loads>>
  BY DEF UpsertAuditLine
<1>3. /\ line \in Line /\ LineChecked(line) /\ line.status \in LineStatuses \ {"applied"}
  <2>1. seen \in [Items -> Nat]
    BY <1>1, SeenTyped
  <2>2. line.status \in LineStatuses \ {"applied"}
    BY <2>1, StatusOfCount DEF Counted
  <2> QED BY <2>1, <2>2, CountedChecked
<1>4. lines \in [Items -> Line \cup {None}] /\ req[s].audit \in Audits /\ CopyOf(s) \in Audit
  BY <1>1, LoadedTyped, AuditTyped
<1> HIDE DEF line
<1>5. put \in Line /\ put # None /\ LineChecked(put) /\ (applies => put.status = "applied")
  BY <1>3, NoneAssumption DEF Line, LineStatuses, LineChecked
<1> HIDE DEF put, applies
<1>6. /\ new \in [Items -> Line \cup {None}] /\ new[i] = put
      /\ \A j \in Items \ {i} : new[j] = lines[j]
  BY <1>4, <1>5
<1>7. Fits(s, flushed, new)
  <2>1. CASE applies /\ lines[i] # None
    <3>1. /\ lines[i] \in Line /\ flushed = [lines EXCEPT ![i].status = line.status]
      BY <1>4, <2>1
    <3>2. PICK o \in Line : o = [lines[i] EXCEPT !.status = line.status]
      BY <1>3, <3>1 DEF Line
    <3>3. /\ o.system = lines[i].system /\ o.counted = lines[i].counted /\ o.difference = lines[i].difference
          /\ o.status = line.status
      BY <3>1, <3>2 DEF Line
    <3>4. flushed = [lines EXCEPT ![i] = o]
      BY <1>4, <3>1, <3>2
    <3>5. /\ flushed \in [Items -> Line \cup {None}] /\ flushed[i] = o
          /\ \A j \in Items \ {i} : flushed[j] = lines[j]
      BY <1>4, <3>4
    <3>6. put.status # o.status
      BY <1>3, <1>5, <2>1, <3>3
    <3> HIDE DEF flushed, new
    <3> QED BY <1>4, <1>5, <1>6, <2>1, <3>3, <3>5, <3>6, NoneAssumption DEF Fits
  <2>2. CASE ~(applies /\ lines[i] # None)
    <3>1. flushed = lines
      BY <2>2
    <3> HIDE DEF flushed, new
    <3> QED BY <1>4, <1>5, <1>6, <3>1 DEF Fits
  <2> QED BY <2>1, <2>2
<1> HIDE DEF flushed
<1>8. crossed' = Crossed(s) /\ req' = [req EXCEPT ![s] = None]
  BY <1>2 DEF Commit
<1>9. /\ crossed \subseteq crossed' /\ crossed' \subseteq Audits
      /\ req[s].audit \notin crossed' => CopyOf(s) = There(s) /\ Sound(CopyOf(s))
  BY <1>1, <1>8, UncrossedSound
<1>10. CopyOf(s).status \in {"none", "draft", "pending_review", "completed", "deleted"}
  BY <1>4, AuditTyped
<1>11. PICK au \in Audit : /\ audits' = [audits EXCEPT ![req[s].audit] = au]
                           /\ CopyOf(s) = There(s) => au = [status |-> CopyOf(s).status, lines |-> new]
  BY <1>1, <1>2, <1>7, <1>10, CommitWrites
<1>12. Sound(CopyOf(s)) => Sound([status |-> CopyOf(s).status, lines |-> new])
  BY <1>2, <1>5, <1>6 DEF Sound, OpenStatuses
<1>13. req[s].audit \notin crossed' => Sound(au)
  BY <1>9, <1>11, <1>12
<1>14. audits' \in [Audits -> Audit] /\ LinesChecked' /\ NothingPending'
  BY <1>1, <1>4, <1>9, <1>11, <1>13, AuditKeeps
<1>15. stock' \in [Items -> Nat] /\ ledger' \in Seq(Move) /\ LargeNeedsApproval'
  <2>1. CASE applies
    <3>1. PICK of \in Origin : of = OriginOf(s, line)
      BY <1>3, <1>4 DEF OriginOf, Origin
    <3>2. Movement(i, UserOf[s], "correction", counted, 0, of, "desk")
      BY <1>2, <2>1, <3>1
    <3>3. ~VarianceNeedsApproval(of.line.system, of.line.difference)
      BY <1>3, <2>1, <3>1 DEF applies, LineChecked, OriginOf
    <3>4. /\ "correction" \in MoveKinds /\ "desk" \in {"desk", "approve"} /\ 0 \in Nat
          /\ UserOf[s] \in Users /\ of \in Origin \cup {None}
      BY <3>1, DeskAssumption DEF MoveKinds
    <3> QED BY <1>1, <1>9, <3>2, <3>3, <3>4, MovementKeeps
  <2>2. CASE ~applies
    BY <1>1, <1>2, <1>9, <2>2 DEF TypeOK, LargeNeedsApproval
  <2> QED BY <2>1, <2>2
<1>16. TypeOK'
  BY <1>1, <1>2, <1>8, <1>9, <1>14, <1>15 DEF TypeOK
<1> QED BY <1>14, <1>15, <1>16 DEF DInv

LEMMA ApproveAuditLineKeeps ==
  ASSUME DInv, NEW s \in Sessions, NEW i \in Items, ApproveAuditLine(s, i)
  PROVE  DInv'
<1>1. TypeOK /\ LinesChecked /\ NothingPending /\ LargeNeedsApproval
  BY DEF DInv
<1> DEFINE copy == CopyOf(s).lines
           line == copy[i]
           put == [line EXCEPT !.status = "applied"]
           lines == [copy EXCEPT ![i] = put]
           status == StatusOnApprove(CopyOf(s).status, lines)
<1>2. /\ Loaded(s) /\ Role[UserOf[s]] \in Approvers /\ line # None /\ line.status = "pending_approval"
      /\ Movement(i, UserOf[s], "correction", line.counted, 0, OriginOf(s, line), "approve")
      /\ Commit(s, copy, status, lines)
      /\ UNCHANGED <<opened, bought, usage, prior, loads>>
  BY DEF ApproveAuditLine
<1>3. copy \in [Items -> Line \cup {None}] /\ req[s].audit \in Audits /\ CopyOf(s) \in Audit
  BY <1>1, <1>2, LoadedTyped, AuditTyped
<1>4. line \in Line /\ line.counted \in Nat
  BY <1>2, <1>3 DEF Line, Qty
<1>5. /\ put \in Line /\ put # None /\ put.status = "applied"
      /\ LineChecked(line) => LineChecked(put)
  BY <1>4, NoneAssumption DEF Line, LineStatuses, LineChecked
<1>6. lines \in [Items -> Line \cup {None}] /\ lines[i] = put /\ \A j \in Items \ {i} : lines[j] = copy[j]
  BY <1>3, <1>5
<1> HIDE DEF put
<1>7. Fits(s, copy, lines)
  <2> HIDE DEF lines
  <2> QED BY <1>2, <1>3, <1>5, <1>6 DEF Fits
<1>8. crossed' = Crossed(s) /\ req' = [req EXCEPT ![s] = None]
  BY <1>2 DEF Commit
<1>9. /\ crossed \subseteq crossed' /\ crossed' \subseteq Audits
      /\ req[s].audit \notin crossed' => CopyOf(s) = There(s) /\ Sound(CopyOf(s))
  BY <1>1, <1>2, <1>8, UncrossedSound
<1>10. status \in {"none", "draft", "pending_review", "completed", "deleted"}
  BY <1>3, AuditTyped DEF StatusOnApprove
<1> HIDE DEF lines
<1>11. PICK au \in Audit : /\ audits' = [audits EXCEPT ![req[s].audit] = au]
                           /\ CopyOf(s) = There(s) => au = [status |-> status, lines |-> lines]
  <2> HIDE DEF copy, status
  <2>1. Commit(s, copy, status, lines) /\ Loaded(s)
    BY <1>2
  <2> QED BY <1>1, <1>7, <1>10, <2>1, CommitWrites
<1>12. Sound(CopyOf(s)) => Sound([status |-> status, lines |-> lines])
  <2> SUFFICES ASSUME Sound(CopyOf(s)) PROVE Sound([status |-> status, lines |-> lines])
    OBVIOUS
  <2>1. \A j \in Items : lines[j] # None => LineChecked(lines[j])
    BY <1>2, <1>5, <1>6 DEF Sound
  <2>2. CopyOf(s).status # "completed"
    BY <1>2 DEF Sound, HasPending
  <2>3. status = "completed" => ~HasPending(lines)
    BY <2>2 DEF StatusOnApprove
  <2> HIDE DEF status
  <2> QED BY <2>1, <2>3 DEF Sound
<1>13. req[s].audit \notin crossed' => Sound(au)
  BY <1>9, <1>11, <1>12
<1>14. audits' \in [Audits -> Audit] /\ LinesChecked' /\ NothingPending'
  BY <1>1, <1>3, <1>9, <1>11, <1>13, AuditKeeps
<1>15. stock' \in [Items -> Nat] /\ ledger' \in Seq(Move) /\ LargeNeedsApproval'
  <2>1. PICK of \in Origin : of = OriginOf(s, line)
    BY <1>3, <1>4 DEF OriginOf, Origin
  <2>2. /\ "correction" \in MoveKinds /\ "approve" \in {"desk", "approve"} /\ 0 \in Nat
        /\ UserOf[s] \in Users /\ of \in Origin \cup {None}
    BY <2>1, DeskAssumption DEF MoveKinds
  <2>3. Movement(i, UserOf[s], "correction", line.counted, 0, of, "approve")
    BY <1>2, <2>1
  <2> QED BY <1>1, <1>2, <1>4, <1>9, <2>2, <2>3, MovementKeeps
<1>16. TypeOK'
  BY <1>1, <1>2, <1>8, <1>9, <1>14, <1>15 DEF TypeOK
<1> QED BY <1>14, <1>15, <1>16 DEF DInv

\* What completing an audit makes of a line.
LEMMA CompletedLine ==
  ASSUME NEW l \in Line
  PROVE  /\ Completed(l) \in Line
         /\ Completed(l).status = "pending_approval" <=> l.status = "pending_approval"
         /\ LineChecked(l) => LineChecked(Completed(l))
<1>1. CASE l.status = "pending_approval"
  BY <1>1 DEF Completed
<1>2. CASE l.status # "pending_approval" /\ l.difference = 0
  BY <1>2 DEF Completed, Line, LineStatuses, LineChecked
<1>3. CASE l.status # "pending_approval" /\ l.difference # 0
  BY <1>3 DEF Completed, Line, LineStatuses, LineChecked
<1> QED BY <1>1, <1>2, <1>3

LEMMA CompleteStockAuditKeeps ==
  ASSUME DInv, NEW s \in Sessions, CompleteStockAudit(s)
  PROVE  DInv'
<1>1. TypeOK /\ LinesChecked /\ NothingPending /\ LargeNeedsApproval
  BY DEF DInv
<1> DEFINE lines == CopyOf(s).lines
           apply == ToApply(lines)
           done(i) == IF lines[i] = None THEN None ELSE Completed(lines[i])
           after == [i \in Items |-> done(i)]
           row(i) == MoveRow(i, UserOf[s], "correction", lines[i].counted, 0, OriginOf(s, lines[i]), "desk")
<1>2. PICK rows \in [1..Cardinality(apply) -> apply] :
        /\ \A i \in apply : \E n \in DOMAIN rows : rows[n] = i
        /\ ledger' = ledger \o [n \in DOMAIN rows |-> row(rows[n])]
  BY DEF CompleteStockAudit
<1>3. /\ Loaded(s) /\ CopyOf(s).status \in OpenStatuses
      /\ stock' = [i \in Items |-> IF i \in apply THEN lines[i].counted ELSE stock[i]]
      /\ Commit(s, lines, StatusOnComplete(lines), after)
      /\ UNCHANGED <<opened, bought, usage, prior, loads>>
  BY DEF CompleteStockAudit
<1>4. apply \subseteq Items /\ Cardinality(apply) \in Nat
  <2>1. apply \subseteq Items
    BY DEF ToApply
  <2> QED BY <2>1, DeskAssumption, FS_Subset, FS_CardinalityType
<1>5. lines \in [Items -> Line \cup {None}] /\ req[s].audit \in Audits /\ CopyOf(s) \in Audit
  BY <1>1, <1>3, LoadedTyped, AuditTyped
<1>6. crossed' = Crossed(s) /\ req' = [req EXCEPT ![s] = None]
  BY <1>3 DEF Commit
<1>7. /\ crossed \subseteq crossed' /\ crossed' \subseteq Audits
      /\ req[s].audit \notin crossed' => CopyOf(s) = There(s) /\ Sound(CopyOf(s))
  BY <1>1, <1>3, <1>6, UncrossedSound
<1>8. \A i \in apply :
        /\ lines[i] \in Line /\ lines[i] # None /\ lines[i].counted \in Nat
        /\ LineChecked(lines[i]) => ~VarianceNeedsApproval(lines[i].system, lines[i].difference)
  BY <1>5 DEF ToApply, LineChecked, Line, Qty
<1> DEFINE Fine(r) ==
             /\ r \in Move
             /\ (r.of # None => r.of.audit \notin crossed') => Authorised(r)
<1>9. ASSUME NEW i \in apply PROVE Fine(row(i))
  <2>1. PICK l \in Line : l = lines[i]
    BY <1>8
  <2>2. PICK of \in Origin : of = OriginOf(s, l) /\ of.audit = req[s].audit /\ of.line = l
    <3>1. PICK a \in Audits : a = req[s].audit
      BY <1>5
    <3>2. OriginOf(s, l) = [audit |-> a, line |-> l]
      BY <3>1 DEF OriginOf
    <3>3. [audit |-> a, line |-> l] \in Origin
      BY DEF Origin
    <3> QED BY <3>1, <3>2, <3>3
  <2>3. PICK r : r = row(i) /\ r = MoveRow(i, UserOf[s], "correction", l.counted, 0, of, "desk")
    BY <2>1, <2>2
  <2> HIDE DEF row
  <2>4. r \in Move
    <3>1. "correction" \in MoveKinds /\ "desk" \in {"desk", "approve"} /\ 0 \in Nat /\ UserOf[s] \in Users
      BY DeskAssumption DEF MoveKinds
    <3>2. i \in Items /\ of \in Origin \cup {None} /\ l.counted \in Nat
      BY <1>4, <1>8, <2>1
    <3> HIDE DEF lines
    <3> QED BY <1>1, <2>3, <3>1, <3>2, RowType
  <2>5. r.of = of
    BY <2>3 DEF MoveRow
  <2>6. of.audit \notin crossed' => ~VarianceNeedsApproval(l.system, l.difference)
    BY <1>4, <1>7, <1>8, <2>1, <2>2 DEF Sound
  <2>7. of # None
    BY NoneAssumption
  <2> QED BY <2>2, <2>3, <2>4, <2>5, <2>6, <2>7 DEF Authorised
<1> HIDE DEF row, Fine
<1> DEFINE added == [n \in DOMAIN rows |-> row(rows[n])]
<1>10. /\ added \in Seq(Move) /\ ledger' = ledger \o added
       /\ \A n \in DOMAIN added : (added[n].of # None => added[n].of.audit \notin crossed') => Authorised(added[n])
  <2>1. DOMAIN rows = 1..Cardinality(apply) /\ \A n \in DOMAIN rows : rows[n] \in apply
    OBVIOUS
  <2>2. \A n \in DOMAIN rows : Fine(row(rows[n]))
    BY <2>1, <1>9
  <2>3. DOMAIN added = DOMAIN rows /\ \A n \in DOMAIN added : added[n] = row(rows[n])
    OBVIOUS
  <2>4. \A n \in DOMAIN added : Fine(added[n])
    BY <2>2, <2>3
  <2>5. ledger' = ledger \o added
    BY <1>2
  <2> HIDE DEF added
  <2>6. \A n \in DOMAIN added :
          added[n] \in Move /\ ((added[n].of # None => added[n].of.audit \notin crossed') => Authorised(added[n]))
    BY <2>4 DEF Fine
  <2>7. added \in Seq(Move)
    <3>1. added = [n \in 1..Cardinality(apply) |-> added[n]]
      BY <2>1, <2>3 DEF added
    <3>2. added \in [1..Cardinality(apply) -> Move]
      BY <2>1, <2>3, <2>6, <3>1
    <3> QED BY <1>4, <3>2
  <2> QED BY <2>5, <2>6, <2>7
<1> HIDE DEF added
<1>11. ledger' \in Seq(Move) /\ LargeNeedsApproval'
  BY <1>1, <1>7, <1>10, ConcatKeeps
<1>12. ASSUME NEW i \in Items
       PROVE  /\ done(i) \in Line \cup {None} /\ (done(i) = None <=> lines[i] = None)
              /\ lines[i] # None =>
                   /\ done(i).status = "pending_approval" <=> lines[i].status = "pending_approval"
                   /\ LineChecked(lines[i]) => LineChecked(done(i))
  <2>1. CASE lines[i] = None
    BY <2>1
  <2>2. CASE lines[i] # None
    <3>1. PICK l \in Line : l = lines[i]
      BY <1>5, <2>2
    <3>2. done(i) = Completed(l)
      BY <2>2, <3>1
    <3>3. /\ Completed(l) \in Line
          /\ Completed(l).status = "pending_approval" <=> l.status = "pending_approval"
          /\ LineChecked(l) => LineChecked(Completed(l))
      BY CompletedLine
    <3> QED BY <2>2, <3>1, <3>2, <3>3, NoneAssumption
  <2> QED BY <2>1, <2>2
<1>13. stock' \in [Items -> Nat]
  BY <1>1, <1>3, <1>8 DEF TypeOK
<1> HIDE DEF done
<1>14. after \in [Items -> Line \cup {None}] /\ \A i \in Items : after[i] = done(i)
  BY <1>12
<1> HIDE DEF after
<1>15. Fits(s, lines, after)
  BY <1>5, <1>12, <1>14 DEF Fits
<1>16. HasPending(after) => HasPending(lines)
  BY <1>12, <1>14 DEF HasPending
<1> DEFINE status == StatusOnComplete(lines)
<1>17. status \in {"none", "draft", "pending_review", "completed", "deleted"} /\ (status = "completed" => ~HasPending(after))
  BY <1>16 DEF StatusOnComplete
<1> HIDE DEF status
<1>18. PICK au \in Audit : /\ audits' = [audits EXCEPT ![req[s].audit] = au]
                           /\ CopyOf(s) = There(s) => au = [status |-> status, lines |-> after]
  <2> HIDE DEF lines
  <2>1. Commit(s, lines, status, after) /\ Loaded(s)
    BY <1>3 DEF status
  <2> QED BY <1>1, <1>15, <1>17, <2>1, CommitWrites
<1>19. Sound(CopyOf(s)) => Sound([status |-> status, lines |-> after])
  BY <1>12, <1>14, <1>17 DEF Sound
<1>20. req[s].audit \notin crossed' => Sound(au)
  BY <1>7, <1>18, <1>19
<1>21. audits' \in [Audits -> Audit] /\ LinesChecked' /\ NothingPending'
  BY <1>1, <1>5, <1>7, <1>18, <1>20, AuditKeeps
<1>22. TypeOK'
  BY <1>1, <1>3, <1>6, <1>7, <1>11, <1>13, <1>21 DEF TypeOK
<1> QED BY <1>11, <1>21, <1>22 DEF DInv

\* Steps that move stock and leave the audits alone.
LEMMA PlainMovementKeeps ==
  ASSUME DInv, NEW i \in Items, NEW u \in Users, NEW kind \in MoveKinds, NEW after \in Nat,
         NEW undoes \in Nat,
         Movement(i, u, kind, after, undoes, None, "desk"), UNCHANGED <<audits, crossed>>
  PROVE  /\ stock' \in [Items -> Nat] /\ ledger' \in Seq(Move)
         /\ LargeNeedsApproval' /\ LinesChecked' /\ NothingPending'
<1>1. TypeOK /\ LinesChecked /\ NothingPending /\ LargeNeedsApproval
  BY DEF DInv
<1>2. None \in Origin \cup {None} /\ "desk" \in {"desk", "approve"} /\ crossed \subseteq crossed'
  OBVIOUS
<1>3. stock' \in [Items -> Nat] /\ ledger' \in Seq(Move) /\ LargeNeedsApproval'
  BY <1>1, <1>2, MovementKeeps
<1>4. LinesChecked' /\ NothingPending'
  BY <1>1 DEF LinesChecked, NothingPending
<1> QED BY <1>3, <1>4

LEMMA ItemStepKeeps ==
  ASSUME DInv, ItemStep
  PROVE  DInv'
<1>1. TypeOK
  BY DEF DInv
<1>2. PICK u \in Users, i \in Items :
        \/ Receive(u, i)
        \/ \E q \in Edits[i] :
             \/ SetOpeningStock(u, i, q)
             \/ \E k \in Kinds : PatchStockItem(u, i, q, k) \/ CountedUpdate(u, i, q, k)
  BY DEF ItemStep
<1>3. CASE Receive(u, i)
  <2>1. stock[i] + 1 \in Nat /\ "delivery_receive" \in MoveKinds /\ 0 \in Nat
    BY <1>1 DEF TypeOK, MoveKinds
  <2>2. Movement(i, u, "delivery_receive", stock[i] + 1, 0, None, "desk") /\ UNCHANGED <<audits, crossed>>
    BY <1>3 DEF Receive
  <2>3. /\ stock' \in [Items -> Nat] /\ ledger' \in Seq(Move)
        /\ LargeNeedsApproval' /\ LinesChecked' /\ NothingPending'
    BY <2>1, <2>2, PlainMovementKeeps
  <2>4. bought' \in [Items -> Nat]
    BY <1>1, <1>3 DEF TypeOK, Receive
  <2>5. UNCHANGED <<audits, opened, usage, prior, req, crossed, loads>>
    BY <1>3 DEF Receive
  <2> QED BY <1>1, <2>3, <2>4, <2>5 DEF DInv, TypeOK
<1>4. ASSUME NEW q \in Edits[i], SetOpeningStock(u, i, q)
      PROVE  DInv'
  <2>1. q \in Nat /\ "opening_stock" \in MoveKinds /\ 0 \in Nat
    BY DeskAssumption DEF MoveKinds
  <2>2. Movement(i, u, "opening_stock", q, 0, None, "desk") /\ UNCHANGED <<audits, crossed>>
    BY <1>4 DEF SetOpeningStock
  <2>3. /\ stock' \in [Items -> Nat] /\ ledger' \in Seq(Move)
        /\ LargeNeedsApproval' /\ LinesChecked' /\ NothingPending'
    BY <2>1, <2>2, PlainMovementKeeps
  <2> QED BY <1>1, <1>4, <2>3 DEF DInv, TypeOK, SetOpeningStock
<1>5. ASSUME NEW q \in Edits[i], NEW k \in Kinds, PatchStockItem(u, i, q, k) \/ CountedUpdate(u, i, q, k)
      PROVE  DInv'
  <2>1. q \in Nat /\ k \in MoveKinds /\ 0 \in Nat
    BY DeskAssumption DEF MoveKinds
  <2>2. /\ Movement(i, u, k, q, 0, None, "desk")
        /\ UNCHANGED <<audits, opened, bought, usage, prior, req, crossed, loads>>
    BY <1>5 DEF PatchStockItem, CountedUpdate
  <2>3. /\ stock' \in [Items -> Nat] /\ ledger' \in Seq(Move)
        /\ LargeNeedsApproval' /\ LinesChecked' /\ NothingPending'
    BY <2>1, <2>2, PlainMovementKeeps
  <2> QED BY <1>1, <2>2, <2>3 DEF DInv, TypeOK
<1> QED BY <1>2, <1>3, <1>4, <1>5

LEMMA BeginUndoKeeps ==
  ASSUME DInv, NEW s \in Sessions, NEW i \in Items, BeginUndo(s, i)
  PROVE  DInv'
<1>1. TypeOK
  BY DEF DInv
<1>2. PICK n \in DOMAIN ledger :
        req' = [req EXCEPT ![s] = [op |-> "undo", item |-> i, row |-> n,
                                   qty |-> ledger[n].before, log |-> None]]
  BY DEF BeginUndo
<1>3. n \in Nat /\ ledger[n].before \in Nat
  <2>1. n \in Nat /\ ledger[n] \in Move
    BY <1>1 DEF TypeOK
  <2> QED BY <2>1 DEF Move, Qty
<1>4. req' \in [Sessions -> Request \cup {None}]
  BY <1>1, <1>2, <1>3 DEF TypeOK, Request, Qty
<1>5. UNCHANGED <<stock, ledger, audits, opened, bought, usage, prior, crossed, loads>>
  BY DEF BeginUndo
<1> QED BY <1>1, <1>4, <1>5, QuietKeeps DEF DInv, TypeOK

LEMMA FinishUndoKeeps ==
  ASSUME DInv, NEW s \in Sessions, FinishUndo(s)
  PROVE  DInv'
<1>1. TypeOK
  BY DEF DInv
<1> DEFINE r == req[s]
<1>2. /\ r # None /\ r.op = "undo"
      /\ IF KeyUsed(r.row) THEN UNCHANGED <<stock, ledger>>
         ELSE Movement(r.item, UserOf[s], "undo", r.qty, r.row, None, "desk")
      /\ req' = [req EXCEPT ![s] = None]
      /\ UNCHANGED <<audits, opened, bought, usage, prior, crossed, loads>>
  BY DEF FinishUndo
<1>3. r \in Request
  BY <1>1, <1>2 DEF TypeOK
<1> HIDE DEF r
<1>4. r.item \in Items /\ UserOf[s] \in Users /\ r.qty \in Nat /\ r.row \in Nat /\ "undo" \in MoveKinds
  BY <1>2, <1>3, DeskAssumption DEF Request, Qty, MoveKinds
<1>5. /\ stock' \in [Items -> Nat] /\ ledger' \in Seq(Move)
      /\ LargeNeedsApproval' /\ LinesChecked' /\ NothingPending'
  <2>1. CASE KeyUsed(r.row)
    BY <1>2, <2>1, QuietKeeps
  <2>2. CASE ~KeyUsed(r.row)
    BY <1>2, <1>4, <2>2, PlainMovementKeeps
  <2> QED BY <2>1, <2>2
<1>6. TypeOK'
  BY <1>1, <1>2, <1>5 DEF TypeOK
<1> QED BY <1>5, <1>6 DEF DInv

LEMMA BeginUsageKeeps ==
  ASSUME DInv, NEW s \in Sessions, NEW i \in Items, BeginUsage(s, i, 1)
  PROVE  DInv'
<1>1. TypeOK
  BY DEF DInv
<1>2. stock[i] \in Nat /\ bought[i] \in Nat /\ OpeningOf(i) \in Nat
  BY <1>1 DEF TypeOK, OpeningOf, NonNegative
<1>3. OpeningOf(i) + bought[i] - 1 \in Nat
  BY <1>2 DEF BeginUsage
<1>4. req' = [req EXCEPT ![s] = UsageRequest(i, 1)] /\ UsageRequest(i, 1) \in Request
  <2>1. req' = [req EXCEPT ![s] = UsageRequest(i, 1)]
    BY DEF BeginUsage
  <2>2. UsageRequest(i, 1) \in Request
    BY <1>2, <1>3 DEF UsageRequest, Request, UsageLog, Qty
  <2> QED BY <2>1, <2>2
<1>5. req' \in [Sessions -> Request \cup {None}]
  BY <1>1, <1>4 DEF TypeOK
<1>6. UNCHANGED <<stock, ledger, audits, opened, bought, usage, prior, crossed, loads>>
  BY DEF BeginUsage
<1> QED BY <1>1, <1>5, <1>6, QuietKeeps DEF DInv, TypeOK

LEMMA FinishUsageKeeps ==
  ASSUME DInv, NEW s \in Sessions, FinishUsage(s)
  PROVE  DInv'
<1>1. TypeOK
  BY DEF DInv
<1> DEFINE r == req[s]
<1>2. /\ r # None /\ r.op = "usage"
      /\ IF r.log.closing # r.qty
         THEN Movement(r.item, UserOf[s], "daily_usage", r.log.closing, 0, None, "desk")
         ELSE UNCHANGED <<stock, ledger>>
      /\ usage' = [usage EXCEPT ![r.item] = r.log]
      /\ req' = [req EXCEPT ![s] = None]
      /\ UNCHANGED <<audits, opened, bought, prior, crossed, loads>>
  BY DEF FinishUsage
<1>3. r \in Request /\ r.log \in UsageLog
  <2>1. r \in Request
    BY <1>1, <1>2 DEF TypeOK
  <2> HIDE DEF r
  <2> QED BY <1>2, <2>1 DEF Request
<1>4. /\ r.item \in Items /\ UserOf[s] \in Users /\ r.log.closing \in Nat
      /\ "daily_usage" \in MoveKinds /\ 0 \in Nat
  <2> HIDE DEF r
  <2> QED BY <1>2, <1>3, DeskAssumption DEF Request, UsageLog, Qty, MoveKinds
<1> HIDE DEF r
<1>5. /\ stock' \in [Items -> Nat] /\ ledger' \in Seq(Move)
      /\ LargeNeedsApproval' /\ LinesChecked' /\ NothingPending'
  <2>1. CASE r.log.closing = r.qty
    BY <1>2, <2>1, QuietKeeps
  <2>2. CASE r.log.closing # r.qty
    BY <1>2, <1>4, <2>2, PlainMovementKeeps
  <2> QED BY <2>1, <2>2
<1>6. TypeOK'
  BY <1>1, <1>2, <1>3, <1>4, <1>5 DEF TypeOK
<1> QED BY <1>5, <1>6 DEF DInv

LEMMA AbandonKeeps ==
  ASSUME DInv, NEW s \in Sessions, Abandon(s)
  PROVE  DInv'
<1>1. /\ req' = [req EXCEPT ![s] = None]
      /\ UNCHANGED <<stock, ledger, audits, opened, bought, usage, prior, crossed, loads>>
  BY DEF Abandon
<1> QED BY <1>1, QuietKeeps DEF DInv, TypeOK

LEMMA MaterializeSnapshotsKeeps ==
  ASSUME DInv, MaterializeSnapshots
  PROVE  DInv'
<1>1. TypeOK
  BY DEF DInv
<1> DEFINE opening(i) == NonNegative(IF prior[i] # None THEN prior[i] ELSE stock[i] - bought[i])
           log(i) == [opening |-> opening(i), bought |-> bought[i], used |-> 0,
                      closing |-> opening(i) + bought[i]]
<1>2. /\ usage' = [i \in Items |-> IF i \notin Unlogged THEN usage[i] ELSE log(i)]
      /\ UNCHANGED <<stock, ledger, audits, opened, bought, prior, req, crossed, loads>>
  BY DEF MaterializeSnapshots
<1>3. ASSUME NEW i \in Items
      PROVE  log(i) \in UsageLog
  <2>1. opening(i) \in Nat /\ bought[i] \in Nat
    BY <1>1 DEF TypeOK, NonNegative, Qty
  <2> HIDE DEF opening
  <2> QED BY <2>1 DEF UsageLog, Qty
<1> HIDE DEF log
<1>4. usage' \in [Items -> UsageLog \cup {None}]
  BY <1>1, <1>2, <1>3 DEF TypeOK
<1> QED BY <1>1, <1>2, <1>4, QuietKeeps DEF DInv, TypeOK

LEMMA MidnightKeeps ==
  ASSUME DInv, Midnight
  PROVE  DInv'
<1>1. TypeOK
  BY DEF DInv
<1>2. /\ prior' = [i \in Items |-> IF usage[i] = None THEN None ELSE usage[i].closing]
      /\ usage' = [i \in Items |-> None]
      /\ bought' = [i \in Items |-> 0]
      /\ UNCHANGED <<stock, ledger, audits, opened, req, crossed, loads>>
  BY DEF Midnight
<1>3. prior' \in [Items -> Qty \cup {None}]
  BY <1>1, <1>2 DEF TypeOK, UsageLog
<1> QED BY <1>1, <1>2, <1>3, QuietKeeps DEF DInv, TypeOK

LEMMA InitKeeps == Init => DInv
<1> SUFFICES ASSUME Init PROVE DInv
  OBVIOUS
<1>1. /\ stock = InitStock /\ ledger = <<>>
      /\ audits = [a \in Audits |-> NoAudit]
      /\ opened = {}
      /\ bought = [i \in Items |-> 0]
      /\ usage = [i \in Items |-> None] /\ prior = [i \in Items |-> None]
      /\ req = [s \in Sessions |-> None]
      /\ crossed = {} /\ loads = 0
  BY DEF Init
<1>2. NoAudit \in Audit /\ NoAudit.status = "none" /\ \A i \in Items : NoAudit.lines[i] = None
  BY DEF NoAudit, Audit
<1>3. ledger \in Seq(Move) /\ DOMAIN ledger = {}
  BY <1>1
<1>4. TypeOK
  BY <1>1, <1>2, <1>3, DeskAssumption DEF TypeOK
<1>5. LinesChecked /\ NothingPending
  BY <1>1, <1>2 DEF LinesChecked, NothingPending
<1>6. LargeNeedsApproval
  BY <1>3 DEF LargeNeedsApproval
<1> QED BY <1>4, <1>5, <1>6 DEF DInv

LEMMA StepKeeps == DInv /\ [Next]_vars => DInv'
<1> SUFFICES ASSUME DInv, [Next]_vars PROVE DInv'
  OBVIOUS
<1>1. CASE AuditStep
  <2>1. ASSUME NEW a \in Audits, NEW sheet \in Sheets, CreateAudit(a, sheet) PROVE DInv'
    BY <2>1, CreateAuditKeeps
  <2>2. ASSUME NEW s \in Sessions, NEW a \in Audits, LoadAudit(s, a) PROVE DInv'
    BY <2>2, LoadAuditKeeps
  <2>3. ASSUME NEW s \in Sessions, DeleteStockAudit(s) PROVE DInv'
    BY <2>3, DeleteStockAuditKeeps
  <2>4. ASSUME NEW s \in Sessions, CompleteStockAudit(s) PROVE DInv'
    BY <2>4, CompleteStockAuditKeeps
  <2>5. ASSUME NEW s \in Sessions, NEW i \in Items, ApproveAuditLine(s, i) PROVE DInv'
    BY <2>5, ApproveAuditLineKeeps
  <2>6. ASSUME NEW s \in Sessions, Loaded(s), NEW seen \in Seen(s), NEW sheet \in Sheets,
               ReplaceAuditLines(s, seen, sheet)
        PROVE  DInv'
    BY <2>6, ReplaceAuditLinesKeeps
  <2>7. ASSUME NEW s \in Sessions, Loaded(s), NEW seen \in Seen(s), NEW i \in Items, NEW q \in Counts[i],
               NEW now \in BOOLEAN, UpsertAuditLine(s, i, seen, q, now)
        PROVE  DInv'
    <3>1. q \in Nat
      BY DeskAssumption
    <3> QED BY <2>7, <3>1, UpsertAuditLineKeeps
  <2> QED BY <1>1, <2>1, <2>2, <2>3, <2>4, <2>5, <2>6, <2>7 DEF AuditStep
<1>2. CASE ItemStep
  BY <1>2, ItemStepKeeps
<1>3. CASE SessionStep
  BY <1>3, BeginUndoKeeps, BeginUsageKeeps, FinishUndoKeeps, FinishUsageKeeps, AbandonKeeps DEF SessionStep
<1>4. CASE MaterializeSnapshots
  BY <1>4, MaterializeSnapshotsKeeps
<1>5. CASE Midnight
  BY <1>5, MidnightKeeps
<1>6. CASE UNCHANGED vars
  BY <1>6, QuietKeeps DEF DInv, TypeOK, vars
<1> QED BY <1>1, <1>2, <1>3, <1>4, <1>5, <1>6 DEF Next

\* A step that writes no stale copy leaves a completed audit as it is: the only
\* handler that does not ask for the status needs a pending line, which a
\* completed audit has not.
LEMMA CompletedStays ==
  ASSUME DInv, [Next]_vars, NEW b \in Audits, audits[b].status = "completed", b \notin crossed'
  PROVE  audits'[b] = audits[b]
<1>1. TypeOK /\ NothingPending
  BY DEF DInv
<1>2. ASSUME NEW a \in Audits, a # b, NEW v, audits' = [audits EXCEPT ![a] = v]
      PROVE  audits'[b] = audits[b]
  BY <1>1, <1>2 DEF TypeOK
<1>3. ASSUME NEW s \in Sessions, Loaded(s), crossed' = Crossed(s), req[s].audit = b
      PROVE  CopyOf(s) = audits[b] /\ b \notin crossed
  BY <1>3 DEF Crossed, There
<1>4. CASE AuditStep
  <2>1. ASSUME NEW a \in Audits, NEW sheet \in Sheets, CreateAudit(a, sheet) PROVE audits'[b] = audits[b]
    <3>1. a # b /\ \E v : audits' = [audits EXCEPT ![a] = v]
      BY <2>1 DEF CreateAudit
    <3> QED BY <3>1, <1>2
  <2>2. ASSUME NEW s \in Sessions, NEW a \in Audits, LoadAudit(s, a) PROVE audits'[b] = audits[b]
    BY <2>2 DEF LoadAudit
  <2>3. ASSUME NEW s \in Sessions, Loaded(s), crossed' = Crossed(s),
               \E v : audits' = [audits EXCEPT ![req[s].audit] = v],
               CopyOf(s).status # "completed" \/ HasPending(CopyOf(s).lines)
        PROVE  audits'[b] = audits[b]
    <3>1. req[s].audit # b
      BY <1>1, <1>3, <2>3 DEF NothingPending
    <3>2. req[s].audit \in Audits
      BY <1>1, <2>3, LoadedTyped
    <3> QED BY <1>2, <2>3, <3>1, <3>2
  <2>4. ASSUME NEW s \in Sessions, DeleteStockAudit(s) PROVE audits'[b] = audits[b]
    BY <2>3, <2>4 DEF DeleteStockAudit
  <2>5. ASSUME NEW s \in Sessions, CompleteStockAudit(s) PROVE audits'[b] = audits[b]
    BY <2>3, <2>5 DEF CompleteStockAudit, Commit, OpenStatuses
  <2>6. ASSUME NEW s \in Sessions, NEW i \in Items, ApproveAuditLine(s, i) PROVE audits'[b] = audits[b]
    <3>1. HasPending(CopyOf(s).lines)
      BY <2>6 DEF ApproveAuditLine, HasPending
    <3> QED BY <2>3, <2>6, <3>1 DEF ApproveAuditLine, Commit
  <2>7. ASSUME NEW s \in Sessions, NEW seen \in Seen(s), NEW sheet \in Sheets, ReplaceAuditLines(s, seen, sheet)
        PROVE  audits'[b] = audits[b]
    <3>1. \E v : audits' = [audits EXCEPT ![req[s].audit] = v]
      BY <2>7 DEF ReplaceAuditLines
    <3> QED BY <2>3, <2>7, <3>1 DEF ReplaceAuditLines, OpenStatuses
  <2>8. ASSUME NEW s \in Sessions, NEW seen \in Seen(s), NEW i \in Items, NEW q \in Counts[i],
               NEW now \in BOOLEAN, UpsertAuditLine(s, i, seen, q, now)
        PROVE  audits'[b] = audits[b]
    BY <2>3, <2>8 DEF UpsertAuditLine, Commit, OpenStatuses
  <2> QED BY <1>4, <2>1, <2>2, <2>4, <2>5, <2>6, <2>7, <2>8 DEF AuditStep
<1>5. CASE ItemStep
  BY <1>5 DEF ItemStep, Receive, SetOpeningStock, PatchStockItem, CountedUpdate
<1>6. CASE SessionStep
  BY <1>6 DEF SessionStep, BeginUndo, BeginUsage, FinishUndo, FinishUsage, Abandon
<1>7. CASE MaterializeSnapshots \/ Midnight \/ UNCHANGED vars
  BY <1>7 DEF MaterializeSnapshots, Midnight, vars
<1> QED BY <1>4, <1>5, <1>6, <1>7 DEF Next

\* The strengthened invariant holds in every reachable state.
THEOREM DeskInvariant == Spec => []DInv
BY InitKeeps, StepKeeps, PTL DEF Spec

\* Every variable keeps its type, for any items, members and audits.
THEOREM DeskTypeCorrect == Spec => []TypeOK
<1>1. DInv => TypeOK
  BY DEF DInv
<1> QED BY <1>1, DeskInvariant, PTL

\* No count beyond the threshold reaches the stock without an approval, of an
\* audit that was never written from a stale copy (stock_audit_service.py).
THEOREM ApprovalRespected == Spec => []LargeNeedsApproval
<1>1. DInv => LargeNeedsApproval
  BY DEF DInv
<1> QED BY <1>1, DeskInvariant, PTL

\* A completed audit that was never written from a stale copy is never changed
\* again, although approval does not look at the audit's status.
THEOREM CompletedAuditFinal == Spec => CompletedIsFinal
<1>1. DInv /\ [Next]_vars => [\A a \in Audits : audits[a].status = "completed" /\ a \notin crossed' => audits'[a] = audits[a]]_vars
  BY CompletedStays
<1> QED BY <1>1, DeskInvariant, PTL DEF Spec, CompletedIsFinal

-----------------------------------------------------------------------------
(* The usage log and the stock. *)

\* A new row is the last one of its item, and no other item's.
LEMMA LastAfterAppend ==
  ASSUME TypeOK, NEW row, ledger' = Append(ledger, row)
  PROVE  \A i \in Items : LastIsUsage(i)' <=> IF i = row.item THEN row.kind = "daily_usage" ELSE LastIsUsage(i)
<1>1. /\ ledger \in Seq(Move) /\ Len(ledger) \in Nat
      /\ DOMAIN ledger = 1..Len(ledger)
      /\ DOMAIN ledger' = 1..(Len(ledger) + 1)
      /\ ledger'[Len(ledger) + 1] = row
      /\ \A n \in DOMAIN ledger : ledger'[n] = ledger[n]
  BY DEF TypeOK
<1> SUFFICES ASSUME NEW i \in Items
             PROVE  LastIsUsage(i)' <=> IF i = row.item THEN row.kind = "daily_usage" ELSE LastIsUsage(i)
  OBVIOUS
<1>2. CASE i = row.item
  <2>1. \A n \in DOMAIN ledger' : IsLast(n, MovesOf(i)') <=> n = Len(ledger) + 1
    BY <1>1, <1>2 DEF IsLast, MovesOf
  <2> QED BY <1>1, <1>2, <2>1 DEF LastIsUsage
<1>3. CASE i # row.item
  <2>1. MovesOf(i)' = MovesOf(i)
    BY <1>1, <1>3 DEF MovesOf
  <2>2. \A n : IsLast(n, MovesOf(i)) => n \in DOMAIN ledger
    BY DEF IsLast, MovesOf
  <2> QED BY <1>1, <1>3, <2>1, <2>2 DEF LastIsUsage
<1> QED BY <1>2, <1>3

\* A movement is the last of its item; the others keep theirs, and their stock.
LEMMA AfterMovement ==
  ASSUME TypeOK, NEW i \in Items, NEW u, NEW kind, NEW after, NEW undoes, NEW line, NEW by,
         Movement(i, u, kind, after, undoes, line, by)
  PROVE  /\ LastIsUsage(i)' <=> kind = "daily_usage"
         /\ stock'[i] = after
         /\ \A j \in Items \ {i} : (LastIsUsage(j)' <=> LastIsUsage(j)) /\ stock'[j] = stock[j]
<1> DEFINE row == MoveRow(i, u, kind, after, undoes, line, by)
<1>1. ledger' = Append(ledger, row) /\ row.item = i /\ row.kind = kind
  BY DEF Movement, MoveRow
<1>2. stock' = [stock EXCEPT ![i] = after]
  BY DEF Movement
<1>3. stock'[i] = after /\ \A j \in Items \ {i} : stock'[j] = stock[j]
  BY <1>2 DEF TypeOK
<1> HIDE DEF row
<1>4. \A j \in Items : LastIsUsage(j)' <=> IF j = row.item THEN row.kind = "daily_usage" ELSE LastIsUsage(j)
  BY <1>1, LastAfterAppend
<1> QED BY <1>1, <1>3, <1>4

\* A movement that is no usage keeps the log true: it takes its item out, and
\* leaves what was bought of the others alone.
LEMMA OtherMovement ==
  ASSUME TypeOK, UsageInv, NEW i \in Items, NEW u, NEW kind, NEW after, NEW undoes, NEW line, NEW by,
         Movement(i, u, kind, after, undoes, line, by), kind # "daily_usage",
         UNCHANGED <<usage, prior>>, \A j \in Items \ {i} : bought'[j] = bought[j],
         \A s \in Sessions : \/ req'[s] = req[s] \/ req'[s] = None
                             \/ req'[s].op = "audit"
  PROVE  UsageInv'
<1>1. /\ ~LastIsUsage(i)'
      /\ \A j \in Items \ {i} : (LastIsUsage(j)' <=> LastIsUsage(j)) /\ stock'[j] = stock[j]
  BY AfterMovement
<1>2. \A j \in Items : LastIsUsage(j)' =>
        IF usage'[j] # None THEN stock'[j] = usage'[j].closing
        ELSE prior'[j] = stock'[j] /\ bought'[j] = 0
  BY <1>1 DEF UsageInv
<1>3. ASSUME NEW s \in Sessions, req'[s] # None, req'[s].op = "usage"
      PROVE  /\ "usage" \in OpsOf[s]
             /\ LastIsUsage(req[s].item)' => stock'[req'[s].item] = req'[s].qty
  <2>1. req'[s] = req[s] /\ req[s] \in Request
    BY <1>3 DEF TypeOK
  <2>2. req[s].item \in Items
    BY <1>3, <2>1 DEF Request
  <2>3. "usage" \in OpsOf[s] /\ (LastIsUsage(req[s].item) => stock[req[s].item] = req[s].qty)
    BY <1>3, <2>1 DEF UsageInv
  <2>4. PICK j \in Items : j = req[s].item
    BY <2>2
  <2>5. req'[s].item = j
    BY <2>1, <2>4
  <2>6. LastIsUsage(j)' => stock'[j] = req[s].qty
    BY <1>1, <2>3, <2>4
  <2> QED BY <2>1, <2>3, <2>5, <2>6
<1> QED BY <1>2, <1>3 DEF UsageInv

\* No movement, and neither the log nor the requests gain anything.
LEMMA UsageQuiet ==
  ASSUME TypeOK, UsageInv, UNCHANGED <<stock, ledger, bought, usage, prior>>,
         \A s \in Sessions : \/ req'[s] = req[s] \/ req'[s] = None
                             \/ /\ req'[s].op = "usage" => "usage" \in OpsOf[s]
                                                        /\ req'[s].qty = stock[req'[s].item]
  PROVE  UsageInv'
<1>1. \A j \in Items : (LastIsUsage(j)' <=> LastIsUsage(j))
  BY DEF LastIsUsage, MovesOf
<1>2. \A j \in Items : LastIsUsage(j)' =>
        IF usage'[j] # None THEN stock'[j] = usage'[j].closing
        ELSE prior'[j] = stock'[j] /\ bought'[j] = 0
  BY <1>1 DEF UsageInv
<1>3. ASSUME NEW s \in Sessions, req'[s] # None, req'[s].op = "usage"
      PROVE  /\ "usage" \in OpsOf[s]
             /\ LastIsUsage(req[s].item)' => stock'[req'[s].item] = req'[s].qty
  <2>1. CASE req'[s] = req[s]
    <3>1. "usage" \in OpsOf[s] /\ (LastIsUsage(req[s].item) => stock[req[s].item] = req[s].qty)
      BY <1>3, <2>1 DEF UsageInv
    <3>2. LastIsUsage(req[s].item)' => LastIsUsage(req[s].item)
      BY <2>1 DEF LastIsUsage, MovesOf
    <3> QED BY <2>1, <3>1, <3>2
  <2>2. CASE "usage" \in OpsOf[s] /\ req'[s].qty = stock[req'[s].item]
    BY <2>2
  <2> QED BY <1>3, <2>1, <2>2
<1> QED BY <1>2, <1>3 DEF UsageInv

\* Completing an audit corrects its items: their last movement is a correction.
LEMMA CompleteKeepsUsage ==
  ASSUME TypeOK, UsageInv, NEW s \in Sessions, CompleteStockAudit(s)
  PROVE  UsageInv'
<1> DEFINE lines == CopyOf(s).lines
           apply == ToApply(lines)
           row(i) == MoveRow(i, UserOf[s], "correction", lines[i].counted, 0, OriginOf(s, lines[i]), "desk")
<1>1. PICK rows \in [1..Cardinality(apply) -> apply] :
        /\ \A i \in apply : \E n \in DOMAIN rows : rows[n] = i
        /\ ledger' = ledger \o [n \in DOMAIN rows |-> row(rows[n])]
  BY DEF CompleteStockAudit
<1>2. /\ stock' = [i \in Items |-> IF i \in apply THEN lines[i].counted ELSE stock[i]]
      /\ req' = [req EXCEPT ![s] = None]
      /\ UNCHANGED <<opened, bought, usage, prior>>
  BY DEF CompleteStockAudit, Commit
<1>3. apply \subseteq Items /\ Cardinality(apply) \in Nat
  <2>1. apply \subseteq Items
    BY DEF ToApply
  <2> QED BY <2>1, DeskAssumption, FS_Subset, FS_CardinalityType
<1>4. \A i \in apply : row(i).item = i /\ row(i).kind = "correction"
  BY DEF MoveRow
<1> HIDE DEF row, apply
<1> DEFINE tail == [n \in DOMAIN rows |-> row(rows[n])]
<1>5. /\ tail \in Seq({row(i) : i \in apply}) /\ DOMAIN tail = 1..Cardinality(apply)
      /\ Len(tail) = Cardinality(apply)
      /\ \A n \in DOMAIN tail : tail[n] = row(rows[n]) /\ rows[n] \in apply
  <2>1. DOMAIN rows = 1..Cardinality(apply) /\ \A n \in 1..Cardinality(apply) : rows[n] \in apply
    BY <1>1
  <2>2. PICK S : S = {row(i) : i \in apply}
    OBVIOUS
  <2>3. tail \in [1..Cardinality(apply) -> S]
    BY <2>1, <2>2
  <2>4. tail \in Seq(S) /\ Len(tail) = Cardinality(apply)
    <3> HIDE DEF tail
    <3> QED BY <1>3, <2>3
  <2> QED BY <2>1, <2>2, <2>4
<1>6. /\ ledger \in Seq(Move) /\ Len(ledger) \in Nat /\ DOMAIN ledger = 1..Len(ledger)
      /\ ledger' = ledger \o tail
  BY <1>1 DEF TypeOK
<1> HIDE DEF tail
<1>7. /\ DOMAIN ledger' = 1..(Len(ledger) + Len(tail))
      /\ \A n \in DOMAIN ledger : ledger'[n] = ledger[n]
      /\ \A n \in DOMAIN tail : ledger'[Len(ledger) + n] = tail[n]
      /\ \A n \in DOMAIN ledger' : n \in DOMAIN ledger \/ n - Len(ledger) \in DOMAIN tail
  BY <1>3, <1>5, <1>6
<1>8. ASSUME NEW i \in apply
      PROVE  ~LastIsUsage(i)'
  <2>1. PICK k \in DOMAIN rows : rows[k] = i
    BY <1>1
  <2>2. k \in DOMAIN tail /\ k \in Nat \ {0} /\ tail[k].item = i
    BY <1>3, <1>4, <1>5, <2>1
  <2>3. Len(ledger) + k \in MovesOf(i)'
    BY <1>3, <1>5, <1>6, <1>7, <2>2 DEF MovesOf
  <2>4. ASSUME NEW n \in DOMAIN ledger', IsLast(n, MovesOf(i)')
        PROVE  ledger'[n].kind = "correction"
    <3>1. n \in Nat /\ n >= Len(ledger) + k
      BY <1>5, <1>6, <1>7, <2>3, <2>4 DEF IsLast
    <3>2. n - Len(ledger) \in DOMAIN tail
      BY <1>6, <1>7, <2>2, <3>1
    <3>3. PICK l \in DOMAIN tail : l = n - Len(ledger)
      BY <3>2
    <3>4. ledger'[n] = tail[l]
      BY <1>3, <1>5, <1>6, <1>7, <3>1, <3>3
    <3> QED BY <1>4, <1>5, <3>4
  <2> QED BY <2>4 DEF LastIsUsage
<1>9. ASSUME NEW i \in Items \ apply
      PROVE  (LastIsUsage(i)' <=> LastIsUsage(i)) /\ stock'[i] = stock[i]
  <2>1. \A n \in DOMAIN tail : tail[n].item # i
    BY <1>4, <1>5
  <2>2. MovesOf(i)' = MovesOf(i)
    <3>1. ASSUME NEW n \in DOMAIN ledger', ledger'[n].item = i PROVE n \in DOMAIN ledger /\ ledger[n].item = i
      <4>1. CASE n \in DOMAIN ledger
        BY <1>7, <3>1, <4>1
      <4>2. CASE n - Len(ledger) \in DOMAIN tail
        <5>1. PICK l \in DOMAIN tail : l = n - Len(ledger)
          BY <4>2
        <5>2. ledger'[n] = tail[l]
          BY <1>3, <1>5, <1>6, <1>7, <5>1
        <5> QED BY <2>1, <3>1, <5>2
      <4> QED BY <1>7, <4>1, <4>2
    <3>2. \A n \in DOMAIN ledger : ledger[n].item = i => n \in DOMAIN ledger' /\ ledger'[n].item = i
      BY <1>3, <1>5, <1>6, <1>7
    <3> QED BY <3>1, <3>2 DEF MovesOf
  <2>3. \A n : IsLast(n, MovesOf(i)) => n \in DOMAIN ledger
    BY DEF IsLast, MovesOf
  <2>4. DOMAIN ledger \subseteq DOMAIN ledger'
    BY <1>3, <1>5, <1>6, <1>7
  <2>5. LastIsUsage(i)' <=> LastIsUsage(i)
    BY <1>7, <2>2, <2>3, <2>4 DEF LastIsUsage
  <2> QED BY <1>2, <2>5
<1>10. \A j \in Items : LastIsUsage(j)' => LastIsUsage(j) /\ stock'[j] = stock[j]
  BY <1>8, <1>9
<1>11. \A j \in Items : LastIsUsage(j)' =>
        IF usage'[j] # None THEN stock'[j] = usage'[j].closing
        ELSE prior'[j] = stock'[j] /\ bought'[j] = 0
  BY <1>2, <1>10 DEF UsageInv
<1>12. ASSUME NEW t \in Sessions, req'[t] # None, req'[t].op = "usage"
      PROVE  /\ "usage" \in OpsOf[t]
             /\ LastIsUsage(req[t].item)' => stock'[req'[t].item] = req'[t].qty
  <2>1. req'[t] = req[t] /\ req[t] \in Request
    BY <1>2, <1>12 DEF TypeOK
  <2>2. PICK j \in Items : j = req[t].item
    BY <1>12, <2>1 DEF Request
  <2>3. "usage" \in OpsOf[t] /\ (LastIsUsage(j) => stock[j] = req[t].qty)
    BY <1>12, <2>1, <2>2 DEF UsageInv
  <2>4. req'[t].item = j
    BY <2>1, <2>2
  <2> QED BY <1>10, <2>1, <2>3, <2>4
<1> QED BY <1>11, <1>12 DEF UsageInv

\* The log row written says what the stock is set to, or was when it was read.
LEMMA FinishUsageKeepsUsage ==
  ASSUME OneLogger, TypeOK, UsageInv, NEW s \in Sessions, FinishUsage(s)
  PROVE  UsageInv'
<1>1. PICK r : r = req[s]
  OBVIOUS
<1>2. /\ r # None /\ r.op = "usage"
      /\ IF r.log.closing # r.qty
         THEN Movement(r.item, UserOf[s], "daily_usage", r.log.closing, 0, None, "desk")
         ELSE UNCHANGED <<stock, ledger>>
      /\ usage' = [usage EXCEPT ![r.item] = r.log]
      /\ req' = [req EXCEPT ![s] = None]
      /\ UNCHANGED <<audits, opened, bought, prior, crossed, loads>>
  BY <1>1 DEF FinishUsage
<1>3. r \in Request
  BY <1>1, <1>2 DEF TypeOK
<1>4. r.item \in Items /\ r.log \in UsageLog /\ r.log # None
  BY <1>2, <1>3, NoneAssumption DEF Request
<1>5. "usage" \in OpsOf[s] /\ (LastIsUsage(r.item) => stock[r.item] = r.qty)
  BY <1>1, <1>2 DEF UsageInv
<1>6. /\ \A j \in Items \ {r.item} : usage'[j] = usage[j]
      /\ usage'[r.item] = r.log
      /\ req'[s] = None /\ \A t \in Sessions \ {s} : req'[t] = req[t]
  BY <1>2, <1>4 DEF TypeOK
<1>7. /\ LastIsUsage(r.item)' => stock'[r.item] = r.log.closing
      /\ \A j \in Items \ {r.item} : (LastIsUsage(j)' <=> LastIsUsage(j)) /\ stock'[j] = stock[j]
  <2>1. CASE r.log.closing # r.qty
    <3>1. Movement(r.item, UserOf[s], "daily_usage", r.log.closing, 0, None, "desk")
      BY <1>2, <2>1
    <3>2. PICK i \in Items : i = r.item
      BY <1>4
    <3>3. PICK q : q = r.log.closing
      OBVIOUS
    <3>5. Movement(i, UserOf[s], "daily_usage", q, 0, None, "desk")
      BY <3>1, <3>2, <3>3
    <3>4. /\ stock'[i] = q
          /\ \A j \in Items \ {i} : (LastIsUsage(j)' <=> LastIsUsage(j)) /\ stock'[j] = stock[j]
      BY <3>5, AfterMovement
    <3> QED BY <3>2, <3>3, <3>4
  <2>2. CASE r.log.closing = r.qty
    <3>1. stock' = stock /\ ledger' = ledger
      BY <1>2, <2>2
    <3>2. \A j : LastIsUsage(j)' <=> LastIsUsage(j)
      BY <3>1 DEF LastIsUsage, MovesOf
    <3>3. PICK i \in Items : i = r.item
      BY <1>4
    <3> QED BY <1>5, <2>2, <3>1, <3>2, <3>3
  <2> QED BY <2>1, <2>2
<1>8. \A j \in Items : LastIsUsage(j)' =>
        IF usage'[j] # None THEN stock'[j] = usage'[j].closing
        ELSE prior'[j] = stock'[j] /\ bought'[j] = 0
  BY <1>2, <1>4, <1>6, <1>7 DEF UsageInv
<1>9. \A t \in Sessions : ~(req'[t] # None /\ req'[t].op = "usage")
  BY <1>5, <1>6 DEF UsageInv, OneLogger
<1> QED BY <1>8, <1>9 DEF UsageInv

\* Every step keeps the log true.
LEMMA UsageStepKeeps ==
  OneLogger /\ TypeOK /\ UsageInv /\ [Next]_vars => UsageInv'
<1> SUFFICES ASSUME OneLogger, TypeOK, UsageInv, [Next]_vars PROVE UsageInv'
  OBVIOUS
<1>2. CASE AuditStep
  <2>1. ASSUME UNCHANGED <<stock, ledger, bought, usage, prior>>,
               \A t \in Sessions : req'[t] = req[t] \/ req'[t] = None \/ req'[t].op = "audit"
        PROVE  UsageInv'
    BY <2>1, UsageQuiet
  <2>2. ASSUME NEW s \in Sessions, req' = [req EXCEPT ![s] = None]
        PROVE  \A t \in Sessions : req'[t] = req[t] \/ req'[t] = None \/ req'[t].op = "audit"
    BY <2>2 DEF TypeOK
  <2>3. ASSUME NEW a \in Audits, NEW sheet \in Sheets, CreateAudit(a, sheet) PROVE UsageInv'
    BY <2>1, <2>3 DEF CreateAudit
  <2>4. ASSUME NEW s \in Sessions, NEW a \in Audits, LoadAudit(s, a) PROVE UsageInv'
    <3>1. \A t \in Sessions : req'[t] = req[t] \/ req'[t] = None \/ req'[t].op = "audit"
      BY <2>4 DEF LoadAudit, TypeOK
    <3> QED BY <2>1, <2>4, <3>1 DEF LoadAudit
  <2>5. ASSUME NEW s \in Sessions, DeleteStockAudit(s) PROVE UsageInv'
    BY <2>1, <2>2, <2>5 DEF DeleteStockAudit
  <2>6. ASSUME NEW s \in Sessions, CompleteStockAudit(s) PROVE UsageInv'
    BY <2>6, CompleteKeepsUsage
  <2>7. ASSUME NEW s \in Sessions, NEW i \in Items, ApproveAuditLine(s, i) PROVE UsageInv'
    <3>1. /\ req' = [req EXCEPT ![s] = None] /\ UNCHANGED <<bought, usage, prior>>
          /\ \E q, of : Movement(i, UserOf[s], "correction", q, 0, of, "approve")
      BY <2>7 DEF ApproveAuditLine, Commit
    <3> QED BY <2>2, <3>1, OtherMovement
  <2>8. ASSUME NEW s \in Sessions, NEW seen \in Seen(s), NEW sheet \in Sheets, ReplaceAuditLines(s, seen, sheet)
        PROVE  UsageInv'
    <3>1. \A t \in Sessions : req'[t] = req[t] \/ req'[t] = None \/ req'[t].op = "audit"
      <4> SUFFICES ASSUME NEW t \in Sessions, Loaded(t) PROVE [req[t] EXCEPT !.gone = @ \cup Deleted(s)].op = "audit"
        BY <2>8 DEF ReplaceAuditLines
      <4>1. req[t] \in [op : {"audit"}, audit : Audits, copy : Audit, stock : [Items -> Qty], gone : SUBSET Items]
        BY DEF Loaded, TypeOK, Request
      <4> QED BY <4>1
    <3> QED BY <2>1, <2>8, <3>1 DEF ReplaceAuditLines
  <2>9. ASSUME NEW s \in Sessions, NEW seen \in Seen(s), NEW i \in Items, NEW q \in Counts[i],
               NEW now \in BOOLEAN, UpsertAuditLine(s, i, seen, q, now)
        PROVE  UsageInv'
    <3>1. /\ req' = [req EXCEPT ![s] = None] /\ UNCHANGED <<bought, usage, prior>>
          /\ \/ UNCHANGED <<stock, ledger>>
             \/ \E of : Movement(i, UserOf[s], "correction", q, 0, of, "desk")
      BY <2>9 DEF UpsertAuditLine, Commit
    <3>2. CASE UNCHANGED <<stock, ledger>>
      BY <2>1, <2>2, <3>1, <3>2
    <3>3. CASE \E of : Movement(i, UserOf[s], "correction", q, 0, of, "desk")
      BY <2>2, <3>1, <3>3, OtherMovement
    <3> QED BY <3>1, <3>2, <3>3
  <2> QED BY <1>2, <2>3, <2>4, <2>5, <2>6, <2>7, <2>8, <2>9 DEF AuditStep
<1>3. ASSUME NEW u \in Users, NEW i \in Items, Receive(u, i) PROVE UsageInv'
  <2>1. /\ UNCHANGED <<audits, opened, usage, prior, req, crossed, loads>>
        /\ Movement(i, u, "delivery_receive", stock[i] + 1, 0, None, "desk")
        /\ \A j \in Items \ {i} : bought'[j] = bought[j]
    BY <1>3 DEF Receive, TypeOK
  <2> QED BY <2>1, OtherMovement
<1>4. ASSUME NEW u \in Users, NEW i \in Items, NEW q \in Edits[i], SetOpeningStock(u, i, q) PROVE UsageInv'
  <2>1. /\ UNCHANGED <<audits, bought, usage, prior, req, crossed, loads>>
        /\ Movement(i, u, "opening_stock", q, 0, None, "desk")
    BY <1>4 DEF SetOpeningStock
  <2> QED BY <2>1, OtherMovement
<1>5. ASSUME NEW u \in Users, NEW i \in Items, NEW q \in Edits[i], NEW k \in Kinds,
             PatchStockItem(u, i, q, k) \/ CountedUpdate(u, i, q, k)
      PROVE  UsageInv'
  <2>1. /\ UNCHANGED <<audits, opened, bought, usage, prior, req, crossed, loads>>
        /\ Movement(i, u, k, q, 0, None, "desk")
        /\ k # "daily_usage"
    BY <1>5, DeskAssumption DEF PatchStockItem, CountedUpdate
  <2> QED BY <2>1, OtherMovement
<1>6. ASSUME NEW s \in Sessions, NEW i \in Items, BeginUndo(s, i) PROVE UsageInv'
  <2>1. /\ UNCHANGED <<stock, ledger, audits, opened, bought, usage, prior, crossed, loads>>
        /\ \A t \in Sessions : req'[t] = req[t] \/ req'[t].op = "undo"
    BY <1>6 DEF BeginUndo, TypeOK
  <2> QED BY <2>1, UsageQuiet
<1>7. ASSUME NEW s \in Sessions, NEW i \in Items, BeginUsage(s, i, 1) PROVE UsageInv'
  <2>1. /\ UNCHANGED <<stock, ledger, audits, opened, bought, usage, prior, crossed, loads>>
        /\ "usage" \in OpsOf[s]
        /\ \A t \in Sessions \ {s} : req'[t] = req[t]
        /\ req'[s] = UsageRequest(i, 1)
    BY <1>7 DEF BeginUsage, TypeOK
  <2>2. req'[s].item = i /\ req'[s].qty = stock[i]
    BY <2>1 DEF UsageRequest
  <2> QED BY <2>1, <2>2, UsageQuiet
<1>8. ASSUME NEW s \in Sessions, FinishUndo(s) PROVE UsageInv'
  <2>1. /\ req' = [req EXCEPT ![s] = None] /\ req[s] # None /\ req[s].op = "undo"
        /\ UNCHANGED <<audits, opened, bought, usage, prior, crossed, loads>>
        /\ \/ UNCHANGED <<stock, ledger>>
           \/ Movement(req[s].item, UserOf[s], "undo", req[s].qty, req[s].row, None, "desk")
    BY <1>8 DEF FinishUndo
  <2>2. \A t \in Sessions : req'[t] = req[t] \/ req'[t] = None
    BY <2>1 DEF TypeOK
  <2>3. CASE UNCHANGED <<stock, ledger>>
    BY <2>1, <2>2, <2>3, UsageQuiet
  <2>4. CASE Movement(req[s].item, UserOf[s], "undo", req[s].qty, req[s].row, None, "desk")
    <3>1. PICK j \in Items : j = req[s].item
      BY <2>1 DEF TypeOK, Request
    <3>2. \E q, n : Movement(j, UserOf[s], "undo", q, n, None, "desk")
      BY <2>4, <3>1
    <3> QED BY <2>1, <2>2, <3>2, OtherMovement
  <2> QED BY <2>1, <2>3, <2>4
<1>9. ASSUME NEW s \in Sessions, FinishUsage(s) PROVE UsageInv'
  BY <1>9, FinishUsageKeepsUsage
<1>10. ASSUME NEW s \in Sessions, Abandon(s) PROVE UsageInv'
  <2>1. /\ UNCHANGED <<stock, ledger, audits, opened, bought, usage, prior, crossed, loads>>
        /\ \A t \in Sessions : req'[t] = req[t] \/ req'[t] = None
    BY <1>10 DEF Abandon, TypeOK
  <2> QED BY <2>1, UsageQuiet
<1>11. CASE MaterializeSnapshots
  <2> DEFINE opening(i) == NonNegative(IF prior[i] # None THEN prior[i] ELSE stock[i] - bought[i])
  <2>1. /\ usage' = [i \in Items |-> IF i \notin Unlogged THEN usage[i]
             ELSE [opening |-> opening(i), bought |-> bought[i], used |-> 0,
                   closing |-> opening(i) + bought[i]]]
        /\ UNCHANGED <<stock, ledger, audits, opened, bought, prior, req, crossed, loads>>
    BY <1>11 DEF MaterializeSnapshots
  <2>2. \A j : LastIsUsage(j)' <=> LastIsUsage(j)
    BY <2>1 DEF LastIsUsage, MovesOf
  <2>3. ASSUME NEW j \in Items, LastIsUsage(j)
        PROVE  IF usage'[j] # None THEN stock[j] = usage'[j].closing
               ELSE prior[j] = stock[j] /\ bought[j] = 0
    <3>1. CASE j \notin Unlogged
      BY <2>1, <2>3, <3>1 DEF UsageInv
    <3>2. CASE j \in Unlogged
      <4>1. usage[j] = None /\ prior[j] = stock[j] /\ bought[j] = 0 /\ stock[j] \in Nat
        BY <2>3, <3>2 DEF Unlogged, UsageInv, TypeOK
      <4>2. opening(j) = stock[j]
        BY <4>1, DeskAssumption DEF NonNegative
      <4> HIDE DEF opening
      <4>3. usage'[j].closing = opening(j) + bought[j]
        BY <2>1, <3>2
      <4> QED BY <2>1, <4>1, <4>2, <4>3
    <3> QED BY <3>1, <3>2
  <2>4. \A s \in Sessions : req'[s] # None /\ req'[s].op = "usage" =>
          /\ "usage" \in OpsOf[s]
          /\ LastIsUsage(req[s].item)' => stock'[req'[s].item] = req'[s].qty
    BY <2>1, <2>2 DEF UsageInv, LastIsUsage, MovesOf
  <2> QED BY <2>1, <2>2, <2>3, <2>4 DEF UsageInv
<1>12. CASE Midnight
  <2>1. /\ \A s \in Sessions : req[s] = None
        /\ \A i \in Items : prior[i] = None
        /\ prior' = [i \in Items |-> IF usage[i] = None THEN None ELSE usage[i].closing]
        /\ usage' = [i \in Items |-> None]
        /\ bought' = [i \in Items |-> 0]
        /\ UNCHANGED <<stock, ledger, audits, opened, req, crossed, loads>>
    BY <1>12 DEF Midnight
  <2>2. \A j : LastIsUsage(j)' <=> LastIsUsage(j)
    BY <2>1 DEF LastIsUsage, MovesOf
  <2>3. ASSUME NEW j \in Items, LastIsUsage(j)
        PROVE  prior'[j] = stock[j] /\ bought'[j] = 0 /\ usage'[j] = None
    <3>1. usage[j] # None
      BY <2>1, <2>3, DeskAssumption DEF UsageInv, TypeOK
    <3> QED BY <2>1, <2>3, <3>1 DEF UsageInv
  <2>4. \A s \in Sessions : req'[s] = None
    BY <2>1
  <2> QED BY <2>1, <2>2, <2>3, <2>4 DEF UsageInv
<1>13. CASE UNCHANGED vars
  BY <1>13, UsageQuiet DEF vars
<1>14. ItemStep => UsageInv'
  BY <1>3, <1>4, <1>5 DEF ItemStep
<1>15. SessionStep => UsageInv'
  BY <1>6, <1>7, <1>8, <1>9, <1>10 DEF SessionStep
<1> QED BY <1>2, <1>11, <1>12, <1>13, <1>14, <1>15 DEF Next

\* While one request at a time logs daily usage, the log and the stock agree
\* for as long as the usage is an item's last movement, over midnight and the
\* materialized snapshots of the next day too (operations.py:301-377).
THEOREM UsageLogAgrees == OneLogger /\ Spec => []UsageLogTrue
<1>1. Init => UsageInv
  <2>1. Init => \A i \in Items : ~LastIsUsage(i)
    BY DEF Init, LastIsUsage
  <2>2. Init => \A s \in Sessions : req[s] = None
    BY DEF Init
  <2> QED BY <2>1, <2>2 DEF UsageInv
<1>2. OneLogger /\ DInv /\ UsageInv /\ [Next]_vars => UsageInv'
  BY UsageStepKeeps DEF DInv
<1>3. DInv /\ UsageInv => UsageLogTrue
  <2>1. \A i \in Items, n \in DOMAIN ledger :
          IsLast(n, MovesOf(i)) /\ ledger[n].kind = "daily_usage" => LastIsUsage(i)
    BY DEF LastIsUsage
  <2> QED BY <2>1 DEF UsageInv, UsageLogTrue
<1>4. CASE OneLogger
  <2>1. DInv /\ UsageInv /\ [Next]_vars => UsageInv'
    BY <1>2, <1>4
  <2> QED BY <1>1, <1>3, <2>1, DeskInvariant, PTL DEF Spec
<1> QED BY <1>4
=============================================================================
