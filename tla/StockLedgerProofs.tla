-------------------------- MODULE StockLedgerProofs --------------------------
(***************************************************************************)
(* Proofs about StockLedger, for any items, sessions, keys and jobs.       *)
(***************************************************************************)
EXTENDS StockLedger, TLAPS

\* The movements of a job are typed, and there is a first one.
LEMMA JobTyped ==
    ASSUME NEW j \in Jobs
    PROVE  /\ j.moves \in Seq(Move)
           /\ Len(j.moves) \in Nat \ {0}
           /\ DOMAIN j.moves = 1 .. Len(j.moves)
           /\ \A n \in DOMAIN j.moves : j.moves[n] \in Move
<1>1. j \in Job /\ j.moves # << >>
  BY JobAssumption
<1>2. j.moves \in Seq(Move)
  BY <1>1 DEF Job
<1> QED
  BY <1>1, <1>2

\* The job of an idle session is one of the jobs.
LEMMA AnyJobTyped == AnyJob \in Jobs
BY JobAssumption DEF AnyJob

\* The movement a session applies is typed.
LEMMA MoveTyped ==
    ASSUME TypeOK, NEW s \in Sessions
    PROVE  /\ job[s] \in Jobs
           /\ at[s] \in 1 .. Len(job[s].moves)
           /\ move(s) \in Move
           /\ move(s).item \in Items
           /\ move(s).qty \in Int
           /\ move(s).mode \in {"delta", "absolute"}
           /\ move(s).key \in Keys \cup {NoKey}
           /\ move(s).tolerance \in Nat
           /\ move(s).force \in BOOLEAN
           /\ move(s).versioned \in BOOLEAN
           /\ move(s).exempt \in BOOLEAN
<1>1. job[s] \in Jobs /\ at[s] \in DOMAIN job[s].moves
  BY DEF TypeOK
<1>2. move(s) \in Move
  BY <1>1, JobTyped DEF move
<1> QED
  BY <1>1, <1>2, JobTyped DEF Move

\* A failed session is idle, with nothing loaded, flushed or locked.
LEMMA FailTyped ==
    ASSUME TypeOK, NEW s \in Sessions, Fail(s)
    PROVE  TypeOK'
BY AnyJobTyped, JobTyped DEF Fail, Discard, Nothing, TypeOK, committed, Locations

\* Locking a row keeps copies and locks typed.
LEMMA LockRowTyped ==
    ASSUME TypeOK, stock \in [Items -> Nat],
           NEW s \in Sessions, NEW i \in Items, LockRow(s, i)
    PROVE  /\ held' \in [Sessions -> SUBSET Items]
           /\ copy' \in [Sessions -> [Items -> Copy \cup {None}]]
           /\ copy'[s][i] # None
<1>1. Current(i) \in Copy
  BY DEF TypeOK, Copy, Current
<1> QED
  BY <1>1, NoneAssumption DEF LockRow, TypeOK

\* Returning leads to the commit, or to an existing movement.
LEMMA ReturnTyped ==
    ASSUME TypeOK, NEW s \in Sessions, Return(s), UNCHANGED job
    PROVE  /\ pc' \in [Sessions -> Locations]
           /\ at' \in [Sessions -> Nat]
           /\ \A t \in Sessions : at'[t] \in DOMAIN job'[t].moves
           /\ \A t \in Sessions \ {s} : pc'[t] = pc[t] /\ at'[t] = at[t]
           /\ \/ pc'[s] = "lookup" /\ at'[s] = at[s] + 1
              \/ pc'[s] = "commit" /\ at'[s] = at[s]
<1>1. \/ /\ pc' = [pc EXCEPT ![s] = "lookup"]
         /\ at' = [at EXCEPT ![s] = at[s] + 1]
         /\ at[s] < Len(job[s].moves)
      \/ /\ pc' = [pc EXCEPT ![s] = "commit"]
         /\ at' = at
  BY DEF Return
<1>2. at[s] \in Nat /\ at \in [Sessions -> Nat] /\ pc \in [Sessions -> Locations]
  BY DEF TypeOK
<1>3. pc' \in [Sessions -> Locations] /\ at' \in [Sessions -> Nat]
  BY <1>1, <1>2 DEF Locations
<1>4. /\ \A t \in Sessions \ {s} : pc'[t] = pc[t] /\ at'[t] = at[t]
      /\ \/ pc'[s] = "lookup" /\ at'[s] = at[s] + 1 /\ at[s] < Len(job[s].moves)
         \/ pc'[s] = "commit" /\ at'[s] = at[s]
  BY <1>1, <1>2
<1>5. ASSUME NEW t \in Sessions
      PROVE  at'[t] \in DOMAIN job[t].moves
  <2>1. /\ at[t] \in 1 .. Len(job[t].moves)
        /\ DOMAIN job[t].moves = 1 .. Len(job[t].moves)
        /\ Len(job[t].moves) \in Nat
    BY MoveTyped, JobTyped
  <2> QED
    BY <1>4, <2>1
<1> QED
  BY <1>3, <1>4, <1>5

\* The row a session writes is typed once it is acceptable.
LEMMA RowTyped ==
    ASSUME TypeOK, NEW s \in Sessions, Acceptable(s),
           copy[s][move(s).item] # None
    PROVE  /\ RowFor(s) \in Row
           /\ After(move(s), copy[s][move(s).item].qty) \in Nat
           /\ copy[s][move(s).item].version \in Nat
           /\ RowFor(s).key = move(s).key
           /\ RowFor(s).before = copy[s][move(s).item].qty
           /\ RowFor(s).after = RowFor(s).before + RowFor(s).delta
           /\ RowFor(s).strict => RowFor(s).seen = copy[s][move(s).item].version
<1> DEFINE m == move(s)  c == copy[s][m.item]
<1>1. c \in Copy /\ c.qty \in Nat /\ c.version \in Nat
  BY MoveTyped DEF TypeOK, Copy
<1>2. After(m, c.qty) \in Nat
  BY <1>1, MoveTyped DEF Acceptable, After
<1>3. seen[s] \in Nat
  BY DEF TypeOK
<1>4. After(m, c.qty) - c.qty \in Int
  BY <1>1, <1>2
<1>5. (m.versioned /\ ~ m.force /\ m.tolerance = 0) \in BOOLEAN
  OBVIOUS
<1>6. RowFor(s) \in Row
  BY <1>1, <1>2, <1>3, <1>4, <1>5, MoveTyped DEF RowFor, Row
<1>7. RowFor(s).after = RowFor(s).before + RowFor(s).delta
  BY <1>1, <1>2, <1>4 DEF RowFor
<1>8. RowFor(s).strict => RowFor(s).seen = c.version
  <2>1. RowFor(s).seen = seen[s] /\ (RowFor(s).strict <=> m.versioned /\ ~ m.force /\ m.tolerance = 0)
    BY DEF RowFor
  <2>2. ASSUME m.versioned, ~ m.force, m.tolerance = 0 PROVE seen[s] = c.version
    BY <1>1, <1>3, <2>2 DEF Acceptable, VersionAllowed
  <2> QED
    BY <2>1, <2>2
<1> QED
  BY <1>1, <1>2, <1>6, <1>7, <1>8 DEF RowFor

-----------------------------------------------------------------------------
(***************************************************************************)
(* Type correctness needs the locks: a session writes the copy of a row it *)
(* has loaded, and a quantity read is never negative.                      *)
(***************************************************************************)
LEMMA InitTyped == Init => TypeOK
<1> SUFFICES ASSUME Init PROVE TypeOK
  OBVIOUS
<1>1. /\ ledger \in [Items -> Seq(Row)]
      /\ stock \in [Items -> Int]
      /\ begun \in 0 .. MaxBegun
  BY StockAssumption, BoundAssumption DEF Init
<1>2. /\ job \in [Sessions -> Jobs]
      /\ \A s \in Sessions : at[s] \in DOMAIN job[s].moves
  BY AnyJobTyped, JobTyped DEF Init
<1>3. /\ copy \in [Sessions -> [Items -> Copy \cup {None}]]
      /\ pend \in [Sessions -> [Items -> Row \cup {None}]]
  BY DEF Init, Nothing
<1> QED
  BY <1>1, <1>2, <1>3 DEF Init, TypeOK, Locations

\* Every step keeps the types.
LEMMA TypeStep == TypeOK /\ LockInv /\ [Next]_vars => TypeOK'
<1> SUFFICES ASSUME TypeOK, LockInv, [Next]_vars PROVE TypeOK'
  OBVIOUS
<1>0. stock \in [Items -> Nat]
  BY DEF LockInv
<1>1. ASSUME NEW s \in Sessions, NEW j \in Jobs, Begin(s, j) PROVE TypeOK'
  <2>1. 1 \in DOMAIN j.moves
    BY JobTyped
  <2>2. copy' \in [Sessions -> [Items -> Copy \cup {None}]]
    BY <1>0, <1>1 DEF Begin, TypeOK, Current, Copy
  <2>3. seen' \in [Sessions -> Nat]
    BY <1>1 DEF Begin, TypeOK
  <2>4. begun' \in 0 .. MaxBegun
    BY <1>1, BoundAssumption DEF Begin, TypeOK
  <2>5. job' \in [Sessions -> Jobs] /\ at' \in [Sessions -> Nat] /\ pc' \in [Sessions -> Locations]
    BY <1>1 DEF Begin, TypeOK, Locations
  <2>6. \A t \in Sessions : at'[t] \in DOMAIN job'[t].moves
    BY <1>1, <2>1 DEF Begin, TypeOK
  <2> QED
    BY <1>1, <2>2, <2>3, <2>4, <2>5, <2>6 DEF Begin, TypeOK, committed
<1>2. ASSUME NEW s \in Sessions, Lookup(s) PROVE TypeOK'
  BY <1>2 DEF Lookup, Goto, TypeOK, Locations, committed
<1>3. ASSUME NEW s \in Sessions, Duplicate(s) PROVE TypeOK'
  <2>1. PICK i \in Items : LockRow(s, i)
    BY <1>3 DEF Duplicate
  <2> QED
    BY <1>0, <1>3, <2>1, LockRowTyped, ReturnTyped DEF Duplicate, TypeOK, committed
<1>4. ASSUME NEW s \in Sessions, GuardPasses(s) PROVE TypeOK'
  BY <1>4 DEF GuardPasses, Goto, TypeOK, Locations, committed
<1>5. ASSUME NEW s \in Sessions, Fail(s) PROVE TypeOK'
  BY <1>5, FailTyped
<1>6. ASSUME NEW s \in Sessions, LockItem(s) PROVE TypeOK'
  BY <1>0, <1>6, MoveTyped, LockRowTyped DEF LockItem, Goto, TypeOK, Locations, committed
<1>7. ASSUME NEW s \in Sessions, Write(s) PROVE TypeOK'
  <2>1. copy[s][move(s).item] # None
    BY <1>7 DEF Write, LockInv, Loaded
  <2>2. copy' \in [Sessions -> [Items -> Copy \cup {None}]]
    <3> DEFINE c == [qty |-> After(move(s), copy[s][move(s).item].qty),
                     version |-> copy[s][move(s).item].version + 1]
    <3>1. c \in Copy
      BY <1>7, <2>1, RowTyped DEF Write, Copy
    <3>2. copy' = [copy EXCEPT ![s][move(s).item] = c]
      BY <1>7 DEF Write
    <3> QED
      BY <3>1, <3>2 DEF TypeOK
  <2>3. pend' \in [Sessions -> [Items -> Row \cup {None}]]
    BY <1>7, <2>1, RowTyped DEF Write, TypeOK
  <2> QED
    BY <1>7, <2>2, <2>3, ReturnTyped DEF Write, TypeOK, committed
<1>8. ASSUME NEW s \in Sessions, Conflict(s) PROVE TypeOK'
  BY <1>8 DEF Conflict, Discard, Nothing, Goto, TypeOK, Locations, committed
<1>9. ASSUME NEW s \in Sessions, Commit(s) PROVE TypeOK'
  <2>1. \A i \in Flushed(s) : pend[s][i] \in Row /\ copy[s][i] \in Copy
    BY DEF TypeOK, LockInv, Flushed, Loaded
  <2>2. stock' \in [Items -> Int]
    BY <1>9, <2>1 DEF Commit, TypeOK, Flushed, Row
  <2>3. version' \in [Items -> Nat]
    BY <1>9, <2>1 DEF Commit, TypeOK, Copy
  <2>4. ledger' \in [Items -> Seq(Row)]
    BY <1>9, <2>1 DEF Commit, TypeOK
  <2>5. acked' \subseteq Keys
    <3>1. \A n \in DOMAIN job[s].moves : job[s].moves[n].key \in Keys \cup {NoKey}
      BY MoveTyped, JobTyped DEF Move
    <3> QED
      BY <1>9, <3>1 DEF Commit, KeysOf, TypeOK
  <2>6. /\ pc' \in [Sessions -> Locations] /\ job' \in [Sessions -> Jobs]
        /\ at' \in [Sessions -> Nat] /\ seen' \in [Sessions -> Nat]
        /\ \A t \in Sessions : at'[t] \in DOMAIN job'[t].moves
    BY <1>9, AnyJobTyped, JobTyped DEF Commit, TypeOK, Locations
  <2>7. /\ copy' \in [Sessions -> [Items -> Copy \cup {None}]]
        /\ pend' \in [Sessions -> [Items -> Row \cup {None}]]
        /\ held' \in [Sessions -> SUBSET Items]
    BY <1>9 DEF Commit, Discard, Nothing, TypeOK
  <2> QED
    BY <1>9, <2>2, <2>3, <2>4, <2>5, <2>6, <2>7 DEF Commit, TypeOK
<1>10. ASSUME AuditOpens \/ AuditCloses PROVE TypeOK'
  BY <1>10 DEF AuditOpens, AuditCloses, TypeOK, committed, session
<1>11. CASE UNCHANGED vars
  BY <1>11 DEF vars, TypeOK
<1> QED
  BY <1>1, <1>2, <1>3, <1>4, <1>5, <1>6, <1>7, <1>8, <1>9, <1>10, <1>11
     DEF Next, Step, Abort, GuardFails, Reject, DeadlockVictim

-----------------------------------------------------------------------------
(***************************************************************************)
(* Locks: two sessions never hold one item, and what a session has flushed *)
(* it has locked, from movements of its job that are behind it.            *)
(***************************************************************************)
LEMMA InitLocked == Init => LockInv
BY StockAssumption DEF Init, LockInv, Flushed, Nothing, Working

\* Discarding a transaction leaves nothing to lose and no lock.
LEMMA DiscardLocked ==
    ASSUME TypeOK, LockInv, NEW s \in Sessions, Discard(s),
           stock' \in [Items -> Nat],
           pc'[s] # "write",
           \A t \in Sessions \ {s} : pc'[t] = pc[t] /\ at'[t] = at[t] /\ job'[t] = job[t]
    PROVE  LockInv'
<1>1. Flushed(s)' = {} /\ held'[s] = {}
  BY DEF Discard, Nothing, Flushed, TypeOK
<1>2. \A t \in Sessions \ {s} :
         /\ Flushed(t)' = Flushed(t) /\ Loaded(t)' = Loaded(t)
         /\ held'[t] = held[t] /\ move(t)' = move(t)
  BY DEF Discard, Flushed, Loaded, TypeOK, move
<1> QED
  BY <1>1, <1>2 DEF LockInv

\* A failed request leaves no lock and no row.
LEMMA FailLocked ==
    ASSUME TypeOK, LockInv, NEW s \in Sessions, Fail(s)
    PROVE  LockInv'
<1>1. /\ Discard(s) /\ stock' \in [Items -> Nat] /\ pc'[s] # "write"
      /\ \A t \in Sessions \ {s} : pc'[t] = pc[t] /\ at'[t] = at[t] /\ job'[t] = job[t]
  BY DEF Fail, TypeOK, LockInv, committed
<1> QED
  BY <1>1, DiscardLocked

\* Locking a row keeps the locks exclusive; the rest is as it was.
LEMMA LockRowKeeps ==
    ASSUME TypeOK, LockInv, NEW s \in Sessions, NEW i \in Items, LockRow(s, i),
           UNCHANGED <<stock, pend, job>>,
           \A t \in Sessions \ {s} : pc'[t] = pc[t] /\ at'[t] = at[t],
           pc'[s] # "idle",
           pc'[s] = "write" => move(s)'.item \in held'[s] \cap Loaded(s)',
           pc'[s] \in Working =>
             /\ pc[s] \in Working
             /\ \A n \in at'[s] .. Len(job[s].moves) : n \in at[s] .. Len(job[s].moves)
    PROVE  LockInv'
<1>1. \A t \in Sessions : Flushed(t)' = Flushed(t)
  BY DEF Flushed
<1>2. \A t \in Sessions \ {s} :
         Loaded(t)' = Loaded(t) /\ held'[t] = held[t] /\ move(t)' = move(t)
  BY DEF LockRow, Loaded, TypeOK, move
<1>3. Current(i) # None
  BY NoneAssumption DEF Current, Copy, TypeOK, LockInv
<1>4. Loaded(s) \subseteq Loaded(s)' /\ held'[s] = held[s] \cup {i}
  BY <1>3 DEF LockRow, Loaded, TypeOK
<1>5. \A t \in Sessions \ {s} : i \notin held[t]
  BY DEF LockRow
<1> QED
  BY <1>1, <1>2, <1>4, <1>5 DEF LockInv

\* Every step keeps the lock invariant.
LEMMA LockStep == TypeOK /\ LockInv /\ [Next]_vars => LockInv'
<1> SUFFICES ASSUME TypeOK, LockInv, [Next]_vars PROVE LockInv'
  OBVIOUS
<1>1. ASSUME NEW s \in Sessions, NEW j \in Jobs, Begin(s, j) PROVE LockInv'
  <2>1. Flushed(s)' = {} /\ pc'[s] = "lookup" /\ UNCHANGED <<stock, held>>
    BY <1>1 DEF Begin, LockInv, Flushed, TypeOK, committed
  <2>2. \A t \in Sessions : Flushed(t)' = Flushed(t)
    BY <1>1 DEF Begin, Flushed
  <2>3. \A t \in Sessions \ {s} : /\ Loaded(t)' = Loaded(t) /\ move(t)' = move(t)
                                  /\ pc'[t] = pc[t] /\ at'[t] = at[t] /\ job'[t] = job[t]
    BY <1>1 DEF Begin, Loaded, TypeOK, move
  <2> QED
    BY <2>1, <2>2, <2>3 DEF LockInv
<1>2. ASSUME NEW s \in Sessions, Lookup(s) PROVE LockInv'
  BY <1>2 DEF Lookup, Goto, LockInv, TypeOK, Flushed, Loaded, move, Working, committed
<1>3. ASSUME NEW s \in Sessions, Duplicate(s) PROVE LockInv'
  <2>1. PICK i \in Items : LockRow(s, i)
    BY <1>3 DEF Duplicate
  <2>2. /\ UNCHANGED <<stock, pend, job>>
        /\ \A t \in Sessions \ {s} : pc'[t] = pc[t] /\ at'[t] = at[t]
        /\ \/ pc'[s] = "lookup" /\ at'[s] = at[s] + 1
           \/ pc'[s] = "commit" /\ at'[s] = at[s]
    BY <1>3, ReturnTyped DEF Duplicate, committed
  <2>3. pc[s] = "duplicate" /\ at[s] \in Nat /\ at[s] + 1 \in Nat
    BY <1>3 DEF Duplicate, TypeOK
  <2>4. \A n \in at'[s] .. Len(job[s].moves) : n \in at[s] .. Len(job[s].moves)
    <3>1. Len(job[s].moves) \in Nat
      BY MoveTyped, JobTyped
    <3> QED
      BY <2>2, <2>3, <3>1
  <2> QED
    BY <2>1, <2>2, <2>3, <2>4, LockRowKeeps DEF Working
<1>4. ASSUME NEW s \in Sessions, GuardPasses(s) PROVE LockInv'
  BY <1>4 DEF GuardPasses, Goto, LockInv, TypeOK, Flushed, Loaded, move, Working, committed
<1>5. ASSUME NEW s \in Sessions, Fail(s) PROVE LockInv'
  BY <1>5, FailLocked
<1>6. ASSUME NEW s \in Sessions, LockItem(s) PROVE LockInv'
  <2>1. LockRow(s, move(s).item) /\ move(s).item \in Items
    BY <1>6, MoveTyped DEF LockItem
  <2>2. /\ UNCHANGED <<stock, pend, job, at>>
        /\ \A t \in Sessions \ {s} : pc'[t] = pc[t]
        /\ pc[s] = "lock" /\ pc'[s] = "write"
    BY <1>6 DEF LockItem, Goto, TypeOK, committed
  <2>3. move(s)' = move(s) /\ move(s).item \in Loaded(s)' /\ move(s).item \in held'[s]
    <3>1. move(s)' = move(s)
      BY <2>2 DEF move
    <3>2. copy'[s][move(s).item] # None
      BY <2>1, LockRowTyped DEF LockInv
    <3>3. held'[s] = held[s] \cup {move(s).item}
      BY <2>1 DEF LockRow, TypeOK
    <3> QED
      BY <2>1, <3>1, <3>2, <3>3 DEF Loaded
  <2> QED
    BY <2>1, <2>2, <2>3, LockRowKeeps DEF Working
<1>7. ASSUME NEW s \in Sessions, Write(s) PROVE LockInv'
  <2> DEFINE i == move(s).item
  <2>1. i \in Items /\ i \in held[s] /\ i \in Loaded(s)
    BY <1>7, MoveTyped DEF Write, LockInv
  <2>2. Flushed(s)' \subseteq Flushed(s) \cup {i}
    BY <1>7, <2>1 DEF Write, Flushed, TypeOK
  <2>3. Loaded(s) \subseteq Loaded(s)'
    <3>1. [qty |-> After(move(s), copy[s][i].qty), version |-> copy[s][i].version + 1] # None
      BY <1>7, <2>1, RowTyped, NoneAssumption DEF Write, Copy, Loaded
    <3> QED
      BY <1>7, <2>1, <3>1 DEF Write, Loaded, TypeOK
  <2>4. \A t \in Sessions \ {s} : Flushed(t)' = Flushed(t) /\ Loaded(t)' = Loaded(t)
    BY <1>7 DEF Write, Flushed, Loaded, TypeOK
  <2>5. /\ UNCHANGED <<stock, held, job>>
        /\ \A t \in Sessions \ {s} : pc'[t] = pc[t] /\ at'[t] = at[t]
        /\ \/ pc'[s] = "lookup" /\ at'[s] = at[s] + 1
           \/ pc'[s] = "commit" /\ at'[s] = at[s]
    BY <1>7, ReturnTyped DEF Write, committed
  <2>6. \A t \in Sessions \ {s} : move(t)' = move(t)
    BY <2>5 DEF move
  <2>7. pc'[s] \in Working =>
          \A n \in at'[s] .. Len(job[s].moves) : job[s].moves[n].item \notin Flushed(s)'
    <3>1. /\ at[s] \in 1 .. Len(job[s].moves) /\ Len(job[s].moves) \in Nat
          /\ DOMAIN job[s].moves = 1 .. Len(job[s].moves)
          /\ job[s] \in Jobs
      BY MoveTyped, JobTyped
    <3> SUFFICES ASSUME pc'[s] \in Working, NEW n \in at'[s] .. Len(job[s].moves)
                 PROVE  job[s].moves[n].item \notin Flushed(s) /\ job[s].moves[n].item # i
      BY <2>2
    <3>2. n \in at[s] .. Len(job[s].moves) /\ n # at[s] /\ n \in DOMAIN job[s].moves
      BY <2>5, <3>1 DEF Working
    <3>3. job[s].moves[n].item \notin Flushed(s)
      BY <1>7, <3>2 DEF Write, LockInv, Working
    <3>4. job[s].moves[n].item # i
      BY <3>1, <3>2, JobAssumption DEF move
    <3> QED
      BY <3>3, <3>4
  <2> QED
    BY <2>1, <2>2, <2>3, <2>4, <2>5, <2>6, <2>7 DEF LockInv
<1>8. ASSUME NEW s \in Sessions, Conflict(s) PROVE LockInv'
  <2>1. /\ Discard(s) /\ stock' \in [Items -> Nat] /\ pc'[s] # "write"
        /\ \A t \in Sessions \ {s} : pc'[t] = pc[t] /\ at'[t] = at[t] /\ job'[t] = job[t]
    BY <1>8 DEF Conflict, Goto, TypeOK, LockInv, committed
  <2> QED
    BY <2>1, DiscardLocked
<1>9. ASSUME NEW s \in Sessions, Commit(s) PROVE LockInv'
  <2>1. \A i \in Flushed(s) : pend[s][i].after \in Nat
    BY DEF TypeOK, Flushed, Row
  <2>2. stock' \in [Items -> Nat]
    BY <1>9, <2>1 DEF Commit, LockInv
  <2>3. /\ Discard(s) /\ pc'[s] # "write"
        /\ \A t \in Sessions \ {s} : pc'[t] = pc[t] /\ at'[t] = at[t] /\ job'[t] = job[t]
    BY <1>9 DEF Commit, TypeOK
  <2> QED
    BY <2>2, <2>3, DiscardLocked
<1>10. ASSUME AuditOpens \/ AuditCloses PROVE LockInv'
  BY <1>10 DEF AuditOpens, AuditCloses, LockInv, committed, session, Flushed, Loaded, move
<1>11. CASE UNCHANGED vars
  BY <1>11 DEF vars, LockInv, Flushed, Loaded, move
<1> QED
  BY <1>1, <1>2, <1>3, <1>4, <1>5, <1>6, <1>7, <1>8, <1>9, <1>10, <1>11
     DEF Next, Step, Abort, GuardFails, Reject, DeadlockVictim

-----------------------------------------------------------------------------
(***************************************************************************)
(* Keys: the unique index, and waiting for the transaction that holds a    *)
(* key, keep every key on one row, committed or flushed.                   *)
(***************************************************************************)
LEMMA InitKeys == Init => KeyInv
BY DEF Init, KeyInv, UniqueKeys, Flushed, Nothing

\* No row is added and flushed rows are only discarded.
LEMMA KeysStay ==
    ASSUME TypeOK, KeyInv, ledger' = ledger,
           NEW s \in Sessions,
           pend' = pend \/ pend' = [pend EXCEPT ![s] = Nothing]
    PROVE  KeyInv'
<1>1. \A t \in Sessions : \A i \in Items :
         pend'[t][i] # None => pend'[t][i] = pend[t][i]
  <2>1. CASE pend' = pend
    BY <2>1
  <2>2. CASE pend' = [pend EXCEPT ![s] = Nothing]
    BY <2>2 DEF TypeOK, Nothing
  <2> QED
    BY <2>1, <2>2
<1>2. UniqueKeys'
  BY DEF KeyInv, UniqueKeys
<1>3. ASSUME NEW t \in Sessions, NEW i \in Items, pend'[t][i] # None,
             pend'[t][i].key # NoKey
      PROVE  /\ \A j \in Items : \A n \in DOMAIN ledger'[j] :
                  ledger'[j][n].key # pend'[t][i].key
             /\ \A u \in Sessions : \A j \in Items :
                  pend'[u][j] # None /\ pend'[u][j].key = pend'[t][i].key
                    => t = u /\ i = j
  <2>1. i \in Flushed(t) /\ pend'[t][i] = pend[t][i]
    BY <1>1, <1>3 DEF Flushed
  <2>2. /\ \A j \in Items : ~ CommittedKey(j, pend[t][i].key)
        /\ \A u \in Sessions : \A j \in Flushed(u) :
             pend[u][j].key = pend[t][i].key => t = u /\ i = j
    BY <1>3, <2>1 DEF KeyInv
  <2>3. \A j \in Items : \A n \in DOMAIN ledger[j] :
          ledger[j][n].key # pend[t][i].key
    BY <2>2 DEF CommittedKey
  <2>4. \A u \in Sessions : \A j \in Items :
          pend[u][j] # None /\ pend[u][j].key = pend[t][i].key => t = u /\ i = j
    BY <2>2 DEF Flushed
  <2> QED
    BY <1>1, <2>1, <2>3, <2>4
<1> QED
  BY <1>2, <1>3 DEF KeyInv, Flushed, CommittedKey

\* A commit appends the session's flushed row, if any, to an item's ledger.
LEMMA CommitAppends ==
    ASSUME TypeOK, NEW s \in Sessions, Commit(s)
    PROVE  \A j \in Items :
             /\ j \in Flushed(s) => ledger'[j] = Append(ledger[j], pend[s][j])
             /\ j \notin Flushed(s) => ledger'[j] = ledger[j]
             /\ \A n \in DOMAIN ledger'[j] :
                  \/ n \in DOMAIN ledger[j] /\ ledger'[j][n] = ledger[j][n]
                  \/ /\ j \in Flushed(s)
                     /\ n = Len(ledger[j]) + 1
                     /\ ledger'[j][n] = pend[s][j]
<1> SUFFICES ASSUME NEW j \in Items
             PROVE  /\ j \in Flushed(s) => ledger'[j] = Append(ledger[j], pend[s][j])
                    /\ j \notin Flushed(s) => ledger'[j] = ledger[j]
                    /\ \A n \in DOMAIN ledger'[j] :
                         \/ n \in DOMAIN ledger[j] /\ ledger'[j][n] = ledger[j][n]
                         \/ /\ j \in Flushed(s)
                            /\ n = Len(ledger[j]) + 1
                            /\ ledger'[j][n] = pend[s][j]
  OBVIOUS
<1>1. /\ j \in Flushed(s) => ledger'[j] = Append(ledger[j], pend[s][j])
      /\ j \notin Flushed(s) => ledger'[j] = ledger[j]
  BY DEF Commit
<1>2. ledger[j] \in Seq(Row) /\ (j \in Flushed(s) => pend[s][j] \in Row)
  BY DEF TypeOK, Flushed
<1> QED
  BY <1>1, <1>2

\* Every step keeps a key on one row.
LEMMA KeyStep == TypeOK /\ LockInv /\ KeyInv /\ [Next]_vars => KeyInv'
<1> SUFFICES ASSUME TypeOK, LockInv, KeyInv, [Next]_vars PROVE KeyInv'
  OBVIOUS
<1>1. ASSUME NEW s \in Sessions,
             \/ Fail(s)
             \/ \E j \in Jobs : Begin(s, j)
             \/ Lookup(s) \/ Duplicate(s) \/ GuardPasses(s) \/ LockItem(s)
             \/ Conflict(s)
      PROVE  KeyInv'
  <2>1. ledger' = ledger /\ (pend' = pend \/ pend' = [pend EXCEPT ![s] = Nothing])
    BY <1>1 DEF Fail, Begin, Lookup, Duplicate, GuardPasses, LockItem, Conflict,
                Discard, committed
  <2> QED
    BY <2>1, KeysStay
<1>2. ASSUME NEW s \in Sessions, Write(s) PROVE KeyInv'
  <2> DEFINE i == move(s).item
             k == move(s).key
  <2>1. /\ RowFor(s) \in Row /\ RowFor(s) # None /\ RowFor(s).key = k
        /\ i \in Items /\ i \notin Flushed(s)
    <3>1. i \in Items /\ copy[s][i] # None /\ Acceptable(s)
      BY <1>2, MoveTyped DEF Write, LockInv, Loaded
    <3>2. i \notin Flushed(s)
      <4>1. at[s] \in at[s] .. Len(job[s].moves) /\ pc[s] \in Working
        BY <1>2, MoveTyped, JobTyped DEF Write, Working
      <4> QED
        BY <4>1 DEF LockInv, move
    <3> QED
      BY <3>1, <3>2, RowTyped, NoneAssumption
  <2>2. /\ ledger' = ledger
        /\ pend' = [pend EXCEPT ![s][i] = RowFor(s)]
    BY <1>2 DEF Write, committed
  <2>3. k # NoKey =>
          /\ \A j \in Items : ~ CommittedKey(j, k)
          /\ \A t \in Sessions : \A j \in Flushed(t) : pend[t][j].key # k
    BY <1>2 DEF Write, KeyClash, KeyHolders, KeyFound, PendingKey, Flushed
  <2>4. \A t \in Sessions : \A j \in Flushed(t)' :
           \/ t = s /\ j = i /\ pend'[t][j] = RowFor(s)
           \/ j \in Flushed(t) /\ pend'[t][j] = pend[t][j] /\ ~ (t = s /\ j = i)
    BY <2>1, <2>2 DEF Flushed, TypeOK
  <2>5. UniqueKeys'
    BY <2>2 DEF KeyInv, UniqueKeys
  <2>6. \A j \in Items : \A x : CommittedKey(j, x)' <=> CommittedKey(j, x)
    BY <2>2 DEF CommittedKey
  <2> QED
    BY <2>1, <2>3, <2>4, <2>5, <2>6 DEF KeyInv, Flushed
<1>3. ASSUME NEW s \in Sessions, Commit(s) PROVE KeyInv'
  <2>1. \A j \in Items : \A n \in DOMAIN ledger'[j] :
          \/ n \in DOMAIN ledger[j] /\ ledger'[j][n] = ledger[j][n]
          \/ j \in Flushed(s) /\ n = Len(ledger[j]) + 1 /\ ledger'[j][n] = pend[s][j]
    BY <1>3, CommitAppends
  <2>2. UniqueKeys'
    <3> SUFFICES ASSUME NEW i \in Items, NEW j \in Items,
                        NEW m \in DOMAIN ledger'[i], NEW n \in DOMAIN ledger'[j],
                        ledger'[i][m].key = ledger'[j][n].key,
                        ledger'[i][m].key # NoKey
                 PROVE  i = j /\ m = n
      BY DEF UniqueKeys
    <3>1. CASE m \in DOMAIN ledger[i] /\ ledger'[i][m] = ledger[i][m]
      <4>1. CASE n \in DOMAIN ledger[j] /\ ledger'[j][n] = ledger[j][n]
        BY <3>1, <4>1 DEF KeyInv, UniqueKeys
      <4>2. CASE j \in Flushed(s) /\ ledger'[j][n] = pend[s][j]
        BY <3>1, <4>2 DEF KeyInv, CommittedKey
      <4> QED
        BY <2>1, <4>1, <4>2
    <3>2. CASE i \in Flushed(s) /\ m = Len(ledger[i]) + 1 /\ ledger'[i][m] = pend[s][i]
      <4>1. CASE n \in DOMAIN ledger[j] /\ ledger'[j][n] = ledger[j][n]
        BY <3>2, <4>1 DEF KeyInv, CommittedKey
      <4>2. CASE j \in Flushed(s) /\ n = Len(ledger[j]) + 1 /\ ledger'[j][n] = pend[s][j]
        BY <3>2, <4>2 DEF KeyInv
      <4> QED
        BY <2>1, <4>1, <4>2
    <3> QED
      BY <2>1, <3>1, <3>2
  <2>3. \A t \in Sessions : \A i \in Items :
          pend'[t][i] # None => t # s /\ pend'[t][i] = pend[t][i]
    BY <1>3 DEF Commit, Discard, Nothing, TypeOK
  <2>4. ASSUME NEW t \in Sessions, NEW i \in Items, pend'[t][i] # None,
               pend'[t][i].key # NoKey
        PROVE  /\ \A j \in Items : \A n \in DOMAIN ledger'[j] :
                    ledger'[j][n].key # pend'[t][i].key
               /\ \A u \in Sessions : \A j \in Items :
                    pend'[u][j] # None /\ pend'[u][j].key = pend'[t][i].key
                      => t = u /\ i = j
    <3>1. t # s /\ i \in Flushed(t) /\ pend'[t][i] = pend[t][i]
      BY <2>3, <2>4 DEF Flushed
    <3>2. /\ \A j \in Items : ~ CommittedKey(j, pend[t][i].key)
          /\ \A u \in Sessions : \A j \in Flushed(u) :
               pend[u][j].key = pend[t][i].key => t = u /\ i = j
      BY <2>4, <3>1 DEF KeyInv
    <3>3. ASSUME NEW j \in Items, NEW n \in DOMAIN ledger'[j]
          PROVE  ledger'[j][n].key # pend[t][i].key
      <4>1. CASE n \in DOMAIN ledger[j] /\ ledger'[j][n] = ledger[j][n]
        BY <3>2, <4>1 DEF CommittedKey
      <4>2. CASE j \in Flushed(s) /\ ledger'[j][n] = pend[s][j]
        BY <3>1, <3>2, <4>2
      <4> QED
        BY <2>1, <4>1, <4>2
    <3>4. \A u \in Sessions : \A j \in Items :
            pend[u][j] # None /\ pend[u][j].key = pend[t][i].key => t = u /\ i = j
      BY <3>2 DEF Flushed
    <3> QED
      BY <2>3, <3>1, <3>3, <3>4
  <2> QED
    BY <2>2, <2>4 DEF KeyInv, Flushed, CommittedKey
<1>4. ASSUME AuditOpens \/ AuditCloses \/ UNCHANGED vars PROVE KeyInv'
  BY <1>4 DEF AuditOpens, AuditCloses, vars, KeyInv, UniqueKeys, committed, session,
              Flushed, CommittedKey
<1> QED
  BY <1>1, <1>2, <1>3, <1>4 DEF Next, Step, Abort, GuardFails, Reject, DeadlockVictim

-----------------------------------------------------------------------------
\* The inductive invariant of types, locks and keys.
LEMMA SafetyHolds == Spec => []SafetyInv
<1>1. Init => SafetyInv
  BY InitTyped, InitLocked, InitKeys DEF SafetyInv
<1>2. SafetyInv /\ [Next]_vars => SafetyInv'
  BY TypeStep, LockStep, KeyStep DEF SafetyInv
<1> QED
  BY <1>1, <1>2, PTL DEF Spec

\* Every variable of the ledger keeps its type, for any items, sessions, keys
\* and jobs: a session is always at an existing movement of its job.
THEOREM TypeCorrect == Spec => []TypeOK
BY SafetyHolds, PTL DEF SafetyInv

\* Stock never goes below zero, even where a session computes the quantity
\* from a row it read before it locked it (stock_movement_service.py:234).
THEOREM StockNeverNegative == Spec => []NonNegativeStock
<1>1. SafetyInv => NonNegativeStock
  BY DEF SafetyInv, LockInv, NonNegativeStock
<1> QED
  BY <1>1, SafetyHolds, PTL

\* However requests interleave, fail and repeat a key, the key is on at most
\* one movement (stock_movement_service.py:163-177 and 271-289,
\* models/stock_movement.py:16-21).
THEOREM KeysAppliedOnce == Spec => []UniqueKeys
<1>1. SafetyInv => UniqueKeys
  BY DEF SafetyInv, KeyInv
<1> QED
  BY <1>1, SafetyHolds, PTL

-----------------------------------------------------------------------------
(***************************************************************************)
(* The chain of movements, for handlers that lock an item before they read *)
(* it: what a session has loaded is then the committed row, so the row it  *)
(* flushes starts where the ledger ends.                                   *)
(***************************************************************************)
LEMMA InitChain == Init => CopyInv /\ LedgerChain /\ CorrectionsNotStale
BY StockAssumption DEF Init, CopyInv, LedgerChain, CorrectionsNotStale, QtyBefore,
                       Loaded, Nothing

\* The committed rows are untouched and session s has let go of everything.
LEMMA CopiesDropped ==
    ASSUME TypeOK, LockInv, CopyInv, NEW s \in Sessions,
           copy'[s] = Nothing \/ job'[s].preread,
           \A t \in Sessions \ {s} : copy'[t] = copy[t] /\ pend'[t] = pend[t]
                                    /\ held'[t] = held[t] /\ job'[t] = job[t],
           \A i \in Items : stock'[i] # stock[i] \/ version'[i] # version[i]
                             => i \in held[s]
    PROVE  CopyInv'
<1>1. Loaded(s)' = {} \/ job'[s].preread
  BY DEF Loaded, Nothing
<1>2. \A t \in Sessions \ {s} :
         Loaded(t)' = Loaded(t) /\ Flushed(t)' = Flushed(t)
  BY DEF Loaded, Flushed
<1>3. \A t \in Sessions \ {s} : ~ job[t].preread => \A i \in Loaded(t) :
         stock'[i] = stock[i] /\ version'[i] = version[i] /\ i \in Items
  BY DEF CopyInv, LockInv, Loaded
<1> QED
  BY <1>1, <1>2, <1>3 DEF CopyInv

\* A row that is locked is loaded as it is committed, unless it was before.
LEMMA CopyLocked ==
    ASSUME TypeOK, LockInv, CopyInv, NEW s \in Sessions, NEW i \in Items,
           LockRow(s, i), UNCHANGED <<stock, version, pend, job>>
    PROVE  CopyInv'
<1>1. \A t \in Sessions : Flushed(t)' = Flushed(t)
  BY DEF Flushed
<1>2. \A t \in Sessions \ {s} :
         copy'[t] = copy[t] /\ held'[t] = held[t] /\ Loaded(t)' = Loaded(t)
  BY DEF LockRow, Loaded, TypeOK
<1>3. held'[s] = held[s] \cup {i}
  BY DEF LockRow, TypeOK
<1>4. \A j \in Items :
         \/ copy'[s][j] = copy[s][j]
         \/ j = i /\ copy[s][j] = None /\ copy'[s][j] = Current(i)
  BY DEF LockRow, TypeOK
<1>5. \A j \in Loaded(s)' :
         \/ j \in Loaded(s) /\ copy'[s][j] = copy[s][j]
         \/ j = i /\ j \notin Flushed(s) /\ copy'[s][j] = Current(i)
  BY <1>4 DEF Loaded, LockInv
<1> SUFFICES ASSUME NEW t \in Sessions, ~ job[t].preread, NEW j \in Loaded(t)'
             PROVE  /\ j \in held'[t]
                    /\ j \notin Flushed(t) =>
                         copy'[t][j] = [qty |-> stock[j], version |-> version[j]]
                    /\ j \in Flushed(t) => j \in Loaded(t) /\ copy'[t][j] = copy[t][j]
  BY <1>1 DEF CopyInv
<1>6. CASE t # s
  BY <1>2, <1>6 DEF CopyInv
<1>7. CASE t = s /\ j \in Loaded(s) /\ copy'[s][j] = copy[s][j]
  BY <1>3, <1>7 DEF CopyInv
<1>8. CASE t = s /\ j = i /\ j \notin Flushed(s) /\ copy'[s][j] = Current(i)
  BY <1>3, <1>8 DEF Current
<1> QED
  BY <1>5, <1>6, <1>7, <1>8
\* Every step keeps what is loaded equal to what is locked and committed.
LEMMA CopyStep ==
    TypeOK /\ LockInv /\ CopyInv /\ [Next]_vars => CopyInv'
<1> SUFFICES ASSUME TypeOK, LockInv, CopyInv, [Next]_vars
             PROVE  CopyInv'
  OBVIOUS
<1>1. ASSUME NEW s \in Sessions, NEW j \in Jobs, Begin(s, j) PROVE CopyInv'
  <2>1. copy'[s] = Nothing \/ job'[s].preread
    BY <1>1 DEF Begin, Nothing, TypeOK
  <2>2. /\ UNCHANGED <<stock, version, pend, held>>
        /\ \A t \in Sessions \ {s} : copy'[t] = copy[t] /\ job'[t] = job[t]
    BY <1>1 DEF Begin, TypeOK, committed
  <2> QED
    BY <2>1, <2>2, CopiesDropped
<1>2. ASSUME NEW s \in Sessions, Discard(s), UNCHANGED <<stock, version>>,
             \A t \in Sessions \ {s} : job'[t] = job[t]
      PROVE  CopyInv'
  <2>1. copy'[s] = Nothing
    BY <1>2 DEF Discard, TypeOK
  <2>2. \A t \in Sessions \ {s} :
          copy'[t] = copy[t] /\ pend'[t] = pend[t] /\ held'[t] = held[t]
    BY <1>2 DEF Discard, TypeOK
  <2> QED
    BY <1>2, <2>1, <2>2, CopiesDropped
<1>3. ASSUME NEW s \in Sessions, Fail(s) \/ Conflict(s) PROVE CopyInv'
  <2>1. /\ Discard(s) /\ UNCHANGED <<stock, version>>
        /\ \A t \in Sessions \ {s} : job'[t] = job[t]
    BY <1>3 DEF Fail, Conflict, committed, TypeOK
  <2> QED
    BY <1>2, <2>1
<1>4. ASSUME NEW s \in Sessions, NEW i \in Items, LockRow(s, i),
             UNCHANGED <<committed, pend, job>>
      PROVE  CopyInv'
  BY <1>4, CopyLocked DEF committed
<1>5. ASSUME NEW s \in Sessions, Duplicate(s) PROVE CopyInv'
  <2>1. PICK i \in Items : LockRow(s, i)
    BY <1>5 DEF Duplicate
  <2> QED
    BY <1>4, <1>5, <2>1 DEF Duplicate
<1>6. ASSUME NEW s \in Sessions, LockItem(s) PROVE CopyInv'
  BY <1>4, <1>6, MoveTyped DEF LockItem
<1>7. ASSUME NEW s \in Sessions, Write(s) PROVE CopyInv'
  <2> DEFINE i == move(s).item
             c == copy[s][i]
             d == [qty |-> After(move(s), c.qty), version |-> c.version + 1]
  <2>1. /\ i \in Items /\ i \in held[s] /\ i \in Loaded(s) /\ c # None
        /\ i \notin Flushed(s)
    <3>1. /\ at[s] \in at[s] .. Len(job[s].moves) /\ pc[s] \in Working
          /\ i \in Items
      BY <1>7, MoveTyped, JobTyped DEF Write, Working
    <3> QED
      BY <1>7, <3>1 DEF Write, LockInv, Loaded, move
  <2>2. ~ job[s].preread => c = [qty |-> stock[i], version |-> version[i]]
    BY <2>1 DEF CopyInv
  <2>3. ~ job[s].preread =>
        /\ RowFor(s).before = stock[i]
        /\ RowFor(s).after = stock[i] + RowFor(s).delta
        /\ RowFor(s).strict => RowFor(s).seen = version[i]
        /\ RowFor(s) # None
    BY <1>7, <2>1, <2>2, RowTyped, NoneAssumption DEF Write
  <2>4. /\ copy' = [copy EXCEPT ![s][i] = d]
        /\ pend' = [pend EXCEPT ![s][i] = RowFor(s)]
        /\ UNCHANGED <<stock, version, held, job>>
    BY <1>7 DEF Write, committed
  <2>5. \A t \in Sessions : \A j \in Items :
          t # s \/ j # i => copy'[t][j] = copy[t][j] /\ pend'[t][j] = pend[t][j]
    BY <2>4 DEF TypeOK
  <2>6. ~ job[s].preread => copy'[s][i].version = version[i] + 1 /\ pend'[s][i] = RowFor(s)
    BY <2>1, <2>2, <2>4 DEF TypeOK
  <2> SUFFICES ASSUME NEW t \in Sessions, ~ job[t].preread, NEW j \in Items, copy'[t][j] # None
               PROVE  /\ j \in held[t]
                      /\ pend'[t][j] = None =>
                           copy'[t][j] = [qty |-> stock[j], version |-> version[j]]
                      /\ pend'[t][j] # None =>
                           /\ copy'[t][j].version = version[j] + 1
                           /\ pend'[t][j].before = stock[j]
                           /\ pend'[t][j].after = stock[j] + pend'[t][j].delta
                           /\ pend'[t][j].strict => pend'[t][j].seen = version[j]
    BY <2>4 DEF CopyInv, Loaded, Flushed
  <2>7. CASE t = s /\ j = i
    BY <2>1, <2>3, <2>6, <2>7
  <2>8. CASE t # s \/ j # i
    <3> HIDE DEF i, c, d
    <3>1. copy'[t][j] = copy[t][j] /\ pend'[t][j] = pend[t][j]
      BY <2>5, <2>8
    <3>2. j \in Loaded(t) /\ (j \in Flushed(t) <=> pend'[t][j] # None)
      BY <3>1 DEF Loaded, Flushed
    <3>3. /\ j \in held[t]
          /\ j \notin Flushed(t) => copy[t][j] = [qty |-> stock[j], version |-> version[j]]
          /\ j \in Flushed(t) =>
               /\ copy[t][j].version = version[j] + 1
               /\ pend[t][j].before = stock[j]
               /\ pend[t][j].after = stock[j] + pend[t][j].delta
               /\ pend[t][j].strict => pend[t][j].seen = version[j]
      BY <3>2 DEF CopyInv
    <3> QED
      BY <3>1, <3>2, <3>3
  <2> QED
    BY <2>7, <2>8
<1>8. ASSUME NEW s \in Sessions, Commit(s) PROVE CopyInv'
  <2>1. copy'[s] = Nothing
    BY <1>8 DEF Commit, Discard, TypeOK
  <2>2. \A t \in Sessions \ {s} : copy'[t] = copy[t] /\ pend'[t] = pend[t]
                                   /\ held'[t] = held[t] /\ job'[t] = job[t]
    BY <1>8 DEF Commit, Discard, TypeOK
  <2>3. \A i \in Items :
          stock'[i] # stock[i] \/ version'[i] # version[i] => i \in held[s]
    BY <1>8 DEF Commit, LockInv
  <2> QED
    BY <2>1, <2>2, <2>3, CopiesDropped
<1>9. ASSUME UNCHANGED <<stock, version, copy, pend, held, job>> PROVE CopyInv'
  BY <1>9 DEF CopyInv, Loaded, Flushed
<1>10. ASSUME NEW s \in Sessions, Lookup(s) \/ GuardPasses(s) PROVE CopyInv'
  BY <1>9, <1>10 DEF Lookup, GuardPasses, committed
<1>11. ASSUME AuditOpens \/ AuditCloses \/ UNCHANGED vars PROVE CopyInv'
  BY <1>9, <1>11 DEF AuditOpens, AuditCloses, vars, committed, session
<1> QED
  BY <1>1, <1>3, <1>5, <1>6, <1>7, <1>8, <1>10, <1>11
     DEF Next, Step, Abort, GuardFails, Reject, DeadlockVictim

\* Only a commit changes a ledger; its rows continue the chain.
LEMMA ChainStep ==
    LocksBeforeReading /\ TypeOK /\ LockInv /\ CopyInv /\ LedgerChain
      /\ CorrectionsNotStale /\ [Next]_vars => LedgerChain' /\ CorrectionsNotStale'
<1> SUFFICES ASSUME LocksBeforeReading, TypeOK, LockInv, CopyInv, LedgerChain, CorrectionsNotStale, [Next]_vars
             PROVE  LedgerChain' /\ CorrectionsNotStale'
  OBVIOUS
<1> DEFINE Base(i, rows, n) == IF n = 1 THEN InitStock[i] ELSE rows[n - 1].after
           Chained(i, rows, qty, count) ==
             /\ count = Len(rows)
             /\ qty = Base(i, rows, Len(rows) + 1)
             /\ \A n \in DOMAIN rows :
                  /\ rows[n].before = Base(i, rows, n)
                  /\ rows[n].strict => rows[n].seen = n - 1
<1>0. \A i \in Items : Chained(i, ledger[i], stock[i], version[i])
  BY DEF LedgerChain, CorrectionsNotStale, QtyBefore
<1>1. ASSUME NEW s \in Sessions, Commit(s), NEW i \in Items
      PROVE  Chained(i, ledger'[i], stock'[i], version'[i])
  <2>1. CASE i \notin Flushed(s)
    <3>1. ledger'[i] = ledger[i] /\ stock'[i] = stock[i] /\ version'[i] = version[i]
      BY <1>1, <2>1 DEF Commit
    <3> HIDE DEF Chained
    <3> QED
      BY <1>0, <3>1
  <2>2. CASE i \in Flushed(s)
    <3> DEFINE r == pend[s][i]
    <3>1. /\ ledger[i] \in Seq(Row) /\ r \in Row /\ stock[i] \in Nat /\ version[i] \in Nat
      BY <2>2 DEF TypeOK, LockInv, Flushed
    <3>2. /\ copy[s][i].version = version[i] + 1
          /\ r.before = stock[i] /\ r.after = stock[i] + r.delta
          /\ r.strict => r.seen = version[i]
      <4>1. i \in Loaded(s) /\ ~ job[s].preread
        BY <2>2 DEF LockInv, LocksBeforeReading, TypeOK
      <4> QED
        BY <2>2, <4>1 DEF CopyInv
    <3>3. /\ ledger'[i] = Append(ledger[i], r)
          /\ version'[i] = version[i] + 1
          /\ stock'[i] = IF r.delta # 0 THEN r.after ELSE stock[i]
      BY <1>1, <2>2, <3>2 DEF Commit
    <3>4. stock'[i] = r.after
      BY <3>1, <3>2, <3>3 DEF Row
    <3>5. /\ Len(ledger[i]) \in Nat /\ DOMAIN ledger[i] = 1 .. Len(ledger[i])
          /\ Len(ledger'[i]) = Len(ledger[i]) + 1
          /\ DOMAIN ledger'[i] = 1 .. Len(ledger[i]) + 1
          /\ ledger'[i][Len(ledger[i]) + 1] = r
          /\ \A n \in 1 .. Len(ledger[i]) : ledger'[i][n] = ledger[i][n]
      BY <3>1, <3>3
    <3>6. \A n \in 1 .. Len(ledger[i]) + 1 :
            Base(i, ledger'[i], n) = Base(i, ledger[i], n)
      BY <3>5
    <3>7. Base(i, ledger'[i], Len(ledger'[i]) + 1) = r.after
      BY <3>5
    <3>8. ASSUME NEW n \in DOMAIN ledger'[i]
          PROVE  /\ ledger'[i][n].before = Base(i, ledger'[i], n)
                 /\ ledger'[i][n].strict => ledger'[i][n].seen = n - 1
      <4> HIDE DEF Base
      <4>1. CASE n = Len(ledger[i]) + 1
        BY <1>0, <3>1, <3>2, <3>5, <3>6, <4>1
      <4>2. CASE n \in 1 .. Len(ledger[i])
        BY <1>0, <3>5, <3>6, <4>2
      <4> QED
        BY <3>5, <4>1, <4>2
    <3> QED
      BY <1>0, <3>3, <3>4, <3>5, <3>7, <3>8
  <2> QED
    BY <2>1, <2>2
<1>2. ASSUME NEW s \in Sessions, Commit(s) PROVE LedgerChain' /\ CorrectionsNotStale'
  BY <1>1, <1>2 DEF LedgerChain, CorrectionsNotStale, QtyBefore
<1>3. ASSUME UNCHANGED committed PROVE LedgerChain' /\ CorrectionsNotStale'
  BY <1>3 DEF committed, LedgerChain, CorrectionsNotStale, QtyBefore
<1>4. ASSUME NEW s \in Sessions, Step(s) \/ Abort(s) \/ (\E j \in Jobs : Begin(s, j)),
             ~ Commit(s)
      PROVE  UNCHANGED committed
  BY <1>4 DEF Step, Abort, Begin, Lookup, Duplicate, GuardPasses, GuardFails, LockItem,
              Reject, Write, Conflict, DeadlockVictim, Fail
<1>5. ASSUME AuditOpens \/ AuditCloses \/ UNCHANGED vars PROVE UNCHANGED committed
  BY <1>5 DEF AuditOpens, AuditCloses, vars, committed
<1> QED
  BY <1>2, <1>3, <1>4, <1>5 DEF Next

\* The inductive invariant of the chain.
LEMMA ChainInvHolds == LocksBeforeReading /\ Spec => []ChainInv
<1>1. Init => ChainInv
  BY InitTyped, InitLocked, InitChain DEF ChainInv
<1>2. LocksBeforeReading /\ ChainInv /\ [Next]_vars => ChainInv'
  BY TypeStep, LockStep, CopyStep, ChainStep DEF ChainInv
<1>3. CASE LocksBeforeReading
  <2>1. ChainInv /\ [Next]_vars => ChainInv'
    BY <1>2, <1>3
  <2> QED
    BY <1>1, <2>1, PTL DEF Spec
<1> QED
  BY <1>3

\* When every handler locks an item before it reads it, no movement is lost:
\* each starts from the quantity the one before it left, the current stock is
\* the last one's, and the version counts them (stock_movement_service.py:207-247).
THEOREM ChainHolds == LocksBeforeReading /\ Spec => []LedgerChain
<1>1. ChainInv => LedgerChain
  BY DEF ChainInv
<1> QED
  BY <1>1, ChainInvHolds, PTL

\* Under the same condition a correction that carries the version its client
\* saw is the very next movement after it (stock_movement_service.py:211-225).
THEOREM CorrectionsAreNext == LocksBeforeReading /\ Spec => []CorrectionsNotStale
<1>1. ChainInv => CorrectionsNotStale
  BY DEF ChainInv
<1> QED
  BY <1>1, ChainInvHolds, PTL
-----------------------------------------------------------------------------
(***************************************************************************)
(* Answered requests, for jobs that share all of their keys or none.  A    *)
(* session that loses the race for a key rolls all its movements back; the *)
(* winner had the same keys, and has committed every one of them.          *)
(***************************************************************************)

\* The keys of a job are the keys of its movements.
LEMMA KeysOfJob ==
    ASSUME NEW j \in Jobs, NEW n \in DOMAIN j.moves, j.moves[n].key # NoKey
    PROVE  j.moves[n].key \in KeysOf(j)
BY DEF KeysOf

\* Nothing is begun, committed or answered at the start.
LEMMA InitAck == Init => AckInv
BY DEF Init, AckInv, AckedApplied, Flushed, Nothing, CommittedKey

\* A step of session s that leaves the committed rows and the answers alone,
\* and whose own flushed rows stay or are all dropped.
LEMMA AckKept ==
    ASSUME TypeOK, AckInv, NEW s \in Sessions,
           UNCHANGED <<ledger, acked>>,
           \A t \in Sessions \ {s} : /\ pend'[t] = pend[t] /\ pc'[t] = pc[t]
                                    /\ job'[t] = job[t] /\ at'[t] = at[t],
           pc'[s] # "idle" =>
             \A n \in DOMAIN job'[s].moves :
                /\ n < at'[s] \/ pc'[s] = "commit"
                /\ job'[s].moves[n].key # NoKey
                => \E i \in Items : KeyFound(s, i, job[s].moves[n].key)',
           \A i \in Flushed(s)' : pend'[s][i].key \in KeysOf(job'[s]) \cup {NoKey},
           pc'[s] \in {"guard", "lock", "write"} /\ move(s)'.key # NoKey =>
             \A i \in Items : ~ PendingKey(s, i, move(s).key)'
    PROVE  AckInv'
<1>1. \A i \in Items : \A k : CommittedKey(i, k)' <=> CommittedKey(i, k)
  BY DEF CommittedKey
<1>2. \A t \in Sessions \ {s} :
         /\ Flushed(t)' = Flushed(t) /\ move(t)' = move(t)
         /\ \A i \in Items : \A k : /\ PendingKey(t, i, k)' <=> PendingKey(t, i, k)
                                   /\ KeyFound(t, i, k)' <=> KeyFound(t, i, k)
  BY <1>1 DEF Flushed, move, PendingKey, KeyFound
<1>3. \A t \in Sessions : pc'[t] # "idle" =>
        \A n \in DOMAIN job'[t].moves :
           /\ n < at'[t] \/ pc'[t] = "commit"
           /\ job'[t].moves[n].key # NoKey
           => \E i \in Items : KeyFound(t, i, job[t].moves[n].key)'
  <2> SUFFICES ASSUME NEW t \in Sessions \ {s}, pc'[t] # "idle", NEW n \in DOMAIN job'[t].moves,
                      n < at'[t] \/ pc'[t] = "commit", job'[t].moves[n].key # NoKey
               PROVE  \E i \in Items : KeyFound(t, i, job[t].moves[n].key)'
    OBVIOUS
  <2>1. \E i \in Items : KeyFound(t, i, job[t].moves[n].key)
    BY DEF AckInv
  <2> QED BY <1>2, <2>1
<1>4. \A t \in Sessions : \A i \in Flushed(t)' : pend'[t][i].key \in KeysOf(job'[t]) \cup {NoKey}
  BY <1>2 DEF AckInv
<1>5. \A t \in Sessions :
        pc'[t] \in {"guard", "lock", "write"} /\ move(t)'.key # NoKey =>
          \A i \in Items : ~ PendingKey(t, i, move(t).key)'
  <2> SUFFICES ASSUME NEW t \in Sessions \ {s}, pc'[t] \in {"guard", "lock", "write"},
                      move(t)'.key # NoKey, NEW i \in Items
               PROVE  ~ PendingKey(t, i, move(t).key)'
    OBVIOUS
  <2>1. ~ PendingKey(t, i, move(t).key)
    BY <1>2 DEF AckInv
  <2> QED BY <1>2, <2>1 DEF PendingKey, Flushed
<1>6. \A i \in Items : \A j \in Jobs : \A k \in KeysOf(j) :
        CommittedKey(i, k)' => \A l \in KeysOf(j) : \E h \in Items : CommittedKey(h, l)'
  BY <1>1 DEF AckInv
<1>7. AckedApplied'
  BY <1>1 DEF AckInv, AckedApplied
<1> QED
  BY <1>3, <1>4, <1>5, <1>6, <1>7 DEF AckInv

\* A movement a session has behind it stays found while its rows stay.
LEMMA FoundStays ==
    ASSUME TypeOK, AckInv, NEW s \in Sessions, pc[s] # "idle", UNCHANGED <<ledger, job>>,
           \A i \in Items : pend[s][i] # None => pend'[s][i] = pend[s][i],
           NEW n \in DOMAIN job[s].moves, n < at[s] \/ pc[s] = "commit",
           job[s].moves[n].key # NoKey
    PROVE  \E i \in Items : KeyFound(s, i, job[s].moves[n].key)'
<1>1. PICK i \in Items : KeyFound(s, i, job[s].moves[n].key)
  BY DEF AckInv
<1> QED
  BY <1>1 DEF KeyFound, CommittedKey, PendingKey, Flushed

\* Every step keeps the invariant of answered requests.
LEMMA AckStep ==
    KeysTogether /\ TypeOK /\ LockInv /\ AckInv /\ [Next]_vars => AckInv'
<1> SUFFICES ASSUME KeysTogether, TypeOK, LockInv, AckInv, [Next]_vars PROVE AckInv'
  OBVIOUS
<1>1. ASSUME NEW s \in Sessions, NEW j \in Jobs, Begin(s, j) PROVE AckInv'
  <2>1. /\ UNCHANGED <<ledger, acked>> /\ pend' = pend
        /\ \A t \in Sessions \ {s} : pc'[t] = pc[t] /\ job'[t] = job[t] /\ at'[t] = at[t]
        /\ pc'[s] = "lookup" /\ at'[s] = 1 /\ job'[s] = j
    BY <1>1 DEF Begin, TypeOK, committed
  <2>2. Flushed(s)' = {}
    BY <1>1, <2>1 DEF Begin, LockInv, Flushed
  <2>3. \A n \in DOMAIN job'[s].moves : ~ (n < at'[s])
    BY <2>1, JobTyped
  <2> QED
    BY <2>1, <2>2, <2>3, AckKept
<1>2. ASSUME NEW s \in Sessions, Fail(s) PROVE AckInv'
  <2>1. /\ UNCHANGED <<ledger, acked>> /\ pend'[s] = Nothing /\ pc'[s] = "idle"
        /\ \A t \in Sessions \ {s} : /\ pend'[t] = pend[t] /\ pc'[t] = pc[t]
                                    /\ job'[t] = job[t] /\ at'[t] = at[t]
    BY <1>2 DEF Fail, Discard, TypeOK, committed
  <2>2. Flushed(s)' = {}
    BY <2>1 DEF Flushed, Nothing
  <2> QED
    BY <2>1, <2>2, AckKept
<1>3. ASSUME NEW s \in Sessions, Lookup(s) PROVE AckInv'
  <2>1. /\ UNCHANGED <<ledger, acked, pend, job, at>> /\ pc[s] = "lookup"
        /\ \A t \in Sessions \ {s} : pc'[t] = pc[t]
        /\ pc'[s] \in {"duplicate", "guard"}
        /\ pc'[s] = "guard" => \/ move(s).key = NoKey
                               \/ \A i \in Items : ~ KeyFound(s, i, move(s).key)
    BY <1>3 DEF Lookup, Goto, TypeOK, committed
  <2>2. \A n \in DOMAIN job'[s].moves :
          n < at'[s] /\ job'[s].moves[n].key # NoKey
            => \E i \in Items : KeyFound(s, i, job[s].moves[n].key)'
    BY <2>1, FoundStays
  <2>3. Flushed(s)' = Flushed(s) /\ move(s)' = move(s)
        /\ \A i \in Items : PendingKey(s, i, move(s).key)' => PendingKey(s, i, move(s).key)
    BY <2>1 DEF Flushed, move, PendingKey
  <2>4. pc'[s] \in {"guard", "lock", "write"} /\ move(s)'.key # NoKey =>
          \A i \in Items : ~ PendingKey(s, i, move(s).key)'
    BY <2>1, <2>3 DEF KeyFound
  <2>5. \A i \in Flushed(s)' : pend'[s][i].key \in KeysOf(job'[s]) \cup {NoKey}
    BY <2>1, <2>3 DEF AckInv
  <2> QED
    BY <2>1, <2>2, <2>4, <2>5, AckKept
<1>4. ASSUME NEW s \in Sessions, GuardPasses(s) \/ LockItem(s) PROVE AckInv'
  <2>1. /\ UNCHANGED <<ledger, acked, pend, job, at>> /\ pc[s] \in {"guard", "lock"}
        /\ \A t \in Sessions \ {s} : pc'[t] = pc[t]
        /\ pc'[s] \in {"lock", "write"}
    BY <1>4 DEF GuardPasses, LockItem, Goto, TypeOK, committed
  <2>2. \A n \in DOMAIN job'[s].moves :
          n < at'[s] /\ job'[s].moves[n].key # NoKey
            => \E i \in Items : KeyFound(s, i, job[s].moves[n].key)'
    BY <2>1, FoundStays
  <2>3. Flushed(s)' = Flushed(s) /\ move(s)' = move(s)
        /\ \A i \in Items : PendingKey(s, i, move(s).key)' => PendingKey(s, i, move(s).key)
    BY <2>1 DEF Flushed, move, PendingKey
  <2>4. move(s)'.key # NoKey => \A i \in Items : ~ PendingKey(s, i, move(s).key)'
    BY <2>1, <2>3 DEF AckInv
  <2>5. \A i \in Flushed(s)' : pend'[s][i].key \in KeysOf(job'[s]) \cup {NoKey}
    BY <2>1, <2>3 DEF AckInv
  <2> QED
    BY <2>1, <2>2, <2>4, <2>5, AckKept
<1>5. ASSUME NEW s \in Sessions, Duplicate(s) PROVE AckInv'
  <2>1. /\ UNCHANGED <<ledger, acked, pend, job>> /\ pc[s] = "duplicate"
        /\ \E i \in Items : KeyFound(s, i, move(s).key)
        /\ Return(s)
    BY <1>5 DEF Duplicate, committed
  <2>2. /\ \A t \in Sessions \ {s} : pc'[t] = pc[t] /\ at'[t] = at[t]
        /\ \/ pc'[s] = "lookup" /\ at'[s] = at[s] + 1
           \/ pc'[s] = "commit" /\ at'[s] = at[s] /\ at[s] >= Len(job[s].moves)
    <3>1. /\ at[s] \in 1 .. Len(job[s].moves) /\ Len(job[s].moves) \in Nat
          /\ pc \in [Sessions -> Locations] /\ at \in [Sessions -> Nat]
      BY MoveTyped, JobTyped DEF TypeOK
    <3> QED
      BY <2>1, <3>1 DEF Return
  <2>3. ASSUME NEW n \in DOMAIN job'[s].moves, n < at'[s] \/ pc'[s] = "commit",
               job'[s].moves[n].key # NoKey
        PROVE  \E i \in Items : KeyFound(s, i, job[s].moves[n].key)'
    <3>1. /\ n \in 1 .. Len(job[s].moves) /\ at[s] \in 1 .. Len(job[s].moves)
          /\ Len(job[s].moves) \in Nat /\ n \in DOMAIN job[s].moves
      BY <2>1, <2>3, MoveTyped, JobTyped
    <3>2. n < at[s] \/ n = at[s]
      BY <2>2, <2>3, <3>1
    <3>3. CASE n < at[s]
      BY <2>1, <2>3, <3>1, <3>3, FoundStays
    <3>4. CASE n = at[s]
      BY <2>1, <3>4 DEF move, KeyFound, CommittedKey, PendingKey, Flushed
    <3> QED
      BY <3>2, <3>3, <3>4
  <2>4. \A i \in Flushed(s)' : pend'[s][i].key \in KeysOf(job'[s]) \cup {NoKey}
    BY <2>1 DEF AckInv, Flushed
  <2>5. pc'[s] \notin {"guard", "lock", "write"}
    BY <2>2
  <2> QED
    BY <2>1, <2>2, <2>3, <2>4, <2>5, AckKept
<1>6. ASSUME NEW s \in Sessions, Conflict(s) PROVE AckInv'
  <2>1. /\ UNCHANGED <<ledger, acked, job, at>> /\ pc[s] = "write" /\ pc'[s] = "duplicate"
        /\ \A t \in Sessions \ {s} : pend'[t] = pend[t] /\ pc'[t] = pc[t]
        /\ pend'[s] = Nothing
        /\ KeyClash(s)
    BY <1>6 DEF Conflict, Discard, Goto, TypeOK, committed
  <2>2. PICK i \in Items : CommittedKey(i, move(s).key)
    BY <2>1 DEF KeyClash, KeyFound, AckInv
  <2>3. \A l \in KeysOf(job[s]) : \E h \in Items : CommittedKey(h, l)
    <3>1. job[s] \in Jobs /\ move(s).key \in KeysOf(job[s])
      BY <2>1, KeysOfJob DEF TypeOK, KeyClash, move
    <3> QED
      BY <2>2, <3>1 DEF AckInv
  <2>4. \A n \in DOMAIN job'[s].moves : job'[s].moves[n].key # NoKey
            => \E h \in Items : KeyFound(s, h, job[s].moves[n].key)'
    <3>1. ASSUME NEW n \in DOMAIN job[s].moves, job[s].moves[n].key # NoKey
          PROVE  \E h \in Items : CommittedKey(h, job[s].moves[n].key)
      BY <2>3, <3>1, KeysOfJob DEF TypeOK
    <3> QED
      BY <2>1, <3>1 DEF KeyFound, CommittedKey
  <2>5. Flushed(s)' = {}
    BY <2>1 DEF Flushed, Nothing
  <2> QED
    BY <2>1, <2>4, <2>5, AckKept
<1>7. ASSUME NEW s \in Sessions, Write(s) PROVE AckInv'
  <2> DEFINE m == move(s).item
             k == move(s).key
  <2>1. /\ UNCHANGED <<ledger, acked, job>> /\ pc[s] = "write"
        /\ pend' = [pend EXCEPT ![s][m] = RowFor(s)]
        /\ Return(s)
    BY <1>7 DEF Write, committed
  <2>2. /\ m \in Items /\ m \notin Flushed(s)
        /\ RowFor(s) # None /\ RowFor(s).key = k
    <3>1. m \in Items /\ copy[s][m] # None /\ Acceptable(s)
      BY <1>7, MoveTyped DEF Write, LockInv, Loaded
    <3>2. m \notin Flushed(s)
      <4>1. at[s] \in at[s] .. Len(job[s].moves) /\ pc[s] \in Working
        BY <2>1, MoveTyped, JobTyped DEF Working
      <4> QED
        BY <4>1 DEF LockInv, move
    <3> QED
      BY <3>1, <3>2, RowTyped, NoneAssumption
  <2>3. /\ \A t \in Sessions \ {s} : pc'[t] = pc[t] /\ at'[t] = at[t] /\ pend'[t] = pend[t]
        /\ \/ pc'[s] = "lookup" /\ at'[s] = at[s] + 1
           \/ pc'[s] = "commit" /\ at'[s] = at[s] /\ at[s] >= Len(job[s].moves)
    <3>1. /\ at[s] \in 1 .. Len(job[s].moves) /\ Len(job[s].moves) \in Nat
          /\ pc \in [Sessions -> Locations] /\ at \in [Sessions -> Nat]
          /\ pend \in [Sessions -> [Items -> Row \cup {None}]]
      BY MoveTyped, JobTyped DEF TypeOK
    <3> QED
      BY <2>1, <3>1 DEF Return
  <2>4. /\ pend'[s][m] = RowFor(s)
        /\ \A i \in Items : pend[s][i] # None => pend'[s][i] = pend[s][i]
        /\ \A i \in Items : i # m => pend'[s][i] = pend[s][i]
    BY <2>1, <2>2 DEF TypeOK, Flushed
  <2>5. ASSUME NEW n \in DOMAIN job'[s].moves, n < at'[s] \/ pc'[s] = "commit",
               job'[s].moves[n].key # NoKey
        PROVE  \E i \in Items : KeyFound(s, i, job[s].moves[n].key)'
    <3>1. /\ n \in 1 .. Len(job[s].moves) /\ at[s] \in 1 .. Len(job[s].moves)
          /\ Len(job[s].moves) \in Nat /\ n \in DOMAIN job[s].moves
      BY <2>1, <2>5, MoveTyped, JobTyped
    <3>2. n < at[s] \/ n = at[s]
      BY <2>3, <2>5, <3>1
    <3>3. CASE n < at[s]
      BY <2>1, <2>4, <2>5, <3>1, <3>3, FoundStays
    <3>4. CASE n = at[s]
      <4>1. PICK i \in Items : i = m
        BY <2>2
      <4>2. pend'[s][i] # None /\ pend'[s][i].key = job'[s].moves[n].key
        BY <2>1, <2>2, <2>4, <3>4, <4>1 DEF move
      <4> QED
        BY <4>2 DEF KeyFound, PendingKey, Flushed
    <3> QED
      BY <3>2, <3>3, <3>4
  <2>6. \A i \in Flushed(s)' : pend'[s][i].key \in KeysOf(job'[s]) \cup {NoKey}
    <3>1. k \in KeysOf(job[s]) \cup {NoKey}
      BY KeysOfJob DEF move, TypeOK
    <3> QED
      BY <2>1, <2>2, <2>4, <3>1 DEF AckInv, Flushed
  <2>7. pc'[s] \notin {"guard", "lock", "write"}
    BY <2>3
  <2> QED
    BY <2>1, <2>3, <2>5, <2>6, <2>7, AckKept
<1>8. ASSUME NEW s \in Sessions, Commit(s) PROVE AckInv'
  <2>1. \A i \in Items : \A x : CommittedKey(i, x) => CommittedKey(i, x)'
    <3> SUFFICES ASSUME NEW i \in Items, NEW x, CommittedKey(i, x)
                 PROVE  CommittedKey(i, x)'
      OBVIOUS
    <3>1. PICK n \in DOMAIN ledger[i] : ledger[i][n].key = x
      BY DEF CommittedKey
    <3>2. n \in DOMAIN ledger'[i] /\ ledger'[i][n] = ledger[i][n]
      <4>1. ledger[i] \in Seq(Row) /\ (i \in Flushed(s) => pend[s][i] \in Row)
        BY DEF TypeOK, Flushed
      <4>2. ledger'[i] = ledger[i] \/ (i \in Flushed(s) /\ ledger'[i] = Append(ledger[i], pend[s][i]))
        BY <1>8, CommitAppends
      <4> QED
        BY <4>1, <4>2
    <3> QED
      BY <3>1, <3>2 DEF CommittedKey
  <2>2. \A i \in Items : \A x : PendingKey(s, i, x) => CommittedKey(i, x)'
    <3> SUFFICES ASSUME NEW i \in Items, NEW x, PendingKey(s, i, x)
                 PROVE  CommittedKey(i, x)'
      OBVIOUS
    <3>1. /\ ledger[i] \in Seq(Row) /\ pend[s][i] \in Row /\ pend[s][i].key = x
          /\ ledger'[i] = Append(ledger[i], pend[s][i])
      BY <1>8, CommitAppends DEF TypeOK, Flushed, PendingKey
    <3>2. Len(ledger[i]) + 1 \in DOMAIN ledger'[i] /\ ledger'[i][Len(ledger[i]) + 1] = pend[s][i]
      BY <3>1
    <3> QED
      BY <3>1, <3>2 DEF CommittedKey
  <2>3. \A l \in KeysOf(job[s]) : \E h \in Items : CommittedKey(h, l)'
    <3> SUFFICES ASSUME NEW l \in KeysOf(job[s])
                 PROVE  \E h \in Items : CommittedKey(h, l)'
      OBVIOUS
    <3>1. PICK n \in DOMAIN job[s].moves : job[s].moves[n].key = l /\ l # NoKey
      BY DEF KeysOf
    <3>2. PICK h \in Items : KeyFound(s, h, l)
      BY <1>8, <3>1 DEF AckInv, Commit
    <3> QED
      BY <2>1, <2>2, <3>2 DEF KeyFound
  <2>4. /\ \A t \in Sessions \ {s} : /\ pend'[t] = pend[t] /\ pc'[t] = pc[t]
                                    /\ job'[t] = job[t] /\ at'[t] = at[t]
        /\ pend'[s] = Nothing /\ pc'[s] = "idle"
        /\ acked' = acked \cup KeysOf(job[s])
    BY <1>8 DEF Commit, Discard, TypeOK
  <2>5. AckedApplied'
    BY <2>1, <2>3, <2>4 DEF AckInv, AckedApplied
  <2>6. \A i \in Items : \A j \in Jobs : \A k \in KeysOf(j) :
          CommittedKey(i, k)' => \A l \in KeysOf(j) : \E h \in Items : CommittedKey(h, l)'
    <3> SUFFICES ASSUME NEW i \in Items, NEW j \in Jobs, NEW k \in KeysOf(j),
                        CommittedKey(i, k)', NEW l \in KeysOf(j)
                 PROVE  \E h \in Items : CommittedKey(h, l)'
      OBVIOUS
    <3>1. CASE CommittedKey(i, k)
      BY <2>1, <3>1 DEF AckInv
    <3>2. CASE i \in Flushed(s) /\ pend[s][i].key = k
      <4>1. k # NoKey
        BY DEF KeysOf
      <4>2. k \in KeysOf(job[s]) /\ job[s] \in Jobs
        BY <3>2, <4>1 DEF AckInv, TypeOK
      <4>3. KeysOf(j) = KeysOf(job[s])
        BY <4>2 DEF KeysTogether
      <4> QED
        BY <2>3, <4>3
    <3>3. CommittedKey(i, k) \/ (i \in Flushed(s) /\ pend[s][i].key = k)
      <4>1. PICK n \in DOMAIN ledger'[i] : ledger'[i][n].key = k
        BY DEF CommittedKey
      <4> QED
        BY <1>8, <4>1, CommitAppends DEF CommittedKey
    <3> QED
      BY <3>1, <3>2, <3>3
  <2>7. \A t \in Sessions \ {s} :
          /\ Flushed(t)' = Flushed(t) /\ move(t)' = move(t)
          /\ \A i \in Items : \A x : /\ PendingKey(t, i, x)' <=> PendingKey(t, i, x)
                                    /\ KeyFound(t, i, x) => KeyFound(t, i, x)'
    BY <2>1, <2>4 DEF Flushed, move, PendingKey, KeyFound
  <2>8. Flushed(s)' = {}
    BY <2>4 DEF Flushed, Nothing
  <2>9. \A t \in Sessions : pc'[t] # "idle" =>
          \A n \in DOMAIN job'[t].moves :
             /\ n < at'[t] \/ pc'[t] = "commit"
             /\ job'[t].moves[n].key # NoKey
             => \E i \in Items : KeyFound(t, i, job[t].moves[n].key)'
    <3> SUFFICES ASSUME NEW t \in Sessions, pc'[t] # "idle", NEW n \in DOMAIN job'[t].moves,
                        n < at'[t] \/ pc'[t] = "commit", job'[t].moves[n].key # NoKey
                 PROVE  \E i \in Items : KeyFound(t, i, job[t].moves[n].key)'
      OBVIOUS
    <3>1. t # s /\ job'[t] = job[t] /\ pc'[t] = pc[t] /\ at'[t] = at[t]
      BY <2>4
    <3>2. PICK i \in Items : KeyFound(t, i, job[t].moves[n].key)
      BY <3>1 DEF AckInv
    <3>3. CommittedKey(i, job[t].moves[n].key) => CommittedKey(i, job[t].moves[n].key)'
      <4>1. PICK x : x = job[t].moves[n].key
        OBVIOUS
      <4>2. job'[t].moves[n].key = x
        BY <3>1, <4>1
      <4>3. CommittedKey(i, x) => CommittedKey(i, x)'
        BY <2>1
      <4> QED
        BY <4>1, <4>2, <4>3 DEF CommittedKey
    <3>4. PendingKey(t, i, job[t].moves[n].key) => PendingKey(t, i, job[t].moves[n].key)'
      BY <2>4, <3>1 DEF PendingKey, Flushed
    <3> QED
      BY <3>2, <3>3, <3>4 DEF KeyFound
  <2>10. \A t \in Sessions : \A i \in Flushed(t)' : pend'[t][i].key \in KeysOf(job'[t]) \cup {NoKey}
    BY <2>4, <2>7, <2>8 DEF AckInv
  <2>11. \A t \in Sessions :
           pc'[t] \in {"guard", "lock", "write"} /\ move(t)'.key # NoKey =>
             \A i \in Items : ~ PendingKey(t, i, move(t).key)'
    <3> SUFFICES ASSUME NEW t \in Sessions, pc'[t] \in {"guard", "lock", "write"},
                        move(t)'.key # NoKey, NEW i \in Items
                 PROVE  ~ PendingKey(t, i, move(t).key)'
      OBVIOUS
    <3>1. t # s /\ pend'[t] = pend[t] /\ pc'[t] = pc[t] /\ move(t)' = move(t)
      BY <2>4, <2>7
    <3>2. ~ PendingKey(t, i, move(t).key)
      BY <3>1 DEF AckInv
    <3> QED
      BY <3>1, <3>2 DEF PendingKey, Flushed
  <2> QED
    BY <2>5, <2>6, <2>9, <2>10, <2>11 DEF AckInv
<1>9. ASSUME AuditOpens \/ AuditCloses \/ UNCHANGED vars PROVE AckInv'
  <2>1. UNCHANGED <<ledger, pc, job, at, pend, acked>>
    BY <1>9 DEF AuditOpens, AuditCloses, vars, committed, session
  <2> QED
    BY <2>1 DEF AckInv, AckedApplied, KeyFound, PendingKey, CommittedKey, Flushed, move
<1> QED
  BY <1>1, <1>2, <1>3, <1>4, <1>5, <1>6, <1>7, <1>8, <1>9
     DEF Next, Step, Abort, GuardFails, Reject, DeadlockVictim

\* The inductive invariant of answered requests.
LEMMA AckInvHolds == KeysTogether /\ Spec => []AckInv
<1>1. Init => SafetyInv /\ AckInv
  BY InitTyped, InitLocked, InitKeys, InitAck DEF SafetyInv
<1>2. KeysTogether /\ SafetyInv /\ AckInv /\ [Next]_vars => SafetyInv' /\ AckInv'
  BY TypeStep, LockStep, KeyStep, AckStep DEF SafetyInv
<1>3. CASE KeysTogether
  <2>1. SafetyInv /\ AckInv /\ [Next]_vars => SafetyInv' /\ AckInv'
    BY <1>2, <1>3
  <2> QED
    BY <1>1, <2>1, PTL DEF Spec
<1> QED
  BY <1>3

\* When jobs that share a key share all of them, a request answered with
\* success has its movements in the ledger, also when another request won the
\* race for its keys and its own rows were rolled back
\* (stock_movement_service.py:163-177 and 271-289).
THEOREM AnsweredMeansApplied == KeysTogether /\ Spec => []AckedApplied
<1>1. AckInv => AckedApplied
  BY DEF AckInv
<1> QED
  BY <1>1, AckInvHolds, PTL
-----------------------------------------------------------------------------
(***************************************************************************)
(* The ledger serves a request in one step (AtomicLedger).  Only a commit  *)
(* is seen from outside; what it commits is what the job asked for.        *)
(***************************************************************************)

\* Nothing is loaded or flushed at the start.
LEMMA InitBook == Init => BookInv
<1> SUFFICES ASSUME Init PROVE BookInv
  OBVIOUS
<1>1. \A i \in Items : stock[i] \in A!Once(i) /\ version[i] <= Len(ledger[i])
  BY DEF Init, A!Once
<1>2. \A s \in Sessions : Loaded(s) = {} /\ Flushed(s) = {} /\ pc[s] = "idle"
  BY DEF Init, Loaded, Flushed, Nothing
<1> QED
  BY <1>1, <1>2 DEF BookInv, BookOf

\* A step of session s that commits nothing concerns its own books only.
LEMMA BookKept ==
    ASSUME BookInv, NEW s \in Sessions, UNCHANGED committed,
           \A t \in Sessions \ {s} :
              /\ copy'[t] = copy[t] /\ pend'[t] = pend[t] /\ pc'[t] = pc[t]
              /\ job'[t] = job[t] /\ at'[t] = at[t],
           BookOf(s)'
    PROVE  BookInv'
<1>1. \A i \in Items : A!Once(i)' = A!Once(i)
  BY DEF committed, A!Once
<1>2. \A i \in Items : (stock[i] \in A!Once(i) /\ version[i] <= Len(ledger[i]))'
  BY <1>1 DEF BookInv, committed
<1>3. ASSUME NEW t \in Sessions \ {s} PROVE BookOf(t)'
  <2>1. /\ Loaded(t)' = Loaded(t) /\ Flushed(t)' = Flushed(t) /\ move(t)' = move(t)
        /\ Loaded(t) \subseteq Items /\ Flushed(t) \subseteq Items
    BY <1>3 DEF Loaded, Flushed, move
  <2>2. BookOf(t)
    BY <1>3 DEF BookInv
  <2>3. \A i \in Loaded(t) \ Flushed(t) :
          copy'[t][i].qty \in A!Once(i)' /\ copy'[t][i].version <= Len(ledger'[i])
    BY <1>1, <1>3, <2>1, <2>2 DEF BookOf, committed
  <2>4. \A i \in Flushed(t) : \E n \in DOMAIN job'[t].moves : RowOf(t, i, job[t].moves[n])'
    BY <1>1, <1>3, <2>1, <2>2 DEF BookOf, RowOf, committed
  <2> QED
    BY <1>3, <2>1, <2>2, <2>3, <2>4 DEF BookOf
<1> QED
  BY <1>2, <1>3 DEF BookInv

\* Locking a row loads it as it is committed, and flushes nothing.
LEMMA BookLocked ==
    ASSUME TypeOK, LockInv, BookInv, NEW s \in Sessions, NEW i \in Items, LockRow(s, i),
           UNCHANGED <<committed, pend, job>>
    PROVE  /\ \A j \in Loaded(s)' \ Flushed(s)' :
                copy'[s][j].qty \in A!Once(j)' /\ copy'[s][j].version <= Len(ledger'[j])
           /\ \A j \in Flushed(s)' :
                \E n \in DOMAIN job'[s].moves : RowOf(s, j, job[s].moves[n])'
           /\ Flushed(s)' = Flushed(s)
           /\ \A t \in Sessions \ {s} : copy'[t] = copy[t]
<1>1. /\ Flushed(s)' = Flushed(s) /\ Flushed(s) \subseteq Loaded(s)
      /\ \A t \in Sessions \ {s} : copy'[t] = copy[t]
      /\ \A j \in Items : \/ copy'[s][j] = copy[s][j]
                          \/ copy[s][j] = None /\ copy'[s][j] = Current(j)
  BY DEF LockRow, TypeOK, Flushed, LockInv
<1>2. \A j \in Items : A!Once(j)' = A!Once(j)
  BY DEF committed, A!Once
<1>3. BookOf(s) /\ \A j \in Items : stock[j] \in A!Once(j) /\ version[j] <= Len(ledger[j])
  BY DEF BookInv
<1>4. \A j \in Loaded(s)' \ Flushed(s)' :
        copy'[s][j].qty \in A!Once(j)' /\ copy'[s][j].version <= Len(ledger'[j])
  <2> SUFFICES ASSUME NEW j \in Items, copy'[s][j] # None, j \notin Flushed(s)
               PROVE  copy'[s][j].qty \in A!Once(j)' /\ copy'[s][j].version <= Len(ledger'[j])
    BY <1>1 DEF Loaded
  <2>1. CASE copy'[s][j] = Current(j)
    BY <1>2, <1>3, <2>1 DEF Current, committed
  <2>2. CASE copy'[s][j] = copy[s][j]
    BY <1>2, <1>3, <2>2 DEF BookOf, Loaded, committed
  <2> QED
    BY <1>1, <2>1, <2>2
<1>5. ASSUME NEW j \in Flushed(s)
      PROVE  \E n \in DOMAIN job'[s].moves : RowOf(s, j, job[s].moves[n])'
  <2>1. copy'[s][j] = copy[s][j] /\ j \in Items
    BY <1>1, <1>5 DEF Loaded, Flushed
  <2>2. PICK n \in DOMAIN job[s].moves : RowOf(s, j, job[s].moves[n])
    BY <1>3, <1>5 DEF BookOf
  <2>3. RowOf(s, j, job[s].moves[n])'
    BY <1>2, <2>1, <2>2 DEF RowOf, committed
  <2> QED
    BY <2>3
<1> QED
  BY <1>1, <1>4, <1>5

\* The books of a session whose rows and copies stay, wherever it goes on to.
LEMMA BookMoved ==
    ASSUME BookInv, NEW s \in Sessions, UNCHANGED <<committed, pend, job, copy>>
    PROVE  /\ \A j \in Loaded(s)' \ Flushed(s)' :
                copy'[s][j].qty \in A!Once(j)' /\ copy'[s][j].version <= Len(ledger'[j])
           /\ \A j \in Flushed(s)' :
                \E n \in DOMAIN job'[s].moves : RowOf(s, j, job[s].moves[n])'
           /\ Flushed(s)' = Flushed(s)
<1>1. Loaded(s)' = Loaded(s) /\ Flushed(s)' = Flushed(s) /\ BookOf(s)
      /\ Loaded(s) \subseteq Items /\ Flushed(s) \subseteq Items
  BY DEF Loaded, Flushed, BookInv
<1>2. \A j \in Items : A!Once(j)' = A!Once(j)
  BY DEF committed, A!Once
<1>3. \A j \in Flushed(s) : \E n \in DOMAIN job'[s].moves : RowOf(s, j, job[s].moves[n])'
  BY <1>1, <1>2 DEF BookOf, RowOf, committed
<1> QED
  BY <1>1, <1>2, <1>3 DEF BookOf, committed

\* Returning, a session has the movement it is at behind it, and no other one.
LEMMA ReturnPasses ==
    ASSUME TypeOK, NEW s \in Sessions, Return(s), UNCHANGED job,
           NEW n \in DOMAIN job[s].moves, n < at'[s] \/ pc'[s] = "commit"
    PROVE  n < at[s] \/ n = at[s]
<1>1. /\ at[s] \in 1 .. Len(job[s].moves) /\ Len(job[s].moves) \in Nat
      /\ n \in 1 .. Len(job[s].moves)
      /\ pc \in [Sessions -> Locations] /\ at \in [Sessions -> Nat]
  BY MoveTyped, JobTyped DEF TypeOK
<1>2. \/ pc'[s] = "lookup" /\ at'[s] = at[s] + 1
      \/ at[s] >= Len(job[s].moves)
  BY <1>1 DEF Return
<1> QED
  BY <1>1, <1>2

\* A commit appends what was flushed: every quantity an item had it still has
\* had, and what other sessions loaded is as old as it was.
LEMMA BookCommitted ==
    ASSUME TypeOK, LockInv, BookInv, NEW s \in Sessions, Commit(s)
    PROVE  BookInv'
<1>1. ASSUME NEW i \in Items
      PROVE  /\ A!Once(i) \subseteq A!Once(i)'
             /\ Len(ledger[i]) <= Len(ledger'[i]) /\ Len(ledger[i]) \in Nat
             /\ i \in Flushed(s) => /\ Len(ledger'[i]) = Len(ledger[i]) + 1
                                    /\ pend[s][i].after \in A!Once(i)'
             /\ Len(ledger'[i]) \in Nat
  <2>1. ledger[i] \in Seq(Row) /\ (i \in Flushed(s) => pend[s][i] \in Row)
    BY <1>1 DEF TypeOK, Flushed
  <2>2. CASE i \notin Flushed(s)
    <3>1. ledger'[i] = ledger[i]
      BY <1>1, <2>2, CommitAppends
    <3> QED
      BY <2>1, <2>2, <3>1 DEF A!Once
  <2>3. CASE i \in Flushed(s)
    <3>1. ledger'[i] = Append(ledger[i], pend[s][i])
      BY <1>1, <2>3, CommitAppends
    <3>2. /\ Len(ledger'[i]) = Len(ledger[i]) + 1 /\ Len(ledger[i]) \in Nat
          /\ DOMAIN ledger[i] \subseteq DOMAIN ledger'[i]
          /\ \A n \in DOMAIN ledger[i] : ledger'[i][n] = ledger[i][n]
          /\ Len(ledger[i]) + 1 \in DOMAIN ledger'[i]
          /\ ledger'[i][Len(ledger[i]) + 1] = pend[s][i]
      BY <2>1, <2>3, <3>1
    <3>3. \A n \in DOMAIN ledger[i] : n \in DOMAIN ledger'[i] /\ ledger'[i][n].after = ledger[i][n].after
      BY <3>2
    <3>4. A!Once(i) \subseteq A!Once(i)'
      BY <3>3 DEF A!Once
    <3>5. pend[s][i].after \in A!Once(i)'
      BY <3>2 DEF A!Once
    <3> QED
      BY <3>2, <3>4, <3>5
  <2> QED
    BY <2>2, <2>3
<1>2. ASSUME NEW i \in Items
      PROVE  stock'[i] \in A!Once(i)' /\ version'[i] <= Len(ledger'[i])
  <2>1. /\ stock'[i] = IF i \in Flushed(s) /\ pend[s][i].delta # 0
                       THEN pend[s][i].after ELSE stock[i]
        /\ version'[i] = IF i \in Flushed(s) THEN copy[s][i].version ELSE version[i]
    BY <1>2 DEF Commit
  <2>2. /\ stock[i] \in A!Once(i) /\ version[i] <= Len(ledger[i]) /\ version[i] \in Nat
    BY <1>2 DEF BookInv, TypeOK
  <2>3. i \in Flushed(s) => copy[s][i].version \in 1 .. Len(ledger[i]) + 1
    BY DEF BookInv, BookOf, RowOf
  <2> QED
    BY <1>1, <1>2, <2>1, <2>2, <2>3
<1>3. /\ \A t \in Sessions \ {s} : /\ copy'[t] = copy[t] /\ pend'[t] = pend[t] /\ pc'[t] = pc[t]
                                  /\ job'[t] = job[t] /\ at'[t] = at[t]
      /\ copy'[s] = Nothing /\ pend'[s] = Nothing /\ pc'[s] = "idle"
  BY DEF Commit, Discard, TypeOK
<1>4. BookOf(s)'
  <2>1. Flushed(s)' = {} /\ Loaded(s)' = {}
    BY <1>3 DEF Flushed, Loaded, Nothing
  <2> QED
    BY <1>3, <2>1 DEF BookOf
<1>5. ASSUME NEW t \in Sessions \ {s} PROVE BookOf(t)'
  <2>1. /\ Loaded(t)' = Loaded(t) /\ Flushed(t)' = Flushed(t) /\ move(t)' = move(t)
        /\ Loaded(t) \subseteq Items /\ Flushed(t) \subseteq Items
    BY <1>3, <1>5 DEF Loaded, Flushed, move
  <2>2. BookOf(t)
    BY <1>5 DEF BookInv
  <2>3. ASSUME NEW i \in Loaded(t) \ Flushed(t)
        PROVE  copy'[t][i].qty \in A!Once(i)' /\ copy'[t][i].version <= Len(ledger'[i])
    <3>1. /\ copy[t][i].qty \in A!Once(i) /\ copy[t][i].version <= Len(ledger[i])
          /\ copy[t][i].version \in Nat /\ copy'[t][i] = copy[t][i] /\ i \in Items
      BY <1>3, <1>5, <2>1, <2>2, <2>3 DEF BookOf, TypeOK, Loaded, Copy
    <3> QED
      BY <1>1, <3>1
  <2>4. ASSUME NEW i \in Flushed(t)
        PROVE  \E n \in DOMAIN job'[t].moves : RowOf(t, i, job[t].moves[n])'
    <3>1. PICK n \in DOMAIN job[t].moves : RowOf(t, i, job[t].moves[n])
      BY <2>2, <2>4 DEF BookOf
    <3>2. /\ copy'[t] = copy[t] /\ pend'[t] = pend[t] /\ job'[t] = job[t] /\ i \in Items
      BY <1>3, <1>5, <2>1, <2>4
    <3>3. /\ A!Once(i) \subseteq A!Once(i)'
          /\ Len(ledger[i]) <= Len(ledger'[i]) /\ Len(ledger[i]) \in Nat /\ Len(ledger'[i]) \in Nat
      BY <1>1, <3>2
    <3>4. copy[t][i].version \in 1 .. Len(ledger'[i]) + 1
      BY <3>1, <3>3 DEF RowOf
    <3>5. RowOf(t, i, job[t].moves[n])'
      BY <3>1, <3>2, <3>3, <3>4 DEF RowOf
    <3> QED
      BY <3>2, <3>5
  <2> QED
    BY <1>3, <1>5, <2>1, <2>2, <2>3, <2>4 DEF BookOf
<1> QED
  BY <1>2, <1>4, <1>5 DEF BookInv

\* Every step keeps the books.
LEMMA BookStep ==
    OneKeyEach /\ TypeOK /\ LockInv /\ BookInv /\ [Next]_vars => BookInv'
<1> SUFFICES ASSUME OneKeyEach, TypeOK, LockInv, BookInv, [Next]_vars PROVE BookInv'
  OBVIOUS
<1>1. ASSUME NEW s \in Sessions, NEW j \in Jobs, Begin(s, j) PROVE BookInv'
  <2>1. /\ UNCHANGED committed /\ pend' = pend
        /\ \A t \in Sessions \ {s} : /\ copy'[t] = copy[t] /\ pc'[t] = pc[t]
                                    /\ job'[t] = job[t] /\ at'[t] = at[t]
        /\ pc'[s] = "lookup" /\ at'[s] = 1 /\ job'[s] = j
        /\ \A i \in Items : copy'[s][i] \in {None, Current(i)}
    BY <1>1 DEF Begin, TypeOK
  <2>2. Flushed(s)' = {}
    BY <1>1, <2>1 DEF Begin, LockInv, Flushed
  <2>3. \A n \in DOMAIN job'[s].moves : ~ (n < at'[s])
    BY <2>1, JobTyped
  <2>4. \A i \in Items : A!Once(i)' = A!Once(i)
    BY <2>1 DEF committed, A!Once
  <2>5. \A i \in Loaded(s)' :
          copy'[s][i].qty \in A!Once(i)' /\ copy'[s][i].version <= Len(ledger'[i])
    BY <2>1, <2>4 DEF Loaded, Current, BookInv, committed
  <2>6. BookOf(s)'
    BY <2>1, <2>2, <2>3, <2>5 DEF BookOf
  <2> QED
    BY <2>1, <2>6, BookKept
<1>2. ASSUME NEW s \in Sessions, Fail(s) PROVE BookInv'
  <2>1. /\ UNCHANGED committed /\ pc'[s] = "idle"
        /\ pend'[s] = Nothing /\ copy'[s] = Nothing
        /\ \A t \in Sessions \ {s} :
             /\ copy'[t] = copy[t] /\ pend'[t] = pend[t] /\ pc'[t] = pc[t]
             /\ job'[t] = job[t] /\ at'[t] = at[t]
    BY <1>2 DEF Fail, Discard, TypeOK
  <2>2. Flushed(s)' = {} /\ Loaded(s)' = {}
    BY <2>1 DEF Flushed, Loaded, Nothing
  <2>3. BookOf(s)'
    BY <2>1, <2>2 DEF BookOf
  <2> QED
    BY <2>1, <2>3, BookKept
<1>3. ASSUME NEW s \in Sessions, Lookup(s) \/ GuardPasses(s) PROVE BookInv'
  <2>1. /\ UNCHANGED <<committed, pend, job, copy, at>>
        /\ \A t \in Sessions \ {s} : pc'[t] = pc[t]
        /\ pc[s] \in {"lookup", "guard"} /\ pc'[s] \in {"guard", "duplicate", "lock"}
        /\ pc'[s] = "duplicate" => move(s).key # NoKey
    BY <1>3 DEF Lookup, GuardPasses, Goto, TypeOK
  <2>2. /\ \A j \in Loaded(s)' \ Flushed(s)' :
             copy'[s][j].qty \in A!Once(j)' /\ copy'[s][j].version <= Len(ledger'[j])
        /\ \A j \in Flushed(s)' :
             \E n \in DOMAIN job'[s].moves : RowOf(s, j, job[s].moves[n])'
        /\ Flushed(s)' = Flushed(s)
    BY <2>1, BookMoved
  <2>3. pc'[s] = "duplicate" => move(s)'.key # NoKey
    BY <2>1 DEF move
  <2>4. \A n \in DOMAIN job'[s].moves :
          (n < at'[s] \/ pc'[s] = "commit") /\ job'[s].moves[n].key = NoKey
            => job'[s].moves[n].item \in Flushed(s)'
    BY <2>1, <2>2 DEF BookInv, BookOf
  <2>5. BookOf(s)'
    BY <2>2, <2>3, <2>4 DEF BookOf
  <2> QED
    BY <2>1, <2>5, BookKept
<1>4. ASSUME NEW s \in Sessions, LockItem(s) PROVE BookInv'
  <2>1. /\ UNCHANGED <<committed, pend, job, at>> /\ LockRow(s, move(s).item)
        /\ \A t \in Sessions \ {s} : pc'[t] = pc[t]
        /\ pc[s] = "lock" /\ pc'[s] = "write" /\ move(s).item \in Items
    BY <1>4, MoveTyped DEF LockItem, Goto, TypeOK
  <2>2. PICK i \in Items : i = move(s).item
    BY <2>1
  <2>3. /\ \A j \in Loaded(s)' \ Flushed(s)' :
             copy'[s][j].qty \in A!Once(j)' /\ copy'[s][j].version <= Len(ledger'[j])
        /\ \A j \in Flushed(s)' :
             \E n \in DOMAIN job'[s].moves : RowOf(s, j, job[s].moves[n])'
        /\ Flushed(s)' = Flushed(s)
        /\ \A t \in Sessions \ {s} : copy'[t] = copy[t]
    BY <2>1, <2>2, BookLocked
  <2>4. \A n \in DOMAIN job'[s].moves :
          (n < at'[s] \/ pc'[s] = "commit") /\ job'[s].moves[n].key = NoKey
            => job'[s].moves[n].item \in Flushed(s)'
    BY <2>1, <2>3 DEF BookInv, BookOf
  <2>5. BookOf(s)'
    BY <2>1, <2>3, <2>4 DEF BookOf
  <2> QED
    BY <2>1, <2>3, <2>5, BookKept
<1>5. ASSUME NEW s \in Sessions, Duplicate(s) PROVE BookInv'
  <2>1. /\ UNCHANGED <<committed, pend, job>> /\ Return(s) /\ pc[s] = "duplicate"
        /\ \E i \in Items : LockRow(s, i)
    BY <1>5 DEF Duplicate
  <2>2. PICK i \in Items : LockRow(s, i)
    BY <2>1
  <2>3. /\ \A j \in Loaded(s)' \ Flushed(s)' :
             copy'[s][j].qty \in A!Once(j)' /\ copy'[s][j].version <= Len(ledger'[j])
        /\ \A j \in Flushed(s)' :
             \E n \in DOMAIN job'[s].moves : RowOf(s, j, job[s].moves[n])'
        /\ Flushed(s)' = Flushed(s)
        /\ \A t \in Sessions \ {s} : copy'[t] = copy[t]
    BY <2>1, <2>2, BookLocked
  <2>4. /\ \A t \in Sessions \ {s} : pc'[t] = pc[t] /\ at'[t] = at[t]
        /\ pc'[s] \in {"lookup", "commit"}
    BY <2>1 DEF Return, TypeOK
  <2>5. ASSUME NEW n \in DOMAIN job'[s].moves, n < at'[s] \/ pc'[s] = "commit",
               job'[s].moves[n].key = NoKey
        PROVE  job'[s].moves[n].item \in Flushed(s)'
    <3>1. n \in DOMAIN job[s].moves /\ job[s].moves[n].key = NoKey
      BY <2>1, <2>5
    <3>2. n < at[s] \/ n = at[s]
      BY <2>1, <2>5, <3>1, ReturnPasses
    <3>3. n # at[s]
      BY <2>1, <3>1 DEF BookInv, BookOf, move
    <3> QED
      BY <2>1, <2>3, <3>1, <3>2, <3>3 DEF BookInv, BookOf
  <2>6. BookOf(s)'
    BY <2>3, <2>4, <2>5 DEF BookOf
  <2> QED
    BY <2>1, <2>3, <2>4, <2>6, BookKept
<1>6. ASSUME NEW s \in Sessions, Conflict(s) PROVE BookInv'
  <2>1. /\ UNCHANGED <<committed, job, at>> /\ pc'[s] = "duplicate"
        /\ pend'[s] = Nothing /\ copy'[s] = Nothing /\ move(s).key # NoKey
        /\ \A t \in Sessions \ {s} :
             /\ copy'[t] = copy[t] /\ pend'[t] = pend[t] /\ pc'[t] = pc[t]
    BY <1>6 DEF Conflict, Discard, Goto, KeyClash, TypeOK
  <2>2. Flushed(s)' = {} /\ Loaded(s)' = {}
    BY <2>1 DEF Flushed, Loaded, Nothing
  <2>3. \A n \in DOMAIN job[s].moves : job[s].moves[n].key # NoKey
    <3>1. /\ at[s] \in DOMAIN job[s].moves /\ job[s] \in Jobs
      BY DEF TypeOK
    <3>2. KeysOf(job[s]) # {}
      BY <2>1, <3>1, KeysOfJob DEF move
    <3> QED
      BY <3>1, <3>2 DEF OneKeyEach
  <2>4. BookOf(s)'
    BY <2>1, <2>2, <2>3 DEF BookOf, move
  <2> QED
    BY <2>1, <2>4, BookKept
<1>7. ASSUME NEW s \in Sessions, Write(s) PROVE BookInv'
  <2> DEFINE i == move(s).item
             c == copy[s][i]
             d == [qty |-> After(move(s), c.qty), version |-> c.version + 1]
  <2>1. /\ i \in Items /\ i \in Loaded(s) /\ i \notin Flushed(s) /\ c \in Copy /\ c # None
    <3>1. /\ at[s] \in at[s] .. Len(job[s].moves) /\ pc[s] \in Working
          /\ i \in Items
      BY <1>7, MoveTyped, JobTyped DEF Write, Working
    <3>2. i \in Loaded(s) /\ i \notin Flushed(s)
      BY <1>7, <3>1 DEF Write, LockInv, move
    <3> QED
      BY <3>1, <3>2 DEF Loaded, TypeOK
  <2>2. /\ UNCHANGED <<committed, job>> /\ Return(s) /\ Acceptable(s)
        /\ copy' = [copy EXCEPT ![s][i] = d]
        /\ pend' = [pend EXCEPT ![s][i] = RowFor(s)]
    BY <1>7 DEF Write
  <2>3. /\ \A t \in Sessions \ {s} : /\ copy'[t] = copy[t] /\ pend'[t] = pend[t]
                                    /\ pc'[t] = pc[t] /\ at'[t] = at[t] /\ job'[t] = job[t]
        /\ pc'[s] \in {"lookup", "commit"}
    BY <2>2 DEF Return, TypeOK
  <2>4. /\ copy'[s][i] = d /\ pend'[s][i] = RowFor(s) /\ RowFor(s) # None
        /\ \A j \in Items \ {i} : copy'[s][j] = copy[s][j] /\ pend'[s][j] = pend[s][j]
    BY <2>1, <2>2, RowTyped, NoneAssumption DEF TypeOK
  <2>5. /\ \A j \in Items : A!Once(j)' = A!Once(j)
        /\ BookOf(s)
    BY <2>2 DEF committed, A!Once, BookInv
  <2>6. /\ Flushed(s)' = Flushed(s) \cup {i}
        /\ Loaded(s)' \ Flushed(s)' \subseteq (Loaded(s) \ Flushed(s)) \ {i}
    BY <2>1, <2>4 DEF Flushed, Loaded
  <2>7. \A j \in Loaded(s)' \ Flushed(s)' :
          copy'[s][j].qty \in A!Once(j)' /\ copy'[s][j].version <= Len(ledger'[j])
    <3> SUFFICES ASSUME NEW j \in Loaded(s)' \ Flushed(s)'
                 PROVE  copy'[s][j].qty \in A!Once(j)' /\ copy'[s][j].version <= Len(ledger'[j])
      OBVIOUS
    <3>1. j \in Items \ {i} /\ j \in Loaded(s) \ Flushed(s)
      BY <2>6 DEF Loaded
    <3> QED
      BY <2>2, <2>4, <2>5, <3>1 DEF BookOf, committed
  <2>8. PICK n \in DOMAIN job[s].moves, x \in Items : n = at[s] /\ x = i
    BY <2>1 DEF TypeOK
  <2>9. RowOf(s, x, job[s].moves[n])'
    <3>1. c.qty \in A!Once(i) /\ c.version <= Len(ledger[i])
      BY <2>1, <2>5 DEF BookOf
    <3>2. /\ c.version \in Nat /\ Len(ledger[i]) \in Nat
      BY <2>1 DEF TypeOK, Copy
    <3>3. /\ d.version = c.version + 1 /\ d.version \in 1 .. Len(ledger'[i]) + 1
          /\ d.version - 1 = c.version
      BY <2>2, <3>1, <3>2 DEF committed
    <3>4. VersionAllowed(move(s), RowFor(s).seen, d.version - 1)
      BY <2>2, <3>3 DEF Acceptable, RowFor
    <3>5. /\ RowFor(s).key = move(s).key /\ RowFor(s).before = c.qty
          /\ RowFor(s).after = After(move(s), RowFor(s).before)
          /\ RowFor(s).delta = RowFor(s).after - RowFor(s).before
      BY DEF RowFor
    <3>6. job'[s].moves[n] = move(s) /\ move(s).item = i
      BY <2>2, <2>8 DEF move
    <3>7. PICK m : m = move(s) /\ m = job'[s].moves[n]
      BY <3>6
    <3>8. /\ m.item = x /\ pend'[s][x].key = m.key
          /\ pend'[s][x].before \in A!Once(x)'
          /\ pend'[s][x].after = After(m, pend'[s][x].before)
          /\ pend'[s][x].delta = pend'[s][x].after - pend'[s][x].before
      BY <2>4, <2>5, <2>8, <3>1, <3>5, <3>6, <3>7
    <3>9. /\ copy'[s][x].version \in 1 .. Len(ledger'[x]) + 1
          /\ VersionAllowed(m, pend'[s][x].seen, copy'[s][x].version - 1)
      BY <2>4, <2>8, <3>3, <3>4, <3>7
    <3> QED
      BY <3>7, <3>8, <3>9 DEF RowOf, After, VersionAllowed
  <2>12. \A j \in Flushed(s)' : \E k \in DOMAIN job'[s].moves : RowOf(s, j, job[s].moves[k])'
    <3> SUFFICES ASSUME NEW j \in Flushed(s)'
                 PROVE  \E k \in DOMAIN job'[s].moves : RowOf(s, j, job[s].moves[k])'
      OBVIOUS
    <3>1. CASE j = x
      BY <2>2, <2>9, <3>1
    <3>2. CASE j # x
      <4>1. j \in Items \ {i} /\ j \in Flushed(s)
        BY <2>6, <2>8, <3>2 DEF Flushed
      <4>2. PICK k \in DOMAIN job[s].moves : RowOf(s, j, job[s].moves[k])
        BY <2>5, <4>1 DEF BookOf
      <4>3. /\ copy'[s][j] = copy[s][j] /\ pend'[s][j] = pend[s][j]
            /\ A!Once(j)' = A!Once(j) /\ ledger'[j] = ledger[j] /\ job' = job
        BY <2>2, <2>4, <2>5, <4>1 DEF committed
      <4>4. RowOf(s, j, job[s].moves[k])'
        BY <4>2, <4>3 DEF RowOf
      <4> QED
        BY <2>2, <4>4
    <3> QED
      BY <3>1, <3>2
  <2>10. ASSUME NEW k \in DOMAIN job'[s].moves, k < at'[s] \/ pc'[s] = "commit",
               job'[s].moves[k].key = NoKey
        PROVE  job'[s].moves[k].item \in Flushed(s)'
    <3>1. k \in DOMAIN job[s].moves /\ job[s].moves[k].key = NoKey
      BY <2>2, <2>10
    <3>2. k < at[s] \/ k = at[s]
      BY <2>2, <2>10, <3>1, ReturnPasses
    <3>3. k = at[s] => job[s].moves[k].item = i
      BY DEF move
    <3>4. k < at[s] => job[s].moves[k].item \in Flushed(s)
      BY <1>7, <2>5, <3>1 DEF BookOf, Write
    <3> QED
      BY <2>2, <2>6, <3>2, <3>3, <3>4
  <2>11. BookOf(s)'
    <3> HIDE DEF i, c, d
    <3> QED
      BY <2>3, <2>7, <2>10, <2>12 DEF BookOf
  <2> QED
    BY <2>2, <2>3, <2>11, BookKept
<1>8. ASSUME NEW s \in Sessions, Commit(s) PROVE BookInv'
  BY <1>8, BookCommitted
<1>9. ASSUME AuditOpens \/ AuditCloses \/ UNCHANGED vars PROVE BookInv'
  <2>1. UNCHANGED <<committed, pc, job, at, copy, pend>>
    BY <1>9 DEF AuditOpens, AuditCloses, vars, committed, session
  <2>2. ASSUME NEW s \in Sessions PROVE BookOf(s)'
    <3>1. /\ \A j \in Loaded(s)' \ Flushed(s)' :
               copy'[s][j].qty \in A!Once(j)' /\ copy'[s][j].version <= Len(ledger'[j])
          /\ \A j \in Flushed(s)' :
               \E n \in DOMAIN job'[s].moves : RowOf(s, j, job[s].moves[n])'
          /\ Flushed(s)' = Flushed(s)
      BY <2>1, BookMoved
    <3> QED
      BY <2>1, <2>2, <3>1 DEF BookInv, BookOf, move
  <2>3. \A i \in Items : (stock[i] \in A!Once(i) /\ version[i] <= Len(ledger[i]))'
    BY <2>1 DEF BookInv, committed, A!Once
  <2> QED
    BY <2>2, <2>3 DEF BookInv
<1> QED
  BY <1>1, <1>2, <1>3, <1>4, <1>5, <1>6, <1>7, <1>8, <1>9
     DEF Next, Step, Abort, GuardFails, Reject, DeadlockVictim
\* The abstract ledger's keys and conditions are those of the code.
LEMMA SameTerms ==
    /\ \A j : A!Wanted(j) = KeysOf(j)
    /\ \A k : A!Recorded(k) <=> \E i \in Items : CommittedKey(i, k)
    /\ \A m, q : A!Asked(m, q) = After(m, q)
    /\ \A m, u, v : A!Timely(m, u, v) <=> VersionAllowed(m, u, v)
BY DEF A!Wanted, KeysOf, A!Recorded, CommittedKey, A!Asked, After, A!Timely, VersionAllowed

\* A job of which nothing is flushed at its commit repeats one whose keys are
\* all recorded.
LEMMA CommitRepeats ==
    ASSUME TypeOK, AckInv, BookInv, NEW s \in Sessions, Commit(s), Flushed(s) = {}
    PROVE  A!Repeat(job[s])
<1>1. job[s] \in Jobs /\ pc[s] = "commit" /\ 1 \in DOMAIN job[s].moves
  BY JobTyped DEF Commit, TypeOK
<1>2. \A n \in DOMAIN job[s].moves : job[s].moves[n].key # NoKey
  BY <1>1 DEF BookInv, BookOf
<1>3. KeysOf(job[s]) # {}
  BY <1>1, <1>2, KeysOfJob
<1>4. \A k \in KeysOf(job[s]) : \E i \in Items : CommittedKey(i, k)
  <2> SUFFICES ASSUME NEW k \in KeysOf(job[s]) PROVE \E i \in Items : CommittedKey(i, k)
    OBVIOUS
  <2>1. PICK n \in DOMAIN job[s].moves : job[s].moves[n].key = k /\ k # NoKey
    BY DEF KeysOf
  <2>2. PICK i \in Items : KeyFound(s, i, k)
    BY <1>1, <2>1 DEF AckInv
  <2> QED
    BY <2>2 DEF KeyFound, PendingKey
<1>5. stock' = stock /\ version' = version /\ ledger' = ledger
  BY DEF Commit, TypeOK
<1>6. acked' = acked \cup KeysOf(job[s])
  BY DEF Commit
<1> QED
  BY <1>3, <1>4, <1>5, <1>6, SameTerms DEF A!Repeat

\* A job of which something is flushed at its commit has no key recorded yet,
\* and all of its movements flushed.
LEMMA CommitWhole ==
    ASSUME OneKeyEach, TypeOK, LockInv, KeyInv, AckInv, BookInv, NEW s \in Sessions, Commit(s),
           Flushed(s) # {}
    PROVE  /\ \A k \in KeysOf(job[s]) : \A i \in Items : ~ CommittedKey(i, k)
           /\ \A n \in DOMAIN job[s].moves :
                LET m == job[s].moves[n] IN m.item \in Flushed(s) /\ RowOf(s, m.item, m)
           /\ \A i \in Flushed(s) : \E n \in DOMAIN job[s].moves : job[s].moves[n].item = i
<1>1. job[s] \in Jobs /\ pc[s] = "commit" /\ BookOf(s) /\ Flushed(s) \subseteq Items
  BY DEF Commit, TypeOK, BookInv, Flushed
<1>2. \A m, n \in DOMAIN job[s].moves :
        job[s].moves[m].item = job[s].moves[n].item => m = n
  BY <1>1, JobAssumption
<1>3. \A i \in Flushed(s) : \E n \in DOMAIN job[s].moves :
        RowOf(s, i, job[s].moves[n]) /\ job[s].moves[n].item = i
  BY <1>1 DEF BookOf, RowOf
<1>4. \A k \in KeysOf(job[s]) : \A i \in Items : ~ CommittedKey(i, k)
  <2> SUFFICES ASSUME NEW k \in KeysOf(job[s]), NEW i \in Items, CommittedKey(i, k)
               PROVE  FALSE
    OBVIOUS
  <2>1. PICK h \in Flushed(s) : h \in Items
    BY <1>1
  <2>2. PICK n \in DOMAIN job[s].moves : RowOf(s, h, job[s].moves[n])
    BY <1>3
  <2>3. pend[s][h].key = job[s].moves[n].key /\ job[s].moves[n].key # NoKey
    BY <1>1, <2>2 DEF OneKeyEach, RowOf
  <2>4. \A j \in Items : ~ CommittedKey(j, pend[s][h].key)
    BY <2>1, <2>3 DEF KeyInv
  <2>5. pend[s][h].key \in KeysOf(job[s])
    BY <1>1, <2>3, KeysOfJob
  <2>6. \E j \in Items : CommittedKey(j, pend[s][h].key)
    BY <1>1, <2>5 DEF AckInv
  <2> QED
    BY <2>4, <2>6
<1>5. ASSUME NEW n \in DOMAIN job[s].moves
      PROVE  job[s].moves[n].item \in Flushed(s) /\ RowOf(s, job[s].moves[n].item, job[s].moves[n])
  <2>1. job[s].moves[n].item \in Flushed(s)
    <3>1. CASE job[s].moves[n].key = NoKey
      BY <1>1, <3>1 DEF BookOf
    <3>2. CASE job[s].moves[n].key # NoKey
      <4>1. PICK k : k = job[s].moves[n].key
        OBVIOUS
      <4>2. k \in KeysOf(job[s])
        BY <1>1, <3>2, <4>1, KeysOfJob
      <4>3. PICK i \in Items : KeyFound(s, i, k)
        BY <1>1, <3>2, <4>1 DEF AckInv
      <4>4. i \in Flushed(s) /\ pend[s][i].key = k
        BY <1>4, <4>2, <4>3 DEF KeyFound, PendingKey
      <4>5. PICK l \in DOMAIN job[s].moves : RowOf(s, i, job[s].moves[l])
        BY <1>3, <4>4
      <4>6. job[s].moves[l].key = job[s].moves[n].key /\ job[s].moves[l].item = i
        BY <4>1, <4>4, <4>5 DEF RowOf
      <4>7. l = n
        BY <1>1, <4>2, <4>6 DEF OneKeyEach
      <4> QED
        BY <4>4, <4>6, <4>7
    <3> QED
      BY <3>1, <3>2
  <2>2. PICK l \in DOMAIN job[s].moves : RowOf(s, job[s].moves[n].item, job[s].moves[l])
                                         /\ job[s].moves[l].item = job[s].moves[n].item
    BY <1>3, <2>1
  <2>3. l = n
    BY <1>2, <2>2
  <2> QED
    BY <2>1, <2>2, <2>3
<1> QED
  BY <1>3, <1>4, <1>5

\* Such a commit applies the job in one step.
LEMMA CommitApplies ==
    ASSUME OneKeyEach, TypeOK, LockInv, KeyInv, CopyInv, AckInv, BookInv,
           NEW s \in Sessions, Commit(s), Flushed(s) # {}
    PROVE  A!Apply(job[s])
<1>1. /\ \A k \in KeysOf(job[s]) : \A i \in Items : ~ CommittedKey(i, k)
      /\ \A n \in DOMAIN job[s].moves :
           LET m == job[s].moves[n] IN m.item \in Flushed(s) /\ RowOf(s, m.item, m)
      /\ \A i \in Flushed(s) : \E n \in DOMAIN job[s].moves : job[s].moves[n].item = i
  BY CommitWhole
<1>2. acked' = acked \cup A!Wanted(job[s]) /\ \A k \in A!Wanted(job[s]) : ~ A!Recorded(k)
  BY <1>1, SameTerms DEF Commit
<1>3. \A i \in Items : (\A n \in DOMAIN job[s].moves : job[s].moves[n].item # i) =>
        stock'[i] = stock[i] /\ version'[i] = version[i] /\ ledger'[i] = ledger[i]
  BY <1>1 DEF Commit
<1>4. ASSUME NEW n \in DOMAIN job[s].moves, NEW i \in Items, i = job[s].moves[n].item
      PROVE  /\ Len(ledger'[i]) = Len(ledger[i]) + 1
             /\ A!Booked(job[s].moves[n], ledger'[i][Len(ledger'[i])], job[s].preread)
  <2>1. PICK m, r : m = job[s].moves[n] /\ r = pend[s][i]
    OBVIOUS
  <2>2. i \in Flushed(s) /\ RowOf(s, i, m) /\ m.item = i
    BY <1>1, <1>4, <2>1
  <2>3. /\ ledger[i] \in Seq(Row) /\ r \in Row /\ stock[i] \in Nat /\ version[i] \in Nat
    BY <2>1, <2>2 DEF TypeOK, LockInv, Flushed
  <2>4. ledger'[i] = Append(ledger[i], r)
    BY <2>1, <2>2, CommitAppends
  <2>5. /\ Len(ledger'[i]) = Len(ledger[i]) + 1 /\ ledger'[i][Len(ledger'[i])] = r
    BY <2>3, <2>4
  <2>6. /\ version'[i] = copy[s][i].version
        /\ stock'[i] = IF r.delta # 0 THEN r.after ELSE stock[i]
    BY <2>1, <2>2 DEF Commit
  <2>7. /\ r.key = m.key /\ r.before \in A!Once(i) /\ r.after = A!Asked(m, r.before)
        /\ r.delta = r.after - r.before /\ r.after >= 0
        /\ version'[i] \in 1 .. Len(ledger'[i])
        /\ A!Timely(m, r.seen, version'[i] - 1)
    BY <2>1, <2>2, <2>3, <2>5, <2>6, SameTerms DEF RowOf, Row
  <2>8. ~ job[s].preread => r.before = stock[i] /\ version'[i] = version[i] + 1
    <3>1. i \in Loaded(s)
      BY <2>2 DEF LockInv
    <3> QED
      BY <2>1, <2>2, <2>6, <3>1 DEF CopyInv
  <2>9. A!Booked(m, r, job[s].preread)
    BY <2>2, <2>4, <2>6, <2>7, <2>8 DEF A!Booked
  <2> QED
    BY <2>1, <2>5, <2>9
<1>5. \A n \in DOMAIN job[s].moves : job[s].moves[n].item \in Items
  BY JobTyped DEF TypeOK, Move
<1> QED
  BY <1>2, <1>3, <1>4, <1>5 DEF A!Apply

\* The inductive invariant of the refinement.
ServeInv == SafetyInv /\ CopyInv /\ AckInv /\ BookInv

\* Every step is a request served, or is not seen.
LEMMA ServeStep ==
    OneKeyEach /\ ServeInv /\ [Next]_vars => [A!Next]_A!vars
<1> SUFFICES ASSUME OneKeyEach, ServeInv, [Next]_vars PROVE [A!Next]_A!vars
  OBVIOUS
<1>1. ASSUME NEW s \in Sessions, Commit(s) PROVE A!Next
  <2>1. A!Apply(job[s]) \/ A!Repeat(job[s])
    BY <1>1, CommitApplies, CommitRepeats DEF ServeInv, SafetyInv
  <2>2. job[s] \in Jobs
    BY DEF ServeInv, SafetyInv, TypeOK
  <2> QED
    BY <2>1, <2>2 DEF A!Next
<1>2. ASSUME NEW s \in Sessions, Step(s) \/ Abort(s) \/ (\E j \in Jobs : Begin(s, j)),
             ~ Commit(s)
      PROVE  UNCHANGED <<stock, version, ledger, acked>>
  BY <1>2 DEF Step, Abort, Begin, Lookup, Duplicate, GuardPasses, GuardFails, LockItem,
              Reject, Write, Conflict, DeadlockVictim, Fail, committed
<1>3. ASSUME AuditOpens \/ AuditCloses \/ UNCHANGED vars
      PROVE  UNCHANGED <<stock, version, ledger, acked>>
  BY <1>3 DEF AuditOpens, AuditCloses, vars, committed
<1> QED
  BY <1>1, <1>2, <1>3 DEF Next, A!vars

\* To its callers the ledger is AtomicLedger: for jobs that share all of their
\* keys or none, and have a key each or none, a request is one step, whatever
\* other requests, conflicts, rollbacks and failures lie between its awaits
\* (stock_movement_service.py:137-338).
THEOREM ImplementsAtomicLedger == KeysTogether /\ OneKeyEach /\ Spec => ServedWhole
<1>1. Init => A!Init
  BY DEF Init, A!Init
<1>2. Init => ServeInv
  BY InitTyped, InitLocked, InitKeys, InitChain, InitAck, InitBook DEF ServeInv, SafetyInv
<1>3. KeysTogether /\ OneKeyEach /\ ServeInv /\ [Next]_vars => ServeInv'
  BY TypeStep, LockStep, KeyStep, CopyStep, AckStep, BookStep DEF ServeInv, SafetyInv
<1>4. CASE KeysTogether /\ OneKeyEach
  <2>1. ServeInv /\ [Next]_vars => ServeInv'
    BY <1>3, <1>4
  <2>2. ServeInv /\ [Next]_vars => [A!Next]_A!vars
    BY <1>4, ServeStep
  <2> QED
    BY <1>1, <1>2, <2>1, <2>2, PTL DEF Spec, ServedWhole, A!Spec
<1> QED
  BY <1>4
=============================================================================
