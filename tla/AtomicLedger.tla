---------------------------- MODULE AtomicLedger ----------------------------
(***************************************************************************)
(* What the callers of the stock ledger expect of it, whatever locks,      *)
(* retries, rollbacks and races lie behind an answer: a request's          *)
(* movements are recorded in one step, all of them, each for the quantity  *)
(* it asked for; a request that repeats an earlier one records nothing and *)
(* is answered all the same; a request that fails leaves nothing.          *)
(*                                                                         *)
(* What it does not promise is that a movement of a request that read its  *)
(* items early (preread) starts from the present quantity: it starts from  *)
(* one that the item had at some time.                                     *)
(***************************************************************************)
EXTENDS Integers, Sequences

CONSTANTS Items, Jobs, InitStock, NoKey

VARIABLES stock, version, ledger, acked

vars == <<stock, version, ledger, acked>>

Init ==
    /\ stock = InitStock
    /\ version = [i \in Items |-> 0]
    /\ ledger = [i \in Items |-> << >>]
    /\ acked = {}

Wanted(j) == {j.moves[n].key : n \in DOMAIN j.moves} \ {NoKey}

Recorded(k) == \E i \in Items : \E n \in DOMAIN ledger[i] : ledger[i][n].key = k

\* The quantities item i has had.
Once(i) == {InitStock[i]} \cup {ledger[i][n].after : n \in DOMAIN ledger[i]}

Asked(m, before) == IF m.mode = "absolute" THEN m.qty ELSE before + m.qty

\* The client saw the version the movement started from, or may be behind.
Timely(m, seen, current) ==
    \/ ~ m.versioned
    \/ seen = current
    \/ m.force
    \/ current - seen \in 1 .. m.tolerance

\* Row r, the new last one of its item, is what movement m asked for.
Booked(m, r, preread) ==
    LET i == m.item
    IN  /\ ledger'[i] = Append(ledger[i], r)
        /\ r.key = m.key
        /\ r.before \in Once(i)
        /\ r.after = Asked(m, r.before) /\ r.after >= 0
        /\ r.delta = r.after - r.before
        /\ stock'[i] = IF r.delta = 0 THEN stock[i] ELSE r.after
        /\ version'[i] \in 1 .. Len(ledger'[i])
        /\ Timely(m, r.seen, version'[i] - 1)
        /\ ~ preread => r.before = stock[i] /\ version'[i] = version[i] + 1

Apply(j) ==
    /\ \A k \in Wanted(j) : ~ Recorded(k)
    /\ \A n \in DOMAIN j.moves :
         LET i == j.moves[n].item
         IN  /\ Len(ledger'[i]) = Len(ledger[i]) + 1
             /\ Booked(j.moves[n], ledger'[i][Len(ledger'[i])], j.preread)
    /\ \A i \in Items : (\A n \in DOMAIN j.moves : j.moves[n].item # i) =>
         stock'[i] = stock[i] /\ version'[i] = version[i] /\ ledger'[i] = ledger[i]
    /\ acked' = acked \cup Wanted(j)

Repeat(j) ==
    /\ Wanted(j) # {} /\ \A k \in Wanted(j) : Recorded(k)
    /\ acked' = acked \cup Wanted(j)
    /\ UNCHANGED <<stock, version, ledger>>

Next == \E j \in Jobs : Apply(j) \/ Repeat(j)

Spec == Init /\ [][Next]_vars
=============================================================================
