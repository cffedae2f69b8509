---------------------------- MODULE LiveUpdates ----------------------------
(***************************************************************************)
(* How a change reaches the screens: the server's read caches              *)
(* (services/app_cache.py, read_cache_generation.py, the caches of the     *)
(* dashboards), notification rows (services/notification_emitter.py), the  *)
(* ring of recent events (services/realtime_events.py) and a client that   *)
(* polls it (flutter_app/lib/core/providers/realtime_events_provider.dart).*)
(* A writer is a request or a job that changes something, as the sequence  *)
(* of its steps: other requests run between any two of them.               *)
(***************************************************************************)
EXTENDS Integers, Sequences, FiniteSets

CONSTANTS
  Writers,
  Kind,       \* what each one writes
  Key,        \* the dedupe key of a notice
  Users,      \* members of the business
  Clients,
  Views,      \* what a client shows: a list, a month's dashboard, its notices
  Window,     \* events a poll returns
  MaxVisits   \* bound on fetches clients make unasked

Kinds == {"purchase", "receipt", "movement", "catalog", "notice"}

ASSUME UpdatesAssumption ==
  /\ Kind \in [Writers -> Kinds]
  /\ DOMAIN Key = Writers
  /\ Views \subseteq {"list", "month", "inbox"}
  /\ Window \in Nat \ {0}
  /\ MaxVisits \in Nat

VARIABLES
  todo,     \* the steps each writer has left
  db,       \* writers whose change is committed
  left,     \* recipients of a notice it has not come to yet
  held,     \* recipients a writer has inserted a notice for and not committed
  rows,     \* notices committed, by recipient and key
  gen,      \* the generation of the read caches
  cache,    \* answers kept, a degraded one without data marked as not complete
  good,     \* the last complete month answer of each generation
  events,   \* events published, the newest last
  client, screen,
  visits,   \* fetches made unasked
  owed      \* changes published to a polling client, not lost to its window

vars == <<todo, db, left, held, rows, gen, cache, good, events, client, screen, visits, owed>>

Values == SUBSET Writers
Answers == [view : {"list", "month"}, gen : Nat, value : Values, complete : BOOLEAN]

\* The order of a writer's commit and of what it tells the rest of the server.
\* A receipt bumps in its movements, and again in the purchase service.
\* Mutant of Steps: the purchase service leaves the bump to the movements.
StepsBumpInside(kind) ==
  CASE kind = "purchase" -> <<"commit", "publish">>
    [] kind \in {"receipt", "movement"} -> <<"bump", "commit", "publish">>
    [] kind = "catalog"  -> <<"commit", "bump">>
    [] kind = "notice"   -> <<"emit", "publish", "commit">>
Steps(kind) ==
  CASE kind = "purchase" -> <<"commit", "bump", "publish">>
    [] kind = "receipt"  -> <<"bump", "commit", "bump", "publish">>
    [] kind = "movement" -> <<"bump", "commit", "publish">>
    [] kind = "catalog"  -> <<"commit", "bump">>
    [] kind = "notice"   -> <<"emit", "publish", "commit">>

At(w, step) == todo[w] # <<>> /\ Head(todo[w]) = step
Done(w) == todo' = [todo EXCEPT ![w] = Tail(todo[w])]

-----------------------------------------------------------------------------
(* Writers. *)

Commit(w) ==
  /\ At(w, "commit")
  /\ Done(w)
  /\ db' = db \cup {w}
  /\ rows' = [x \in Users \X {Key[v] : v \in Writers} |->
                IF x[1] \in held[w] /\ x[2] = Key[w] THEN rows[x] + 1 ELSE rows[x]]
  /\ held' = [held EXCEPT ![w] = {}]
  /\ UNCHANGED <<visits, left, gen, cache, good, events, client, screen, owed>>

\* The transaction fails: what it wrote goes, what it told others stays.
RollBack(w) ==
  /\ \E n \in DOMAIN todo[w] : todo[w][n] = "commit"
  /\ todo' = [todo EXCEPT ![w] = <<>>]
  /\ held' = [held EXCEPT ![w] = {}]
  /\ owed' = {o \in owed : o[2] # w}
  /\ UNCHANGED <<visits, db, left, rows, gen, cache, good, events, client, screen>>

\* A new generation; of the answers kept only those of app_cache are dropped.
Bump(w) ==
  /\ At(w, "bump")
  /\ Done(w)
  /\ gen' = gen + 1
  /\ cache' = {e \in cache : e.view # "list"}
  /\ UNCHANGED <<visits, db, left, held, rows, good, events, client, screen, owed>>

\* emit_notification, one recipient after the other, in any order.  The unique
\* index is on business and key: an insert waits for a transaction that holds
\* the key, and is skipped when the key is there.
KeyHeld(w) == \E v \in Writers \ {w} : Key[v] = Key[w] /\ held[v] # {}
\* Mutant of KeyThere: a notice that another one is about to send is skipped, too.
KeyThereOrComing(w) ==
  \/ held[w] # {}
  \/ \E u \in Users : rows[<<u, Key[w]>>] > 0
  \/ \E v \in Writers \ {w} : Key[v] = Key[w] /\ At(v, "emit")
KeyThere(w) == held[w] # {} \/ \E u \in Users : rows[<<u, Key[w]>>] > 0
Emit(w) ==
  /\ At(w, "emit")
  /\ ~KeyHeld(w)
  /\ \E u \in left[w] :
       /\ left' = [left EXCEPT ![w] = @ \ {u}]
       /\ held' = IF KeyThere(w) THEN held ELSE [held EXCEPT ![w] = @ \cup {u}]
       /\ todo' = IF left[w] # {u} THEN todo
                  ELSE [todo EXCEPT ![w] = IF held'[w] = {} THEN <<"commit">> ELSE Tail(@)]
  /\ UNCHANGED <<visits, db, rows, gen, cache, good, events, client, screen, owed>>

\* publish_business_event: the ring of the process.
Publish(w) ==
  /\ At(w, "publish")
  /\ Done(w)
  /\ events' = Append(events, w)
  /\ owed' = owed \cup {<<c, w>> : c \in {d \in Clients : client[d].polls}}
  /\ UNCHANGED <<visits, db, left, held, rows, gen, cache, good, client, screen>>

-----------------------------------------------------------------------------
(* Reads. *)

Kept(view, g) == {e \in cache : e.view = view /\ e.gen = g}

\* What a fetch that begins now is expected to show: changes that are committed
\* and behind the last bump they make.
Bumping == {"purchase", "receipt", "catalog"}
Settled == {w \in db : /\ Kind[w] \in Bumping \cup {"movement"}
                      /\ \A n \in DOMAIN todo[w] : todo[w][n] # "bump"}

Generation == gen

Idle == [pc |-> "idle", view |-> "inbox", gen |-> 0, value |-> {}, must |-> {}, complete |-> TRUE,
         want |-> {}, polls |-> FALSE, seen |-> 0]
Loaded(c, value, complete) ==
  /\ screen' = [screen EXCEPT ![<<c, client[c].view>>] = value]
  /\ client' = [client EXCEPT ![c] = [Idle EXCEPT !.want = client[c].want, !.polls = client[c].polls,
                                                  !.seen = client[c].seen, !.complete = complete]]

BeginFetch(c, view) ==
  LET k == [client[c] EXCEPT !.want = @ \ {view}, !.view = view]
      hits == Kept(view, Generation)
  IN /\ client[c].pc = "idle"
     /\ view \in client[c].want \/ visits < MaxVisits
     /\ visits' = IF view \in client[c].want THEN visits ELSE visits + 1
     /\ IF hits = {}
        THEN /\ client' = [client EXCEPT ![c] = [k EXCEPT !.pc = "query", !.gen = Generation, !.must = Settled]]
             /\ UNCHANGED screen
        ELSE \E e \in hits :
               /\ client' = [client EXCEPT ![c] = [k EXCEPT !.complete = e.complete]]
               /\ screen' = [screen EXCEPT ![<<c, view>>] = e.value]
     /\ UNCHANGED <<todo, db, left, held, rows, gen, cache, good, events, owed>>

\* The query of the handler, and, after it, set_cached and the answer.
Query(c) ==
  /\ client[c].pc = "query"
  /\ client' = [client EXCEPT ![c] = [@ EXCEPT !.pc = "fill", !.value = db]]
  /\ UNCHANGED <<visits, todo, db, left, held, rows, gen, cache, good, events, screen, owed>>

Put(k, value, complete) ==
  cache' = (cache \ Kept(k.view, k.gen))
             \cup {[view |-> k.view, gen |-> k.gen, value |-> value, complete |-> complete]}
GoodAt(g) == {e \in good : e.gen = g}
Fill(c) ==
  LET k == client[c]
  IN /\ k.pc = "fill"
     /\ IF k.view = "inbox" THEN UNCHANGED cache ELSE Put(k, k.value, TRUE)
     /\ IF k.view # "month" THEN UNCHANGED good
        ELSE good' = (good \ GoodAt(k.gen)) \cup {[gen |-> k.gen, value |-> k.value]}
     /\ Loaded(c, k.value, TRUE)
     /\ UNCHANGED <<visits, todo, db, left, held, rows, gen, events, owed>>

\* The month's aggregation exceeds the read budget: the last good answer of the
\* generation, or an empty one, marked as degraded.  The dashboard keeps it.
Overrun(c) ==
  LET k == client[c]
      last == GoodAt(k.gen)
  IN /\ k.pc = "query" /\ k.view = "month"
     /\ IF last = {} THEN Put(k, {}, FALSE) /\ Loaded(c, {}, FALSE)
        ELSE \E e \in last : Put(k, e.value, TRUE) /\ Loaded(c, e.value, TRUE)
     /\ UNCHANGED <<visits, todo, db, left, held, rows, gen, good, events, owed>>

\* An answer expires or is evicted.
Expire ==
  /\ \E e \in cache : cache' = cache \ {e}
  /\ UNCHANGED <<visits, todo, db, left, held, rows, gen, good, events, client, screen, owed>>

-----------------------------------------------------------------------------
(* The client's polling of /realtime/recent. *)

\* The first poll marks what it gets as seen.
StartPolling(c) ==
  /\ ~client[c].polls
  /\ client' = [client EXCEPT ![c] = [@ EXCEPT !.polls = TRUE, !.seen = Len(events)]]
  /\ UNCHANGED <<visits, todo, db, left, held, rows, gen, cache, good, events, screen, owed>>

Concerned(w) == IF Kind[w] = "notice" THEN {"inbox"} ELSE {"list", "month"}

\* A later one asks for the newest Window events; those it has not seen
\* invalidate what they concern.
\* Mutant of Returned: the oldest events of the ring instead of the newest.
ReturnedOldest == {n \in DOMAIN events : n <= Window}
Returned == {n \in DOMAIN events : n > Len(events) - Window}
Poll(c) ==
  LET k == client[c]
      new == {n \in Returned : n > k.seen}
      lost == {events[n] : n \in {m \in DOMAIN events : m > k.seen /\ m + Window <= Len(events)}}
  IN /\ k.polls /\ k.seen < Len(events)
     /\ client' = [client EXCEPT ![c] =
                     [k EXCEPT !.seen = Len(events),
                               !.want = @ \cup (Views \cap UNION {Concerned(events[n]) : n \in new})]]
     /\ owed' = owed \ ({c} \X lost)
     /\ UNCHANGED <<visits, todo, db, left, held, rows, gen, cache, good, events, screen>>

-----------------------------------------------------------------------------
Init ==
  /\ todo = [w \in Writers |-> Steps(Kind[w])]
  /\ db = {}
  /\ left = [w \in Writers |-> Users]
  /\ held = [w \in Writers |-> {}]
  /\ rows = [x \in Users \X {Key[v] : v \in Writers} |-> 0]
  /\ gen = 0 /\ cache = {} /\ good = {}
  /\ events = <<>>
  /\ client = [c \in Clients |-> Idle]
  /\ screen = [x \in Clients \X Views |-> {}]
  /\ visits = 0
  /\ owed = {}

Write(w) == Commit(w) \/ Bump(w) \/ Emit(w) \/ Publish(w)
Serve(c) == Query(c) \/ Fill(c)
Next ==
  \/ \E w \in Writers : Write(w) \/ RollBack(w)
  \/ \E c \in Clients : (\E v \in Views : BeginFetch(c, v)) \/ Serve(c) \/ Overrun(c) \/ StartPolling(c) \/ Poll(c)
  \/ Expire

Refetch(c) == \E v \in client[c].want : BeginFetch(c, v)

\* The server goes on with what it has begun, a client polls and refetches.
Fairness ==
  /\ \A w \in Writers : WF_vars(Write(w))
  /\ \A c \in Clients : WF_vars(Serve(c)) /\ WF_vars(Poll(c)) /\ WF_vars(Refetch(c))
Spec == Init /\ [][Next]_vars
LiveSpec == Spec /\ Fairness

-----------------------------------------------------------------------------
(* Properties. *)

Client == [pc : {"idle", "query", "fill"}, view : {"list", "month", "inbox"}, gen : Nat, value : Values, must : Values,
           complete : BOOLEAN, want : SUBSET Views, polls : BOOLEAN, seen : Nat]

\* Every variable keeps its shape.
TypeOK ==
  /\ todo \in [Writers -> Seq({"commit", "bump", "emit", "publish"})]
  /\ db \in Values
  /\ left \in [Writers -> SUBSET Users]
  /\ held \in [Writers -> SUBSET Users]
  /\ rows \in [Users \X {Key[v] : v \in Writers} -> Nat]
  /\ gen \in Nat
  /\ cache \subseteq Answers
  /\ good \subseteq [gen : Nat, value : Values]
  /\ events \in Seq(Writers)
  /\ client \in [Clients -> Client]
  /\ screen \in [Clients \X Views -> Values]
  /\ visits \in Nat
  /\ owed \subseteq Clients \X Writers

\* A read that begins when a purchase or catalog change is committed and the
\* caches are bumped shows that change, whatever fills, expires or runs over
\* its budget in between; only an empty degraded answer does not.
Expected(c) == IF client[c].pc = "idle" THEN Settled ELSE client[c].must
Answered(c, v) ==
  /\ client'[c].pc = "idle"
  /\ IF client[c].pc = "idle" THEN BeginFetch(c, v) ELSE client[c].view = v
FreshAfterAck ==
  [][\A c \in Clients, v \in Views : Answered(c, v) /\ client'[c].complete
       => {w \in Expected(c) : Kind[w] \in Bumping} \subseteq screen'[<<c, v>>]]_vars

\* No recipient has a dedupe key twice, however many scans and requests emit
\* it at once (emit_notification).
NoticeOnce == \A x \in DOMAIN rows : rows[x] <= 1

\* A transaction that emits a key and commits leaves somebody told: that
\* another one is ahead with the key is no reason to skip it unless it commits.
SomebodyTold ==
  [][\A w \in Writers : Kind[w] = "notice" /\ w \in db' \ db => \E u \in Users : rows'[<<u, Key[w]>>] > 0]_vars

\* However many scans and requests emit one key at once, and whichever of them
\* fails, nobody gets it twice and somebody gets it.
ToldOnce == []NoticeOnce /\ SomebodyTold

\* A purchase announced to a client that polls is on its list in the end,
\* unless a whole window of newer events came between two polls.
PurchaseShown ==
  \A c \in Clients, w \in Writers :
    ("list" \in Views /\ Kind[w] \in {"purchase", "receipt"} /\ <<c, w>> \in owed)
      ~> (w \in screen[<<c, "list">>] \/ <<c, w>> \notin owed)

=============================================================================
