---------------------------- MODULE ReadingProofs ----------------------------
(***************************************************************************)
(* What is read, for any writers, clients and members (LiveUpdates), and   *)
(* for any bills, catalog and number of requests (Reports).  Caches: a     *)
(* change of a purchase or of the catalog is committed before its last     *)
(* bump, so within one generation the changes a read owes its caller stay  *)
(* the same, and whatever was read in that generation has them.  Notices:  *)
(* a key that is held by a transaction or there for anybody stops others   *)
(* from inserting it.  Reports: the rows of a period are grouped in many   *)
(* ways, and a sum over the groups is the sum over the rows.               *)
(***************************************************************************)
EXTENDS LiveUpdates, Reports, Functions, FiniteSetTheorems, WellFoundedInduction, TLAPS

-----------------------------------------------------------------------------
(***************************************************************************)
(* The inductive invariant.                                                *)
(***************************************************************************)
\* What a writer has left to do: the end of its steps, or nothing.
Rest(kind) ==
  CASE kind = "purchase" -> {<<"commit", "bump", "publish">>, <<"bump", "publish">>, <<"publish">>, <<>>}
    [] kind = "receipt"  -> {<<"bump", "commit", "bump", "publish">>, <<"commit", "bump", "publish">>,
                             <<"bump", "publish">>, <<"publish">>, <<>>}
    [] kind = "movement" -> {<<"bump", "commit", "publish">>, <<"commit", "publish">>, <<"publish">>, <<>>}
    [] kind = "catalog"  -> {<<"commit", "bump">>, <<"bump">>, <<>>}
    [] kind = "notice"   -> {<<"emit", "publish", "commit">>, <<"publish", "commit">>, <<"commit">>, <<>>}

Pending(w, step) == \E n \in DOMAIN todo[w] : todo[w][n] = step

\* Nothing is committed before its commit, and a notice is emitted before.
StepsInv ==
  \A w \in Writers :
    /\ todo[w] \in Rest(Kind[w])
    /\ w \in db => ~Pending(w, "commit")
    /\ held[w] # {} => Kind[w] = "notice" /\ Pending(w, "commit")

\* The changes a read has to show, of the kinds whose commit a bump follows.
Due == {w \in Settled : Kind[w] \in Bumping}
MustDue(c) == {w \in client[c].must : Kind[w] \in Bumping}
Busy(c) == client[c].pc # "idle"

\* Nothing belongs to a generation that has not come.
GenerationInv ==
  /\ \A c \in Clients : Busy(c) => client[c].gen <= gen
  /\ \A e \in cache : e.gen <= gen
  /\ \A e \in good : e.gen <= gen

\* Reads of one generation owe the same changes, and have them once they have
\* asked the database.
ReadInv ==
  \A c \in Clients : Busy(c) =>
    /\ MustDue(c) \subseteq db
    /\ client[c].pc = "fill" => MustDue(c) \subseteq client[c].value
    /\ client[c].gen = gen => MustDue(c) = Due
    /\ \A d \in Clients : Busy(d) /\ client[d].gen = client[c].gen => MustDue(d) = MustDue(c)

\* So has what they leave in the caches.
CacheInv ==
  /\ \A e \in cache : e.complete =>
       /\ e.gen = gen => Due \subseteq e.value
  /\ \A e \in good :
       /\ e.gen = gen => Due \subseteq e.value
       /\ \A c \in Clients : Busy(c) /\ client[c].gen = e.gen => MustDue(c) \subseteq e.value

\* A transaction that holds a key is the only one, and nobody has the key.
HeldInv ==
  \A w \in Writers : held[w] # {} =>
    /\ \A v \in Writers \ {w} : Key[v] = Key[w] => held[v] = {}
    /\ \A u \in Users : rows[<<u, Key[w]>>] = 0

\* A notice past its emission is held or somebody's.
ToldInv ==
  \A w \in Writers : Kind[w] = "notice" /\ Pending(w, "commit") /\ ~Pending(w, "emit") =>
    held[w] # {} \/ \E u \in Users : rows[<<u, Key[w]>>] > 0

\* Together with the types: what every step preserves.
LiveInv == StepsInv /\ GenerationInv /\ ReadInv /\ CacheInv /\ HeldInv /\ ToldInv /\ NoticeOnce

-----------------------------------------------------------------------------
(* Steps. *)

StepNames == {"commit", "bump", "emit", "publish"}
Within(s, step) == \E n \in DOMAIN s : s[n] = step

\* Sequences of one to four steps: the first, the rest, and what is in them.
LEMMA OneStep ==
  ASSUME NEW a \in StepNames
  PROVE  /\ <<a>> # <<>> /\ Head(<<a>>) = a /\ Tail(<<a>>) = <<>> /\ <<a>> \in Seq(StepNames)
         /\ \A step : Within(<<a>>, step) <=> step = a
         /\ \A step : ~Within(<<>>, step)
BY DEF Within
LEMMA TwoSteps ==
  ASSUME NEW a \in StepNames, NEW b \in StepNames
  PROVE  /\ <<a, b>> # <<>> /\ Head(<<a, b>>) = a /\ Tail(<<a, b>>) = <<b>> /\ <<a, b>> \in Seq(StepNames)
         /\ \A step : Within(<<a, b>>, step) <=> step \in {a, b}
BY DEF Within
LEMMA ThreeSteps ==
  ASSUME NEW a \in StepNames, NEW b \in StepNames, NEW c \in StepNames
  PROVE  /\ <<a, b, c>> # <<>> /\ Head(<<a, b, c>>) = a /\ Tail(<<a, b, c>>) = <<b, c>>
         /\ <<a, b, c>> \in Seq(StepNames)
         /\ \A step : Within(<<a, b, c>>, step) <=> step \in {a, b, c}
BY DEF Within
LEMMA FourSteps ==
  ASSUME NEW a \in StepNames, NEW b \in StepNames, NEW c \in StepNames, NEW d \in StepNames
  PROVE  /\ <<a, b, c, d>> # <<>> /\ Head(<<a, b, c, d>>) = a /\ Tail(<<a, b, c, d>>) = <<b, c, d>>
         /\ <<a, b, c, d>> \in Seq(StepNames)
         /\ \A step : Within(<<a, b, c, d>>, step) <=> step \in {a, b, c, d}
BY DEF Within

\* In what a writer has left, steps only go; a commit is there once, and the
\* kinds that bump after it have that bump left as long as the commit.
LEMMA RestFacts ==
  ASSUME NEW kind \in Kinds, NEW s \in Rest(kind)
  PROVE  /\ s \in Seq(StepNames)
         /\ s # <<>> =>
              /\ Tail(s) \in Rest(kind)
              /\ Within(s, Head(s))
              /\ Head(s) = "commit" => ~Within(Tail(s), "commit")
              /\ Head(s) = "emit" => kind = "notice" /\ Tail(s) = <<"publish", "commit">>
              /\ \A step \in StepNames : Within(Tail(s), step) => Within(s, step)
              /\ \A step \in StepNames \ {Head(s)} : Within(s, step) => Within(Tail(s), step)
         /\ kind \in Bumping /\ Within(s, "commit") => Within(s, "bump")
         /\ kind = "notice" => ~Within(s, "bump")
         /\ <<>> \in Rest(kind)
         /\ kind = "notice" => <<"commit">> \in Rest(kind)
<1> DEFINE Fact(t, h, r, in) == /\ t # <<>> /\ Head(t) = h /\ Tail(t) = r /\ t \in Seq(StepNames)
                            /\ \A step : Within(t, step) <=> step \in in
<1>1. Fact(<<"bump", "commit", "bump", "publish">>, "bump", <<"commit", "bump", "publish">>, {"bump", "commit", "bump", "publish"})
  BY FourSteps DEF StepNames
<1>2. Fact(<<"commit", "bump", "publish">>, "commit", <<"bump", "publish">>, {"commit", "bump", "publish"})
  BY ThreeSteps DEF StepNames
<1>3. Fact(<<"bump", "commit", "publish">>, "bump", <<"commit", "publish">>, {"bump", "commit", "publish"})
  BY ThreeSteps DEF StepNames
<1>4. Fact(<<"emit", "publish", "commit">>, "emit", <<"publish", "commit">>, {"emit", "publish", "commit"})
  BY ThreeSteps DEF StepNames
<1>5. Fact(<<"commit", "bump">>, "commit", <<"bump">>, {"commit", "bump"})
  BY TwoSteps DEF StepNames
<1>6. Fact(<<"bump", "publish">>, "bump", <<"publish">>, {"bump", "publish"})
  BY TwoSteps DEF StepNames
<1>7. Fact(<<"commit", "publish">>, "commit", <<"publish">>, {"commit", "publish"})
  BY TwoSteps DEF StepNames
<1>8. Fact(<<"publish", "commit">>, "publish", <<"commit">>, {"publish", "commit"})
  BY TwoSteps DEF StepNames
<1>9. Fact(<<"publish">>, "publish", <<>>, {"publish"})
  BY OneStep DEF StepNames
<1>10. Fact(<<"commit">>, "commit", <<>>, {"commit"})
  BY OneStep DEF StepNames
<1>11. Fact(<<"bump">>, "bump", <<>>, {"bump"})
  BY OneStep DEF StepNames
<1>12. <<>> \in Seq(StepNames) /\ \A step : ~Within(<<>>, step)
  BY DEF Within
<1>13. CASE kind = "purchase"
  <2>1. CASE s = <<"commit", "bump", "publish">>
    BY <1>13, <2>1, <1>2, <1>6, <1>12 DEF Rest, Bumping, StepNames
  <2>2. CASE s = <<"bump", "publish">>
    BY <1>13, <2>2, <1>6, <1>9, <1>12 DEF Rest, Bumping, StepNames
  <2>3. CASE s = <<"publish">>
    BY <1>13, <2>3, <1>9, <1>12 DEF Rest, Bumping, StepNames
  <2>4. CASE s = <<>>
    BY <1>13, <2>4, <1>12 DEF Rest, Bumping
  <2> QED BY <1>13, <2>1, <2>2, <2>3, <2>4 DEF Rest
<1>14. CASE kind = "receipt"
  <2>1. CASE s = <<"bump", "commit", "bump", "publish">>
    BY <1>14, <2>1, <1>1, <1>2, <1>12 DEF Rest, Bumping, StepNames
  <2>2. CASE s = <<"commit", "bump", "publish">>
    BY <1>14, <2>2, <1>2, <1>6, <1>12 DEF Rest, Bumping, StepNames
  <2>3. CASE s = <<"bump", "publish">>
    BY <1>14, <2>3, <1>6, <1>9, <1>12 DEF Rest, Bumping, StepNames
  <2>4. CASE s = <<"publish">>
    BY <1>14, <2>4, <1>9, <1>12 DEF Rest, Bumping, StepNames
  <2>5. CASE s = <<>>
    BY <1>14, <2>5, <1>12 DEF Rest, Bumping
  <2> QED BY <1>14, <2>1, <2>2, <2>3, <2>4, <2>5 DEF Rest
<1>15. CASE kind = "movement"
  <2>1. CASE s = <<"bump", "commit", "publish">>
    BY <1>15, <2>1, <1>3, <1>7, <1>12 DEF Rest, Bumping, StepNames
  <2>2. CASE s = <<"commit", "publish">>
    BY <1>15, <2>2, <1>7, <1>9, <1>12 DEF Rest, Bumping, StepNames
  <2>3. CASE s = <<"publish">>
    BY <1>15, <2>3, <1>9, <1>12 DEF Rest, Bumping, StepNames
  <2>4. CASE s = <<>>
    BY <1>15, <2>4, <1>12 DEF Rest, Bumping
  <2> QED BY <1>15, <2>1, <2>2, <2>3, <2>4 DEF Rest
<1>16. CASE kind = "catalog"
  <2>1. CASE s = <<"commit", "bump">>
    BY <1>16, <2>1, <1>5, <1>11, <1>12 DEF Rest, Bumping, StepNames
  <2>2. CASE s = <<"bump">>
    BY <1>16, <2>2, <1>11, <1>12 DEF Rest, Bumping, StepNames
  <2>3. CASE s = <<>>
    BY <1>16, <2>3, <1>12 DEF Rest, Bumping
  <2> QED BY <1>16, <2>1, <2>2, <2>3 DEF Rest
<1>17. CASE kind = "notice"
  <2>1. CASE s = <<"emit", "publish", "commit">>
    BY <1>17, <2>1, <1>4, <1>8, <1>12 DEF Rest, Bumping, StepNames
  <2>2. CASE s = <<"publish", "commit">>
    BY <1>17, <2>2, <1>8, <1>10, <1>12 DEF Rest, Bumping, StepNames
  <2>3. CASE s = <<"commit">>
    BY <1>17, <2>3, <1>10, <1>12 DEF Rest, Bumping, StepNames
  <2>4. CASE s = <<>>
    BY <1>17, <2>4, <1>12 DEF Rest, Bumping
  <2> QED BY <1>17, <2>1, <2>2, <2>3, <2>4 DEF Rest
<1> QED BY <1>13, <1>14, <1>15, <1>16, <1>17 DEF Kinds

-----------------------------------------------------------------------------
(* Types. *)

\* A client's record with other fields of their types.
LEMMA ClientType ==
  ASSUME TypeOK, NEW c \in Clients, NEW k, k \in Client, client' = [client EXCEPT ![c] = k]
  PROVE  client' \in [Clients -> Client] /\ client'[c] = k
         /\ \A d \in Clients \ {c} : client'[d] = client[d]
BY DEF TypeOK

LEMMA InitTypes == Init => TypeOK
<1> SUFFICES ASSUME Init PROVE TypeOK
  OBVIOUS
<1>1. \A w \in Writers : Kind[w] \in Kinds
  BY UpdatesAssumption
<1>2. \A w \in Writers : Steps(Kind[w]) \in Seq({"commit", "bump", "emit", "publish"})
  <2>1. \A w \in Writers : Steps(Kind[w]) \in Rest(Kind[w])
    BY <1>1 DEF Steps, Rest, Kinds
  <2> QED BY <1>1, <2>1, RestFacts DEF StepNames
<1>3. Idle \in Client
  BY DEF Idle, Client, Values
<1> QED BY <1>2, <1>3 DEF Init, TypeOK, Values

\* What a writer does keeps the types.
LEMMA WriterTypes ==
  ASSUME TypeOK, NEW w \in Writers, Write(w) \/ RollBack(w)
  PROVE  TypeOK'
<1>1. todo[w] # <<>> => Tail(todo[w]) \in Seq({"commit", "bump", "emit", "publish"})
  BY DEF TypeOK
<1>2. <<>> \in Seq({"commit", "bump", "emit", "publish"}) /\ <<"commit">> \in Seq({"commit", "bump", "emit", "publish"})
  OBVIOUS
<1>3. CASE Commit(w)
  BY <1>1, <1>3 DEF TypeOK, Commit, At, Done, Values
<1>4. CASE Bump(w)
  BY <1>1, <1>4 DEF TypeOK, Bump, At, Done
<1>5. CASE Emit(w)
  <2>1. PICK u \in left[w] :
       /\ left' = [left EXCEPT ![w] = @ \ {u}]
       /\ held' = IF KeyThere(w) THEN held ELSE [held EXCEPT ![w] = @ \cup {u}]
       /\ todo' = IF left[w] # {u} THEN todo
                  ELSE [todo EXCEPT ![w] = IF held'[w] = {} THEN <<"commit">> ELSE Tail(@)]
    BY <1>5 DEF Emit
  <2>2. u \in Users /\ todo[w] # <<>>
    BY <1>5, <2>1 DEF TypeOK, Emit, At
  <2>3. left' \in [Writers -> SUBSET Users]
    BY <2>1, <2>2 DEF TypeOK
  <2>4. held' \in [Writers -> SUBSET Users]
    BY <2>1, <2>2 DEF TypeOK
  <2>5. todo' \in [Writers -> Seq({"commit", "bump", "emit", "publish"})]
    BY <1>1, <1>2, <2>1, <2>2 DEF TypeOK
  <2> QED BY <1>5, <2>3, <2>4, <2>5 DEF Emit, TypeOK
<1>6. CASE Publish(w)
  BY <1>1, <1>6 DEF TypeOK, Publish, At, Done
<1>7. CASE RollBack(w)
  BY <1>2, <1>7 DEF TypeOK, RollBack
<1> QED BY <1>3, <1>4, <1>5, <1>6, <1>7 DEF Write

\* So does what a client does, and the expiry of an answer.
LEMMA ReaderTypes ==
  ASSUME TypeOK, NEW c \in Clients,
         (\E v \in Views : BeginFetch(c, v)) \/ Serve(c) \/ Overrun(c) \/ StartPolling(c) \/ Poll(c) \/ Expire
  PROVE  TypeOK'
<1> DEFINE k == client[c]
<1>1. /\ k \in Client
      /\ k = [pc |-> k.pc, view |-> k.view, gen |-> k.gen, value |-> k.value, must |-> k.must,
              complete |-> k.complete, want |-> k.want, polls |-> k.polls, seen |-> k.seen]
  BY DEF TypeOK, Client
<1>0. Len(events) \in Nat
  BY DEF TypeOK
<1>2. \A value \in Values, complete \in BOOLEAN : Loaded(c, value, complete) =>
        client' \in [Clients -> Client] /\ screen' \in [Clients \X Views -> Values]
  <2> SUFFICES ASSUME NEW value \in Values, NEW complete \in BOOLEAN, Loaded(c, value, complete)
               PROVE  client' \in [Clients -> Client] /\ screen' \in [Clients \X Views -> Values]
    OBVIOUS
  <2>1. [Idle EXCEPT !.want = client[c].want, !.polls = client[c].polls,
                     !.seen = client[c].seen, !.complete = complete] \in Client
    BY <1>1 DEF Idle, Client, Values
  <2> QED BY <2>1, ClientType DEF Loaded, TypeOK
<1>3. CASE \E v \in Views : BeginFetch(c, v)
  <2>1. PICK v \in Views : BeginFetch(c, v)
    BY <1>3
  <2>2. v \in {"list", "month", "inbox"} /\ gen \in Nat /\ Settled \in Values
    BY UpdatesAssumption DEF TypeOK, Settled, Values
  <2> DEFINE q == [k EXCEPT !.want = @ \ {v}, !.view = v]
  <2>3. /\ [q EXCEPT !.pc = "query", !.gen = Generation, !.must = Settled] \in Client
        /\ \A e \in Answers : [q EXCEPT !.complete = e.complete] \in Client
    BY <1>1, <2>2 DEF Client, Generation, Answers
  <2>4. client' \in [Clients -> Client] /\ screen' \in [Clients \X Views -> Values]
    <3>1. CASE Kept(v, Generation) = {}
      BY <2>1, <2>3, <3>1, ClientType DEF BeginFetch, TypeOK
    <3>2. CASE Kept(v, Generation) # {}
      <4>1. PICK e \in Kept(v, Generation) :
              /\ client' = [client EXCEPT ![c] = [q EXCEPT !.complete = e.complete]]
              /\ screen' = [screen EXCEPT ![<<c, v>>] = e.value]
        BY <2>1, <3>2 DEF BeginFetch
      <4>2. e \in Answers
        BY DEF Kept, TypeOK
      <4>3. client' \in [Clients -> Client]
        BY <2>3, <4>1, <4>2, ClientType
      <4> QED BY <4>1, <4>2, <4>3 DEF TypeOK, Answers
    <3> QED BY <3>1, <3>2
  <2>5. visits' = IF v \in k.want THEN visits ELSE visits + 1
    BY <2>1 DEF BeginFetch
  <2>6. visits' \in Nat
    BY <2>5 DEF TypeOK
  <2> QED BY <2>1, <2>4, <2>6 DEF BeginFetch, TypeOK
<1>4. CASE Query(c)
  <2>1. [k EXCEPT !.pc = "fill", !.value = db] \in Client
    BY <1>1 DEF Client, TypeOK
  <2> QED BY <1>4, <2>1, ClientType DEF Query, TypeOK
<1>5. \A value \in Values, complete \in BOOLEAN : Put(k, value, complete) /\ k.view # "inbox" => cache' \subseteq Answers
  BY <1>1 DEF Put, Kept, Answers, TypeOK, Client
<1>6. CASE Fill(c)
  <2>1. k.value \in Values /\ k.gen \in Nat
    BY <1>1 DEF Client
  <2>2. client' \in [Clients -> Client] /\ screen' \in [Clients \X Views -> Values]
    BY <1>2, <1>6, <2>1 DEF Fill
  <2>3. cache' \subseteq Answers
    BY <1>5, <1>6, <2>1 DEF Fill, TypeOK
  <2>4. good' \subseteq [gen : Nat, value : Values]
    BY <1>6, <2>1 DEF Fill, TypeOK, GoodAt
  <2> QED BY <1>6, <2>2, <2>3, <2>4 DEF Fill, TypeOK
<1>7. CASE Overrun(c)
  <2>1. PICK value \in Values, complete \in BOOLEAN : Put(k, value, complete) /\ Loaded(c, value, complete)
    BY <1>7 DEF Overrun, GoodAt, TypeOK, Values
  <2>2. client' \in [Clients -> Client] /\ screen' \in [Clients \X Views -> Values]
    BY <1>2, <2>1
  <2>3. cache' \subseteq Answers
    BY <1>5, <1>7, <2>1 DEF Overrun
  <2> QED BY <1>7, <2>2, <2>3 DEF Overrun, TypeOK
<1>8. CASE StartPolling(c)
  <2>1. [k EXCEPT !.polls = TRUE, !.seen = Len(events)] \in Client
    BY <1>0, <1>1 DEF Client
  <2> QED BY <1>8, <2>1, ClientType DEF StartPolling, TypeOK
<1>9. CASE Poll(c)
  <2> DEFINE new == {n \in Returned : n > k.seen}
             wanted == k.want \cup (Views \cap UNION {Concerned(events[n]) : n \in new})
  <2>1. wanted \in SUBSET Views
    BY <1>1 DEF Client
  <2>2. [k EXCEPT !.seen = Len(events), !.want = wanted] \in Client
    <3> HIDE DEF wanted
    <3> QED BY <1>0, <1>1, <2>1 DEF Client
  <2>3. client' = [client EXCEPT ![c] = [k EXCEPT !.seen = Len(events), !.want = wanted]]
    BY <1>9 DEF Poll
  <2>4. client' \in [Clients -> Client]
    BY <2>2, <2>3, ClientType
  <2>5. owed' \subseteq Clients \X Writers
    BY <1>9 DEF Poll, TypeOK
  <2> QED BY <1>9, <2>4, <2>5 DEF Poll, TypeOK
<1>10. CASE Expire
  BY <1>10 DEF Expire, TypeOK
<1> QED BY <1>3, <1>4, <1>6, <1>7, <1>8, <1>9, <1>10 DEF Serve

\* Every variable keeps its shape, whatever writers, clients and members there are.
THEOREM LiveTypeCorrect == Spec => []TypeOK
<1>1. TypeOK /\ [Next]_vars => TypeOK'
  <2> SUFFICES ASSUME TypeOK, [Next]_vars PROVE TypeOK'
    OBVIOUS
  <2>1. CASE UNCHANGED vars
    BY <2>1 DEF TypeOK, vars
  <2>2. CASE \E w \in Writers : Write(w) \/ RollBack(w)
    BY <2>2, WriterTypes
  <2>3. CASE \E c \in Clients : (\E v \in Views : BeginFetch(c, v)) \/ Serve(c) \/ Overrun(c) \/ StartPolling(c) \/ Poll(c)
    BY <2>3, ReaderTypes
  <2>4. CASE Expire
    BY <2>4 DEF Expire, TypeOK
  <2> QED BY <2>1, <2>2, <2>3, <2>4 DEF Next
<1> QED BY InitTypes, <1>1, PTL DEF Spec

-----------------------------------------------------------------------------
(* What is due. *)

\* What a step of a writer leaves it to do.
LEMMA WriterSteps ==
  ASSUME TypeOK, StepsInv, NEW w \in Writers
  PROVE  /\ Kind[w] \in Kinds /\ todo[w] \in Rest(Kind[w])
         /\ \A step : Pending(w, step) <=> Within(todo[w], step)
         /\ \A step : todo' \in [Writers -> Seq(StepNames)] =>
              ((Pending(w, step))' <=> Within(todo'[w], step))
BY UpdatesAssumption DEF StepsInv, Pending, Within

\* A writer that takes the first of its steps.
LEMMA TakesStep ==
  ASSUME TypeOK, StepsInv, NEW w \in Writers, NEW step, At(w, step),
         todo' = [todo EXCEPT ![w] = Tail(todo[w])]
  PROVE  /\ todo'[w] \in Rest(Kind[w])
         /\ Pending(w, step) /\ step \in StepNames
         /\ step = "commit" => ~(Pending(w, "commit"))'
         /\ step = "emit" => Kind[w] = "notice"
         /\ Kind[w] = "notice" => step # "bump"
         /\ step = "commit" /\ Kind[w] \in Bumping => (Pending(w, "bump"))'
         /\ \A other \in StepNames : (Pending(w, other))' => Pending(w, other)
         /\ \A other \in StepNames : other # step /\ Pending(w, other) => (Pending(w, other))'
<1>1. /\ Kind[w] \in Kinds /\ todo[w] \in Rest(Kind[w]) /\ todo[w] # <<>> /\ Head(todo[w]) = step
      /\ todo'[w] = Tail(todo[w])
  BY UpdatesAssumption DEF StepsInv, At, TypeOK
<1>2. /\ \A other : Pending(w, other) <=> Within(todo[w], other)
      /\ \A other : (Pending(w, other))' <=> Within(Tail(todo[w]), other)
  BY <1>1 DEF Pending, Within
<1>3. /\ todo[w] \in Seq(StepNames)
      /\ Tail(todo[w]) \in Rest(Kind[w])
      /\ Within(todo[w], step)
      /\ step = "commit" => ~Within(Tail(todo[w]), "commit")
      /\ step = "emit" => Kind[w] = "notice"
      /\ \A other \in StepNames : Within(Tail(todo[w]), other) => Within(todo[w], other)
      /\ \A other \in StepNames \ {step} : Within(todo[w], other) => Within(Tail(todo[w]), other)
      /\ Kind[w] \in Bumping /\ Within(todo[w], "commit") => Within(todo[w], "bump")
      /\ Kind[w] = "notice" => ~Within(todo[w], "bump")
  BY <1>1, RestFacts
<1>4. step \in StepNames
  BY <1>3 DEF Within
<1> QED BY <1>1, <1>2, <1>3, <1>4 DEF StepNames

\* What is due is what is committed of the bumping kinds and has no bump left.
LEMMA DueDef ==
  /\ Due = {w \in db : Kind[w] \in Bumping /\ ~Pending(w, "bump")}
  /\ Due' = {w \in db' : Kind[w] \in Bumping /\ ~(Pending(w, "bump"))'}
BY DEF Due, Settled, Pending, Bumping

\* With what is due unchanged, a step that leaves the reads and the caches
\* keeps what they owe.
LEMMA ReadsKept ==
  ASSUME GenerationInv, ReadInv, CacheInv, UNCHANGED <<client, cache, good, gen>>,
         db \subseteq db', Due' = Due
  PROVE  GenerationInv' /\ ReadInv' /\ CacheInv'
<1>1. \A c \in Clients : MustDue(c)' = MustDue(c) /\ (Busy(c)' <=> Busy(c))
  BY DEF MustDue, Busy
<1> QED BY <1>1 DEF GenerationInv, ReadInv, CacheInv

\* A step that leaves the writers' side keeps what is due and the notices.
LEMMA WritesKept ==
  ASSUME StepsInv, HeldInv, ToldInv, NoticeOnce, UNCHANGED <<todo, db, held, rows>>
  PROVE  /\ StepsInv' /\ HeldInv' /\ ToldInv' /\ NoticeOnce'
         /\ Settled' = Settled /\ Due' = Due
BY DEF StepsInv, HeldInv, ToldInv, NoticeOnce, Settled, Due, Pending

LEMMA InitLive == Init => LiveInv
<1> SUFFICES ASSUME Init PROVE LiveInv
  OBVIOUS
<1>1. \A w \in Writers : Kind[w] \in Kinds
  BY UpdatesAssumption
<1>2. \A w \in Writers : todo[w] \in Rest(Kind[w])
  BY <1>1 DEF Init, Steps, Rest, Kinds
<1>3. \A w \in Writers : Kind[w] = "notice" => Pending(w, "emit")
  BY DEF Init, Steps, Pending
<1>4. StepsInv /\ HeldInv /\ ToldInv /\ NoticeOnce
  BY <1>2, <1>3 DEF Init, StepsInv, HeldInv, ToldInv, NoticeOnce
<1>5. GenerationInv /\ ReadInv /\ CacheInv
  BY DEF Init, GenerationInv, ReadInv, CacheInv, Busy, Idle
<1> QED BY <1>4, <1>5 DEF LiveInv

-----------------------------------------------------------------------------
(* Steps of writers. *)

LEMMA CommitKeeps ==
  ASSUME TypeOK, LiveInv, NEW w \in Writers, Commit(w)
  PROVE  LiveInv'
<1>1. /\ At(w, "commit") /\ todo' = [todo EXCEPT ![w] = Tail(todo[w])]
      /\ db' = db \cup {w} /\ held' = [held EXCEPT ![w] = {}]
      /\ UNCHANGED <<gen, cache, good, client>>
  BY DEF Commit, Done
<1>2. /\ todo'[w] \in Rest(Kind[w])
      /\ Pending(w, "commit") /\ ~(Pending(w, "commit"))'
      /\ Kind[w] \in Bumping => (Pending(w, "bump"))'
  BY <1>1, TakesStep DEF LiveInv
<1>3. \A v \in Writers \ {w} : todo'[v] = todo[v] /\ held'[v] = held[v]
                               /\ \A step : (Pending(v, step))' <=> Pending(v, step)
  BY <1>1 DEF TypeOK, Pending
<1>4. held'[w] = {}
  BY <1>1 DEF TypeOK
<1>5. w \notin db
  BY <1>2 DEF LiveInv, StepsInv
<1>6. Due' = Due
  BY <1>1, <1>2, <1>3, <1>5, DueDef DEF TypeOK, Values
<1>7. GenerationInv' /\ ReadInv' /\ CacheInv'
  BY <1>1, <1>6, ReadsKept DEF LiveInv
<1>8. StepsInv'
  BY <1>1, <1>2, <1>3, <1>4 DEF LiveInv, StepsInv
<1>9. \A u \in Users, v \in Writers :
        rows'[<<u, Key[v]>>] = IF u \in held[w] /\ Key[v] = Key[w] THEN rows[<<u, Key[v]>>] + 1 ELSE rows[<<u, Key[v]>>]
  BY DEF Commit
<1>10. HeldInv'
  BY <1>3, <1>4, <1>9 DEF LiveInv, HeldInv
<1>11. \A u \in Users, v \in Writers : rows[<<u, Key[v]>>] \in Nat
  BY DEF TypeOK
<1>12. ToldInv'
  BY <1>2, <1>3, <1>9, <1>11 DEF LiveInv, ToldInv
<1>13. NoticeOnce'
  <2> SUFFICES ASSUME NEW x \in DOMAIN rows' PROVE rows'[x] <= 1
    BY DEF NoticeOnce
  <2>1. DOMAIN rows' = Users \X {Key[v] : v \in Writers} /\ DOMAIN rows = DOMAIN rows'
    BY DEF Commit, TypeOK
  <2>2. PICK u \in Users, v \in Writers : x = <<u, Key[v]>>
    BY <2>1
  <2>3. rows[<<u, Key[v]>>] <= 1 /\ rows[<<u, Key[v]>>] \in Nat
    BY <1>11, <2>1, <2>2 DEF LiveInv, NoticeOnce
  <2>4. u \in held[w] => rows[<<u, Key[w]>>] = 0
    BY DEF LiveInv, HeldInv
  <2> QED BY <1>9, <2>2, <2>3, <2>4
<1> QED BY <1>7, <1>8, <1>10, <1>12, <1>13 DEF LiveInv

LEMMA BumpKeeps ==
  ASSUME TypeOK, LiveInv, NEW w \in Writers, Bump(w)
  PROVE  LiveInv'
<1>1. /\ At(w, "bump") /\ todo' = [todo EXCEPT ![w] = Tail(todo[w])]
      /\ UNCHANGED <<db, held, rows, client, good>> /\ gen' = gen + 1 /\ cache' \subseteq cache
  BY DEF Bump, Done
<1>2. /\ todo'[w] \in Rest(Kind[w])
      /\ Kind[w] # "notice"
      /\ (Pending(w, "commit"))' <=> Pending(w, "commit")
  BY <1>1, TakesStep DEF LiveInv, StepNames
<1>3. \A v \in Writers \ {w} : todo'[v] = todo[v] /\ \A step : (Pending(v, step))' <=> Pending(v, step)
  BY <1>1 DEF TypeOK, Pending
<1>4. StepsInv' /\ HeldInv' /\ ToldInv' /\ NoticeOnce'
  BY <1>1, <1>2, <1>3 DEF LiveInv, StepsInv, HeldInv, ToldInv, NoticeOnce
<1>5. \A c \in Clients : client[c].gen \in Nat
  BY DEF TypeOK, Client
<1>6. (\A e \in cache : e.gen \in Nat) /\ (\A e \in good : e.gen \in Nat) /\ gen \in Nat
  BY DEF TypeOK, Answers
<1>7. \A c \in Clients : MustDue(c)' = MustDue(c) /\ (Busy(c)' <=> Busy(c)) /\ client'[c] = client[c]
  BY <1>1 DEF MustDue, Busy
<1>8. GenerationInv' /\ ReadInv' /\ CacheInv'
  BY <1>1, <1>5, <1>6, <1>7 DEF LiveInv, GenerationInv, ReadInv, CacheInv
<1> QED BY <1>4, <1>8 DEF LiveInv

LEMMA EmitKeeps ==
  ASSUME TypeOK, LiveInv, NEW w \in Writers, Emit(w)
  PROVE  LiveInv'
<1>1. PICK u \in left[w] :
       /\ held' = IF KeyThere(w) THEN held ELSE [held EXCEPT ![w] = @ \cup {u}]
       /\ todo' = IF left[w] # {u} THEN todo
                  ELSE [todo EXCEPT ![w] = IF held'[w] = {} THEN <<"commit">> ELSE Tail(@)]
  BY DEF Emit
<1>2. /\ Kind[w] = "notice" /\ todo[w] # <<>> /\ Head(todo[w]) = "emit"
      /\ todo[w] \in Rest(Kind[w]) /\ Kind[w] \in Kinds
      /\ u \in Users
      /\ Tail(todo[w]) = <<"publish", "commit">>
      /\ Within(todo[w], "emit")
  <2>1. /\ todo[w] # <<>> /\ Head(todo[w]) = "emit"
        /\ todo[w] \in Rest(Kind[w]) /\ Kind[w] \in Kinds
        /\ u \in Users
    BY UpdatesAssumption DEF Emit, At, LiveInv, StepsInv, TypeOK
  <2> QED BY <2>1, RestFacts
<1>3. Pending(w, "commit") /\ Pending(w, "emit") /\ w \notin db
  <2>1. "publish" \in StepNames /\ "commit" \in StepNames
    BY DEF StepNames
  <2>2. Within(<<"publish", "commit">>, "commit")
    BY <2>1, TwoSteps
  <2>3. \A step \in StepNames : Within(Tail(todo[w]), step) => Within(todo[w], step)
    BY <1>2, RestFacts
  <2>4. Within(todo[w], "commit")
    BY <1>2, <2>1, <2>2, <2>3
  <2> QED BY <1>2, <2>4 DEF LiveInv, StepsInv, Pending, Within
<1>4. todo'[w] \in {todo[w], <<"commit">>, <<"publish", "commit">>}
  BY <1>1, <1>2 DEF TypeOK
<1>5. todo'[w] \in Rest(Kind[w]) /\ Within(todo'[w], "commit")
  BY <1>2, <1>3, <1>4, OneStep, TwoSteps DEF Rest, Pending, Within, StepNames
<1>6. \A v \in Writers \ {w} : todo'[v] = todo[v] /\ held'[v] = held[v]
                               /\ \A step : (Pending(v, step))' <=> Pending(v, step)
  BY <1>1 DEF TypeOK, Pending
<1>7. UNCHANGED <<gen, cache, good, client, db, rows>>
  BY DEF Emit
<1>8. Due' = Due
  BY <1>2, <1>3, <1>6, <1>7, DueDef DEF TypeOK, Values
<1>9. GenerationInv' /\ ReadInv' /\ CacheInv'
  BY <1>7, <1>8, ReadsKept DEF LiveInv
<1>10. (Pending(w, "commit"))'
  BY <1>5 DEF Pending, Within
<1>11. StepsInv'
  BY <1>2, <1>3, <1>5, <1>6, <1>7, <1>10 DEF LiveInv, StepsInv
<1>12. HeldInv'
  <2>1. CASE KeyThere(w)
    BY <1>1, <1>7, <2>1 DEF LiveInv, HeldInv
  <2>2. CASE ~KeyThere(w)
    <3>1. /\ \A x \in Users : ~(rows[<<x, Key[w]>>] > 0)
          /\ \A v \in Writers \ {w} : Key[v] = Key[w] => held[v] = {}
      BY <2>2 DEF KeyThere, Emit, KeyHeld
    <3>2. \A x \in Users : rows[<<x, Key[w]>>] \in Nat
      BY DEF TypeOK
    <3> QED BY <1>6, <1>7, <3>1, <3>2 DEF LiveInv, HeldInv
  <2> QED BY <2>1, <2>2
<1>13. held'[w] # {} \/ \E x \in Users : rows'[<<x, Key[w]>>] > 0
  BY <1>1, <1>7 DEF KeyThere, TypeOK
<1>14. ToldInv'
  BY <1>6, <1>7, <1>13 DEF LiveInv, ToldInv
<1>15. NoticeOnce'
  BY <1>7 DEF LiveInv, NoticeOnce
<1> QED BY <1>9, <1>11, <1>12, <1>14, <1>15 DEF LiveInv

LEMMA PublishKeeps ==
  ASSUME TypeOK, LiveInv, NEW w \in Writers, Publish(w)
  PROVE  LiveInv'
<1>1. /\ At(w, "publish") /\ todo' = [todo EXCEPT ![w] = Tail(todo[w])]
      /\ UNCHANGED <<db, held, rows, gen, cache, good, client>>
  BY DEF Publish, Done
<1>2. /\ todo'[w] \in Rest(Kind[w])
      /\ \A step \in StepNames \ {"publish"} : (Pending(w, step))' <=> Pending(w, step)
  BY <1>1, TakesStep DEF LiveInv
<1>3. \A v \in Writers \ {w} : todo'[v] = todo[v] /\ \A step : (Pending(v, step))' <=> Pending(v, step)
  BY <1>1 DEF TypeOK, Pending
<1>4. \A v \in Writers, step \in {"commit", "bump", "emit"} : (Pending(v, step))' <=> Pending(v, step)
  BY <1>2, <1>3 DEF StepNames
<1>5. Due' = Due
  BY <1>1, <1>4, DueDef DEF TypeOK, Values
<1>6. GenerationInv' /\ ReadInv' /\ CacheInv'
  BY <1>1, <1>5, ReadsKept DEF LiveInv
<1>7. StepsInv' /\ HeldInv' /\ ToldInv' /\ NoticeOnce'
  BY <1>1, <1>2, <1>3, <1>4 DEF LiveInv, StepsInv, HeldInv, ToldInv, NoticeOnce
<1> QED BY <1>6, <1>7 DEF LiveInv

LEMMA RollBackKeeps ==
  ASSUME TypeOK, LiveInv, NEW w \in Writers, RollBack(w)
  PROVE  LiveInv'
<1>1. /\ Pending(w, "commit") /\ todo' = [todo EXCEPT ![w] = <<>>] /\ held' = [held EXCEPT ![w] = {}]
      /\ UNCHANGED <<db, rows, gen, cache, good, client>>
  BY DEF RollBack, Pending
<1>2. todo'[w] = <<>> /\ held'[w] = {} /\ w \notin db
  BY <1>1 DEF TypeOK, LiveInv, StepsInv
<1>3. \A step : ~(Pending(w, step))'
  BY <1>2 DEF Pending
<1>4. \A v \in Writers \ {w} : todo'[v] = todo[v] /\ held'[v] = held[v]
                               /\ \A step : (Pending(v, step))' <=> Pending(v, step)
  BY <1>1 DEF TypeOK, Pending
<1>5. <<>> \in Rest(Kind[w])
  BY UpdatesAssumption, RestFacts DEF LiveInv, StepsInv
<1>6. Due' = Due
  BY <1>1, <1>2, <1>4, DueDef DEF TypeOK, Values
<1>7. GenerationInv' /\ ReadInv' /\ CacheInv'
  BY <1>1, <1>6, ReadsKept DEF LiveInv
<1>8. StepsInv' /\ HeldInv' /\ ToldInv' /\ NoticeOnce'
  BY <1>1, <1>2, <1>3, <1>4, <1>5 DEF LiveInv, StepsInv, HeldInv, ToldInv, NoticeOnce
<1> QED BY <1>7, <1>8 DEF LiveInv

-----------------------------------------------------------------------------
(* Steps of readers. *)

\* A client that goes idle, or keeps what it reads, owes nothing new.
LEMMA BeginKeeps ==
  ASSUME TypeOK, LiveInv, NEW c \in Clients, NEW v \in Views, BeginFetch(c, v)
  PROVE  LiveInv'
<1>1. UNCHANGED <<todo, db, held, rows, gen, cache, good>> /\ client[c].pc = "idle"
  BY DEF BeginFetch
<1>2. /\ StepsInv' /\ HeldInv' /\ ToldInv' /\ NoticeOnce'
      /\ Settled' = Settled /\ Due' = Due
  BY <1>1, WritesKept DEF LiveInv
<1>3. client[c] \in Client
  BY DEF TypeOK
<1>4. \A d \in Clients \ {c} : client'[d] = client[d]
  BY DEF BeginFetch, TypeOK
<1>5. \A d \in Clients \ {c} : MustDue(d)' = MustDue(d) /\ (Busy(d)' <=> Busy(d))
  BY <1>4 DEF MustDue, Busy
<1>6. \/ ~Busy(c)'
      \/ client'[c].pc = "query" /\ client'[c].gen = gen /\ client'[c].must = Settled
  <2>1. CASE Kept(v, Generation) = {}
    <3>1. client' = [client EXCEPT ![c] = [[client[c] EXCEPT !.want = @ \ {v}, !.view = v]
                                             EXCEPT !.pc = "query", !.gen = gen, !.must = Settled]]
      BY <2>1 DEF BeginFetch, Generation
    <3>2. client'[c] = [[client[c] EXCEPT !.want = @ \ {v}, !.view = v] EXCEPT !.pc = "query", !.gen = gen, !.must = Settled]
      BY <3>1 DEF TypeOK
    <3> QED BY <1>3, <3>2 DEF Client
  <2>2. CASE Kept(v, Generation) # {}
    <3>1. PICK e \in cache :
            client' = [client EXCEPT ![c] = [[client[c] EXCEPT !.want = @ \ {v}, !.view = v] EXCEPT !.complete = e.complete]]
      BY <2>2 DEF BeginFetch, Kept
    <3>2. client'[c].pc = client[c].pc
      BY <1>3, <3>1 DEF TypeOK, Client
    <3> QED BY <1>1, <3>2 DEF Busy
  <2> QED BY <2>1, <2>2
<1>7. Busy(c)' => MustDue(c)' = Due /\ client'[c].gen = gen /\ client'[c].pc = "query"
  BY <1>6 DEF Busy, MustDue, Due
<1>8. Due \subseteq db
  BY DueDef
<1>9. gen \in Nat
  BY DEF TypeOK
<1>10. GenerationInv'
  BY <1>1, <1>4, <1>5, <1>7, <1>9 DEF LiveInv, GenerationInv
<1>11. ReadInv'
  BY <1>1, <1>2, <1>4, <1>5, <1>7, <1>8 DEF LiveInv, ReadInv
<1>12. CacheInv'
  BY <1>1, <1>2, <1>4, <1>5, <1>7 DEF LiveInv, CacheInv
<1> QED BY <1>2, <1>10, <1>11, <1>12 DEF LiveInv

LEMMA QueryKeeps ==
  ASSUME TypeOK, LiveInv, NEW c \in Clients, Query(c)
  PROVE  LiveInv'
<1>1. UNCHANGED <<todo, db, held, rows, gen, cache, good>> /\ client[c].pc = "query"
  BY DEF Query
<1>2. /\ StepsInv' /\ HeldInv' /\ ToldInv' /\ NoticeOnce' /\ Due' = Due
  BY <1>1, WritesKept DEF LiveInv
<1>3. /\ client'[c].pc = "fill" /\ client'[c].value = db
      /\ client'[c].gen = client[c].gen /\ client'[c].must = client[c].must
      /\ \A d \in Clients \ {c} : client'[d] = client[d]
  BY DEF Query, TypeOK, Client
<1>4. \A d \in Clients : MustDue(d)' = MustDue(d) /\ (Busy(d)' <=> Busy(d)) /\ client'[d].gen = client[d].gen
  BY <1>1, <1>3 DEF MustDue, Busy
<1>5. GenerationInv' /\ CacheInv'
  BY <1>1, <1>2, <1>4 DEF LiveInv, GenerationInv, CacheInv
<1>6. ReadInv'
  BY <1>1, <1>2, <1>3, <1>4 DEF LiveInv, ReadInv, Busy
<1> QED BY <1>2, <1>5, <1>6 DEF LiveInv

\* An answer that has what its client is owed may be given, and kept.
LEMMA LoadedKeeps ==
  ASSUME TypeOK, LiveInv, NEW c \in Clients, Busy(c), UNCHANGED <<todo, db, held, rows, gen>>,
         NEW value \in Values, NEW complete \in BOOLEAN, Loaded(c, value, complete),
         complete => MustDue(c) \subseteq value,
         UNCHANGED cache \/ Put(client[c], value, complete),
         \/ UNCHANGED good
         \/ complete /\ good' = (good \ GoodAt(client[c].gen)) \cup {[gen |-> client[c].gen, value |-> value]}
  PROVE  LiveInv'
<1>1. /\ StepsInv' /\ HeldInv' /\ ToldInv' /\ NoticeOnce' /\ Due' = Due
  BY WritesKept DEF LiveInv
<1>2. /\ ~Busy(c)' /\ \A d \in Clients \ {c} : client'[d] = client[d]
  BY DEF Loaded, TypeOK, Idle, Busy
<1>3. \A d \in Clients \ {c} : MustDue(d)' = MustDue(d) /\ (Busy(d)' <=> Busy(d))
  BY <1>2 DEF MustDue, Busy
<1>4. \A e \in cache' : \/ e \in cache
                        \/ e.gen = client[c].gen /\ e.value = value /\ e.complete = complete
  BY DEF Put
<1>5. \A e \in good' : \/ e \in good
                       \/ complete /\ e.gen = client[c].gen /\ e.value = value
  OBVIOUS
<1>6. /\ client[c].gen <= gen
      /\ client[c].gen = gen => MustDue(c) = Due
      /\ \A d \in Clients : Busy(d) /\ client[d].gen = client[c].gen => MustDue(d) = MustDue(c)
  BY DEF LiveInv, GenerationInv, ReadInv
<1>7. GenerationInv'
  BY <1>2, <1>3, <1>4, <1>5, <1>6 DEF LiveInv, GenerationInv
<1>8. ReadInv'
  BY <1>1, <1>2, <1>3 DEF LiveInv, ReadInv
<1>9. CacheInv'
  BY <1>1, <1>2, <1>3, <1>4, <1>5, <1>6 DEF LiveInv, CacheInv
<1> QED BY <1>1, <1>7, <1>8, <1>9 DEF LiveInv

\* The answers of a query and of a query that overran are such answers.
LEMMA FillAnswers ==
  ASSUME TypeOK, LiveInv, NEW c \in Clients, Fill(c)
  PROVE  /\ Busy(c) /\ client[c].value \in Values /\ MustDue(c) \subseteq client[c].value
         /\ Loaded(c, client[c].value, TRUE)
         /\ UNCHANGED <<todo, db, held, rows, gen>>
         /\ UNCHANGED cache \/ Put(client[c], client[c].value, TRUE)
         /\ \/ UNCHANGED good
            \/ good' = (good \ GoodAt(client[c].gen)) \cup {[gen |-> client[c].gen, value |-> client[c].value]}
<1>1. client[c] \in Client /\ client[c].pc = "fill"
  BY DEF Fill, TypeOK
<1>2. Busy(c) /\ client[c].value \in Values /\ MustDue(c) \subseteq client[c].value
  BY <1>1 DEF Busy, Client, LiveInv, ReadInv
<1> QED BY <1>2 DEF Fill

LEMMA OverrunAnswers ==
  ASSUME TypeOK, LiveInv, NEW c \in Clients, Overrun(c)
  PROVE  /\ Busy(c) /\ UNCHANGED <<todo, db, held, rows, gen, good>>
         /\ \E value \in Values, complete \in BOOLEAN :
              /\ Put(client[c], value, complete) /\ Loaded(c, value, complete)
              /\ complete => MustDue(c) \subseteq value
<1>1. Busy(c) /\ UNCHANGED <<todo, db, held, rows, gen, good>>
  BY DEF Overrun, Busy
<1>2. CASE GoodAt(client[c].gen) = {}
  BY <1>1, <1>2 DEF Overrun, Values
<1>3. CASE GoodAt(client[c].gen) # {}
  <2>1. PICK e \in good : e.gen = client[c].gen /\ Put(client[c], e.value, TRUE) /\ Loaded(c, e.value, TRUE)
    BY <1>3 DEF Overrun, GoodAt
  <2>2. e.value \in Values /\ MustDue(c) \subseteq e.value
    BY <1>1, <2>1 DEF TypeOK, LiveInv, CacheInv
  <2> QED BY <1>1, <2>1, <2>2
<1> QED BY <1>2, <1>3

LEMMA PollKeeps ==
  ASSUME TypeOK, LiveInv, NEW c \in Clients, StartPolling(c) \/ Poll(c) \/ Expire
  PROVE  LiveInv'
<1>1. UNCHANGED <<todo, db, held, rows, gen, good>> /\ cache' \subseteq cache
  BY DEF StartPolling, Poll, Expire
<1>2. /\ StepsInv' /\ HeldInv' /\ ToldInv' /\ NoticeOnce' /\ Due' = Due
  BY <1>1, WritesKept DEF LiveInv
<1>3. \A d \in Clients : /\ client'[d].pc = client[d].pc /\ client'[d].gen = client[d].gen
                         /\ client'[d].must = client[d].must /\ client'[d].value = client[d].value
  <2>1. client \in [Clients -> Client] /\ client[c] \in Client
    BY DEF TypeOK
  <2>2. CASE StartPolling(c)
    <3>1. client' = [client EXCEPT ![c] = [client[c] EXCEPT !.polls = TRUE, !.seen = Len(events)]]
      BY <2>2 DEF StartPolling
    <3> QED BY <2>1, <3>1 DEF Client
  <2>3. CASE Poll(c)
    <3>1. PICK want : client' = [client EXCEPT ![c] = [client[c] EXCEPT !.seen = Len(events), !.want = want]]
      BY <2>3 DEF Poll
    <3> QED BY <2>1, <3>1 DEF Client
  <2>4. CASE Expire
    BY <2>4 DEF Expire
  <2> QED BY <2>2, <2>3, <2>4
<1>4. \A d \in Clients : MustDue(d)' = MustDue(d) /\ (Busy(d)' <=> Busy(d))
  BY <1>3 DEF MustDue, Busy
<1>5. GenerationInv' /\ ReadInv' /\ CacheInv'
  BY <1>1, <1>2, <1>3, <1>4 DEF LiveInv, GenerationInv, ReadInv, CacheInv
<1> QED BY <1>2, <1>5 DEF LiveInv

-----------------------------------------------------------------------------
(* Theorems. *)

LEMMA NextKeeps == TypeOK /\ LiveInv /\ [Next]_vars => LiveInv'
<1> SUFFICES ASSUME TypeOK, LiveInv, [Next]_vars PROVE LiveInv'
  OBVIOUS
<1>1. CASE UNCHANGED vars
  <2>1. UNCHANGED <<client, cache, good, gen, todo, db, held, rows>>
    BY <1>1 DEF vars
  <2>2. /\ StepsInv' /\ HeldInv' /\ ToldInv' /\ NoticeOnce' /\ Due' = Due
    BY <2>1, WritesKept DEF LiveInv
  <2> QED BY <2>1, <2>2, ReadsKept DEF LiveInv
<1>2. CASE \E w \in Writers : Write(w) \/ RollBack(w)
  BY <1>2, CommitKeeps, BumpKeeps, EmitKeeps, PublishKeeps, RollBackKeeps DEF Write
<1>3. ASSUME NEW c \in Clients, Serve(c) \/ Overrun(c) PROVE LiveInv'
  <2>1. CASE Query(c)
    BY <2>1, QueryKeeps
  <2>2. CASE Fill(c)
    BY <2>2, FillAnswers, LoadedKeeps
  <2>3. CASE Overrun(c)
    BY <2>3, OverrunAnswers, LoadedKeeps
  <2> QED BY <1>3, <2>1, <2>2, <2>3 DEF Serve
<1>4. CASE \E c \in Clients : (\E v \in Views : BeginFetch(c, v)) \/ Serve(c) \/ Overrun(c) \/ StartPolling(c) \/ Poll(c)
  BY <1>3, <1>4, BeginKeeps, PollKeeps
<1>5. CASE Expire
  <2>1. UNCHANGED <<todo, db, held, rows, gen, good, client>> /\ cache' \subseteq cache
    BY <1>5 DEF Expire
  <2>2. /\ StepsInv' /\ HeldInv' /\ ToldInv' /\ NoticeOnce' /\ Due' = Due
    BY <2>1, WritesKept DEF LiveInv
  <2>3. \A d \in Clients : MustDue(d)' = MustDue(d) /\ (Busy(d)' <=> Busy(d))
    BY <2>1 DEF MustDue, Busy
  <2>4. GenerationInv' /\ ReadInv' /\ CacheInv'
    BY <2>1, <2>2, <2>3 DEF LiveInv, GenerationInv, ReadInv, CacheInv
  <2> QED BY <2>2, <2>4 DEF LiveInv
<1> QED BY <1>1, <1>2, <1>4, <1>5 DEF Next

\* A commit of a notice leaves the key with somebody: the transaction holds it
\* for one of its recipients, or somebody has it already.
LEMMA CommitTells ==
  ASSUME TypeOK, LiveInv, NEW w \in Writers, NEW v \in Writers, Commit(v), w \in db' \ db, Kind[w] = "notice"
  PROVE  \E u \in Users : rows'[<<u, Key[w]>>] > 0
<1>1. v = w /\ At(w, "commit") /\ todo[w] \in Rest(Kind[w])
  BY DEF Commit, LiveInv, StepsInv
<1>2. Pending(w, "commit") /\ ~Pending(w, "emit")
  <2>1. /\ "commit" \in StepNames /\ "publish" \in StepNames
        /\ Within(<<"commit">>, "commit") /\ ~Within(<<"commit">>, "emit")
    BY OneStep DEF StepNames
  <2>2. todo[w] = <<"commit">>
    <3>1. todo[w] \in {<<"emit", "publish", "commit">>, <<"publish", "commit">>, <<"commit">>, <<>>}
      BY <1>1 DEF Rest
    <3>2. Head(<<"emit", "publish", "commit">>) = "emit" /\ Head(<<"publish", "commit">>) = "publish"
      OBVIOUS
    <3> QED BY <1>1, <3>1, <3>2 DEF At
  <2> QED BY <2>1, <2>2 DEF Pending, Within
<1>3. held[w] # {} \/ \E u \in Users : rows[<<u, Key[w]>>] > 0
  BY <1>2 DEF LiveInv, ToldInv
<1>4. \A u \in Users : /\ rows[<<u, Key[w]>>] \in Nat
                       /\ rows'[<<u, Key[w]>>] = IF u \in held[w] THEN rows[<<u, Key[w]>>] + 1 ELSE rows[<<u, Key[w]>>]
  BY <1>1 DEF TypeOK, Commit
<1>5. held[w] \subseteq Users
  BY DEF TypeOK
<1> QED BY <1>3, <1>4, <1>5

\* Nobody gets a notice twice, and the commit of one leaves somebody told, for
\* any writers that emit the key at once and any of them that fail.
THEOREM NoticesTold == Spec => ToldOnce
<1>1. Init => LiveInv
  BY InitLive
<1>2. TypeOK /\ LiveInv /\ [Next]_vars => LiveInv'
  BY NextKeeps
<1>3. LiveInv => NoticeOnce
  BY DEF LiveInv
<1>4. TypeOK /\ LiveInv /\ [Next]_vars =>
        [\A w \in Writers : Kind[w] = "notice" /\ w \in db' \ db => \E u \in Users : rows'[<<u, Key[w]>>] > 0]_vars
  <2> SUFFICES ASSUME TypeOK, LiveInv, Next, NEW w \in Writers, Kind[w] = "notice", w \in db' \ db
               PROVE  \E u \in Users : rows'[<<u, Key[w]>>] > 0
    BY DEF vars
  <2>1. PICK v \in Writers : Commit(v)
    <3>1. db' # db
      OBVIOUS
    <3> QED BY <3>1 DEF Next, Write, Bump, Emit, Publish, RollBack, BeginFetch, Serve, Query, Fill, Overrun,
                       StartPolling, Poll, Expire
  <2> QED BY <2>1, CommitTells
<1> QED BY <1>1, <1>2, <1>3, <1>4, LiveTypeCorrect, PTL DEF Spec, ToldOnce, SomebodyTold

\* A complete answer to a read that began when a change was committed and the
\* caches bumped for it shows the change: for any writers, any clients, and
\* any expiries and overruns.
THEOREM ReadsFresh == Spec => FreshAfterAck
<1>1. Init => LiveInv
  BY InitLive
<1>2. TypeOK /\ LiveInv /\ [Next]_vars => LiveInv'
  BY NextKeeps
<1>3. TypeOK /\ LiveInv /\ [Next]_vars =>
        [\A c \in Clients, v \in Views : Answered(c, v) /\ client'[c].complete
           => {w \in Expected(c) : Kind[w] \in Bumping} \subseteq screen'[<<c, v>>]]_vars
  <2> SUFFICES ASSUME TypeOK, LiveInv, Next, NEW c \in Clients, NEW v \in Views, Answered(c, v), client'[c].complete
               PROVE  {w \in Expected(c) : Kind[w] \in Bumping} \subseteq screen'[<<c, v>>]
    BY DEF vars
  <2>1. CASE client[c].pc = "idle"
    <3>1. BeginFetch(c, v) /\ client'[c].pc = "idle" /\ {w \in Expected(c) : Kind[w] \in Bumping} = Due
      BY <2>1 DEF Answered, Expected, Due
    <3>2. Kept(v, Generation) # {}
      <4> SUFFICES ASSUME Kept(v, Generation) = {} PROVE client'[c].pc = "query"
        BY <3>1
      <4> QED BY <3>1 DEF BeginFetch, TypeOK, Client
    <3>3. PICK e \in cache : /\ e.gen = gen
                             /\ client' = [client EXCEPT ![c] = [[client[c] EXCEPT !.want = @ \ {v}, !.view = v] EXCEPT !.complete = e.complete]]
                             /\ screen' = [screen EXCEPT ![<<c, v>>] = e.value]
      BY <3>1, <3>2 DEF BeginFetch, Kept, Generation
    <3>4. client'[c].complete = e.complete
      BY <3>3 DEF TypeOK, Client
    <3>5. screen'[<<c, v>>] = e.value
      BY <3>3 DEF TypeOK
    <3> QED BY <3>1, <3>3, <3>4, <3>5 DEF LiveInv, CacheInv
  <2>2. CASE client[c].pc # "idle"
    <3>1. /\ client'[c].pc = "idle" /\ client[c].view = v
          /\ {w \in Expected(c) : Kind[w] \in Bumping} = MustDue(c)
      BY <2>2 DEF Answered, Expected, MustDue
    <3>2. Fill(c) \/ Overrun(c)
      <4>1. client' # client /\ client'[c].pc # client[c].pc
        BY <2>2, <3>1
      <4> DEFINE Acts(d) == (\E x \in Views : BeginFetch(d, x)) \/ Serve(d) \/ Overrun(d) \/ StartPolling(d) \/ Poll(d)
      <4>2. \E d \in Clients : Acts(d)
        BY <4>1 DEF Next, Write, Commit, Bump, Emit, Publish, RollBack, Expire
      <4>3. \A d \in Clients : Acts(d) => d = c
        BY <4>1 DEF BeginFetch, Serve, Query, Fill, Overrun, Loaded, StartPolling, Poll, TypeOK
      <4>4. ~(\E x \in Views : BeginFetch(c, x))
        BY <2>2 DEF BeginFetch
      <4>5. ~StartPolling(c) /\ ~Poll(c)
        <5>1. client \in [Clients -> Client] /\ client[c] \in Client
          BY DEF TypeOK
        <5>2. ASSUME StartPolling(c) PROVE FALSE
          <6>1. client' = [client EXCEPT ![c] = [client[c] EXCEPT !.polls = TRUE, !.seen = Len(events)]]
            BY <5>2 DEF StartPolling
          <6> QED BY <4>1, <5>1, <6>1 DEF Client
        <5>3. ASSUME Poll(c) PROVE FALSE
          <6>1. PICK want : client' = [client EXCEPT ![c] = [client[c] EXCEPT !.seen = Len(events), !.want = want]]
            BY <5>3 DEF Poll
          <6> QED BY <4>1, <5>1, <6>1 DEF Client
        <5> QED BY <5>2, <5>3
      <4>6. ~Query(c)
        <5>1. client \in [Clients -> Client] /\ client[c] \in Client
          BY DEF TypeOK
        <5>2. ASSUME Query(c) PROVE client'[c].pc = "fill"
          <6>1. client' = [client EXCEPT ![c] = [client[c] EXCEPT !.pc = "fill", !.value = db]]
            BY <5>2 DEF Query
          <6> QED BY <5>1, <6>1 DEF Client
        <5> QED BY <3>1, <5>2
      <4>7. Acts(c)
        <5> HIDE DEF Acts
        <5> QED BY <4>2, <4>3
      <4> QED BY <4>4, <4>5, <4>6, <4>7 DEF Serve
    <3>3. \A value \in Values, complete \in BOOLEAN : Loaded(c, value, complete) =>
            client'[c].complete = complete /\ screen'[<<c, v>>] = value
      BY <3>1 DEF Loaded, TypeOK, Idle
    <3>4. CASE Fill(c)
      BY <3>1, <3>3, <3>4, FillAnswers
    <3>5. CASE Overrun(c)
      BY <3>1, <3>3, <3>5, OverrunAnswers
    <3> QED BY <3>2, <3>4, <3>5
  <2> QED BY <2>1, <2>2
<1> QED BY <1>1, <1>2, <1>3, LiveTypeCorrect, PTL DEF Spec, FreshAfterAck

-----------------------------------------------------------------------------
(***************************************************************************)
(* Sums over finite sets (SumFunctionOnSet of the module Functions).       *)
(***************************************************************************)
\* A sum over a set picks an element and goes on with the rest.
Picked(s) == CHOOSE x \in s : TRUE
SumStep(f, g, s) == IF s = {} THEN 0 ELSE f[Picked(s)] + g[s \ {Picked(s)}]
Summing(f, S, g) == g = [s \in SUBSET S |-> SumStep(f, g, s)]

\* The library computes a sum by picking one element after the other.
LEMMA SumIs ==
  ASSUME NEW f, NEW S
  PROVE  SumFunctionOnSet(f, S) = (CHOOSE g : Summing(f, S, g))[S]
BY DEF SumFunctionOnSet, FoldFunctionOnSet, MapThenFoldSet, Summing, SumStep, Picked

\* Of finite sets with a property one has no smaller one with it.
LEMMA Smallest ==
  ASSUME NEW S, NEW Bad, Bad \subseteq FiniteSubsetsOf(S), Bad # {}
  PROVE  \E U \in Bad : /\ U \subseteq S /\ IsFiniteSet(U)
                        /\ \A V \in SUBSET U : V # U => V \notin Bad /\ V \in FiniteSubsetsOf(S)
<1>1. PICK U \in Bad : \A V \in Bad : <<V, U>> \notin StrictSubsetOrdering(S)
  <2>1. IsWellFoundedOn(StrictSubsetOrdering(S), FiniteSubsetsOf(S))
    BY FS_StrictSubsetOrderingWellFounded
  <2> QED BY <2>1, WFMin
<1>2. U \subseteq S /\ IsFiniteSet(U)
  BY DEF FiniteSubsetsOf
<1>3. ASSUME NEW V \in SUBSET U, V # U
      PROVE  V \notin Bad /\ V \in FiniteSubsetsOf(S)
  <2>1. IsFiniteSet(V) /\ V \subseteq S
    BY <1>2, FS_Subset
  <2>2. <<V, U>> \in StrictSubsetOrdering(S)
    BY <1>2, <1>3, <2>1 DEF StrictSubsetOrdering
  <2> QED BY <1>1, <2>1, <2>2 DEF FiniteSubsetsOf
<1> QED BY <1>2, <1>3

\* What is picked is in the set, and the rest is smaller.
LEMMA PickedIn ==
  ASSUME NEW s, s # {}
  PROVE  Picked(s) \in s /\ s \ {Picked(s)} \subseteq s /\ s \ {Picked(s)} # s
<1>1. \E x \in s : TRUE
  OBVIOUS
<1>2. Picked(s) \in s
  BY <1>1 DEF Picked
<1> QED BY <1>2

\* Sums of one function agree on the sets they share.
LEMMA SummingsAgree ==
  ASSUME NEW f, NEW S, NEW g, NEW T, NEW h, Summing(f, S, g), Summing(f, T, h),
         NEW s, s \subseteq S, s \subseteq T, IsFiniteSet(s)
  PROVE  g[s] = h[s]
<1> DEFINE Bad == {u \in FiniteSubsetsOf(s) : g[u] # h[u]}
<1>1. Bad = {}
  <2> SUFFICES ASSUME Bad # {} PROVE FALSE
    OBVIOUS
  <2>0. Bad \subseteq FiniteSubsetsOf(s)
    OBVIOUS
  <2>1. PICK u \in Bad : u \subseteq s /\ \A v \in SUBSET u : v # u => v \notin Bad /\ v \in FiniteSubsetsOf(s)
    <3> HIDE DEF Bad
    <3> QED BY <2>0, Smallest
  <2>2. g[u] = SumStep(f, g, u) /\ h[u] = SumStep(f, h, u)
    BY <2>1 DEF Summing
  <2>3. CASE u = {}
    BY <2>2, <2>3 DEF SumStep
  <2>4. CASE u # {}
    <3>1. g[u \ {Picked(u)}] = h[u \ {Picked(u)}]
      BY <2>1, <2>4, PickedIn
    <3> QED BY <2>2, <2>4, <3>1 DEF SumStep
  <2> QED BY <2>3, <2>4
<1> QED BY <1>1 DEF FiniteSubsetsOf

\* A finite set can be summed.
LEMMA SummingExists ==
  ASSUME NEW f, NEW S, IsFiniteSet(S)
  PROVE  \E g : Summing(f, S, g)
<1> DEFINE Bad == {u \in FiniteSubsetsOf(S) : ~\E g : Summing(f, u, g)}
<1>1. Bad = {}
  <2> SUFFICES ASSUME Bad # {} PROVE FALSE
    OBVIOUS
  <2>0. Bad \subseteq FiniteSubsetsOf(S)
    OBVIOUS
  <2>1. PICK u \in Bad : /\ u \subseteq S /\ IsFiniteSet(u)
                         /\ \A v \in SUBSET u : v # u => v \notin Bad /\ v \in FiniteSubsetsOf(S)
    <3> HIDE DEF Bad
    <3> QED BY <2>0, Smallest
  <2> DEFINE G(v) == CHOOSE g : Summing(f, v, g)
             H == [v \in SUBSET u |-> G(v)[v]]
             K == [v \in SUBSET u |-> IF v = u THEN SumStep(f, H, u) ELSE H[v]]
  <2>2. \A v \in SUBSET u : v # u => Summing(f, v, G(v))
    BY <2>1
  <2> HIDE DEF G
  <2>3. ASSUME NEW v \in SUBSET u, v # {}
        PROVE  v \ {Picked(v)} \in SUBSET u /\ v \ {Picked(v)} # u
    BY <2>3, PickedIn
  <2>4. ASSUME NEW v \in SUBSET u, v # u
        PROVE  H[v] = SumStep(f, H, v)
    <3>1. G(v)[v] = SumStep(f, G(v), v)
      BY <2>2, <2>4 DEF Summing
    <3>2. CASE v = {}
      BY <3>1, <3>2 DEF SumStep
    <3>3. CASE v # {}
      <4> DEFINE w == v \ {Picked(v)}
      <4>1. w \in SUBSET u /\ w # u /\ w \subseteq v /\ IsFiniteSet(w)
        BY <2>1, <2>3, <3>3, FS_Subset
      <4>2. G(v)[w] = G(w)[w]
        BY <2>2, <2>4, <4>1, SummingsAgree
      <4>3. H[w] = G(v)[w]
        BY <4>1, <4>2
      <4> QED BY <3>1, <3>3, <4>3 DEF SumStep
    <3> QED BY <3>2, <3>3
  <2>5. \A v \in SUBSET u : SumStep(f, K, v) = SumStep(f, H, v)
    BY <2>3 DEF SumStep
  <2>6. \A v \in SUBSET u : K[v] = SumStep(f, K, v)
    BY <2>4, <2>5
  <2>7. K = [v \in SUBSET u |-> SumStep(f, K, v)]
    <3>1. K = [v \in SUBSET u |-> K[v]]
      OBVIOUS
    <3> HIDE DEF K
    <3> QED BY <2>6, <3>1
  <2> QED BY <2>7 DEF Summing
<1> QED BY <1>1 DEF FiniteSubsetsOf

\* A sum is 0, or the element picked and the sum of the rest.
LEMMA SumUnfolds ==
  ASSUME NEW f, NEW S, IsFiniteSet(S)
  PROVE  /\ S = {} => SumFunctionOnSet(f, S) = 0
         /\ S # {} => SumFunctionOnSet(f, S) = f[Picked(S)] + SumFunctionOnSet(f, S \ {Picked(S)})
<1> DEFINE G(v) == CHOOSE g : Summing(f, v, g)
<1>1. \A v : IsFiniteSet(v) => Summing(f, v, G(v)) /\ SumFunctionOnSet(f, v) = G(v)[v]
  BY SummingExists, SumIs
<1> HIDE DEF G
<1>2. G(S)[S] = SumStep(f, G(S), S)
  BY <1>1 DEF Summing
<1>3. CASE S # {}
  <2>1. IsFiniteSet(S \ {Picked(S)})
    BY FS_Subset
  <2>2. G(S)[S \ {Picked(S)}] = G(S \ {Picked(S)})[S \ {Picked(S)}]
    BY <1>1, <2>1, SummingsAgree
  <2> QED BY <1>1, <1>2, <1>3, <2>1, <2>2 DEF SumStep
<1> QED BY <1>1, <1>2, <1>3 DEF SumStep

\* A sum of integers is an integer.
LEMMA SumInt ==
  ASSUME NEW f, NEW S, IsFiniteSet(S), \A x \in S : f[x] \in Int
  PROVE  SumFunctionOnSet(f, S) \in Int
<1> DEFINE Bad == {u \in FiniteSubsetsOf(S) : SumFunctionOnSet(f, u) \notin Int}
<1>1. Bad = {}
  <2> SUFFICES ASSUME Bad # {} PROVE FALSE
    OBVIOUS
  <2>0. Bad \subseteq FiniteSubsetsOf(S)
    OBVIOUS
  <2>1. PICK u \in Bad : /\ u \subseteq S /\ IsFiniteSet(u)
                         /\ \A v \in SUBSET u : v # u => v \notin Bad /\ v \in FiniteSubsetsOf(S)
    <3> HIDE DEF Bad
    <3> QED BY <2>0, Smallest
  <2>2. CASE u = {}
    <3>1. SumFunctionOnSet(f, u) = 0
      BY <2>1, <2>2, SumUnfolds
    <3> QED BY <2>1, <3>1
  <2>3. CASE u # {}
    <3>1. SumFunctionOnSet(f, u \ {Picked(u)}) \in Int /\ f[Picked(u)] \in Int
      BY <2>1, <2>3, PickedIn
    <3>2. SumFunctionOnSet(f, u) = f[Picked(u)] + SumFunctionOnSet(f, u \ {Picked(u)})
      BY <2>1, <2>3, SumUnfolds
    <3> QED BY <3>1, <3>2
  <2> QED BY <2>2, <2>3
<1> QED BY <1>1 DEF FiniteSubsetsOf

\* The order of the summands does not matter.
LEMMA SumWithout ==
  ASSUME NEW f, NEW S, IsFiniteSet(S), \A x \in S : f[x] \in Int, NEW a \in S
  PROVE  SumFunctionOnSet(f, S) = f[a] + SumFunctionOnSet(f, S \ {a})
<1> DEFINE Takes(u) == \A b \in u : SumFunctionOnSet(f, u) = f[b] + SumFunctionOnSet(f, u \ {b})
           Bad == {u \in FiniteSubsetsOf(S) : ~Takes(u)}
<1>1. Bad = {}
  <2> SUFFICES ASSUME Bad # {} PROVE FALSE
    OBVIOUS
  <2>0. Bad \subseteq FiniteSubsetsOf(S)
    OBVIOUS
  <2>1. PICK u \in Bad : /\ u \subseteq S /\ IsFiniteSet(u)
                         /\ \A v \in SUBSET u : v # u => v \notin Bad /\ v \in FiniteSubsetsOf(S)
    <3> HIDE DEF Bad
    <3> QED BY <2>0, Smallest
  <2>2. PICK b \in u : SumFunctionOnSet(f, u) # f[b] + SumFunctionOnSet(f, u \ {b})
    BY <2>1
  <2> DEFINE p == Picked(u)
  <2>3. p \in u /\ u # {}
    BY PickedIn
  <2> HIDE DEF p
  <2>4. SumFunctionOnSet(f, u) = f[p] + SumFunctionOnSet(f, u \ {p})
    BY <2>1, <2>3, SumUnfolds DEF p
  <2>5. p # b
    BY <2>2, <2>4
  <2>6. /\ u \ {p} \in SUBSET u /\ u \ {p} # u /\ b \in u \ {p}
        /\ u \ {b} \in SUBSET u /\ u \ {b} # u /\ p \in u \ {b}
    BY <2>3, <2>5
  <2>7. Takes(u \ {p}) /\ Takes(u \ {b})
    BY <2>1, <2>6
  <2>8. (u \ {p}) \ {b} = (u \ {b}) \ {p}
    OBVIOUS
  <2> DEFINE rest == SumFunctionOnSet(f, (u \ {b}) \ {p})
  <2>9. SumFunctionOnSet(f, u \ {p}) = f[b] + rest
    BY <2>6, <2>7, <2>8
  <2>10. SumFunctionOnSet(f, u \ {b}) = f[p] + rest
    BY <2>6, <2>7
  <2>11. rest \in Int /\ f[p] \in Int /\ f[b] \in Int
    <3>1. IsFiniteSet((u \ {b}) \ {p}) /\ (u \ {b}) \ {p} \subseteq S
      BY <2>1, FS_Subset
    <3> QED BY <2>1, <2>3, <3>1, SumInt
  <2> HIDE DEF rest
  <2> QED BY <2>2, <2>4, <2>9, <2>10, <2>11
<1> QED BY <1>1 DEF FiniteSubsetsOf

\* What has the same summands has the same sum, and nothing comes to nothing.
LEMMA SumSame ==
  ASSUME NEW f, NEW g, NEW S, IsFiniteSet(S), \A x \in S : f[x] \in Int /\ g[x] = f[x]
  PROVE  SumFunctionOnSet(g, S) = SumFunctionOnSet(f, S)
<1> DEFINE Bad == {u \in FiniteSubsetsOf(S) : SumFunctionOnSet(g, u) # SumFunctionOnSet(f, u)}
<1>1. Bad = {}
  <2> SUFFICES ASSUME Bad # {} PROVE FALSE
    OBVIOUS
  <2>0. Bad \subseteq FiniteSubsetsOf(S)
    OBVIOUS
  <2>1. PICK u \in Bad : /\ u \subseteq S /\ IsFiniteSet(u)
                         /\ \A v \in SUBSET u : v # u => v \notin Bad /\ v \in FiniteSubsetsOf(S)
    <3> HIDE DEF Bad
    <3> QED BY <2>0, Smallest
  <2>2. CASE u = {}
    BY <2>1, <2>2, SumUnfolds
  <2>3. CASE u # {}
    <3>1. /\ SumFunctionOnSet(g, u \ {Picked(u)}) = SumFunctionOnSet(f, u \ {Picked(u)})
          /\ g[Picked(u)] = f[Picked(u)]
      BY <2>1, <2>3, PickedIn
    <3> QED BY <2>1, <2>3, <3>1, SumUnfolds
  <2> QED BY <2>2, <2>3
<1> QED BY <1>1 DEF FiniteSubsetsOf

\* One summand changes.
LEMMA SumChanged ==
  ASSUME NEW f, NEW g, NEW S, IsFiniteSet(S), NEW a \in S,
         \A x \in S : f[x] \in Int /\ g[x] \in Int /\ (x # a => g[x] = f[x])
  PROVE  SumFunctionOnSet(g, S) = SumFunctionOnSet(f, S) + g[a] - f[a]
<1>1. IsFiniteSet(S \ {a}) /\ SumFunctionOnSet(f, S \ {a}) \in Int
  BY FS_Subset, SumInt
<1>2. SumFunctionOnSet(g, S \ {a}) = SumFunctionOnSet(f, S \ {a})
  BY <1>1, SumSame
<1>3. /\ SumFunctionOnSet(f, S) = f[a] + SumFunctionOnSet(f, S \ {a})
      /\ SumFunctionOnSet(g, S) = g[a] + SumFunctionOnSet(g, S \ {a})
  BY SumWithout
<1> QED BY <1>1, <1>2, <1>3

\* Zeros may be left out.
LEMMA SumOfSome ==
  ASSUME NEW f, NEW S, IsFiniteSet(S), \A x \in S : f[x] \in Int,
         NEW T, T \subseteq S, \A x \in S \ T : f[x] = 0
  PROVE  SumFunctionOnSet(f, T) = SumFunctionOnSet(f, S)
<1> DEFINE Bad == {u \in FiniteSubsetsOf(S) : T \subseteq u /\ SumFunctionOnSet(f, u) # SumFunctionOnSet(f, T)}
<1>1. Bad = {}
  <2> SUFFICES ASSUME Bad # {} PROVE FALSE
    OBVIOUS
  <2>0. Bad \subseteq FiniteSubsetsOf(S)
    OBVIOUS
  <2>1. PICK u \in Bad : /\ u \subseteq S /\ IsFiniteSet(u)
                         /\ \A v \in SUBSET u : v # u => v \notin Bad /\ v \in FiniteSubsetsOf(S)
    <3>1. Bad # {}
      OBVIOUS
    <3> HIDE DEF Bad
    <3> QED BY ONLY <2>0, <3>1, Smallest
  <2>2. PICK b \in u : b \notin T
    <3>1. T \subseteq u /\ u # T
      BY <2>1
    <3> QED BY <3>1
  <2>3. SumFunctionOnSet(f, u \ {b}) = SumFunctionOnSet(f, T)
    BY <2>1, <2>2
  <2>4. SumFunctionOnSet(f, u) = 0 + SumFunctionOnSet(f, u \ {b})
    BY <2>1, <2>2, SumWithout
  <2>5. SumFunctionOnSet(f, T) \in Int
    BY FS_Subset, SumInt
  <2> QED BY <2>1, <2>3, <2>4, <2>5
<1> QED BY <1>1 DEF FiniteSubsetsOf

\* Sums are added term by term.
LEMMA SumPlus ==
  ASSUME NEW f, NEW g, NEW h, NEW S, IsFiniteSet(S),
         \A x \in S : f[x] \in Int /\ g[x] \in Int /\ h[x] = f[x] + g[x]
  PROVE  SumFunctionOnSet(h, S) = SumFunctionOnSet(f, S) + SumFunctionOnSet(g, S)
<1> DEFINE Bad == {u \in FiniteSubsetsOf(S) :
                     SumFunctionOnSet(h, u) # SumFunctionOnSet(f, u) + SumFunctionOnSet(g, u)}
<1>1. Bad = {}
  <2> SUFFICES ASSUME Bad # {} PROVE FALSE
    OBVIOUS
  <2>0. Bad \subseteq FiniteSubsetsOf(S)
    OBVIOUS
  <2>1. PICK u \in Bad : /\ u \subseteq S /\ IsFiniteSet(u)
                         /\ \A v \in SUBSET u : v # u => v \notin Bad /\ v \in FiniteSubsetsOf(S)
    <3> HIDE DEF Bad
    <3> QED BY <2>0, Smallest
  <2>2. CASE u = {}
    <3>1. \A k \in {f, g, h} : SumFunctionOnSet(k, u) = 0
      BY <2>1, <2>2, SumUnfolds
    <3> QED BY <2>1, <3>1
  <2>3. CASE u # {}
    <3> DEFINE v == u \ {Picked(u)}
    <3>1. /\ v \in SUBSET u /\ v # u /\ Picked(u) \in u /\ IsFiniteSet(v)
      BY <2>1, <2>3, PickedIn, FS_Subset
    <3>2. SumFunctionOnSet(h, v) = SumFunctionOnSet(f, v) + SumFunctionOnSet(g, v)
      BY <2>1, <3>1
    <3>3. SumFunctionOnSet(f, v) \in Int /\ SumFunctionOnSet(g, v) \in Int
      BY <2>1, <3>1, SumInt
    <3>4. \A k \in {f, g, h} : SumFunctionOnSet(k, u) = k[Picked(u)] + SumFunctionOnSet(k, v)
      BY <2>1, <2>3, SumUnfolds
    <3>5. /\ h[Picked(u)] = f[Picked(u)] + g[Picked(u)]
          /\ f[Picked(u)] \in Int /\ g[Picked(u)] \in Int
      BY <2>1, <3>1
    <3> HIDE DEF v
    <3> QED BY <2>1, <3>2, <3>3, <3>4, <3>5
  <2> QED BY <2>2, <2>3
<1> QED BY <1>1 DEF FiniteSubsetsOf

-----------------------------------------------------------------------------
(***************************************************************************)
(* Sums by groups, over parts and over images.                             *)
(***************************************************************************)
\* A finite set has a finite image.
LEMMA ImageFinite ==
  ASSUME NEW S, IsFiniteSet(S), NEW f
  PROVE  IsFiniteSet({f[x] : x \in S})
<1> DEFINE T == {f[x] : x \in S}
           h == [x \in S |-> f[x]]
<1>1. h \in Surjection(S, T)
  BY DEF Surjection
<1> QED BY <1>1, FS_Surjection

\* A sum of zeros is 0.
LEMMA SumZero ==
  ASSUME NEW f, NEW S, IsFiniteSet(S), \A x \in S : f[x] = 0
  PROVE  SumFunctionOnSet(f, S) = 0
<1>1. SumFunctionOnSet(f, {}) = 0
  BY SumUnfolds, FS_EmptySet
<1>2. \A x \in S : f[x] \in Int
  OBVIOUS
<1>3. SumFunctionOnSet(f, {}) = SumFunctionOnSet(f, S)
  BY <1>2, SumOfSome
<1> QED BY <1>1, <1>3

\* A sum over the groups of a set is the sum over the set.
GroupOf(S, key, k) == {x \in S : key[x] = k}
LEMMA Grouping ==
  ASSUME NEW S, IsFiniteSet(S), NEW f, \A x \in S : f[x] \in Int,
         NEW key, NEW K, IsFiniteSet(K), \A x \in S : key[x] \in K,
         NEW g, \A k \in K : g[k] = SumFunctionOnSet(f, GroupOf(S, key, k))
  PROVE  SumFunctionOnSet(g, K) = SumFunctionOnSet(f, S)
<1> DEFINE G(u) == [k \in K |-> SumFunctionOnSet(f, {x \in u : key[x] = k})]
           Bad == {u \in FiniteSubsetsOf(S) : SumFunctionOnSet(G(u), K) # SumFunctionOnSet(f, u)}
<1>1. \A u : u \subseteq S => \A k \in K : G(u)[k] \in Int /\ IsFiniteSet({x \in u : key[x] = k})
  <2> SUFFICES ASSUME NEW u, u \subseteq S, NEW k \in K
               PROVE  G(u)[k] \in Int /\ IsFiniteSet({x \in u : key[x] = k})
    OBVIOUS
  <2>1. PICK v : v = {x \in u : key[x] = k}
    OBVIOUS
  <2>2. v \subseteq S
    BY <2>1
  <2>3. IsFiniteSet(v) /\ \A x \in v : f[x] \in Int
    BY <2>2, FS_Subset
  <2>4. SumFunctionOnSet(f, v) \in Int
    BY <2>3, SumInt
  <2> QED BY <2>1, <2>3, <2>4
<1>2. Bad = {}
  <2> SUFFICES ASSUME Bad # {} PROVE FALSE
    OBVIOUS
  <2>0. Bad \subseteq FiniteSubsetsOf(S)
    OBVIOUS
  <2>1. PICK u \in Bad : /\ u \subseteq S /\ IsFiniteSet(u)
                         /\ \A v \in SUBSET u : v # u => v \notin Bad /\ v \in FiniteSubsetsOf(S)
    <3> HIDE DEF Bad
    <3> QED BY <2>0, Smallest
  <2>2. CASE u = {}
    <3>1. \A k \in K : {x \in u : key[x] = k} = {}
      BY <2>2
    <3>2. SumFunctionOnSet(f, {}) = 0
      BY SumUnfolds, FS_EmptySet
    <3>3. \A k \in K : G(u)[k] = 0
      BY <3>1, <3>2
    <3>4. SumFunctionOnSet(G(u), K) = 0
      <4> HIDE DEF G
      <4> QED BY <3>3, SumZero
    <3> QED BY <2>1, <2>2, <3>2, <3>4
  <2>3. CASE u # {}
    <3>1. PICK a \in u : TRUE
      BY <2>3
    <3>2. PICK v : v = u \ {a}
      OBVIOUS
    <3>3. SumFunctionOnSet(G(v), K) = SumFunctionOnSet(f, v)
      BY <2>1, <3>1, <3>2
    <3>4. SumFunctionOnSet(f, u) = f[a] + SumFunctionOnSet(f, v)
      <4>1. \A x \in u : f[x] \in Int
        BY <2>1
      <4> HIDE DEF Bad
      <4> QED BY <2>1, <3>1, <3>2, <4>1, SumWithout
    <3>5. PICK c \in K : c = key[a]
      BY <2>1, <3>1
    <3>6. \A k \in K : k # c => G(u)[k] = G(v)[k]
      <4> SUFFICES ASSUME NEW k \in K, k # c PROVE G(u)[k] = G(v)[k]
        OBVIOUS
      <4>1. {x \in u : key[x] = k} = {x \in v : key[x] = k}
        BY <3>2, <3>5
      <4> QED BY <4>1
    <3>7. G(u)[c] = f[a] + G(v)[c]
      <4>1. PICK w : w = {x \in u : key[x] = c}
        OBVIOUS
      <4>2. a \in w /\ w \ {a} = {x \in v : key[x] = c} /\ IsFiniteSet(w) /\ \A x \in w : f[x] \in Int
        BY <1>1, <2>1, <3>1, <3>2, <3>5, <4>1
      <4>3. SumFunctionOnSet(f, w) = f[a] + SumFunctionOnSet(f, w \ {a})
        BY <4>2, SumWithout
      <4> QED BY <4>1, <4>2, <4>3
    <3>8. \A k \in K : G(u)[k] \in Int /\ G(v)[k] \in Int
      BY <1>1, <2>1, <3>2
    <3>9. f[a] \in Int /\ SumFunctionOnSet(f, v) \in Int
      <4>1. v \subseteq S /\ IsFiniteSet(v) /\ \A x \in v : f[x] \in Int
        BY <2>1, <3>2, FS_Subset
      <4> QED BY <2>1, <3>1, <4>1, SumInt
    <3>10. PICK gu, gv : gu = G(u) /\ gv = G(v)
      OBVIOUS
    <3>11. SumFunctionOnSet(gu, K) = SumFunctionOnSet(gv, K) + gu[c] - gv[c]
      <4>1. \A k \in K : gv[k] \in Int /\ gu[k] \in Int /\ (k # c => gu[k] = gv[k])
        BY <3>6, <3>8, <3>10
      <4> QED BY <3>5, <4>1, SumChanged
    <3>12. SumFunctionOnSet(gu, K) = SumFunctionOnSet(f, v) + f[a]
      <4>1. gu[c] = f[a] + gv[c] /\ gv[c] \in Int /\ SumFunctionOnSet(gv, K) = SumFunctionOnSet(f, v)
        BY <3>3, <3>5, <3>7, <3>8, <3>10
      <4> QED BY <3>9, <3>11, <4>1
    <3> QED BY <2>1, <3>4, <3>9, <3>10, <3>12
  <2> QED BY <2>2, <2>3
<1>3. S \in FiniteSubsetsOf(S)
  BY DEF FiniteSubsetsOf
<1>4. SumFunctionOnSet(G(S), K) = SumFunctionOnSet(f, S)
  BY <1>2, <1>3
<1>5. SumFunctionOnSet(g, K) = SumFunctionOnSet(G(S), K)
  <2>1. PICK gs : gs = G(S)
    OBVIOUS
  <2>2. \A k \in K : gs[k] \in Int /\ g[k] = gs[k]
    BY <1>1, <2>1 DEF GroupOf
  <2>3. SumFunctionOnSet(g, K) = SumFunctionOnSet(gs, K)
    <3> HIDE DEF G, Bad
    <3> QED BY <2>2, SumSame
  <2> QED BY <2>1, <2>3
<1> QED BY <1>4, <1>5

\* Counting a set by groups.
LEMMA CountIsSum ==
  ASSUME NEW S, IsFiniteSet(S), NEW one, \A x \in S : one[x] = 1
  PROVE  SumFunctionOnSet(one, S) = Cardinality(S)
<1> DEFINE Bad == {u \in FiniteSubsetsOf(S) : SumFunctionOnSet(one, u) # Cardinality(u)}
<1>1. Bad = {}
  <2> SUFFICES ASSUME Bad # {} PROVE FALSE
    OBVIOUS
  <2>0. Bad \subseteq FiniteSubsetsOf(S)
    OBVIOUS
  <2>1. PICK u \in Bad : /\ u \subseteq S /\ IsFiniteSet(u)
                         /\ \A v \in SUBSET u : v # u => v \notin Bad /\ v \in FiniteSubsetsOf(S)
    <3> HIDE DEF Bad
    <3> QED BY <2>0, Smallest
  <2>2. SumFunctionOnSet(one, u) # Cardinality(u)
    OBVIOUS
  <2>3. CASE u = {}
    <3>1. SumFunctionOnSet(one, u) = 0
      BY <2>1, <2>3, SumUnfolds
    <3>2. Cardinality(u) = 0
      BY <2>3, FS_EmptySet
    <3> QED BY <2>2, <3>1, <3>2
  <2>4. CASE u # {}
    <3>1. PICK a \in u : TRUE
      BY <2>4
    <3>2. PICK v : v = u \ {a}
      OBVIOUS
    <3>3. IsFiniteSet(v) /\ Cardinality(v) = Cardinality(u) - 1 /\ Cardinality(u) \in Nat
      BY <2>1, <3>1, <3>2, FS_RemoveElement, FS_CardinalityType
    <3>4. SumFunctionOnSet(one, v) = Cardinality(v)
      BY <2>1, <3>1, <3>2
    <3>5. SumFunctionOnSet(one, u) = one[a] + SumFunctionOnSet(one, v)
      <4>1. \A x \in u : one[x] \in Int
        BY <2>1
      <4> HIDE DEF Bad
      <4> QED BY <2>1, <3>1, <3>2, <4>1, SumWithout
    <3>6. one[a] = 1
      BY <2>1, <3>1
    <3> QED BY <2>2, <3>3, <3>4, <3>5, <3>6
  <2> QED BY <2>3, <2>4
<1> QED BY <1>1 DEF FiniteSubsetsOf

\* A sum over disjoint parts.
LEMMA SumOfParts ==
  ASSUME NEW S, NEW T, IsFiniteSet(S), IsFiniteSet(T), S \cap T = {}, NEW f, \A x \in S \cup T : f[x] \in Int
  PROVE  SumFunctionOnSet(f, S \cup T) = SumFunctionOnSet(f, S) + SumFunctionOnSet(f, T)
<1> DEFINE U == S \cup T
           fs == [x \in U |-> IF x \in S THEN f[x] ELSE 0]
           ft == [x \in U |-> IF x \in T THEN f[x] ELSE 0]
<1>1. IsFiniteSet(U) /\ S \subseteq U /\ T \subseteq U
  BY FS_Union
<1>2. \A x \in U : fs[x] \in Int /\ ft[x] \in Int /\ f[x] = fs[x] + ft[x]
  OBVIOUS
<1>3. /\ \A x \in S : fs[x] = f[x]
      /\ \A x \in T : ft[x] = f[x]
      /\ \A x \in U \ S : fs[x] = 0
      /\ \A x \in U \ T : ft[x] = 0
  OBVIOUS
<1> HIDE DEF fs, ft
<1>4. SumFunctionOnSet(f, U) = SumFunctionOnSet(fs, U) + SumFunctionOnSet(ft, U)
  <2> HIDE DEF U
  <2> QED BY <1>1, <1>2, SumPlus
<1>5. SumFunctionOnSet(fs, S) = SumFunctionOnSet(fs, U) /\ SumFunctionOnSet(ft, T) = SumFunctionOnSet(ft, U)
  <2> HIDE DEF U
  <2>1. \A x \in U : fs[x] \in Int
    BY <1>2
  <2>2. \A x \in U : ft[x] \in Int
    BY <1>2
  <2> QED BY <1>1, <1>3, <2>1, <2>2, SumOfSome
<1>6. SumFunctionOnSet(fs, S) = SumFunctionOnSet(f, S)
  <2>1. \A x \in S : f[x] \in Int /\ fs[x] = f[x]
    BY <1>3
  <2> QED BY <2>1, SumSame
<1>7. SumFunctionOnSet(ft, T) = SumFunctionOnSet(f, T)
  <2>1. \A x \in T : f[x] \in Int /\ ft[x] = f[x]
    BY <1>3
  <2> QED BY <2>1, SumSame
<1> QED BY <1>4, <1>5, <1>6, <1>7

\* A sum over what a one-to-one function makes of a set.
LEMMA SumOfImage ==
  ASSUME NEW K, IsFiniteSet(K), NEW key, \A j, k \in K : key[j] = key[k] => j = k,
         NEW f, NEW h, \A k \in K : f[k] \in Int /\ h[key[k]] = f[k]
  PROVE  SumFunctionOnSet(h, {key[k] : k \in K}) = SumFunctionOnSet(f, K)
<1>1. PICK P : P = {key[k] : k \in K}
  OBVIOUS
<1>2. IsFiniteSet(P) /\ \A k \in K : key[k] \in P
  BY <1>1, ImageFinite
<1>3. \A p \in P : h[p] = SumFunctionOnSet(f, GroupOf(K, key, p))
  <2> SUFFICES ASSUME NEW p \in P PROVE h[p] = SumFunctionOnSet(f, GroupOf(K, key, p))
    OBVIOUS
  <2>1. PICK k \in K : p = key[k]
    BY <1>1
  <2>2. GroupOf(K, key, p) = {k}
    BY <2>1 DEF GroupOf
  <2>3. IsFiniteSet({k}) /\ {k} \ {k} = {} /\ \A x \in {k} : f[x] \in Int
    BY FS_Singleton
  <2>4. SumFunctionOnSet(f, {k}) = f[k] + SumFunctionOnSet(f, {})
    BY <2>3, SumWithout
  <2>5. SumFunctionOnSet(f, {}) = 0
    BY SumUnfolds, FS_EmptySet
  <2>6. SumFunctionOnSet(f, {k}) = f[k]
    BY <2>3, <2>4, <2>5
  <2> QED BY <2>1, <2>2, <2>6
<1>4. \A k \in K : f[k] \in Int
  OBVIOUS
<1>5. IsFiniteSet(P)
  BY <1>2
<1>6. \A k \in K : key[k] \in P
  BY <1>2
<1>7. SumFunctionOnSet(h, P) = SumFunctionOnSet(f, K)
  <2>1. IsFiniteSet(K)
    OBVIOUS
  <2> QED BY ONLY <2>1, <1>3, <1>4, <1>5, <1>6, Grouping
<1> QED BY <1>1, <1>7

\* A sum over the pairs of a function.
PairsOf(K, r) == {<<k, r[k]>> : k \in K}
LEMMA SumOfPairs ==
  ASSUME NEW K, IsFiniteSet(K), NEW r, NEW f, NEW h,
         \A k \in K : f[k] \in Int /\ h[<<k, r[k]>>] = f[k]
  PROVE  SumFunctionOnSet(h, PairsOf(K, r)) = SumFunctionOnSet(f, K)
<1>1. PICK key : key = [k \in K |-> <<k, r[k]>>]
  OBVIOUS
<1>2. \A j, k \in K : key[j] = key[k] => j = k
  BY <1>1
<1>3. \A k \in K : f[k] \in Int /\ h[key[k]] = f[k]
  BY <1>1
<1>4. IsFiniteSet(K)
  OBVIOUS
<1>5. SumFunctionOnSet(h, {key[k] : k \in K}) = SumFunctionOnSet(f, K)
  BY ONLY <1>2, <1>3, <1>4, SumOfImage
<1>6. {key[k] : k \in K} = PairsOf(K, r)
  BY <1>1 DEF PairsOf
<1> QED BY <1>5, <1>6

-----------------------------------------------------------------------------
(***************************************************************************)
(* The amounts and weights of lines and bills are naturals.                *)
(***************************************************************************)
\* The larger of two.
LEMMA MaxOfTwo ==
  ASSUME NEW a \in Int, NEW b \in Int
  PROVE  Max({a, b}) = IF a >= b THEN a ELSE b
<1> DEFINE m == IF a >= b THEN a ELSE b
<1>1. m \in {a, b} /\ \A y \in {a, b} : m >= y
  OBVIOUS
<1>2. \A x \in {a, b} : (\A y \in {a, b} : x >= y) => x = m
  OBVIOUS
<1> HIDE DEF m
<1>3. Max({a, b}) = m
  BY <1>1, <1>2 DEF Max
<1> QED BY <1>3 DEF m

\* The smaller of two.
LEMMA MinOfTwo ==
  ASSUME NEW a \in Int, NEW b \in Int
  PROVE  Min({a, b}) = IF a <= b THEN a ELSE b
<1> DEFINE m == IF a <= b THEN a ELSE b
<1>1. m \in {a, b} /\ \A y \in {a, b} : m <= y
  OBVIOUS
<1>2. \A x \in {a, b} : (\A y \in {a, b} : x <= y) => x = m
  OBVIOUS
<1> HIDE DEF m
<1>3. Min({a, b}) = m
  BY <1>1, <1>2 DEF Min
<1> QED BY <1>3 DEF m

\* What is not given counts as 0.
LEMMA GivenNat ==
  ASSUME NEW x \in Optional
  PROVE  Given(x) \in Nat
BY DEF Given, Optional

\* What is clamped is between its bounds.
LEMMA ClampedIn ==
  ASSUME NEW x \in Nat, NEW h \in Nat
  PROVE  Clamped(x, 0, h) \in 0 .. h
<1>1. Min({x, h}) = IF x <= h THEN x ELSE h
  BY MinOfTwo
<1>2. Min({x, h}) \in 0 .. h
  BY <1>1
<1>3. Max({0, Min({x, h})}) = IF 0 >= Min({x, h}) THEN 0 ELSE Min({x, h})
  BY <1>2, MaxOfTwo
<1> QED BY <1>2, <1>3 DEF Clamped

\* Products and quotients of naturals are naturals.
LEMMA NatArith ==
  /\ \A a, b \in Nat : a * b \in Nat
  /\ \A a, b \in Nat : b > 0 => a \div b \in Nat
<1>1. \A a, b \in Nat : a * b \in Nat
  OBVIOUS
<1>2. \A a, b \in Nat : b > 0 => a \div b \in Nat
  OBVIOUS
<1> QED BY <1>1, <1>2

\* The amounts and the weight of a line are naturals, also as it is stored.
LEMMA LineNats ==
  ASSUME NEW l \in BillLine
  PROVE  /\ Gross(l) \in Nat /\ Charges(l) \in Nat /\ Money(l) \in Nat /\ LineKg(l) \in Nat
         /\ Stripped(l) \in BillLine
<1>1. /\ l.qty \in Nat /\ l.rate \in Nat /\ l.kgPer \in Optional /\ l.perKg \in Optional
      /\ l.discount \in Optional /\ l.tax \in Optional /\ l.delivered \in Optional
      /\ l.freight \in Optional /\ l.named \in Optional
  BY DEF BillLine
<1>2. Gross(l) \in Nat
  <2>1. WeightPriced(l) => l.kgPer \in Nat /\ l.perKg \in Nat
    BY <1>1 DEF WeightPriced, Given, Optional
  <2>2. WeightPriced(l) => l.kgPer * l.perKg \in Nat
    BY <2>1, NatArith
  <2>3. PICK rate \in Nat : rate = IF WeightPriced(l) THEN l.kgPer * l.perKg ELSE l.rate
    BY <1>1, <2>2
  <2> QED BY <1>1, <2>3, NatArith DEF Gross
<1>3. Charges(l) \in Nat
  BY <1>1, GivenNat DEF Charges
<1>4. Money(l) \in Nat
  <2>1. Given(l.discount) \in Nat /\ Given(l.tax) \in Nat
    BY <1>1, GivenNat
  <2>2. PICK off \in 0 .. 100 : off = Clamped(Given(l.discount), 0, 100)
    BY <2>1, ClampedIn
  <2>3. PICK tax \in 0 .. 1000 : tax = Clamped(Given(l.tax), 0, 1000)
    BY <2>1, ClampedIn
  <2>4. PICK gross \in Nat : gross = Gross(l)
    BY <1>2
  <2>5. 100 - off \in Nat /\ 100 + tax \in Nat
    OBVIOUS
  <2>6. gross * (100 - off) \in Nat
    BY <2>5, NatArith
  <2>7. gross * (100 - off) * (100 + tax) \in Nat
    BY <2>5, <2>6, NatArith
  <2>8. (gross * (100 - off) * (100 + tax)) \div 10000 \in Nat
    <3>1. PICK a \in Nat : a = gross * (100 - off) * (100 + tax)
      BY <2>7
    <3>2. a \div 10000 \in Nat
      OBVIOUS
    <3> QED BY <3>1, <3>2
  <2> QED BY <2>2, <2>3, <2>4, <2>8 DEF Money
<1>5. LineKg(l) \in Nat
  <2>1. PICK kg \in Nat : kg = IF Given(l.kgPer) > 0 THEN l.kgPer ELSE Given(l.named)
    BY <1>1, GivenNat DEF Given, Optional
  <2>2. l.qty * kg \in Nat /\ l.qty * Given(l.kgPer) \in Nat
    BY <1>1, GivenNat, NatArith
  <2> QED BY <1>1, <2>1, <2>2 DEF LineKg
<1>6. Stripped(l) \in BillLine
  BY DEF Stripped, BillLine, Optional
<1> QED BY <1>2, <1>3, <1>4, <1>5, <1>6

\* A sum of naturals is a natural.
LEMMA SumNat ==
  ASSUME NEW f, NEW S, IsFiniteSet(S), \A x \in S : f[x] \in Nat
  PROVE  SumFunctionOnSet(f, S) \in Nat
<1> DEFINE Bad == {u \in FiniteSubsetsOf(S) : SumFunctionOnSet(f, u) \notin Nat}
<1>1. Bad = {}
  <2> SUFFICES ASSUME Bad # {} PROVE FALSE
    OBVIOUS
  <2>0. Bad \subseteq FiniteSubsetsOf(S)
    OBVIOUS
  <2>1. PICK u \in Bad : /\ u \subseteq S /\ IsFiniteSet(u)
                         /\ \A v \in SUBSET u : v # u => v \notin Bad /\ v \in FiniteSubsetsOf(S)
    <3> HIDE DEF Bad
    <3> QED BY <2>0, Smallest
  <2>2. CASE u = {}
    <3>1. SumFunctionOnSet(f, u) = 0
      BY <2>1, <2>2, SumUnfolds
    <3> QED BY <2>1, <3>1
  <2>3. CASE u # {}
    <3>1. SumFunctionOnSet(f, u \ {Picked(u)}) \in Nat /\ f[Picked(u)] \in Nat
      BY <2>1, <2>3, PickedIn
    <3>2. SumFunctionOnSet(f, u) = f[Picked(u)] + SumFunctionOnSet(f, u \ {Picked(u)})
      BY <2>1, <2>3, SumUnfolds
    <3> QED BY <3>1, <3>2
  <2> QED BY <2>2, <2>3
<1> QED BY <1>1 DEF FiniteSubsetsOf

\* The same of a function.
LEMMA SumOverNat ==
  ASSUME NEW S, IsFiniteSet(S), NEW f \in [S -> Nat]
  PROVE  SumFunction(f) \in Nat
BY SumNat DEF SumFunction

\* What is added over the lines of a bill is a natural.
LEMMA BillSums ==
  ASSUME NEW b \in AnyBill
  PROVE  /\ LineSum(LAMBDA l : Money(l) + Charges(l), b) \in Nat
         /\ LineSum(LineKg, b) \in Nat
         /\ \A units : QtyOf(b, units) \in Nat
<1>1. b.lines \in Seq(BillLine)
  BY DEF AnyBill
<1>2. /\ IsFiniteSet(DOMAIN b.lines) /\ \A k \in DOMAIN b.lines : b.lines[k] \in BillLine
  <2>1. 1 \in Int /\ Len(b.lines) \in Int /\ DOMAIN b.lines = 1 .. Len(b.lines)
    BY <1>1
  <2>2. IsFiniteSet(1 .. Len(b.lines))
    BY <2>1, FS_Interval
  <2> QED BY <1>1, <2>1, <2>2
<1>3. LineSum(LAMBDA l : Money(l) + Charges(l), b) \in Nat
  <2>1. [k \in DOMAIN b.lines |-> Money(b.lines[k]) + Charges(b.lines[k])] \in [DOMAIN b.lines -> Nat]
    BY <1>2, LineNats
  <2> QED BY <1>2, <2>1, SumOverNat DEF LineSum, Sum
<1>4. LineSum(LineKg, b) \in Nat
  <2>1. [k \in DOMAIN b.lines |-> LineKg(b.lines[k])] \in [DOMAIN b.lines -> Nat]
    BY <1>2, LineNats
  <2> QED BY <1>2, <2>1, SumOverNat DEF LineSum, Sum
<1>5. ASSUME NEW units PROVE QtyOf(b, units) \in Nat
  <2>1. [k \in DOMAIN b.lines |-> IF b.lines[k].unit \in units THEN b.lines[k].qty ELSE 0] \in [DOMAIN b.lines -> Nat]
    BY <1>2 DEF BillLine
  <2> QED BY <1>2, <2>1, SumOverNat DEF QtyOf, LineSum, Sum
<1> QED BY <1>3, <1>4, <1>5

\* The total of a bill is a natural.
LEMMA TotalNat ==
  ASSUME NEW b \in AnyBill
  PROVE  Total(b) \in Nat
<1>1. /\ b.discount \in Optional /\ b.freight \in Optional /\ b.billty \in Optional
      /\ b.delivered \in Optional /\ b.commission \in Optional
  BY DEF AnyBill
<1>2. PICK lines \in Nat : lines = LineSum(LAMBDA l : Money(l) + Charges(l), b)
  BY BillSums
<1>3. PICK off \in 0 .. 100 : off = Clamped(Given(b.discount), 0, 100)
  BY <1>1, GivenNat, ClampedIn
<1>4. PICK amount \in Nat : amount = (lines * (100 - off)) \div 100
  <2>1. lines * (100 - off) \in Nat
    <3>1. 100 - off \in Nat
      OBVIOUS
    <3> QED BY <3>1, NatArith
  <2>2. \A a \in Nat : a \div 100 \in Nat
    OBVIOUS
  <2> QED BY <2>1, <2>2
<1>5. Commission(b, amount) \in Nat
  <2>1. PICK rate \in Nat : rate = Max({0, Given(b.commission)})
    <3>1. PICK c \in Nat : c = Given(b.commission)
      BY <1>1, GivenNat
    <3>2. Max({0, c}) \in Nat
      BY MaxOfTwo
    <3> QED BY <3>1, <3>2
  <2>2. /\ rate * LineSum(LineKg, b) \in Nat /\ \A units : rate * QtyOf(b, units) \in Nat
    BY BillSums, NatArith
  <2>3. (amount * Min({rate, 100})) \div 100 \in Nat
    <3>1. Min({rate, 100}) \in Nat
      BY MinOfTwo
    <3>2. amount * Min({rate, 100}) \in Nat
      BY <3>1, NatArith
    <3>3. \A a \in Nat : a \div 100 \in Nat
      OBVIOUS
    <3> QED BY <3>2, <3>3
  <2> QED BY <2>1, <2>2, <2>3 DEF Commission
<1>6. PICK header \in Nat : header = (IF b.included THEN 0 ELSE Given(b.freight)) + Given(b.billty) + Given(b.delivered)
  <2>1. Given(b.freight) \in Nat /\ Given(b.billty) \in Nat /\ Given(b.delivered) \in Nat
    BY <1>1, GivenNat
  <2> QED BY <2>1
<1>7. Total(b) = amount + Commission(b, amount) + (IF ItemCharges(b) THEN 0 ELSE header)
  <2> DEFINE L == LineSum(LAMBDA l : Money(l) + Charges(l), b)
             A == (L * (100 - Clamped(Given(b.discount), 0, 100))) \div 100
  <2>1. A = amount
    BY <1>2, <1>3, <1>4
  <2>2. Total(b) = A + Commission(b, A)
                     + (IF ItemCharges(b) THEN 0
                        ELSE (IF b.included THEN 0 ELSE Given(b.freight)) + Given(b.billty) + Given(b.delivered))
    BY DEF Total
  <2> HIDE DEF A
  <2> QED BY <1>6, <2>1, <2>2
<1> QED BY <1>5, <1>7

(***************************************************************************)
(* The invariant.                                                          *)
(***************************************************************************)
Statuses == {"draft", "saved", "confirmed", "paid", "partially_paid", "overdue", "due_soon",
             "active", "approved", "ordered", "supplier_confirmed", "in_transit", "arrived",
             "verification_pending", "verified", "added_to_stock", "completed", "cancelled", "deleted"}
Deal == [status : Statuses, delivered : BOOLEAN, delivery : Deliveries, bill : DOMAIN Bills,
         touched : BOOLEAN, total : Nat, paid : Nat, due : Optional, day : 1 .. LastDay]

ReportsTyped ==
  /\ po \in [1 .. N -> Deal \cup {None}]
  /\ items \in [Items -> [cat : Cats, type : Types \cup {None}, live : BOOLEAN]]
  /\ generation \in Nat /\ today \in Nat

\* The header carries the total of its bill, and nobody has paid more.
PaidUp == \A n \in Recorded : po[n].total = BillTotal[po[n].bill] /\ po[n].paid <= po[n].total

\* Until a payment puts the lifecycle back, delivered means committed to stock.
DeliveredOnce ==
  \A n \in Recorded :
    /\ po[n].delivery = "cancelled" => po[n].status \in {"cancelled", "deleted"}
    /\ ~po[n].touched =>
         /\ po[n].delivered <=> po[n].delivery = "stock_committed"
         /\ po[n].delivered => po[n].status \in {"added_to_stock", "completed", "cancelled", "deleted"}

\* What is kept of this generation is what would be computed now.
KeptFresh ==
  kept # None =>
    /\ kept.gen \in Nat /\ kept.gen <= generation
    /\ kept.gen = generation => Figured(kept.body) = Figured(Snapshot(kept.period[1], kept.period[2]))

ReportsInv == ReportsTyped /\ PaidUp /\ DeliveredOnce /\ KeptFresh

\* The same of the bills of the model.
LEMMA BillNats == \A b \in DOMAIN Bills : BillTotal[b] \in Nat /\ Bills[b] \in AnyBill
BY TotalNat, ReportsAssumption DEF BillTotal

\* A purchase as it is recorded, with the total of its bill.
LEMMA FreshPurchase ==
  ASSUME NEW b \in DOMAIN Bills, NEW st \in Statuses, NEW day \in 1 .. LastDay
  PROVE  Purchase(b, st, day) \in Deal /\ Purchase(b, st, day).total = BillTotal[b]
<1>1. DueAfter(day, Bills[b].days) \in Optional
  <2>1. Bills[b].days \in Optional
    BY BillNats DEF AnyBill
  <2>2. day \in Nat
    BY ReportsAssumption
  <2> QED BY <2>1, <2>2 DEF DueAfter, Optional
<1> QED BY <1>1, BillNats DEF Purchase, Deal, Deliveries

\* Figures depend on purchases and items, not on the names of categories.
LEMMA SnapshotSame ==
  ASSUME UNCHANGED <<po, items>>, NEW from, NEW to
  PROVE  Figured(Snapshot(from, to))' = Figured(Snapshot(from, to))
<1> DEFINE X == Lines(InPeriod(from, to))
<1>1. X' = X
  BY DEF Recorded, Lines, InPeriod, Reported, Bill
<1>2. Summary(from, to, None)' = Summary(from, to, None)
  BY DEF Summary, Figures, ItemOf, RowOf, BillOf, Bill, SupplierOf, Added, Sum, Recorded, InPeriod, Reported, Lines
<1>3. SnapshotProfit(from, to)' = SnapshotProfit(from, to)
  BY DEF SnapshotProfit, RowOf, Bill, Added, Sum, Recorded, InPeriod, Reported, Lines
<1>4. Cardinality(Undelivered)' = Cardinality(Undelivered) /\ Cardinality(ReceivedIn(from, to))' = Cardinality(ReceivedIn(from, to))
  BY DEF Undelivered, ReceivedIn, InPeriod, Reported, Recorded
<1>5. ({SupplierOf(x) : x \in X} \ {None})' = {SupplierOf(x) : x \in X} \ {None}
  BY <1>1 DEF SupplierOf, BillOf, Bill
<1>6. Grouped(X, CatOf)' = Grouped(X, CatOf)
  BY <1>1 DEF Grouped, Figures, CatOf, ItemOf, RowOf, Added, Sum
<1>7. Pipeline' = Pipeline
  BY DEF Pipeline, Recorded, Sum
<1>8. PICK now, then : now = Snapshot(from, to)' /\ then = Snapshot(from, to)
  OBVIOUS
<1> DEFINE Fields == {"figures", "profit", "pending", "received", "suppliers", "cats", "pipeline"}
<1>9. DOMAIN now = Fields \cup {"names"} /\ DOMAIN then = Fields \cup {"names"}
  BY <1>8 DEF Snapshot
<1>10. /\ now.figures = then.figures /\ now.profit = then.profit /\ now.pending = then.pending
       /\ now.received = then.received /\ now.suppliers = then.suppliers /\ now.cats = then.cats
       /\ now.pipeline = then.pipeline
  <2> HIDE DEF X
  <2> QED BY <1>2, <1>3, <1>4, <1>5, <1>6, <1>7, <1>8 DEF Snapshot, X
<1>11. \A f \in Fields : now[f] = then[f]
  BY <1>10
<1>12. Figured(now) = Figured(then)
  BY <1>9, <1>11 DEF Figured
<1> QED BY <1>8, <1>12 DEF Figured

\* What is kept is not of the next generation.
LEMMA KeptBehind ==
  ASSUME ReportsInv, generation' = generation + 1, UNCHANGED kept
  PROVE  KeptFresh' /\ generation' \in Nat
<1>1. generation \in Nat /\ generation' \in Nat /\ (kept # None => kept.gen \in Nat /\ kept.gen <= generation)
  BY DEF ReportsInv, ReportsTyped, KeptFresh
<1>2. kept' # None => kept'.gen \in Nat /\ kept'.gen <= generation' /\ kept'.gen # generation'
  BY <1>1
<1> QED BY <1>1, <1>2 DEF KeptFresh

\* A request about one purchase.
LEMMA DealKeeps ==
  ASSUME ReportsInv, NEW n \in 1 .. N, NEW q \in Deal, po' = [po EXCEPT ![n] = q],
         generation' = generation + 1, UNCHANGED <<items, kept, today>>,
         q.total = BillTotal[q.bill] /\ q.paid <= q.total,
         q.delivery = "cancelled" => q.status \in {"cancelled", "deleted"},
         ~q.touched =>
           /\ q.delivered <=> q.delivery = "stock_committed"
           /\ q.delivered => q.status \in {"added_to_stock", "completed", "cancelled", "deleted"}
  PROVE  ReportsInv'
<1>1. ReportsTyped /\ PaidUp /\ DeliveredOnce
  BY DEF ReportsInv
<1>2. /\ po'[n] = q /\ \A m \in (1 .. N) \ {n} : po'[m] = po[m]
      /\ Recorded' \subseteq Recorded \cup {n} /\ Recorded \subseteq 1 .. N
  BY <1>1 DEF ReportsTyped, Recorded
<1>3. ReportsTyped'
  BY <1>1, KeptBehind DEF ReportsTyped
<1>4. PaidUp'
  BY <1>1, <1>2 DEF PaidUp
<1>5. DeliveredOnce'
  BY <1>1, <1>2 DEF DeliveredOnce
<1> QED BY <1>3, <1>4, <1>5, KeptBehind DEF ReportsInv

\* Every recorded purchase is one, and nobody has paid more than its total.
LEMMA DealTyped ==
  ASSUME ReportsInv, NEW n \in Recorded
  PROVE  /\ po[n] \in Deal /\ n \in 1 .. N
         /\ po[n].total = BillTotal[po[n].bill] /\ po[n].paid <= po[n].total
         /\ po[n].delivery = "cancelled" => po[n].status \in {"cancelled", "deleted"}
         /\ ~po[n].touched =>
              /\ po[n].delivered <=> po[n].delivery = "stock_committed"
              /\ po[n].delivered => po[n].status \in {"added_to_stock", "completed", "cancelled", "deleted"}
BY DEF ReportsInv, ReportsTyped, PaidUp, DeliveredOnce, Recorded

\* A payment leaves a status of the list.
LEMMA StatusString ==
  ASSUME NEW s \in Statuses, NEW t, NEW p, NEW d, NEW u, NEW v
  PROVE  ComputeStatus(s, t, p, d, u, v) \in Statuses
<1> DEFINE a == t <= 0
           b == t > 0 /\ p >= t
           c == t > Max({p, 0}) /\ d # None /\ u > d
           e == t > Max({p, 0}) /\ d # None /\ d - u \in 0 .. v
           f == p > 0
           S == {s, "confirmed", "paid", "overdue", "due_soon", "partially_paid"}
<1>1. ComputeStatus(s, t, p, d, u, v) =
        IF s \in {"cancelled", "deleted", "draft"} THEN s ELSE
        CASE a -> IF s \in {"saved", "paid", "partially_paid", "overdue"} THEN s ELSE "confirmed"
          [] b -> "paid"
          [] c -> "overdue"
          [] e -> "due_soon"
          [] OTHER -> IF f THEN "partially_paid"
                      ELSE IF s \in {"saved", "partially_paid", "paid", "overdue", "due_soon"} THEN s
                      ELSE "confirmed"
  BY DEF ComputeStatus
<1> HIDE DEF a, b, c, e, f
<1>2. ComputeStatus(s, t, p, d, u, v) \in S
  BY <1>1
<1>3. \A x \in S : x \in Statuses
  BY DEF Statuses
<1> QED BY <1>2, <1>3

\* Recording a purchase keeps the invariant.
LEMMA SaveKeeps ==
  ASSUME ReportsInv, NEW n \in 1 .. N, NEW b \in DOMAIN Bills, NEW st \in {"draft", "saved", "confirmed"},
         NEW day \in 1 .. LastDay, Save(n, b, st, day)
  PROVE  ReportsInv'
<1>1. PICK q : q = Purchase(b, st, day)
  OBVIOUS
<1>2. st \in Statuses
  BY DEF Statuses
<1>3. q \in Deal /\ q.total = BillTotal[b]
  BY <1>1, <1>2, FreshPurchase
<1>4. /\ q.bill = b /\ q.paid = 0 /\ q.total \in Nat /\ q.delivery = "pending" /\ ~q.delivered
  BY <1>1, <1>3, BillNats DEF Purchase
<1>5. po' = [po EXCEPT ![n] = q] /\ generation' = generation + 1 /\ UNCHANGED <<items, kept, today>>
  BY <1>1 DEF Save, Renew
<1>6. /\ q.total = BillTotal[q.bill] /\ q.paid <= q.total
      /\ q.delivery # "cancelled" /\ q.delivery # "stock_committed" /\ ~q.delivered
  BY <1>3, <1>4
<1> QED BY <1>3, <1>5, <1>6, DealKeeps

\* Rewriting a purchase keeps the invariant: what was paid is cut to the new total.
LEMMA UpdateKeeps ==
  ASSUME ReportsInv, NEW n \in 1 .. N, NEW b \in DOMAIN Bills, NEW st \in {"draft", "saved", "confirmed"},
         NEW day \in 1 .. LastDay, Update(n, b, st, day)
  PROVE  ReportsInv'
<1>1. PICK p, paid : p = Purchase(b, st, day) /\ paid = PaidAfter(n, b)
  OBVIOUS
<1>2. /\ n \in Recorded /\ po[n].status \notin {"deleted", "cancelled"} /\ po[n].delivery # "stock_committed"
      /\ generation' = generation + 1 /\ UNCHANGED <<items, kept, today>>
  BY DEF Update, Renew
<1>3. po[n] \in Deal /\ st \in Statuses
  BY <1>2, DealTyped DEF Statuses
<1>4. p \in Deal /\ p.total = BillTotal[b] /\ p.total \in Nat /\ p.bill = b /\ p.status = st
  BY <1>1, <1>3, FreshPurchase, BillNats DEF Purchase
<1>5. paid \in Nat /\ paid <= BillTotal[b]
  <2>1. PICK x \in Nat, y \in Nat : x = po[n].paid /\ y = BillTotal[b]
    BY <1>3, BillNats DEF Deal
  <2>2. Min({x, y}) = IF x <= y THEN x ELSE y
    BY MinOfTwo
  <2> QED BY <1>1, <2>1, <2>2 DEF PaidAfter
<1>6. PICK q : q = [p EXCEPT !.paid = paid, !.delivery = po[n].delivery, !.delivered = po[n].delivered,
                             !.touched = po[n].touched]
  OBVIOUS
<1>7. /\ q \in Deal /\ q.total = BillTotal[q.bill] /\ q.paid <= q.total
      /\ q.delivery = po[n].delivery /\ q.delivered = po[n].delivered /\ q.touched = po[n].touched
  BY <1>3, <1>4, <1>5, <1>6 DEF Deal
<1>8. po' = [po EXCEPT ![n] = q]
  BY <1>1, <1>6 DEF Update
<1> QED BY <1>2, <1>7, <1>8, DealTyped, DealKeeps

\* A payment is neither negative nor more than the total.
LEMMA PayKeeps ==
  ASSUME ReportsInv, NEW n \in 1 .. N, NEW x \in Payments \cup {None}, Pay(n, x)
  PROVE  ReportsInv'
<1>1. PICK paid : paid = Min({Max({First(x, po[n].total), 0}), po[n].total})
  OBVIOUS
<1>2. PICK st : st = ComputeStatus(po[n].status, po[n].total, paid, po[n].due, today, SoonDays)
  OBVIOUS
<1>3. /\ n \in Recorded /\ po[n].status \notin {"deleted", "cancelled", "draft"}
      /\ generation' = generation + 1 /\ UNCHANGED <<items, kept, today>>
      /\ po' = [po EXCEPT ![n].paid = paid, ![n].touched = TRUE, ![n].status = st]
  <2>1. n \in Recorded /\ po[n].status \notin {"deleted", "cancelled", "draft"}
    BY DEF Pay
  <2>2. generation' = generation + 1 /\ UNCHANGED <<items, kept, today>>
    BY DEF Pay, Renew
  <2>3. po' = [po EXCEPT ![n].paid = paid, ![n].touched = TRUE, ![n].status = st]
    BY <1>1, <1>2 DEF Pay
  <2> QED BY <2>1, <2>2, <2>3
<1>4. po[n] \in Deal /\ po[n].total \in Nat
  BY <1>3, DealTyped DEF Deal
<1>5. paid \in Nat /\ paid <= po[n].total
  <2>5. Payments \subseteq Int
    BY ReportsAssumption
  <2>6. x # None => x \in Int
    BY <2>5
  <2>1. PICK y \in Int : y = First(x, po[n].total)
    BY ONLY <1>4, <2>6 DEF First
  <2>2. PICK z \in Nat : z = Max({y, 0})
    BY MaxOfTwo
  <2>3. PICK t \in Nat : t = po[n].total
    BY <1>4
  <2>4. Min({z, t}) = IF z <= t THEN z ELSE t
    BY MinOfTwo
  <2> QED BY <1>1, <2>1, <2>2, <2>3, <2>4
<1>6. st \in Statuses
  <2>1. po[n].status \in Statuses
    BY <1>4 DEF Deal
  <2> QED BY <1>2, <2>1, StatusString
<1>7. PICK q : q = [po[n] EXCEPT !.paid = paid, !.touched = TRUE, !.status = st]
  OBVIOUS
<1>8. /\ q \in Deal /\ q.total = po[n].total /\ q.bill = po[n].bill /\ q.paid = paid
      /\ q.delivery = po[n].delivery /\ q.touched
  BY <1>4, <1>5, <1>6, <1>7 DEF Deal
<1>9. po' = [po EXCEPT ![n] = q]
  BY <1>3, <1>4, <1>7 DEF Deal, ReportsInv, ReportsTyped
<1>10. /\ q.total = BillTotal[q.bill] /\ q.paid <= q.total
       /\ q.delivery # "cancelled"
  BY <1>3, <1>5, <1>8, DealTyped
<1> QED BY <1>3, <1>8, <1>9, <1>10, DealKeeps

\* Where the lifecycle goes: to a status of the list, never to the stock.
LEMMA AllowedSteps ==
  ASSUME NEW x, NEW y \in Allowed(x)
  PROVE  /\ x \in Lifecycle
         /\ y = "cancelled" \/ <<x, y>> \in Follows
<1>1. CASE \E g \in {f \in Follows : f[1] = x} : y = g[2]
  <2>1. PICK g \in Follows : g[1] = x /\ y = g[2]
    BY <1>1
  <2>2. g = <<x, y>>
    BY <2>1 DEF Follows
  <2> QED BY <2>1, <2>2 DEF Lifecycle
<1>2. CASE y \in IF x \in Lifecycle THEN {"cancelled"} ELSE {}
  BY <1>2
<1> QED BY <1>1, <1>2 DEF Allowed

\* Goods that are in the stock are only completed or cancelled.
LEMMA TransitionKeeps ==
  ASSUME ReportsInv, NEW n \in 1 .. N, NEW st, Transition(n, st)
  PROVE  ReportsInv'
<1>1. /\ n \in Recorded /\ st \in Allowed(Normalized(po[n].status)) /\ st # "added_to_stock"
      /\ generation' = generation + 1 /\ UNCHANGED <<items, kept, today>>
      /\ po' = [po EXCEPT ![n].status = st, ![n].delivery = DeliveryAt(n, st)]
  BY DEF Transition, Renew
<1>2. PICK x : x = Normalized(po[n].status)
  OBVIOUS
<1>3. x \in Lifecycle /\ (st = "cancelled" \/ <<x, st>> \in Follows)
  BY <1>1, <1>2, AllowedSteps
<1>4. /\ po[n] \in Deal /\ po[n].total = BillTotal[po[n].bill] /\ po[n].paid <= po[n].total
      /\ po[n].delivery = "cancelled" => po[n].status \in {"cancelled", "deleted"}
      /\ ~po[n].touched =>
              /\ po[n].delivered <=> po[n].delivery = "stock_committed"
              /\ po[n].delivered => po[n].status \in {"added_to_stock", "completed", "cancelled", "deleted"}
  BY <1>1, DealTyped
<1>5. x \notin {"cancelled", "deleted", "completed"}
  BY <1>3 DEF Lifecycle, Follows
<1>6. /\ po[n].status \notin {"cancelled", "deleted", "completed"}
      /\ po[n].status = "added_to_stock" => x = "added_to_stock"
  BY <1>2, <1>5 DEF Normalized
<1>7. st \in Statuses /\ (x = "added_to_stock" => st \in {"completed", "cancelled"})
  BY <1>3 DEF Follows, Statuses
<1>8. PICK d : d = DeliveryAt(n, st)
  OBVIOUS
<1>9. /\ d \in Deliveries /\ d # "cancelled"
      /\ d = "stock_committed" <=> (po[n].delivery = "stock_committed" /\ d = po[n].delivery)
      /\ st \in {"completed", "cancelled"} => d = po[n].delivery
  <2>1. po[n].delivery \in Deliveries /\ po[n].delivery # "cancelled"
    BY <1>4, <1>6 DEF Deal
  <2> QED BY <1>8, <2>1 DEF DeliveryAt, Deliveries
<1>10. PICK q : q = [po[n] EXCEPT !.status = st, !.delivery = d]
  OBVIOUS
<1>11. /\ q \in Deal /\ q.total = po[n].total /\ q.bill = po[n].bill /\ q.paid = po[n].paid
       /\ q.delivery = d /\ q.touched = po[n].touched /\ q.delivered = po[n].delivered /\ q.status = st
  BY <1>4, <1>7, <1>9, <1>10 DEF Deal
<1>12. po' = [po EXCEPT ![n] = q]
  BY <1>1, <1>8, <1>10, <1>4 DEF Deal, ReportsInv, ReportsTyped
<1>13. ~q.touched =>
           /\ q.delivered <=> q.delivery = "stock_committed"
           /\ q.delivered => q.status \in {"added_to_stock", "completed", "cancelled", "deleted"}
  <2> SUFFICES ASSUME ~q.touched
               PROVE  /\ q.delivered <=> q.delivery = "stock_committed"
                      /\ q.delivered => q.status \in {"added_to_stock", "completed", "cancelled", "deleted"}
    OBVIOUS
  <2>1. CASE q.delivered
    <3>1. po[n].delivered /\ po[n].delivery = "stock_committed" /\ po[n].status = "added_to_stock"
      BY <1>4, <1>6, <1>11, <2>1
    <3>2. st \in {"completed", "cancelled"}
      BY <3>1, <1>6, <1>7
    <3> QED BY <3>1, <3>2, <1>9, <1>11, <2>1
  <2>2. CASE ~q.delivered
    BY <1>4, <1>9, <1>11, <2>2
  <2> QED BY <2>1, <2>2
<1>14. q.total = BillTotal[q.bill] /\ q.paid <= q.total /\ q.delivery # "cancelled"
  BY <1>4, <1>9, <1>11
<1> QED BY <1>1, <1>11, <1>12, <1>13, <1>14, DealKeeps

\* A delivery on its way keeps the invariant.
LEMMA DeliverKeeps ==
  ASSUME ReportsInv, NEW n \in 1 .. N, NEW from, NEW d \in Deliveries, NEW st \in Statuses, Deliver(n, from, d, st),
         "stock_committed" \notin from, d \notin {"cancelled", "stock_committed"}
  PROVE  ReportsInv'
<1>1. /\ n \in Recorded /\ po[n].delivery # "stock_committed"
      /\ generation' = generation + 1 /\ UNCHANGED <<items, kept, today>>
      /\ po' = [po EXCEPT ![n].delivery = d, ![n].status = st]
  BY DEF Deliver, Renew
<1>2. /\ po[n] \in Deal /\ po[n].total = BillTotal[po[n].bill] /\ po[n].paid <= po[n].total
      /\ ~po[n].touched => ~po[n].delivered
  BY <1>1, DealTyped
<1>3. PICK q : q = [po[n] EXCEPT !.delivery = d, !.status = st]
  OBVIOUS
<1>4. /\ q \in Deal /\ q.total = po[n].total /\ q.bill = po[n].bill /\ q.paid = po[n].paid
      /\ q.delivery = d /\ q.touched = po[n].touched /\ q.delivered = po[n].delivered
  BY <1>2, <1>3 DEF Deal
<1>5. po' = [po EXCEPT ![n] = q]
  BY <1>1, <1>2, <1>3 DEF Deal, ReportsInv, ReportsTyped
<1>6. q.total = BillTotal[q.bill] /\ q.paid <= q.total /\ q.delivery # "cancelled" /\ q.delivery # "stock_committed"
  BY <1>2, <1>4
<1> QED BY <1>1, <1>2, <1>4, <1>5, <1>6, DealKeeps

\* The truck and the count do.
LEMMA ReceiveKeeps ==
  ASSUME ReportsInv, NEW n \in 1 .. N, Dispatch(n) \/ Arrive(n) \/ Verify(n)
  PROVE  ReportsInv'
<1>1. PICK from, d, st : /\ Deliver(n, from, d, st) /\ "stock_committed" \notin from
                         /\ d \in {"dispatched", "in_transit", "arrived", "staff_verified", "partial"}
                         /\ st \in {po[n].status, "verified", "verification_pending"}
  BY DEF Dispatch, Arrive, Verify
<1>2. po[n].status \in Statuses
  <2>1. n \in Recorded
    BY <1>1 DEF Deliver
  <2> QED BY <2>1, DealTyped DEF Deal
<1>3. d \in Deliveries /\ d \notin {"cancelled", "stock_committed"} /\ st \in Statuses
  BY <1>1, <1>2 DEF Deliveries, Statuses
<1> QED BY <1>1, <1>3, DeliverKeeps

\* What waits for its truck again is delivered no more.
LEMMA RevertKeeps ==
  ASSUME ReportsInv, NEW n \in 1 .. N, Revert(n)
  PROVE  ReportsInv'
<1>1. /\ n \in Recorded /\ generation' = generation + 1 /\ UNCHANGED <<items, kept, today>>
      /\ po' = [po EXCEPT ![n].delivery = "pending", ![n].delivered = FALSE]
  BY DEF Revert, Renew
<1>2. /\ po[n] \in Deal /\ po[n].total = BillTotal[po[n].bill] /\ po[n].paid <= po[n].total
  BY <1>1, DealTyped
<1>3. PICK q : q = [po[n] EXCEPT !.delivery = "pending", !.delivered = FALSE]
  OBVIOUS
<1>4. /\ q \in Deal /\ q.total = po[n].total /\ q.bill = po[n].bill /\ q.paid = po[n].paid
      /\ q.delivery = "pending" /\ ~q.delivered
  BY <1>2, <1>3 DEF Deal, Deliveries
<1>5. po' = [po EXCEPT ![n] = q]
  BY <1>1, <1>2, <1>3 DEF Deal, ReportsInv, ReportsTyped
<1>6. q.total = BillTotal[q.bill] /\ q.paid <= q.total /\ q.delivery # "cancelled" /\ q.delivery # "stock_committed"
  BY <1>2, <1>4
<1> QED BY <1>1, <1>4, <1>5, <1>6, DealKeeps

\* Reaching the stock keeps the invariant.
LEMMA CommitStockKeeps ==
  ASSUME ReportsInv, NEW n \in 1 .. N, CommitStock(n)
  PROVE  ReportsInv'
<1>1. PICK st : st = IF po[n].status = "completed" THEN "completed" ELSE "added_to_stock"
  OBVIOUS
<1>2. /\ n \in Recorded
      /\ generation' = generation + 1 /\ UNCHANGED <<items, kept, today>>
      /\ po' = [po EXCEPT ![n].delivery = "stock_committed", ![n].delivered = TRUE, ![n].status = st]
  BY <1>1 DEF CommitStock, Renew
<1>3. /\ po[n] \in Deal /\ po[n].total = BillTotal[po[n].bill] /\ po[n].paid <= po[n].total
  BY <1>2, DealTyped
<1>4. PICK q : q = [po[n] EXCEPT !.delivery = "stock_committed", !.delivered = TRUE, !.status = st]
  OBVIOUS
<1>5. st \in Statuses /\ "stock_committed" \in Deliveries
  BY <1>1 DEF Statuses, Deliveries
<1>6. /\ q \in Deal /\ q.total = po[n].total /\ q.bill = po[n].bill /\ q.paid = po[n].paid
      /\ q.delivery = "stock_committed" /\ q.delivered /\ q.status = st
  BY <1>3, <1>4, <1>5 DEF Deal
<1>7. po' = [po EXCEPT ![n] = q]
  BY <1>2, <1>3, <1>4 DEF Deal, ReportsInv, ReportsTyped
<1>8. q.total = BillTotal[q.bill] /\ q.paid <= q.total /\ q.delivery # "cancelled"
      /\ q.status \in {"added_to_stock", "completed", "cancelled", "deleted"}
  BY <1>1, <1>3, <1>6
<1> QED BY <1>2, <1>6, <1>7, <1>8, DealKeeps

\* A purchase that is cancelled or deleted is not delivered any more.
LEMMA CloseKeeps ==
  ASSUME ReportsInv, NEW n \in 1 .. N, NEW st \in {"cancelled", "deleted"}, Close(n, st)
  PROVE  ReportsInv'
<1>1. PICK q : q = Closed(n, st)
  OBVIOUS
<1>2. n \in Recorded /\ generation' = generation + 1 /\ UNCHANGED <<items, kept, today>> /\ po' = [po EXCEPT ![n] = q]
  BY <1>1 DEF Close, Renew
<1>3. /\ po[n] \in Deal /\ po[n].total = BillTotal[po[n].bill] /\ po[n].paid <= po[n].total
  BY <1>2, DealTyped
<1>4. st \in Statuses /\ "cancelled" \in Deliveries
  BY DEF Statuses, Deliveries
<1>5. /\ q \in Deal /\ q.total = po[n].total /\ q.bill = po[n].bill /\ q.paid = po[n].paid
      /\ q.delivery = "cancelled" /\ ~q.delivered /\ q.status = st
  BY <1>1, <1>3, <1>4 DEF Deal, Closed
<1>6. q.total = BillTotal[q.bill] /\ q.paid <= q.total
      /\ q.status \in {"cancelled", "deleted"} /\ ~q.delivered /\ q.delivery # "stock_committed"
  BY <1>3, <1>5
<1> QED BY <1>2, <1>5, <1>6, DealKeeps

\* The catalog empties the caches as the purchases do.
LEMMA CatalogKeeps ==
  ASSUME ReportsInv, NEW i \in Items,
         Archive(i) \/ \E c \in Cats, t \in Types : Move(i, c, t)
  PROVE  ReportsInv'
<1>1. generation' = generation + 1 /\ UNCHANGED <<po, kept, today>>
  BY DEF Archive, Move, Renew
<1>2. items' \in [Items -> [cat : Cats, type : Types \cup {None}, live : BOOLEAN]]
  <2>1. items \in [Items -> [cat : Cats, type : Types \cup {None}, live : BOOLEAN]]
    BY DEF ReportsInv, ReportsTyped
  <2>2. CASE Archive(i)
    BY <2>1, <2>2 DEF Archive
  <2>3. ASSUME NEW c \in Cats, NEW t \in Types, Move(i, c, t) PROVE items' \in [Items -> [cat : Cats, type : Types \cup {None}, live : BOOLEAN]]
    <3>1. PICK q : q = [items[i] EXCEPT !.cat = c, !.type = t]
      OBVIOUS
    <3>2. items[i] \in [cat : Cats, type : Types \cup {None}, live : BOOLEAN]
      BY <2>1
    <3>3. q \in [cat : Cats, type : Types \cup {None}, live : BOOLEAN]
      BY <3>1, <3>2
    <3>4. items' = [items EXCEPT ![i] = q]
      BY <2>1, <2>3, <3>1, <3>2 DEF Move
    <3> QED BY <2>1, <3>3, <3>4
  <2> QED BY <2>2, <2>3
<1>3. ReportsTyped' /\ KeptFresh'
  BY <1>1, <1>2, KeptBehind DEF ReportsInv, ReportsTyped
<1>4. PaidUp' /\ DeliveredOnce'
  BY <1>1 DEF ReportsInv, PaidUp, DeliveredOnce, Recorded
<1> QED BY <1>3, <1>4 DEF ReportsInv

\* The names of categories and the day are in no figure.
LEMMA QuietKeeps ==
  ASSUME ReportsInv, UNCHANGED <<po, items, generation, kept>>, today' \in Nat
  PROVE  ReportsInv'
<1>1. ReportsTyped' /\ PaidUp' /\ DeliveredOnce'
  BY DEF ReportsInv, ReportsTyped, PaidUp, DeliveredOnce, Recorded
<1>2. KeptFresh'
  <2>1. \A from, to : Figured(Snapshot(from, to))' = Figured(Snapshot(from, to))
    BY SnapshotSame
  <2>2. KeptFresh
    BY DEF ReportsInv
  <2>3. ASSUME kept # None, kept.gen = generation
        PROVE  Figured(kept.body)' = Figured(Snapshot(kept.period[1], kept.period[2]))'
    <3>1. Figured(kept.body)' = Figured(kept.body)
      BY DEF Figured
    <3>2. PICK from, to : from = kept.period[1] /\ to = kept.period[2]
      OBVIOUS
    <3>3. Snapshot(kept.period[1], kept.period[2])' = Snapshot(from, to)'
      BY <3>2
    <3>4. Figured(Snapshot(kept.period[1], kept.period[2]))' = Figured(Snapshot(from, to))'
      BY <3>3 DEF Figured
    <3> QED BY <2>1, <2>2, <2>3, <3>1, <3>2, <3>4 DEF KeptFresh
  <2> QED BY <2>2, <2>3 DEF KeptFresh
<1> QED BY <1>1, <1>2 DEF ReportsInv
\* What is kept is computed from the purchases as they are.
LEMMA ViewKeeps ==
  ASSUME ReportsInv, NEW from, NEW to, View(from, to)
  PROVE  ReportsInv'
<1>1. UNCHANGED <<po, items, names, generation, today>> /\ kept' = [gen |-> generation, period |-> <<from, to>>, body |-> Snapshot(from, to)]
  BY DEF View
<1>2. ReportsTyped' /\ PaidUp' /\ DeliveredOnce'
  BY <1>1 DEF ReportsInv, ReportsTyped, PaidUp, DeliveredOnce, Recorded
<1>3. KeptFresh'
  <2>1. Figured(Snapshot(from, to))' = Figured(Snapshot(from, to))
    BY <1>1, SnapshotSame
  <2>2. PICK body : body = Snapshot(from, to)
    OBVIOUS
  <2>3. kept' = [gen |-> generation, period |-> <<from, to>>, body |-> body]
    BY <1>1, <2>2
  <2>4. kept'.gen = generation' /\ kept'.gen \in Nat /\ kept'.period[1] = from /\ kept'.period[2] = to /\ kept'.body = body
    BY <1>1, <2>3 DEF ReportsInv, ReportsTyped
  <2>5. generation' \in Nat
    BY <1>2 DEF ReportsTyped
  <2>6. Figured(kept.body)' = Figured(body)
    BY <2>4 DEF Figured
  <2>7. Snapshot(kept.period[1], kept.period[2])' = Snapshot(from, to)'
    BY <2>4
  <2>8. Figured(Snapshot(kept.period[1], kept.period[2]))' = Figured(Snapshot(from, to))'
    BY <2>7 DEF Figured
  <2>9. Figured(kept.body)' = Figured(Snapshot(kept.period[1], kept.period[2]))'
    BY <2>1, <2>2, <2>6, <2>8
  <2> QED BY <2>4, <2>5, <2>9 DEF KeptFresh
<1> QED BY <1>2, <1>3 DEF ReportsInv

\* What an import may have left.
LEMMA ImportedDeal ==
  ASSUME NEW b \in Imported, NEW d \in {"pending", "stock_committed"}
  PROVE  /\ ImportedPurchase(b, d) \in Deal
         /\ ImportedPurchase(b, d).total = BillTotal[ImportedPurchase(b, d).bill]
         /\ ImportedPurchase(b, d).paid = 0 /\ ImportedPurchase(b, d).delivery # "cancelled"
         /\ ImportedPurchase(b, d).delivered <=> ImportedPurchase(b, d).delivery = "stock_committed"
         /\ ImportedPurchase(b, d).delivered => ImportedPurchase(b, d).status = "added_to_stock"
<1>1. b \in DOMAIN Bills /\ 1 \in 1 .. LastDay
  BY ReportsAssumption
<1>2. PICK st : st = IF d = "stock_committed" THEN "added_to_stock" ELSE "confirmed"
  OBVIOUS
<1>3. st \in Statuses /\ d \in Deliveries
  BY <1>2 DEF Statuses, Deliveries
<1>4. PICK p : p = Purchase(b, st, 1)
  OBVIOUS
<1>5. p \in Deal /\ p.total = BillTotal[b] /\ p.bill = b /\ p.paid = 0 /\ p.status = st
  BY <1>1, <1>3, <1>4, FreshPurchase DEF Purchase
<1>6. PICK q : q = [p EXCEPT !.delivery = d, !.delivered = (d = "stock_committed")]
  OBVIOUS
<1>7. ImportedPurchase(b, d) = q
  BY <1>2, <1>4, <1>6 DEF ImportedPurchase
<1>8. q \in Deal /\ q.total = p.total /\ q.bill = b /\ q.paid = 0 /\ q.status = st /\ q.delivery = d
      /\ q.delivered = (d = "stock_committed")
  BY <1>3, <1>5, <1>6 DEF Deal
<1> QED BY <1>2, <1>5, <1>7, <1>8

\* The invariant holds at the start, with an imported purchase or without.
LEMMA ReportsStarts ==
  ASSUME ReportsInit
  PROVE  ReportsInv
<1>1. PICK first \in {None} \cup {ImportedPurchase(b, d) : b \in Imported, d \in {"pending", "stock_committed"}} :
         po = [n \in 1 .. N |-> IF n = 1 THEN first ELSE None]
  BY DEF ReportsInit
<1>2. /\ first \in Deal \cup {None}
      /\ first # None =>
           /\ first.total = BillTotal[first.bill] /\ first.paid <= first.total
           /\ first.delivery # "cancelled"
           /\ first.delivered <=> first.delivery = "stock_committed"
           /\ first.delivered => first.status = "added_to_stock"
  <2>1. CASE first = None
    BY <2>1
  <2>2. ASSUME NEW b \in Imported, NEW d \in {"pending", "stock_committed"},
               first = ImportedPurchase(b, d)
        PROVE  /\ first \in Deal /\ first.total = BillTotal[first.bill] /\ first.paid <= first.total
               /\ first.delivery # "cancelled"
               /\ first.delivered <=> first.delivery = "stock_committed"
               /\ first.delivered => first.status = "added_to_stock"
    <3>1. /\ first \in Deal /\ first.total = BillTotal[first.bill] /\ first.paid = 0
          /\ first.delivery # "cancelled"
          /\ first.delivered <=> first.delivery = "stock_committed"
          /\ first.delivered => first.status = "added_to_stock"
      BY <2>2, ImportedDeal
    <3>2. first.total \in Nat
      BY <3>1 DEF Deal
    <3> QED BY <3>1, <3>2
  <2> QED BY <2>1, <2>2
<1>3. \A n \in Recorded : n = 1 /\ po[n] = first /\ first # None
  BY <1>1 DEF Recorded
<1>4. po \in [1 .. N -> Deal \cup {None}]
  BY <1>1, <1>2
<1>5. items \in [Items -> [cat : Cats, type : Types \cup {None}, live : BOOLEAN]] /\ generation \in Nat /\ today \in Nat
  <2>1. \E c \in Cats : TRUE
    BY ReportsAssumption
  <2>2. PICK c \in Cats : c = CHOOSE d \in Cats : TRUE
    BY <2>1
  <2>3. items = [i \in Items |-> [cat |-> c, type |-> None, live |-> TRUE]] /\ generation = 0 /\ today = 1
    BY <2>2 DEF ReportsInit
  <2> QED BY <2>3
<1>6. PaidUp /\ DeliveredOnce
  BY <1>2, <1>3 DEF PaidUp, DeliveredOnce
<1>7. KeptFresh
  BY DEF ReportsInit, KeptFresh
<1> QED BY <1>4, <1>5, <1>6, <1>7 DEF ReportsInv, ReportsTyped

\* Every request and the next day keep it.
LEMMA ReportsStep ==
  ASSUME ReportsInv, [ReportsNext]_reportsVars
  PROVE  ReportsInv'
<1>1. today \in Nat
  BY DEF ReportsInv, ReportsTyped
<1>2. CASE UNCHANGED reportsVars
  BY <1>1, <1>2, QuietKeeps DEF reportsVars
<1>3. ASSUME NEW n \in 1 .. N, NEW b \in DOMAIN Bills, NEW st \in {"draft", "saved", "confirmed"}, NEW day \in 1 .. LastDay,
             Save(n, b, st, day) \/ Update(n, b, st, day)
      PROVE  ReportsInv'
  BY <1>3, SaveKeeps, UpdateKeeps
<1>4. ASSUME NEW n \in 1 .. N, NEW x \in Payments \cup {None}, Pay(n, x) PROVE ReportsInv'
  BY <1>4, PayKeeps
<1>5. ASSUME NEW n \in 1 .. N, NEW st, Transition(n, st) PROVE ReportsInv'
  BY <1>5, TransitionKeeps
<1>6. ASSUME NEW n \in 1 .. N, Dispatch(n) \/ Arrive(n) \/ Verify(n) \/ CommitStock(n) \/ Revert(n) PROVE ReportsInv'
  BY <1>6, ReceiveKeeps, CommitStockKeeps, RevertKeeps
<1>7. ASSUME NEW n \in 1 .. N, NEW st \in {"cancelled", "deleted"}, Close(n, st) PROVE ReportsInv'
  BY <1>7, CloseKeeps
<1>8. ASSUME NEW i \in Items, Archive(i) \/ \E c \in Cats, t \in Types : Move(i, c, t) PROVE ReportsInv'
  BY <1>8, CatalogKeeps
<1>9. ASSUME NEW c \in Cats, NEW name \in Names, Rename(c, name) PROVE ReportsInv'
  BY <1>1, <1>9, QuietKeeps DEF Rename
<1>10. ASSUME NEW p \in Viewed, View(p[1], p[2]) PROVE ReportsInv'
  BY <1>10, ViewKeeps
<1>11. CASE Day
  BY <1>1, <1>11, QuietKeeps DEF Day
<1> QED BY <1>2, <1>3, <1>4, <1>5, <1>6, <1>7, <1>8, <1>9, <1>10, <1>11 DEF ReportsNext

\* For any bills, catalog and number of requests: purchases carry the total
\* of their bill and are not overpaid, delivered means in the stock until a
\* payment says otherwise, and the dashboard of this generation is fresh.
THEOREM ReportsInvariant == ReportsSpec => []ReportsInv
BY ReportsStarts, ReportsStep, PTL DEF ReportsSpec

-----------------------------------------------------------------------------
(***************************************************************************)
(* What is kept: dashboards and defaults.                                  *)
(***************************************************************************)
\* The dashboard.
LEMMA OverviewHolds ==
  ASSUME ReportsInv
  PROVE  OverviewTrue
<1> SUFFICES ASSUME NEW p \in Viewed, NEW old \in BOOLEAN, NEW slow \in BOOLEAN
             PROVE  \/ Served(p[1], p[2], old, slow).body = None /\ Served(p[1], p[2], old, slow).degraded
                    \/ Figured(Served(p[1], p[2], old, slow).body) = Figured(Snapshot(p[1], p[2]))
  BY DEF OverviewTrue
<1> DEFINE hit == Hit(p[1], p[2])
           answer == Served(p[1], p[2], old, slow)
<1>1. hit => Figured(kept.body) = Figured(Snapshot(p[1], p[2]))
  BY DEF Hit, ReportsInv, KeptFresh
<1>2. \/ hit /\ answer.body = kept.body
      \/ ~hit /\ answer.body = None /\ answer.degraded
      \/ answer.body = Snapshot(p[1], p[2])
  <2>1. PICK now : now = Snapshot(p[1], p[2])
    OBVIOUS
  <2>2. answer = CASE hit /\ ~ old -> [degraded |-> FALSE, body |-> kept.body]
                   [] (~ hit \/ old) /\ slow -> [degraded |-> TRUE, body |-> IF hit THEN kept.body ELSE None]
                   [] OTHER -> [degraded |-> FALSE, body |-> now]
    BY <2>1 DEF Served
  <2> HIDE DEF hit, answer
  <2>3. CASE hit /\ ~old
    <3>1. answer = [degraded |-> FALSE, body |-> kept.body]
      BY <2>2, <2>3
    <3> QED BY <3>1, <2>3
  <2>4. CASE (~hit \/ old) /\ slow
    <3>1. answer = [degraded |-> TRUE, body |-> IF hit THEN kept.body ELSE None]
      BY <2>2, <2>4
    <3> QED BY <3>1
  <2>5. CASE ~(hit /\ ~old) /\ ~((~hit \/ old) /\ slow)
    <3>1. answer = [degraded |-> FALSE, body |-> now]
      BY <2>2, <2>5
    <3> QED BY <3>1, <2>1
  <2> QED BY <2>3, <2>4, <2>5
<1> QED BY <1>1, <1>2 DEF Figured

------------------------------------------------------------------------------
\* Of some purchases one is the newest.
LEMMA NewestIn ==
  ASSUME ReportsInv, NEW S, S \subseteq Recorded, S # {}
  PROVE  Newest(S) \in S /\ \A m \in S : Newer(Newest(S), m)
<1>1. S \subseteq 1 .. N /\ \A n \in S : po[n].day \in Nat
  <2>1. \A n \in Recorded : n \in 1 .. N /\ po[n] \in Deal
    BY DealTyped
  <2>2. \A n \in Recorded : po[n].day \in 1 .. LastDay
    BY <2>1 DEF Deal
  <2> QED BY <2>1, <2>2, ReportsAssumption
<1>2. N \in Nat
  BY ReportsAssumption
<1>3. \E n \in S : \A m \in S : Newer(n, m)
  <2>1. IsFiniteSet(S)
    <3>1. 1 \in Int /\ N \in Int
      BY <1>2
    <3>2. IsFiniteSet(1 .. N)
      BY <3>1, FS_Interval
    <3> QED BY <1>1, <3>2, FS_Subset
  <2> DEFINE Bad == {u \in FiniteSubsetsOf(S) : u # {} /\ ~\E n \in u : \A m \in u : Newer(n, m)}
  <2>2. Bad = {}
    <3> SUFFICES ASSUME Bad # {} PROVE FALSE
      OBVIOUS
    <3>0. Bad \subseteq FiniteSubsetsOf(S)
      OBVIOUS
    <3>1. PICK u \in Bad : /\ u \subseteq S /\ IsFiniteSet(u)
                           /\ \A v \in SUBSET u : v # u => v \notin Bad /\ v \in FiniteSubsetsOf(S)
      <4> HIDE DEF Bad
      <4> QED BY <3>0, Smallest
    <3>2. u # {} /\ ~\E n \in u : \A m \in u : Newer(n, m)
      OBVIOUS
    <3>3. PICK a \in u : TRUE
      BY <3>2
    <3>4. u \ {a} \in SUBSET u /\ u \ {a} # u
      OBVIOUS
    <3>5. CASE u \ {a} = {}
      <4>1. Newer(a, a)
        BY <1>1, <3>1 DEF Newer
      <4> QED BY <3>2, <3>5, <4>1
    <3>6. CASE u \ {a} # {}
      <4>1. \E n \in u \ {a} : \A m \in u \ {a} : Newer(n, m)
        BY <3>1, <3>4, <3>6
      <4>2. PICK n \in u \ {a} : \A m \in u \ {a} : Newer(n, m)
        BY <4>1
      <4>3. /\ a \in Nat /\ n \in Nat /\ po[a].day \in Nat /\ po[n].day \in Nat
            /\ \A m \in u : m \in Nat /\ po[m].day \in Nat
        BY <1>1, <1>2, <3>1
      <4>4. Newer(n, a) \/ Newer(a, n)
        BY <4>3 DEF Newer
      <4>5. CASE Newer(n, a)
        BY <3>2, <4>2, <4>5
      <4>6. CASE Newer(a, n)
        <5>1. \A m \in u \ {a} : Newer(a, m)
          BY <4>2, <4>3, <4>6 DEF Newer
        <5>2. Newer(a, a)
          BY <4>3 DEF Newer
        <5> QED BY <3>2, <5>1, <5>2
      <4> QED BY <4>4, <4>5, <4>6
    <3> QED BY <3>5, <3>6
  <2> QED BY <2>1, <2>2 DEF FiniteSubsetsOf
<1> QED BY <1>3 DEF Newest

\* A new bill is filled from a purchase that counts, the newest one of its kind.
LEMMA DefaultsHold ==
  ASSUME ReportsInv
  PROVE  DefaultsAgree
<1> SUFFICES ASSUME NEW i \in Items, NEW s \in Suppliers, NEW b \in Brokers \cup {None}
             PROVE  LET n == LastDefaults(i, s, b)
                        his == WithItem({m \in Recorded : Reported(m) /\ Bill(m).supplier = s}, i)
                    IN  /\ n # None => Reported(n)
                        /\ (\E m \in his : po[m].status \in SettledStatuses) =>
                              /\ n # None /\ Bill(n).supplier = s
                              /\ Newer(HeaderDefaults(s), n)
                        /\ (b = None /\ his # {} /\ \A m \in his : po[m].status \in SettledStatuses) => n \in PriceFrom(i, s)
  BY DEF DefaultsAgree
<1> DEFINE his == WithItem({m \in Recorded : Reported(m) /\ Bill(m).supplier = s}, i)
           all == WithItem({n \in Recorded : po[n].status \in SettledStatuses}, i)
           ofSupplier == {n \in all : Bill(n).supplier = s}
           ofBoth == {n \in ofSupplier : Bill(n).broker = b}
           header == {n \in Recorded : po[n].status \in SettledStatuses /\ Bill(n).supplier = s}
<1>1. s # None /\ None \notin Recorded
  <2>1. None \notin Int /\ N \in Nat /\ s # None
    BY ReportsAssumption
  <2> QED BY <2>1 DEF Recorded
<1>2. /\ all \subseteq Recorded /\ ofSupplier \subseteq header /\ header \subseteq Recorded
      /\ \A n \in all \cup header : po[n].status \in SettledStatuses /\ Reported(n)
  BY DEF WithItem, SettledStatuses, Reported
<1>3. /\ \A n \in his : po[n].status \in SettledStatuses => n \in ofSupplier
      /\ ofSupplier \subseteq his
  BY DEF WithItem, SettledStatuses, Reported
<1>4. PICK n : n = LastDefaults(i, s, b)
  OBVIOUS
<1>5. n = IF b # None /\ ofBoth # {} THEN Newest(ofBoth)
          ELSE IF ofSupplier # {} THEN Newest(ofSupplier) ELSE Newest(all)
  BY <1>1, <1>4 DEF LastDefaults
<1>6. ofBoth \subseteq ofSupplier /\ ofSupplier \subseteq all /\ \A m \in ofSupplier : Bill(m).supplier = s
  OBVIOUS
<1> HIDE DEF his, all, ofSupplier, ofBoth, header
<1>7. n # None => n \in all
  <2>1. Newest({}) = None
    BY DEF Newest
  <2>2. \A S : S \subseteq Recorded /\ S # {} => Newest(S) \in S
    BY NewestIn
  <2>3. CASE b # None /\ ofBoth # {}
    BY <1>2, <1>5, <1>6, <2>2, <2>3
  <2>4. CASE ~(b # None /\ ofBoth # {}) /\ ofSupplier # {}
    BY <1>2, <1>5, <1>6, <2>2, <2>4
  <2>5. CASE ~(b # None /\ ofBoth # {}) /\ ofSupplier = {}
    BY <1>2, <1>5, <1>6, <2>1, <2>2, <2>5
  <2> QED BY <2>3, <2>4, <2>5
<1>8. ASSUME ofSupplier # {} PROVE n \in ofSupplier
  <2>1. \A S : S \subseteq Recorded /\ S # {} => Newest(S) \in S
    BY NewestIn
  <2> QED BY <1>2, <1>5, <1>6, <1>8, <2>1
<1>9. n # None => Reported(n)
  BY <1>2, <1>7
<1>10. ASSUME NEW m \in his, po[m].status \in SettledStatuses
       PROVE  n # None /\ Bill(n).supplier = s /\ Newer(HeaderDefaults(s), n)
  <2>1. n \in ofSupplier
    BY <1>3, <1>8, <1>10
  <2>2. header # {} /\ n \in header
    BY <1>2, <2>1
  <2>3. Newer(Newest(header), n)
    BY <1>2, <2>2, NewestIn
  <2>4. HeaderDefaults(s) = Newest(header)
    BY DEF HeaderDefaults, header
  <2> QED BY <1>1, <1>2, <1>6, <2>1, <2>3, <2>4
<1>11. ASSUME b = None, his # {}, \A m \in his : po[m].status \in SettledStatuses PROVE n \in PriceFrom(i, s)
  <2>1. his = ofSupplier
    BY <1>3, <1>11
  <2>2. n = Newest(ofSupplier) /\ ofSupplier # {} /\ ofSupplier \subseteq Recorded
    BY <1>2, <1>5, <1>11, <2>1
  <2>3. n \in ofSupplier /\ \A m \in ofSupplier : Newer(n, m)
    BY <2>2, NewestIn
  <2>4. \A m \in ofSupplier : po[m].day <= po[n].day
    <3>1. \A m \in ofSupplier : po[m].day \in Nat
      <4>1. \A m \in Recorded : po[m].day \in 1 .. LastDay
        <5>1. \A m \in Recorded : po[m] \in Deal
          BY DealTyped
        <5> QED BY <5>1 DEF Deal
      <4> QED BY <2>2, <4>1, ReportsAssumption
    <3> QED BY <2>3, <3>1 DEF Newer
  <2>5. PriceFrom(i, s) = {m \in his : \A k \in his : po[k].day <= po[m].day}
    BY DEF PriceFrom, his
  <2> QED BY <2>1, <2>3, <2>4, <2>5
<1> QED BY <1>4, <1>9, <1>10, <1>11 DEF his

\* The dashboard and the defaults are current.
LEMMA KeptHolds ==
  ASSUME ReportsInv
  PROVE  KeptTrue
BY OverviewHolds, DefaultsHold DEF KeptTrue

-----------------------------------------------------------------------------
(***************************************************************************)
(* What is owed: payment lists and ledgers.                                *)
(***************************************************************************)
\* There are finitely many purchases.
LEMMA RecordedFinite == IsFiniteSet(Recorded) /\ Recorded \subseteq 1 .. N
<1>1. 1 \in Int /\ N \in Int
  BY ReportsAssumption
<1>2. IsFiniteSet(1 .. N) /\ Recorded \subseteq 1 .. N
  BY <1>1, FS_Interval DEF Recorded
<1> QED BY <1>2, FS_Subset

\* The state of payment of a purchase that counts.
LEMMA PaymentOf ==
  ASSUME ReportsInv, NEW n \in Recorded
  PROVE  /\ po[n].total \in Nat /\ po[n].paid \in Nat /\ po[n].paid <= po[n].total
         /\ po[n].due # None => po[n].due \in Nat
         /\ Remaining(n) = po[n].total - po[n].paid
<1>1. po[n] \in Deal /\ po[n].paid <= po[n].total
  BY DealTyped
<1>2. po[n].total \in Nat /\ po[n].paid \in Nat /\ (po[n].due # None => po[n].due \in Nat)
  BY <1>1 DEF Deal, Optional
<1>3. PICK r \in Nat : r = po[n].total - po[n].paid
  BY <1>1, <1>2
<1>4. Max({r, 0}) = r
  BY MaxOfTwo
<1> QED BY <1>1, <1>2, <1>3, <1>4 DEF Remaining

\* What compute_status makes of what is owed.
LEMMA DerivedIs ==
  ASSUME NEW st, NEW t \in Nat, NEW p \in Nat, NEW d, NEW u \in Nat, t > 0, st \notin {"cancelled", "deleted", "draft"},
         d # None => d \in Nat
  PROVE  LET o == ComputeStatus(st, t, p, d, u, SoonDays)
         IN  /\ p >= t => o = "paid"
             /\ (p < t /\ d # None /\ d < u) => o = "overdue"
             /\ (p < t /\ d # None /\ d - u \in 0 .. SoonDays) => o = "due_soon"
             /\ (p < t /\ ~(d # None /\ d < u) /\ ~(d # None /\ d - u \in 0 .. SoonDays)) =>
                  o = IF p > 0 THEN "partially_paid"
                      ELSE IF st \in {"saved", "partially_paid", "paid", "overdue", "due_soon"} THEN st
                      ELSE "confirmed"
<1>1. Max({p, 0}) = p /\ SoonDays \in Nat
  BY MaxOfTwo, ReportsAssumption
<1> DEFINE a == t <= 0
           b == t > 0 /\ p >= t
           c == t > p /\ d # None /\ u > d
           e == t > p /\ d # None /\ d - u \in 0 .. SoonDays
           rest == IF p > 0 THEN "partially_paid"
                   ELSE IF st \in {"saved", "partially_paid", "paid", "overdue", "due_soon"} THEN st
                   ELSE "confirmed"
           zero == IF st \in {"saved", "paid", "partially_paid", "overdue"} THEN st ELSE "confirmed"
           o == ComputeStatus(st, t, p, d, u, SoonDays)
<1>2. o = CASE a -> zero [] b -> "paid" [] c -> "overdue" [] e -> "due_soon" [] OTHER -> rest
  BY <1>1 DEF ComputeStatus
<1>3. ~a /\ (b => ~c /\ ~e) /\ (c => ~e /\ ~b)
  BY <1>1
<1>4. /\ p >= t => b
      /\ (p < t /\ d # None /\ d < u) => c
      /\ (p < t /\ d # None /\ d - u \in 0 .. SoonDays) => e
      /\ (p < t /\ ~(d # None /\ d < u) /\ ~(d # None /\ d - u \in 0 .. SoonDays)) => ~b /\ ~c /\ ~e
  BY <1>1
<1> HIDE DEF a, b, c, e, rest, zero, o
<1>5. (b => o = "paid") /\ (c => o = "overdue") /\ (e => o = "due_soon") /\ (~b /\ ~c /\ ~e => o = rest)
  <2>1. CASE b
    <3>1. ~a /\ ~c /\ ~e
      BY <1>3, <2>1
    <3> QED BY <1>2, <2>1, <3>1
  <2>2. CASE c
    <3>1. ~a /\ ~b /\ ~e
      BY <1>3, <2>2
    <3> QED BY <1>2, <2>2, <3>1
  <2>3. CASE e
    <3>1. ~a /\ ~b /\ ~c
      BY <1>3, <2>3
    <3> QED BY <1>2, <2>3, <3>1
  <2>4. CASE ~b /\ ~c /\ ~e
    BY <1>2, <1>3, <2>4
  <2> QED BY <2>1, <2>2, <2>3, <2>4
<1> QED BY <1>4, <1>5 DEF o, rest

\* What the payment lists ask of a purchase.
LEMMA ListsOf ==
  ASSUME NEW n
  PROVE  /\ Selected(n, "paid") <=> IsPaid(n)
         /\ Selected(n, "overdue") <=> Overdue(n)
         /\ Selected(n, "due_soon") <=> DueSoon(n)
         /\ Selected(n, "pending") <=> PaymentPending(n)
         /\ AnsweredWith(n, "paid") <=> Derived(n) = "paid"
         /\ AnsweredWith(n, "overdue") <=> Derived(n) = "overdue"
         /\ AnsweredWith(n, "due_soon") <=> Derived(n) = "due_soon"
         /\ AnsweredWith(n, "pending") <=> Derived(n) \in {"confirmed", "saved", "partially_paid"}
BY DEF Selected, AnsweredWith

\* A purchase that counts is on one payment list at most.
LEMMA ListsHold ==
  ASSUME ReportsInv
  PROVE  ListsPartition
<1> SUFFICES ASSUME NEW n \in Recorded, Reported(n), po[n].status # "saved", po[n].total > 0
             PROVE  LET on == {list \in PaymentLists : n \in Listed(list)}
                        asked == \/ Remaining(n) = 0 \/ po[n].paid > 0 \/ po[n].status = "confirmed"
                                 \/ po[n].due # None /\ po[n].due - today <= SoonDays
                    IN  /\ Cardinality(on) <= 1
                        /\ asked => Cardinality(on) = 1
                        /\ "paid" \in on <=> Remaining(n) = 0
  BY DEF ListsPartition
<1> DEFINE on == {list \in PaymentLists : n \in Listed(list)}
           asked == \/ Remaining(n) = 0 \/ po[n].paid > 0 \/ po[n].status = "confirmed"
                    \/ po[n].due # None /\ po[n].due - today <= SoonDays
           st == Normalized(po[n].status)
           t == po[n].total
           p == po[n].paid
           d == po[n].due
           late == d # None /\ d < today
           soon == d # None /\ d - today \in 0 .. SoonDays
<1>1. /\ t \in Nat /\ p \in Nat /\ p <= t /\ (d # None => d \in Nat) /\ Remaining(n) = t - p
      /\ today \in Nat /\ SoonDays \in Nat
  BY PaymentOf, ReportsAssumption DEF ReportsInv, ReportsTyped
<1>2. po[n].status \notin {"cancelled", "deleted", "draft", "saved"}
  BY DEF Reported
<1>3. /\ st \notin {"cancelled", "deleted", "draft", "saved", "confirmed"}
      /\ po[n].status = "confirmed" => st = "active"
  BY <1>2 DEF Normalized
<1>4. Derived(n) = ComputeStatus(st, t, p, d, today, SoonDays)
  BY DEF Derived
<1> HIDE DEF st
<1>5. /\ p >= t => Derived(n) = "paid"
      /\ (p < t /\ late) => Derived(n) = "overdue"
      /\ (p < t /\ soon) => Derived(n) = "due_soon"
      /\ (p < t /\ ~late /\ ~soon) =>
             Derived(n) = IF p > 0 THEN "partially_paid"
                          ELSE IF st \in {"saved", "partially_paid", "paid", "overdue", "due_soon"} THEN st
                          ELSE "confirmed"
  BY <1>1, <1>3, <1>4, DerivedIs
<1>6. /\ IsPaid(n) <=> p >= t
      /\ Overdue(n) <=> p < t /\ late
      /\ DueSoon(n) <=> p < t /\ soon
      /\ PaymentPending(n) <=> p < t /\ ~late /\ ~soon /\ (po[n].status = "confirmed" \/ p > 0)
  <2>1. IsPaid(n) <=> p >= t
    BY <1>1 DEF IsPaid
  <2>2. Open(n) <=> p < t
    BY <1>1, <1>2, <2>1 DEF Open
  <2> QED BY <1>2, <2>1, <2>2 DEF Overdue, DueSoon, PaymentPending
<1>7. ~(late /\ soon)
  BY <1>1
<1>8. \A list : n \in Listed(list) <=> Selected(n, list) /\ AnsweredWith(n, list)
  BY <1>2 DEF Listed
<1>9. on = {list \in {"due_soon", "overdue", "paid", "pending"} : Selected(n, list) /\ AnsweredWith(n, list)}
  BY <1>8 DEF PaymentLists
<1>10. \A x : x \in on <=> \/ x = "paid" /\ IsPaid(n) /\ Derived(n) = "paid"
                           \/ x = "overdue" /\ Overdue(n) /\ Derived(n) = "overdue"
                           \/ x = "due_soon" /\ DueSoon(n) /\ Derived(n) = "due_soon"
                           \/ x = "pending" /\ PaymentPending(n) /\ Derived(n) \in {"confirmed", "saved", "partially_paid"}
  <2> HIDE DEF on
  <2> QED BY <1>9, ListsOf
<1> HIDE DEF on
<1>11. \A x : Cardinality({x}) = 1 /\ Cardinality({}) = 0
  BY FS_Singleton, FS_EmptySet
<1>12. ASSUME p >= t PROVE Cardinality(on) <= 1 /\ (asked => Cardinality(on) = 1) /\ ("paid" \in on <=> Remaining(n) = 0)
  <2>1. on = {"paid"} /\ Remaining(n) = 0
    BY <1>1, <1>5, <1>6, <1>10, <1>12
  <2>2. Cardinality(on) = 1 /\ "paid" \in on
    BY <1>11, <2>1
  <2> QED BY <2>1, <2>2
<1>13. ASSUME p < t /\ late PROVE Cardinality(on) <= 1 /\ (asked => Cardinality(on) = 1) /\ ("paid" \in on <=> Remaining(n) = 0)
  <2>1. on = {"overdue"}
    BY <1>1, <1>5, <1>6, <1>7, <1>10, <1>13
  <2>2. Remaining(n) # 0
    BY <1>1, <1>13
  <2>3. Cardinality(on) = 1 /\ "paid" \notin on
    BY <1>11, <2>1
  <2> QED BY <2>2, <2>3
<1>14. ASSUME p < t /\ soon PROVE Cardinality(on) <= 1 /\ (asked => Cardinality(on) = 1) /\ ("paid" \in on <=> Remaining(n) = 0)
  <2>1. on = {"due_soon"}
    BY <1>1, <1>5, <1>6, <1>7, <1>10, <1>14
  <2>2. Remaining(n) # 0
    BY <1>1, <1>14
  <2>3. Cardinality(on) = 1 /\ "paid" \notin on
    BY <1>11, <2>1
  <2> QED BY <2>2, <2>3
<1>15. ASSUME p < t /\ ~late /\ ~soon PROVE Cardinality(on) <= 1 /\ (asked => Cardinality(on) = 1) /\ ("paid" \in on <=> Remaining(n) = 0)
  <2>1. Remaining(n) # 0
    BY <1>1, <1>15
  <2>2. ~(d # None /\ d - today <= SoonDays)
    BY <1>1, <1>15
  <2>3. CASE po[n].status = "confirmed" \/ p > 0
    <3>1. Derived(n) \in {"confirmed", "partially_paid"}
      BY <1>1, <1>3, <1>5, <1>15, <2>3
    <3>2. on = {"pending"}
      BY <1>1, <1>6, <1>10, <1>15, <2>3, <3>1
    <3>3. Cardinality(on) = 1 /\ "paid" \notin on
      BY <1>11, <3>2
    <3> QED BY <2>1, <3>3
  <2>4. CASE ~(po[n].status = "confirmed" \/ p > 0)
    <3>1. on = {} /\ ~asked
      BY <1>1, <1>6, <1>10, <1>15, <2>1, <2>2, <2>4
    <3>2. Cardinality(on) = 0 /\ "paid" \notin on
      BY <1>11, <3>1
    <3> QED BY <2>1, <3>1, <3>2
  <2> QED BY <2>3, <2>4
<1> HIDE DEF asked
<1>16. /\ Cardinality(on) <= 1
       /\ asked => Cardinality(on) = 1
       /\ "paid" \in on <=> Remaining(n) = 0
  BY <1>1, <1>12, <1>13, <1>14, <1>15
<1> QED BY <1>16 DEF on, asked

\* The ledgers.
LEMMA DebtsHold ==
  ASSUME ReportsInv
  PROVE  DebtsAgree
<1>1. ASSUME NEW s \in Suppliers
      PROVE  LET r == Ledger(s).rows
             IN  /\ Balance(s) = Sum(Remaining, DOMAIN r)
                 /\ \A n \in DOMAIN r : r[n] >= 0
  <2> DEFINE S == {n \in Recorded : Reported(n) /\ Bill(n).supplier = s}
             total == [n \in S |-> po[n].total]
             paid == [n \in S |-> po[n].paid]
             remains == [n \in S |-> Remaining(n)]
  <2>1. IsFiniteSet(S)
    BY RecordedFinite, FS_Subset
  <2>2. /\ Ledger(s).rows = [n \in S |-> po[n].total - po[n].paid]
        /\ Ledger(s).amount = SumFunctionOnSet(total, S) /\ Ledger(s).paid = SumFunctionOnSet(paid, S)
    BY DEF Ledger, Sum, SumFunction
  <2>3. DOMAIN Ledger(s).rows = S /\ Sum(Remaining, S) = SumFunctionOnSet(remains, S)
    BY <2>2 DEF Sum, SumFunction
  <2>4. \A n \in S : total[n] \in Nat /\ paid[n] \in Nat /\ remains[n] = total[n] - paid[n] /\ paid[n] <= total[n]
    BY PaymentOf
  <2>10. \A n \in S : po[n].total - po[n].paid >= 0
    BY PaymentOf
  <2> HIDE DEF S, total, paid, remains
  <2>5. \A n \in S : paid[n] \in Int /\ remains[n] \in Int /\ total[n] = paid[n] + remains[n]
    BY <2>4
  <2>6. SumFunctionOnSet(total, S) = SumFunctionOnSet(paid, S) + SumFunctionOnSet(remains, S)
    BY <2>1, <2>5, SumPlus
  <2>7. SumFunctionOnSet(paid, S) \in Int /\ SumFunctionOnSet(remains, S) \in Int
    BY <2>1, <2>5, SumInt
  <2>8. Balance(s) = Sum(Remaining, S)
    BY <2>2, <2>3, <2>6, <2>7 DEF Balance
  <2>9. \A n \in S : Ledger(s).rows[n] >= 0
    BY <2>2, <2>10
  <2> QED BY <2>3, <2>8, <2>9
<1>2. ASSUME NEW n \in Listed("due_soon") \cup Listed("overdue") \cup Listed("pending"), Bill(n).supplier # None
      PROVE  Ledger(Bill(n).supplier).rows[n] > 0
  <2>1. n \in Recorded /\ Open(n)
    BY ListsOf DEF Listed, DueSoon, Overdue, PaymentPending
  <2>2. /\ po[n].status \notin {"cancelled", "deleted", "draft"} /\ ~(po[n].total <= 0 \/ po[n].paid >= po[n].total)
    BY <2>1 DEF Open, IsPaid
  <2>3. po[n].total \in Nat /\ po[n].paid \in Nat
    BY <2>1, PaymentOf
  <2>4. po[n].total - po[n].paid > 0
    BY <2>2, <2>3
  <2>5. n \in {m \in Recorded : Reported(m) /\ Bill(m).supplier = Bill(n).supplier}
    BY <2>1, <2>2 DEF Reported
  <2> QED BY <2>4, <2>5 DEF Ledger
<1> QED BY <1>1, <1>2 DEF DebtsAgree

\* Lists and ledgers agree.
LEMMA DebtsListedHolds ==
  ASSUME ReportsInv
  PROVE  DebtsListed
BY ListsHold, DebtsHold DEF DebtsListed

------------------------------------------------------------------------------
\* The rows of the purchases.
Everywhere == Lines(Recorded)

\* A row belongs to a line of its purchase, and holds it as stored or imported.
LEMMA LineAt ==
  ASSUME ReportsInv, NEW S, S \subseteq Recorded, NEW x \in Lines(S)
  PROVE  /\ x = <<x[1], x[2]>> /\ x[1] \in S /\ x[2] \in DOMAIN Bill(x[1]).lines
         /\ po[x[1]].bill \in DOMAIN Bills /\ Bill(x[1]) \in AnyBill
         /\ Bill(x[1]).lines[x[2]] \in BillLine
         /\ RowOf(x) = IF po[x[1]].bill \in Imported THEN ImportedRow(Bill(x[1]).lines[x[2]])
                       ELSE Row(Bill(x[1]).lines[x[2]])
<1>1. PICK n, k : n \in S /\ k \in DOMAIN Bill(n).lines /\ x = <<n, k>>
  BY DEF Lines
<1>2. po[n].bill \in DOMAIN Bills
  BY <1>1, DealTyped DEF Deal
<1>3. Bill(n) \in AnyBill
  BY <1>2, BillNats DEF Bill
<1>4. Bill(n).lines \in Seq(BillLine)
  BY <1>3 DEF AnyBill
<1>5. Bill(n).lines[k] \in BillLine
  BY <1>1, <1>4
<1>6. RowOf(x) = IF po[n].bill \in Imported THEN ImportedRow(Bill(n).lines[k]) ELSE Row(Bill(n).lines[k])
  BY <1>1, <1>2 DEF RowOf, BillRows, Rows, Bill
<1> QED BY <1>1, <1>2, <1>3, <1>5, <1>6

\* The rows of some purchases are those rows whose purchase is one of them.
LEMMA LinesOf ==
  ASSUME ReportsInv, NEW S, S \subseteq Recorded
  PROVE  /\ Lines(S) \subseteq Everywhere
         /\ \A x \in Everywhere : x \in Lines(S) <=> x[1] \in S
<1>1. Lines(S) \subseteq Everywhere
  BY DEF Lines, Everywhere
<1>2. \A x \in Everywhere : x[1] \in S => x \in Lines(S)
  <2> SUFFICES ASSUME NEW x \in Everywhere, x[1] \in S PROVE x \in Lines(S)
    OBVIOUS
  <2>1. PICK n, k : n \in Recorded /\ k \in DOMAIN Bill(n).lines /\ x = <<n, k>>
    BY DEF Lines, Everywhere
  <2> QED BY <2>1 DEF Lines
<1>3. \A x \in Lines(S) : x[1] \in S
  BY DEF Lines
<1> QED BY <1>1, <1>2, <1>3

\* There are finitely many rows.
LEMMA LinesFinite ==
  ASSUME ReportsInv
  PROVE  /\ IsFiniteSet(Everywhere)
         /\ \A X : X \subseteq Everywhere => IsFiniteSet(X)
<1> DEFINE at == [n \in Recorded |-> {<<n, k>> : k \in DOMAIN Bill(n).lines}]
<1>1. \A n \in Recorded : IsFiniteSet(at[n])
  <2> SUFFICES ASSUME NEW n \in Recorded PROVE IsFiniteSet({<<n, k>> : k \in DOMAIN Bill(n).lines})
    OBVIOUS
  <2>1. po[n].bill \in DOMAIN Bills
    BY DealTyped DEF Deal
  <2>2. Bill(n).lines \in Seq(BillLine)
    BY <2>1, BillNats DEF Bill, AnyBill
  <2>3. PICK K : K = DOMAIN Bill(n).lines
    OBVIOUS
  <2>4. IsFiniteSet(K)
    <3>1. 1 \in Int /\ Len(Bill(n).lines) \in Int /\ K = 1 .. Len(Bill(n).lines)
      BY <2>2, <2>3
    <3>2. IsFiniteSet(1 .. Len(Bill(n).lines))
      BY <3>1, FS_Interval
    <3> QED BY <3>1, <3>2
  <2>5. PICK f : f = [k \in K |-> <<n, k>>]
    OBVIOUS
  <2>6. IsFiniteSet({f[k] : k \in K})
    BY <2>4, ImageFinite
  <2>7. {f[k] : k \in K} = {<<n, k>> : k \in DOMAIN Bill(n).lines}
    BY <2>3, <2>5
  <2> QED BY <2>6, <2>7
<1>2. IsFiniteSet({at[n] : n \in Recorded})
  <2> HIDE DEF at
  <2> QED BY RecordedFinite, ImageFinite
<1>3. Everywhere = UNION {at[n] : n \in Recorded}
  BY DEF Everywhere, Lines
<1>4. \A T \in {at[n] : n \in Recorded} : IsFiniteSet(T)
  BY <1>1
<1> HIDE DEF at
<1>5. PICK U : U = {at[n] : n \in Recorded}
  OBVIOUS
<1>6. IsFiniteSet(UNION U)
  BY <1>2, <1>4, <1>5, FS_UNION
<1>7. IsFiniteSet(Everywhere)
  BY <1>3, <1>5, <1>6
<1> QED BY <1>7, FS_Subset

\* Every unit has a type.
LEMMA TypeNotNone == \A unit : UnitType(unit) # None
<1> SUFFICES ASSUME NEW unit PROVE UnitType(unit) # None
  OBVIOUS
<1> DEFINE known == unit \in {"box", "tin", "litre", "pcs", "kg"}
           bags == unit \in {"bag", "sack", "bg"}
<1>1. UnitType(unit) = CASE bags -> "bag" [] known -> unit [] OTHER -> "other"
  BY DEF UnitType
<1>2. None \notin {"bag", "box", "tin", "litre", "pcs", "kg", "other"}
  BY ReportsAssumption
<1>3. CASE bags
  <2>1. ~known
    BY <1>3
  <2>2. UnitType(unit) = "bag"
    <3> HIDE DEF known, bags
    <3> QED BY <1>1, <1>3, <2>1
  <2> QED BY <1>2, <2>2
<1>4. CASE known
  <2>1. ~bags
    BY <1>4
  <2>2. UnitType(unit) = unit
    <3> HIDE DEF known, bags
    <3> QED BY <1>1, <1>4, <2>1
  <2> QED BY <1>2, <1>4, <2>2
<1>5. CASE ~bags /\ ~known
  <2>1. UnitType(unit) = "other"
    <3> HIDE DEF known, bags
    <3> QED BY <1>1, <1>5
  <2> QED BY <1>2, <2>1
<1> QED BY <1>3, <1>4, <1>5

\* What a row holds.
LEMMA RowIs ==
  ASSUME NEW l \in BillLine
  PROVE  LET s == Stripped(l)
             r == Row(l)
         IN  /\ s \in BillLine /\ r.line = s /\ r.type = UnitType(s.unit) /\ r.type # None
             /\ r.total = Money(s) /\ r.total \in Nat /\ r.total # None
             /\ r.profit = Profit(s) /\ r.profit \in Int \cup {None}
             /\ r.profit # None => s.sell # None /\ r.profit = s.qty * s.sell - Money(s) - Charges(s)
             /\ r.profit = None => s.sell = None
             /\ r.weight = IF LineKg(s) > 0 THEN LineKg(s) ELSE None
             /\ LineKg(s) \in Nat
<1>1. PICK s : s = Stripped(l)
  OBVIOUS
<1>2. s \in BillLine
  BY <1>1, LineNats
<1>3. Money(s) \in Nat /\ Charges(s) \in Nat /\ LineKg(s) \in Nat /\ s.qty \in Nat /\ (s.sell # None => s.sell \in Nat)
  BY <1>2, LineNats DEF BillLine, Optional
<1>4. s.sell # None => s.qty * s.sell \in Nat
  BY <1>3, NatArith
<1>5. /\ s.sell = None => Profit(s) = None
      /\ s.sell # None => Profit(s) = s.qty * s.sell - Money(s) - Charges(s)
  BY DEF Profit
<1>6. s.sell # None => s.qty * s.sell - Money(s) - Charges(s) \in Int
  BY <1>3, <1>4
<1>7. None \notin Int
  BY ReportsAssumption
<1>8. Row(l) = [line |-> s, type |-> UnitType(s.unit), total |-> Money(s), profit |-> Profit(s),
                weight |-> IF LineKg(s) > 0 THEN LineKg(s) ELSE None]
  BY <1>1 DEF Row
<1>9. PICK m, u, p, k : m = Money(s) /\ u = UnitType(s.unit) /\ p = Profit(s) /\ k = LineKg(s)
  OBVIOUS
<1>10. PICK r : r = Row(l)
  OBVIOUS
<1>11. r.line = s /\ r.type = u /\ r.total = m /\ r.profit = p /\ r.weight = IF k > 0 THEN k ELSE None
  BY <1>8, <1>9, <1>10
<1>12. /\ u # None /\ m \in Nat /\ m # None /\ k \in Nat
       /\ p # None => s.sell # None /\ p = s.qty * s.sell - Money(s) - Charges(s) /\ p \in Int
       /\ p = None => s.sell = None
  BY <1>3, <1>5, <1>6, <1>7, <1>9, TypeNotNone
<1> QED BY <1>1, <1>2, <1>9, <1>10, <1>11, <1>12

\* Which units are of the types that are weighed or counted.
LEMMA UnitTypeIs ==
  ASSUME NEW unit
  PROVE  /\ UnitType(unit) = "bag" <=> unit \in {"bag", "sack", "bg"}
         /\ UnitType(unit) = "kg" <=> unit = "kg"
         /\ UnitType(unit) = "box" <=> unit = "box"
         /\ UnitType(unit) = "tin" <=> unit = "tin"
<1> DEFINE known == unit \in {"box", "tin", "litre", "pcs", "kg"}
           bags == unit \in {"bag", "sack", "bg"}
<1>1. UnitType(unit) = CASE bags -> "bag" [] known -> unit [] OTHER -> "other"
  BY DEF UnitType
<1>2. known => ~bags
  OBVIOUS
<1> HIDE DEF known, bags
<1>3. /\ bags => UnitType(unit) = "bag"
      /\ known => UnitType(unit) = unit
      /\ ~bags /\ ~known => UnitType(unit) = "other"
  BY <1>1, <1>2
<1> QED BY <1>3 DEF known, bags

\* Every measure of a row is a number.
LEMMA RowMeasures ==
  ASSUME ReportsInv, NEW x \in Everywhere
  PROVE  LET r == RowOf(x)
         IN  /\ r.line \in BillLine /\ Amount(r) \in Nat /\ Selling(r) \in Nat /\ RowProfit(r) \in Int
             /\ Weight(r) \in Nat /\ (\A u : QtyWhen(r, u) \in Nat) /\ Charges(r.line) \in Nat
             /\ r.line.qty \in Nat
<1>1. PICK r : r = RowOf(x)
  OBVIOUS
<1>2. PICK l \in BillLine : r = ImportedRow(l) \/ r = Row(l)
  BY <1>1, LineAt DEF Everywhere
<1>3. /\ r.line \in BillLine /\ r.total \in Nat \cup {None} /\ r.profit \in Int \cup {None}
      /\ r.weight \in Nat \cup {None}
  <2>1. CASE r = ImportedRow(l)
    BY <2>1 DEF ImportedRow
  <2>2. CASE r = Row(l)
    BY <2>2, RowIs
  <2> QED BY <1>2, <2>1, <2>2
<1>4. /\ r.line.qty \in Nat /\ Given(r.line.sell) \in Nat /\ Given(r.line.kgPer) \in Nat
      /\ Gross(r.line) \in Nat /\ Charges(r.line) \in Nat
  <2>1. r.line.qty \in Nat /\ r.line.sell \in Optional /\ r.line.kgPer \in Optional
    BY <1>3 DEF BillLine
  <2> QED BY <1>3, <2>1, GivenNat, LineNats
<1>5. Amount(r) \in Nat
  BY <1>3, <1>4 DEF Amount, First
<1>6. Selling(r) \in Nat
  BY <1>4, NatArith DEF Selling
<1>7. RowProfit(r) \in Int
  <2>1. Selling(r) - Amount(r) \in Int
    BY <1>5, <1>6
  <2> QED BY <1>3, <2>1 DEF RowProfit, First
<1>8. Weight(r) \in Nat
  <2>1. Given(r.line.kgPer) > 0 => r.line.qty * r.line.kgPer \in Nat
    <3>1. Given(r.line.kgPer) > 0 => r.line.kgPer \in Nat
      BY <1>4 DEF Given
    <3> QED BY <1>4, <3>1, NatArith
  <2>2. PICK guess \in Nat : guess = IF IsBag(r) /\ Given(r.line.kgPer) > 0 THEN r.line.qty * r.line.kgPer
                                     ELSE IF IsLoose(r) THEN r.line.qty ELSE 0
    BY <1>4, <2>1
  <2> QED BY <1>3, <2>2 DEF Weight, First
<1>9. \A u : QtyWhen(r, u) \in Nat
  BY <1>4 DEF QtyWhen
<1> QED BY <1>1, <1>3, <1>4, <1>5, <1>6, <1>7, <1>8, <1>9

\* SQL and Python read a row alike.
LEMMA MirrorsAgree ==
  ASSUME ReportsInv, NEW x \in Everywhere
  PROVE  LET r == RowOf(x)
         IN  /\ Amount(r) = MirrorAmount(r) /\ Weight(r) = MirrorWeight(r)
             /\ r.line.unit # "bg" => \A u \in {"bag", "box", "tin"} : QtyWhen(r, u) = MirrorQty(r, u)
             /\ (r.type # None /\ r.type \in {"bag", "kg"}) => Weight(r) = LineKg(r.line)
<1>1. PICK r : r = RowOf(x)
  OBVIOUS
<1>2. PICK l \in BillLine : r = ImportedRow(l) \/ r = Row(l)
  BY <1>1, LineAt DEF Everywhere
<1>3. PICK s : s = r.line
  OBVIOUS
<1>4. /\ s \in BillLine /\ s.qty \in Nat /\ s.kgPer \in Optional /\ Given(s.kgPer) \in Nat
      /\ Given(s.kgPer) > 0 => s.kgPer = Given(s.kgPer)
      /\ Given(s.named) \in Nat
  <2>1. s \in BillLine
    BY <1>1, <1>3, RowMeasures
  <2> QED BY <2>1, GivenNat DEF BillLine, Given
<1>5. PICK g \in Nat : g = Given(s.kgPer)
  BY <1>4
<1>6. PICK by \in Nat : by = s.qty * g
  BY <1>4, NatArith
<1>7. g = 0 => by = 0
  BY <1>4, <1>6
<1>8. Amount(r) = MirrorAmount(r)
  BY DEF Amount, MirrorAmount
<1>9. PICK type : type = MirrorType(r)
  OBVIOUS
<1>10. /\ type = UnitType(s.unit)
       /\ IsBag(r) <=> type = "bag"
       /\ IsLoose(r) <=> type = "kg"
       /\ \A u \in {"bag", "box", "tin"} : (r.type = u \/ (r.type = None /\ UnitType(s.unit) = u)) <=> type = u
       /\ r.type # None => r.type = type
  <2>1. None \notin {"bag", "kg", "box", "tin"}
    BY ReportsAssumption
  <2>2. CASE r = ImportedRow(l)
    <3>1. r.type = None
      BY <2>2 DEF ImportedRow
    <3> QED BY <1>3, <1>9, <2>1, <3>1, UnitTypeIs DEF MirrorType, First, IsBag, IsLoose
  <2>3. CASE r = Row(l)
    <3>1. r.type = UnitType(s.unit) /\ r.type # None
      BY <1>3, <2>3, RowIs
    <3> QED BY <1>3, <1>9, <2>1, <3>1, UnitTypeIs DEF MirrorType, First, IsBag, IsLoose
  <2> QED BY <1>2, <2>2, <2>3
<1>11. Weight(r) = IF type = "bag" THEN First(r.weight, by) ELSE IF type = "kg" THEN First(r.weight, s.qty) ELSE 0
  <2>1. PICK guess : guess = IF IsBag(r) /\ g > 0 THEN s.qty * s.kgPer
                             ELSE IF IsLoose(r) THEN s.qty ELSE 0
    OBVIOUS
  <2>2. Weight(r) = IF IsBag(r) \/ IsLoose(r) THEN First(r.weight, guess) ELSE 0
    BY <1>3, <1>5, <2>1 DEF Weight
  <2>3. type = "bag" => guess = by
    <3>1. g > 0 => s.qty * s.kgPer = by
      BY <1>4, <1>5, <1>6
    <3> QED BY <1>7, <1>10, <2>1, <3>1
  <2>4. type = "kg" => guess = s.qty
    BY <1>10, <2>1
  <2> QED BY <1>10, <2>2, <2>3, <2>4
<1>12. MirrorWeight(r) = IF type = "bag" THEN First(r.weight, by) ELSE IF type = "kg" THEN First(r.weight, s.qty) ELSE 0
  <2>1. MirrorWeight(r) = CASE type = "bag" -> First(r.weight, by)
                            [] type = "kg" -> First(r.weight, s.qty)
                            [] OTHER -> 0
    BY <1>3, <1>5, <1>6, <1>9 DEF MirrorWeight
  <2>2. CASE type = "bag"
    <3>1. type # "kg"
      BY <2>2
    <3> QED BY <2>1, <2>2, <3>1
  <2>3. CASE type = "kg"
    <3>1. type # "bag"
      BY <2>3
    <3> QED BY <2>1, <2>3, <3>1
  <2>4. CASE type # "bag" /\ type # "kg"
    BY <2>1, <2>4
  <2> QED BY <2>2, <2>3, <2>4
<1>13. ASSUME s.unit # "bg", NEW u \in {"bag", "box", "tin"} PROVE QtyWhen(r, u) = MirrorQty(r, u)
  <2>1. LikeUnit(s.unit, u) <=> UnitType(s.unit) = u
    <3>1. CASE u = "bag"
      BY <1>13, <3>1, UnitTypeIs DEF LikeUnit
    <3>2. CASE u = "box"
      BY <3>2, UnitTypeIs DEF LikeUnit
    <3>3. CASE u = "tin"
      BY <3>3, UnitTypeIs DEF LikeUnit
    <3> QED BY <3>1, <3>2, <3>3
  <2> QED BY <1>3, <1>9, <1>10, <2>1 DEF QtyWhen, MirrorQty
<1>14. ASSUME r.type # None, r.type \in {"bag", "kg"} PROVE Weight(r) = LineKg(s)
  <2>1. r.weight = IF LineKg(s) > 0 THEN LineKg(s) ELSE None
    <3>1. r = Row(l)
      BY <1>2, <1>14 DEF ImportedRow
    <3> QED BY <1>3, <3>1, RowIs
  <2>2. LineKg(s) \in Nat /\ type \in {"bag", "kg"}
    BY <1>4, <1>10, <1>14, LineNats
  <2>3. PICK w \in Nat : w = LineKg(s)
    BY <2>2
  <2>4. (type = "kg" => w = s.qty) /\ (type = "bag" => w = IF g > 0 THEN by ELSE s.qty * Given(s.named))
    <3> DEFINE kgPer == IF g > 0 THEN s.kgPer ELSE Given(s.named)
               t == UnitType(s.unit)
    <3>1. w = CASE t = "bag" -> s.qty * kgPer
                [] t = "kg"  -> s.qty
                [] t \in {"box", "tin"} -> 0
                [] OTHER -> s.qty * Given(s.kgPer)
      BY <1>5, <2>3 DEF LineKg
    <3>2. t = type
      BY <1>10
    <3> HIDE DEF t, kgPer
    <3>3. type = "kg" => w = s.qty
      <4> SUFFICES ASSUME type = "kg" PROVE w = s.qty
        OBVIOUS
      <4>1. t # "bag" /\ t = "kg" /\ t \notin {"box", "tin"}
        BY <3>2
      <4> QED BY <3>1, <4>1
    <3>4. type = "bag" => w = s.qty * kgPer
      <4> SUFFICES ASSUME type = "bag" PROVE w = s.qty * kgPer
        OBVIOUS
      <4>1. t = "bag" /\ t # "kg" /\ t \notin {"box", "tin"}
        BY <3>2
      <4> QED BY <3>1, <4>1
    <3>5. s.qty * kgPer = IF g > 0 THEN by ELSE s.qty * Given(s.named)
      BY <1>4, <1>5, <1>6 DEF kgPer
    <3> QED BY <3>3, <3>4, <3>5
  <2>5. w = 0 \/ (r.weight = w /\ w # None)
    <3>1. None \notin Int
      BY ReportsAssumption
    <3> QED BY <2>1, <2>3, <3>1
  <2>6. CASE w = 0
    <3>1. r.weight = None
      BY <2>1, <2>3, <2>6
    <3>2. (type = "bag" => by = 0) /\ (type = "kg" => s.qty = 0)
      BY <1>7, <2>4, <2>6
    <3> QED BY <1>11, <2>2, <2>3, <2>6, <3>1, <3>2 DEF First
  <2>7. CASE r.weight = w /\ w # None
    BY <1>11, <2>2, <2>3, <2>7 DEF First
  <2> QED BY <2>5, <2>6, <2>7
<1> QED BY <1>1, <1>3, <1>8, <1>11, <1>12, <1>13, <1>14

-----------------------------------------------------------------------------
(***************************************************************************)
(* Reports as sums of measures.                                            *)
(***************************************************************************)
\* The measures of the rows.
AmountAt == [x \in Everywhere |-> Amount(RowOf(x))]
KgAt == [x \in Everywhere |-> Weight(RowOf(x))]
BagsAt == [x \in Everywhere |-> QtyWhen(RowOf(x), "bag")]
ProfitAt == [x \in Everywhere |-> RowProfit(RowOf(x))]
SellingAt == [x \in Everywhere |-> Selling(RowOf(x))]
ChargesAt == [x \in Everywhere |-> Charges(RowOf(x).line)]

\* They are integers.
LEMMA MeasuresAre ==
  ASSUME ReportsInv
  PROVE  \A x \in Everywhere : /\ AmountAt[x] \in Nat /\ KgAt[x] \in Nat /\ BagsAt[x] \in Nat
                               /\ ProfitAt[x] \in Int /\ SellingAt[x] \in Nat /\ ChargesAt[x] \in Nat
BY RowMeasures DEF AmountAt, KgAt, BagsAt, ProfitAt, SellingAt, ChargesAt

\* What the reports add is a sum of measures.
LEMMA AddedIs ==
  ASSUME ReportsInv, NEW X, X \subseteq Everywhere
  PROVE  /\ Added(Amount, X) = SumFunctionOnSet(AmountAt, X)
         /\ Added(Weight, X) = SumFunctionOnSet(KgAt, X)
         /\ Added(LAMBDA r : QtyWhen(r, "bag"), X) = SumFunctionOnSet(BagsAt, X)
         /\ Added(RowProfit, X) = SumFunctionOnSet(ProfitAt, X)
         /\ Added(Selling, X) = SumFunctionOnSet(SellingAt, X)
         /\ Added(LAMBDA r : Charges(r.line), X) = SumFunctionOnSet(ChargesAt, X)
<1>1. IsFiniteSet(X)
  BY LinesFinite
<1>2. Added(Amount, X) = SumFunctionOnSet(AmountAt, X)
  <2>1. PICK h : h = [x \in X |-> Amount(RowOf(x))]
    OBVIOUS
  <2>2. Added(Amount, X) = SumFunctionOnSet(h, X)
    BY <2>1 DEF Added, Sum, SumFunction
  <2>3. \A x \in X : AmountAt[x] \in Int /\ h[x] = AmountAt[x]
    BY <2>1, RowMeasures DEF AmountAt
  <2> QED BY <1>1, <2>2, <2>3, SumSame
<1>3. Added(Weight, X) = SumFunctionOnSet(KgAt, X)
  <2>1. PICK h : h = [x \in X |-> Weight(RowOf(x))]
    OBVIOUS
  <2>2. Added(Weight, X) = SumFunctionOnSet(h, X)
    BY <2>1 DEF Added, Sum, SumFunction
  <2>3. \A x \in X : KgAt[x] \in Int /\ h[x] = KgAt[x]
    BY <2>1, RowMeasures DEF KgAt
  <2> QED BY <1>1, <2>2, <2>3, SumSame
<1>4. Added(LAMBDA r : QtyWhen(r, "bag"), X) = SumFunctionOnSet(BagsAt, X)
  <2>1. PICK h : h = [x \in X |-> QtyWhen(RowOf(x), "bag")]
    OBVIOUS
  <2>2. Added(LAMBDA r : QtyWhen(r, "bag"), X) = SumFunctionOnSet(h, X)
    BY <2>1 DEF Added, Sum, SumFunction
  <2>3. \A x \in X : BagsAt[x] \in Int /\ h[x] = BagsAt[x]
    BY <2>1, RowMeasures DEF BagsAt
  <2> QED BY <1>1, <2>2, <2>3, SumSame
<1>5. Added(RowProfit, X) = SumFunctionOnSet(ProfitAt, X)
  <2>1. PICK h : h = [x \in X |-> RowProfit(RowOf(x))]
    OBVIOUS
  <2>2. Added(RowProfit, X) = SumFunctionOnSet(h, X)
    BY <2>1 DEF Added, Sum, SumFunction
  <2>3. \A x \in X : ProfitAt[x] \in Int /\ h[x] = ProfitAt[x]
    BY <2>1, RowMeasures DEF ProfitAt
  <2> QED BY <1>1, <2>2, <2>3, SumSame
<1>6. Added(Selling, X) = SumFunctionOnSet(SellingAt, X)
  <2>1. PICK h : h = [x \in X |-> Selling(RowOf(x))]
    OBVIOUS
  <2>2. Added(Selling, X) = SumFunctionOnSet(h, X)
    BY <2>1 DEF Added, Sum, SumFunction
  <2>3. \A x \in X : SellingAt[x] \in Int /\ h[x] = SellingAt[x]
    BY <2>1, RowMeasures DEF SellingAt
  <2> QED BY <1>1, <2>2, <2>3, SumSame
<1>7. Added(LAMBDA r : Charges(r.line), X) = SumFunctionOnSet(ChargesAt, X)
  <2>1. PICK h : h = [x \in X |-> Charges(RowOf(x).line)]
    OBVIOUS
  <2>2. Added(LAMBDA r : Charges(r.line), X) = SumFunctionOnSet(h, X)
    BY <2>1 DEF Added, Sum, SumFunction
  <2>3. \A x \in X : ChargesAt[x] \in Int /\ h[x] = ChargesAt[x]
    BY <2>1, RowMeasures DEF ChargesAt
  <2> QED BY <1>1, <2>2, <2>3, SumSame
<1> QED BY <1>2, <1>3, <1>4, <1>5, <1>6, <1>7

\* So are the figures of a report.
LEMMA FiguresAre ==
  ASSUME ReportsInv, NEW X, X \subseteq Everywhere
  PROVE  /\ Figures(X).amount = SumFunctionOnSet(AmountAt, X)
         /\ Figures(X).kg = SumFunctionOnSet(KgAt, X)
         /\ Figures(X).units["bag"] = SumFunctionOnSet(BagsAt, X)
<1>1. PICK a, b, c : a = Added(Amount, X) /\ b = Added(Weight, X) /\ c = Added(LAMBDA r : QtyWhen(r, "bag"), X)
  OBVIOUS
<1>2. PICK us : us = [u \in {"bag", "box", "tin"} |-> Added(LAMBDA r : QtyWhen(r, u), X)]
  OBVIOUS
<1>3. us["bag"] = c
  BY <1>1, <1>2
<1>4. PICK d, q : d = Cardinality({x[1] : x \in X}) /\ q = Added(LAMBDA r : r.line.qty, X)
  OBVIOUS
<1>5. Figures(X) = [deals |-> d, amount |-> a, qty |-> q, units |-> us, kg |-> b]
  BY <1>1, <1>2, <1>4 DEF Figures
<1>6. Figures(X).amount = a /\ Figures(X).kg = b /\ Figures(X).units = us
  BY <1>5
<1> QED BY <1>1, <1>3, <1>6, AddedIs

\* A breakdown adds up to what is broken down.
LEMMA GroupsAddUp ==
  ASSUME ReportsInv, NEW X, X \subseteq Everywhere, NEW key,
         NEW r, r = [g \in {key[x] : x \in X} |-> Figures(GroupOf(X, key, g))]
  PROVE  AddUp(r, Figures(X)) /\ AmountOf(r) = Figures(X).amount
<1>1. PICK K : K = {key[x] : x \in X}
  OBVIOUS
<1>2. IsFiniteSet(X) /\ IsFiniteSet(K) /\ \A x \in X : key[x] \in K
  BY <1>1, LinesFinite, ImageFinite
<1>3. /\ DOMAIN r = K
      /\ \A g \in K : GroupOf(X, key, g) \subseteq Everywhere /\ r[g] = Figures(GroupOf(X, key, g))
  BY <1>1 DEF GroupOf
<1>4. \A g \in K : /\ r[g].amount = SumFunctionOnSet(AmountAt, GroupOf(X, key, g))
                   /\ r[g].kg = SumFunctionOnSet(KgAt, GroupOf(X, key, g))
                   /\ r[g].units["bag"] = SumFunctionOnSet(BagsAt, GroupOf(X, key, g))
  BY <1>3, FiguresAre
<1>5. PICK P : P = PairsOf(K, r)
  OBVIOUS
<1>6. \A x \in X : AmountAt[x] \in Int /\ KgAt[x] \in Int /\ BagsAt[x] \in Int
  BY MeasuresAre
<1>7. \A g \in K : IsFiniteSet(GroupOf(X, key, g)) /\ GroupOf(X, key, g) \subseteq X
  BY <1>2, FS_Subset DEF GroupOf
<1>8. /\ Sum(LAMBDA q : q[2].amount, P) = Figures(X).amount
      /\ Sum(LAMBDA g : r[g].amount, K) = Figures(X).amount
  <2>1. PICK f : f = [g \in K |-> r[g].amount]
    OBVIOUS
  <2>2. PICK h : h = [q \in P |-> q[2].amount]
    OBVIOUS
  <2>3. \A g \in K : f[g] = SumFunctionOnSet(AmountAt, GroupOf(X, key, g))
    BY <1>4, <2>1
  <2>4. \A g \in K : SumFunctionOnSet(AmountAt, GroupOf(X, key, g)) \in Int
    BY <1>6, <1>7, SumInt
  <2>5. \A g \in K : f[g] \in Int /\ h[<<g, r[g]>>] = f[g]
    <3> SUFFICES ASSUME NEW g \in K PROVE f[g] \in Int /\ h[<<g, r[g]>>] = f[g]
      OBVIOUS
    <3>1. PICK p : p = <<g, r[g]>>
      OBVIOUS
    <3>2. p \in P /\ p[2] = r[g]
      BY <1>5, <3>1 DEF PairsOf
    <3>3. h[p] = r[g].amount
      BY <2>2, <3>2
    <3> QED BY <2>1, <2>3, <2>4, <3>1, <3>3
  <2>6. SumFunctionOnSet(h, P) = SumFunctionOnSet(f, K)
    BY ONLY <1>2, <1>5, <2>5, SumOfPairs
  <2>7. SumFunctionOnSet(f, K) = SumFunctionOnSet(AmountAt, X)
    BY ONLY <1>2, <1>6, <2>3, Grouping
  <2>8. Sum(LAMBDA q : q[2].amount, P) = SumFunctionOnSet(h, P) /\ Sum(LAMBDA g : r[g].amount, K) = SumFunctionOnSet(f, K)
    BY <2>1, <2>2 DEF Sum, SumFunction
  <2> QED BY <2>6, <2>7, <2>8, FiguresAre
<1>9. Sum(LAMBDA q : q[2].kg, P) = Figures(X).kg
  <2>1. PICK f : f = [g \in K |-> r[g].kg]
    OBVIOUS
  <2>2. PICK h : h = [q \in P |-> q[2].kg]
    OBVIOUS
  <2>3. \A g \in K : f[g] = SumFunctionOnSet(KgAt, GroupOf(X, key, g))
    BY <1>4, <2>1
  <2>4. \A g \in K : SumFunctionOnSet(KgAt, GroupOf(X, key, g)) \in Int
    BY <1>6, <1>7, SumInt
  <2>5. \A g \in K : f[g] \in Int /\ h[<<g, r[g]>>] = f[g]
    <3> SUFFICES ASSUME NEW g \in K PROVE f[g] \in Int /\ h[<<g, r[g]>>] = f[g]
      OBVIOUS
    <3>1. PICK p : p = <<g, r[g]>>
      OBVIOUS
    <3>2. p \in P /\ p[2] = r[g]
      BY <1>5, <3>1 DEF PairsOf
    <3>3. h[p] = r[g].kg
      BY <2>2, <3>2
    <3> QED BY <2>1, <2>3, <2>4, <3>1, <3>3
  <2>6. SumFunctionOnSet(h, P) = SumFunctionOnSet(f, K)
    BY ONLY <1>2, <1>5, <2>5, SumOfPairs
  <2>7. SumFunctionOnSet(f, K) = SumFunctionOnSet(KgAt, X)
    BY ONLY <1>2, <1>6, <2>3, Grouping
  <2>8. Sum(LAMBDA q : q[2].kg, P) = SumFunctionOnSet(h, P)
    BY <2>2 DEF Sum, SumFunction
  <2> QED BY <2>6, <2>7, <2>8, FiguresAre
<1>10. Sum(LAMBDA q : q[2].units["bag"], P) = Figures(X).units["bag"]
  <2>1. PICK f : f = [g \in K |-> r[g].units["bag"]]
    OBVIOUS
  <2>2. PICK h : h = [q \in P |-> q[2].units["bag"]]
    OBVIOUS
  <2>3. \A g \in K : f[g] = SumFunctionOnSet(BagsAt, GroupOf(X, key, g))
    BY <1>4, <2>1
  <2>4. \A g \in K : SumFunctionOnSet(BagsAt, GroupOf(X, key, g)) \in Int
    BY <1>6, <1>7, SumInt
  <2>5. \A g \in K : f[g] \in Int /\ h[<<g, r[g]>>] = f[g]
    <3> SUFFICES ASSUME NEW g \in K PROVE f[g] \in Int /\ h[<<g, r[g]>>] = f[g]
      OBVIOUS
    <3>1. PICK p : p = <<g, r[g]>>
      OBVIOUS
    <3>2. p \in P /\ p[2] = r[g]
      BY <1>5, <3>1 DEF PairsOf
    <3>3. h[p] = r[g].units["bag"]
      BY <2>2, <3>2
    <3> QED BY <2>1, <2>3, <2>4, <3>1, <3>3
  <2>6. SumFunctionOnSet(h, P) = SumFunctionOnSet(f, K)
    BY ONLY <1>2, <1>5, <2>5, SumOfPairs
  <2>7. SumFunctionOnSet(f, K) = SumFunctionOnSet(BagsAt, X)
    BY ONLY <1>2, <1>6, <2>3, Grouping
  <2>8. Sum(LAMBDA q : q[2].units["bag"], P) = SumFunctionOnSet(h, P)
    BY <2>2 DEF Sum, SumFunction
  <2> QED BY <2>6, <2>7, <2>8, FiguresAre
<1>11. AddUp(r, Figures(X))
  BY <1>3, <1>5, <1>8, <1>9, <1>10 DEF AddUp, PairsOf
<1>12. AmountOf(r) = Figures(X).amount
  BY <1>3, <1>8 DEF AmountOf
<1> QED BY <1>11, <1>12

-----------------------------------------------------------------------------
(***************************************************************************)
(* Summary, breakdowns and pages.                                          *)
(***************************************************************************)
\* The rows of a period.
LEMMA PeriodRows ==
  ASSUME ReportsInv, NEW from, NEW to
  PROVE  /\ Lines(InPeriod(from, to)) \subseteq Everywhere
         /\ \A x \in Everywhere :
              x \in Lines(InPeriod(from, to)) <=> Reported(x[1]) /\ po[x[1]].day \in from .. to
         /\ Summary(from, to, None) = Figures(Lines(InPeriod(from, to)))
<1>1. InPeriod(from, to) \subseteq Recorded
  BY DEF InPeriod
<1>2. \A x \in Everywhere : x[1] \in Recorded
  BY LineAt DEF Everywhere
<1>3. {x \in Lines(InPeriod(from, to)) : TRUE} = Lines(InPeriod(from, to))
  OBVIOUS
<1>4. Summary(from, to, None) = Figures(Lines(InPeriod(from, to)))
  BY <1>3 DEF Summary
<1> QED BY <1>1, <1>2, <1>4, LinesOf DEF InPeriod

\* The item of a row is in the catalog.
LEMMA ItemInCatalog ==
  ASSUME ReportsInv, NEW x \in Everywhere
  PROVE  ItemOf(x) \in Items /\ items[ItemOf(x)].cat \in Cats /\ x[1] \in Recorded
<1>1. ItemOf(x) \in Items
  BY RowMeasures DEF ItemOf, BillLine
<1>2. items[ItemOf(x)].cat \in Cats
  BY <1>1 DEF ReportsInv, ReportsTyped
<1> QED BY <1>1, <1>2, LineAt DEF Everywhere

\* The breakdowns of a period add up to its summary.
LEMMA BreakdownsAgree ==
  ASSUME ReportsInv, NEW from, NEW to
  PROVE  LET all == Summary(from, to, None)
         IN  /\ AddUp(SupplierRows(from, to), all) /\ AddUp(ItemRows(from, to), all)
             /\ AddUp(TypeRows(from, to), all) /\ AddUp(CategoryRows(from, to), all)
<1>1. PICK X : X = Lines(InPeriod(from, to))
  OBVIOUS
<1>2. X \subseteq Everywhere /\ Summary(from, to, None) = Figures(X)
  BY <1>1, PeriodRows
<1>3. AddUp(SupplierRows(from, to), Figures(X))
  <2>1. PICK key : key = [x \in X |-> SupplierOf(x)]
    OBVIOUS
  <2>2. SupplierRows(from, to) = [g \in {key[x] : x \in X} |-> Figures(GroupOf(X, key, g))]
    <3>1. \A g : {x \in X : SupplierOf(x) = g} = GroupOf(X, key, g)
      BY <2>1 DEF GroupOf
    <3>2. {SupplierOf(x) : x \in X} = {key[x] : x \in X}
      BY <2>1
    <3> QED BY <1>1, <3>1, <3>2 DEF SupplierRows, Grouped
  <2> QED BY <1>2, <2>2, GroupsAddUp
<1>4. AddUp(ItemRows(from, to), Figures(X))
  <2>1. PICK key : key = [x \in X |-> ItemOf(x)]
    OBVIOUS
  <2>2. ItemRows(from, to) = [g \in {key[x] : x \in X} |-> Figures(GroupOf(X, key, g))]
    <3>1. \A g : {x \in X : ItemOf(x) = g} = GroupOf(X, key, g)
      BY <2>1 DEF GroupOf
    <3>2. {ItemOf(x) : x \in X} = {key[x] : x \in X}
      BY <2>1
    <3> QED BY <1>1, <3>1, <3>2 DEF ItemRows, Grouped
  <2> QED BY <1>2, <2>2, GroupsAddUp
<1>5. AddUp(TypeRows(from, to), Figures(X))
  <2>1. PICK key : key = [x \in X |-> TypeOf(x)]
    OBVIOUS
  <2>2. TypeRows(from, to) = [g \in {key[x] : x \in X} |-> Figures(GroupOf(X, key, g))]
    <3>1. \A g : {x \in X : TypeOf(x) = g} = GroupOf(X, key, g)
      BY <2>1 DEF GroupOf
    <3>2. {TypeOf(x) : x \in X} = {key[x] : x \in X}
      BY <2>1
    <3> QED BY <1>1, <3>1, <3>2 DEF TypeRows, Grouped
  <2> QED BY <1>2, <2>2, GroupsAddUp
<1>6. AddUp(CategoryRows(from, to), Figures(X))
  <2>1. PICK key : key = [x \in X |-> CatName(x)]
    OBVIOUS
  <2>2. CategoryRows(from, to) = [g \in {key[x] : x \in X} |-> Figures(GroupOf(X, key, g))]
    <3>1. \A g : {x \in X : CatName(x) = g} = GroupOf(X, key, g)
      BY <2>1 DEF GroupOf
    <3>2. {CatName(x) : x \in X} = {key[x] : x \in X}
      BY <2>1
    <3> QED BY <1>1, <3>1, <3>2 DEF CategoryRows, Grouped
  <2> QED BY <1>2, <2>2, GroupsAddUp
<1> QED BY <1>2, <1>3, <1>4, <1>5, <1>6

\* The mapping of items to suppliers and brokers.
LEMMA MappingAgrees ==
  ASSUME ReportsInv, NEW from, NEW to
  PROVE  AmountOf(Mapping(from, to)) = Sum(LAMBDA s : Summary(from, to, s).amount, Suppliers)
<1>1. PICK X : X = Lines(InPeriod(from, to))
  OBVIOUS
<1>2. PICK Y : Y = {x \in X : SupplierOf(x) # None}
  OBVIOUS
<1>3. X \subseteq Everywhere /\ Y \subseteq Everywhere /\ IsFiniteSet(Y)
  BY <1>1, <1>2, PeriodRows, LinesFinite
<1>4. AmountOf(Mapping(from, to)) = Figures(Y).amount
  <2>1. PICK key : key = [x \in Y |-> <<ItemOf(x), SupplierOf(x), BillOf(x).broker>>]
    OBVIOUS
  <2>2. Mapping(from, to) = [g \in {key[x] : x \in Y} |-> Figures(GroupOf(Y, key, g))]
    <3>1. \A g : {x \in Y : <<ItemOf(x), SupplierOf(x), BillOf(x).broker>> = g} = GroupOf(Y, key, g)
      BY <2>1 DEF GroupOf
    <3>2. {<<ItemOf(x), SupplierOf(x), BillOf(x).broker>> : x \in Y} = {key[x] : x \in Y}
      BY <2>1
    <3> QED BY <1>1, <1>2, <3>1, <3>2 DEF Mapping, Grouped
  <2> QED BY <1>3, <2>2, GroupsAddUp
<1>5. PICK key : key = [x \in Y |-> SupplierOf(x)]
  OBVIOUS
<1>6. \A x \in Y : key[x] \in Suppliers
  <2> SUFFICES ASSUME NEW x \in Y PROVE SupplierOf(x) \in Suppliers
    BY <1>5
  <2>1. Bill(x[1]) \in AnyBill
    BY <1>3, LineAt DEF Everywhere
  <2> QED BY <1>2, <2>1 DEF SupplierOf, BillOf, AnyBill
<1>7. PICK v : v = [s \in Suppliers |-> Summary(from, to, s).amount]
  OBVIOUS
<1>8. \A s \in Suppliers : v[s] = SumFunctionOnSet(AmountAt, GroupOf(Y, key, s))
  <2> SUFFICES ASSUME NEW s \in Suppliers PROVE v[s] = SumFunctionOnSet(AmountAt, GroupOf(Y, key, s))
    OBVIOUS
  <2>1. s # None
    BY ReportsAssumption
  <2>2. {x \in X : s = None \/ SupplierOf(x) = s} = GroupOf(Y, key, s)
    BY <1>2, <1>5, <2>1 DEF GroupOf
  <2>3. Summary(from, to, s) = Figures(GroupOf(Y, key, s))
    BY <1>1, <2>2 DEF Summary
  <2>4. GroupOf(Y, key, s) \subseteq Everywhere
    BY <1>3 DEF GroupOf
  <2> QED BY <1>7, <2>3, <2>4, FiguresAre
<1>9. \A x \in Y : AmountAt[x] \in Int
  BY <1>3, MeasuresAre
<1>10. SumFunctionOnSet(v, Suppliers) = SumFunctionOnSet(AmountAt, Y)
  <2>1. IsFiniteSet(Suppliers)
    BY ReportsAssumption
  <2> QED BY ONLY <1>3, <1>6, <1>8, <1>9, <2>1, Grouping
<1>11. Sum(LAMBDA s : Summary(from, to, s).amount, Suppliers) = SumFunctionOnSet(v, Suppliers)
  BY <1>7 DEF Sum, SumFunction
<1> QED BY <1>3, <1>4, <1>10, <1>11, FiguresAre

\* The items' own reports.
LEMMA ItemReportsAgree ==
  ASSUME ReportsInv, NEW from, NEW to
  PROVE  Sum(LAMBDA i : ItemReport(i, from, to).amount, Items) = Summary(from, to, None).amount
<1>1. PICK X : X = Lines(InPeriod(from, to))
  OBVIOUS
<1>2. X \subseteq Everywhere /\ IsFiniteSet(X) /\ Summary(from, to, None) = Figures(X)
  BY <1>1, PeriodRows, LinesFinite
<1>3. PICK key : key = [x \in X |-> ItemOf(x)]
  OBVIOUS
<1>4. \A x \in X : key[x] \in Items /\ AmountAt[x] \in Int
  BY <1>2, <1>3, ItemInCatalog, MeasuresAre
<1>5. PICK v : v = [i \in Items |-> ItemReport(i, from, to).amount]
  OBVIOUS
<1>6. \A i \in Items : v[i] = SumFunctionOnSet(AmountAt, GroupOf(X, key, i))
  <2> SUFFICES ASSUME NEW i \in Items PROVE v[i] = SumFunctionOnSet(AmountAt, GroupOf(X, key, i))
    OBVIOUS
  <2>1. {x \in X : ItemOf(x) = i} = GroupOf(X, key, i)
    BY <1>3 DEF GroupOf
  <2>2. ItemReport(i, from, to).amount = Figures(GroupOf(X, key, i)).amount
    BY <1>1, <2>1 DEF ItemReport
  <2>3. GroupOf(X, key, i) \subseteq Everywhere
    BY <1>2 DEF GroupOf
  <2> QED BY <1>5, <2>2, <2>3, FiguresAre
<1>7. SumFunctionOnSet(v, Items) = SumFunctionOnSet(AmountAt, X)
  <2>1. IsFiniteSet(Items)
    BY ReportsAssumption
  <2>2. \A x \in X : key[x] \in Items
    BY <1>4
  <2>3. \A x \in X : AmountAt[x] \in Int
    BY <1>4
  <2> QED BY ONLY <1>2, <1>6, <2>1, <2>2, <2>3, Grouping
<1>8. Sum(LAMBDA i : ItemReport(i, from, to).amount, Items) = SumFunctionOnSet(v, Items)
  BY <1>5 DEF Sum, SumFunction
<1> QED BY <1>2, <1>7, <1>8, FiguresAre

\* A period and the one before it.
LEMMA ComparisonAgrees ==
  ASSUME ReportsInv, NEW p \in Periods
  PROVE  LET both == Comparison(p[1], p[2])
         IN  both.current.amount + both.prior.amount = Summary(both.from, p[2], None).amount
<1>1. p[1] \in Nat /\ p[2] \in Nat /\ p[1] <= p[2]
  BY ReportsAssumption DEF Periods
<1>2. PICK a \in Nat, b \in Nat : a = p[1] /\ b = p[2] /\ a <= b
  BY <1>1
<1>3. PICK end \in Int : end = a - 1
  OBVIOUS
<1>4. PICK from \in Int : from = end - ((b - a + 1) - 1)
  OBVIOUS
<1>5. PICK now, then : now = Summary(a, b, None) /\ then = Summary(from, end, None)
  OBVIOUS
<1>6. Comparison(a, b) = [current |-> now, prior |-> then, from |-> from]
  BY <1>3, <1>4, <1>5 DEF Comparison
<1>7. PICK X, Y, Z : X = Lines(InPeriod(a, b)) /\ Y = Lines(InPeriod(from, end)) /\ Z = Lines(InPeriod(from, b))
  OBVIOUS
<1>8. /\ X \subseteq Everywhere /\ Y \subseteq Everywhere /\ Z \subseteq Everywhere
      /\ now = Figures(X) /\ then = Figures(Y) /\ Summary(from, b, None) = Figures(Z)
  BY <1>5, <1>7, PeriodRows
<1>9. X \cap Y = {} /\ X \cup Y = Z
  <2>1. \A x \in Everywhere : po[x[1]].day \in Nat
    <3>1. \A n \in Recorded : po[n].day \in 1 .. LastDay
      <4>1. \A n \in Recorded : po[n] \in Deal
        BY DealTyped
      <4> QED BY <4>1 DEF Deal
    <3> QED BY <3>1, ItemInCatalog, ReportsAssumption
  <2>2. \A d \in Nat : /\ ~(d \in a .. b /\ d \in from .. end)
                       /\ d \in from .. b <=> d \in a .. b \/ d \in from .. end
    BY <1>2, <1>3, <1>4
  <2>3. \A x \in Everywhere : /\ ~(x \in X /\ x \in Y)
                              /\ x \in Z <=> x \in X \/ x \in Y
    BY <1>7, <2>1, <2>2, PeriodRows
  <2> QED BY <1>8, <2>3
<1>10. SumFunctionOnSet(AmountAt, Z) = SumFunctionOnSet(AmountAt, X) + SumFunctionOnSet(AmountAt, Y)
  <2>1. IsFiniteSet(X) /\ IsFiniteSet(Y)
    BY <1>8, LinesFinite
  <2>2. \A x \in X \cup Y : AmountAt[x] \in Int
    BY <1>8, MeasuresAre
  <2> QED BY <1>9, <2>1, <2>2, SumOfParts
<1>11. /\ now.amount = SumFunctionOnSet(AmountAt, X) /\ then.amount = SumFunctionOnSet(AmountAt, Y)
       /\ Summary(from, b, None).amount = SumFunctionOnSet(AmountAt, Z)
  BY <1>8, FiguresAre
<1> QED BY <1>2, <1>6, <1>10, <1>11

\* The categories' own pages, while every bill is confirmed.
LEMMA CategoriesAgree ==
  ASSUME ReportsInv, \A n \in Recorded : po[n].status = "confirmed" /\ po[n].bill \notin Imported
  PROVE  Sum(LAMBDA c : CategoryTrade(c).amount, Cats) = Summary(1, LastDay, None).amount
<1>1. PICK X : X = Lines(InPeriod(1, LastDay))
  OBVIOUS
<1>2. X \subseteq Everywhere /\ IsFiniteSet(X) /\ Summary(1, LastDay, None) = Figures(X)
  BY <1>1, PeriodRows, LinesFinite
<1>3. {n \in Recorded : po[n].status = "confirmed"} = InPeriod(1, LastDay)
  <2>1. \A n \in Recorded : po[n].day \in 1 .. LastDay
    <3>1. \A n \in Recorded : po[n] \in Deal
      BY DealTyped
    <3> QED BY <3>1 DEF Deal
  <2> QED BY <2>1 DEF InPeriod, Reported
<1>4. PICK key : key = [x \in X |-> items[ItemOf(x)].cat]
  OBVIOUS
<1>5. \A x \in X : key[x] \in Cats /\ AmountAt[x] \in Int
  BY <1>2, <1>4, ItemInCatalog, MeasuresAre
<1>6. \A x \in X : Given(RowOf(x).total) = AmountAt[x]
  <2> SUFFICES ASSUME NEW x \in X PROVE Given(RowOf(x).total) = AmountAt[x]
    OBVIOUS
  <2>1. x \in Everywhere /\ x[1] \in Recorded
    BY <1>2, ItemInCatalog
  <2>2. PICK l \in BillLine : RowOf(x) = Row(l)
    BY <2>1, LineAt DEF Everywhere
  <2>3. RowOf(x).total # None
    BY <2>2, RowIs
  <2> QED BY <2>1, <2>3 DEF AmountAt, Amount, First, Given
<1>7. PICK v : v = [c \in Cats |-> CategoryTrade(c).amount]
  OBVIOUS
<1>8. \A c \in Cats : v[c] = SumFunctionOnSet(AmountAt, GroupOf(X, key, c))
  <2> SUFFICES ASSUME NEW c \in Cats PROVE v[c] = SumFunctionOnSet(AmountAt, GroupOf(X, key, c))
    OBVIOUS
  <2>1. PICK W : W = GroupOf(X, key, c)
    OBVIOUS
  <2>2. {x \in Lines({n \in Recorded : po[n].status = "confirmed"}) : items[ItemOf(x)].cat = c} = W
    BY <1>1, <1>3, <1>4, <2>1 DEF GroupOf
  <2>3. W \subseteq X /\ IsFiniteSet(W)
    BY <1>2, <2>1, FS_Subset DEF GroupOf
  <2>4. PICK h : h = [x \in W |-> Given(RowOf(x).total)]
    OBVIOUS
  <2>5. CategoryTrade(c).amount = SumFunctionOnSet(h, W)
    BY <2>2, <2>4 DEF CategoryTrade, Added, Sum, SumFunction
  <2>6. \A x \in W : AmountAt[x] \in Int /\ h[x] = AmountAt[x]
    BY <1>5, <1>6, <2>3, <2>4
  <2>7. SumFunctionOnSet(h, W) = SumFunctionOnSet(AmountAt, W)
    BY <2>3, <2>6, SumSame
  <2> QED BY <1>7, <2>1, <2>5, <2>7
<1>9. SumFunctionOnSet(v, Cats) = SumFunctionOnSet(AmountAt, X)
  <2>1. IsFiniteSet(Cats)
    BY ReportsAssumption
  <2>2. \A x \in X : key[x] \in Cats
    BY <1>5
  <2>3. \A x \in X : AmountAt[x] \in Int
    BY <1>5
  <2> QED BY ONLY <1>2, <1>8, <2>1, <2>2, <2>3, Grouping
<1>10. Sum(LAMBDA c : CategoryTrade(c).amount, Cats) = SumFunctionOnSet(v, Cats)
  BY <1>7 DEF Sum, SumFunction
<1> QED BY <1>2, <1>9, <1>10, FiguresAre

\* What a month owes is no more than what it bought.
LEMMA MonthAgrees ==
  ASSUME ReportsInv, NEW m
  PROVE  Month(m).pending <= Month(m).amount
<1>1. PICK from, to : from = (m - 1) * MonthDays + 1 /\ to = m * MonthDays
  OBVIOUS
<1>2. PICK X : X = Lines(InPeriod(from, to))
  OBVIOUS
<1>3. X \subseteq Everywhere /\ IsFiniteSet(X) /\ Summary(from, to, None) = Figures(X)
  BY <1>2, PeriodRows, LinesFinite
<1>4. PICK a : a = Summary(from, to, None).amount
  OBVIOUS
<1>5. a \in Nat
  <2>1. a = SumFunctionOnSet(AmountAt, X)
    BY <1>3, <1>4, FiguresAre
  <2>2. \A x \in X : AmountAt[x] \in Nat
    BY <1>3, MeasuresAre
  <2> QED BY <1>3, <2>1, <2>2, SumNat
<1>6. PICK paid : paid = Sum(LAMBDA n : po[n].paid, InPeriod(from, to))
  OBVIOUS
<1>7. paid \in Nat
  <2>1. PICK S : S = InPeriod(from, to)
    OBVIOUS
  <2>2. IsFiniteSet(S) /\ S \subseteq Recorded
    BY <2>1, RecordedFinite, FS_Subset DEF InPeriod
  <2>3. PICK f : f = [n \in S |-> po[n].paid]
    OBVIOUS
  <2>4. \A n \in S : f[n] \in Nat
    BY <2>2, <2>3, PaymentOf
  <2>5. SumFunctionOnSet(f, S) \in Nat
    BY <2>2, <2>4, SumNat
  <2> QED BY <1>6, <2>1, <2>3, <2>5 DEF Sum, SumFunction
<1>8. PICK rest, profit, top : /\ rest = Max({0, a - paid}) /\ profit = ProfitOf(Lines(InPeriod(from, to)))
                               /\ top = ItemRows(from, to)
  OBVIOUS
<1>9. Month(m) = [amount |-> a, paid |-> paid, pending |-> rest, profit |-> profit, top |-> top]
  BY <1>1, <1>4, <1>6, <1>8 DEF Month
<1>10. PICK remains \in Int : remains = a - paid
  BY <1>5, <1>7
<1>11. Max({0, remains}) = IF 0 >= remains THEN 0 ELSE remains
  BY MaxOfTwo
<1>12. rest <= a
  BY <1>5, <1>7, <1>8, <1>10, <1>11
<1> QED BY <1>9, <1>12

\* All figures of a period agree.
LEMMA FiguresHold ==
  ASSUME ReportsInv
  PROVE  FiguresAgree
<1>1. \A p \in Viewed :
          LET all == Summary(p[1], p[2], None)
          IN  /\ AddUp(SupplierRows(p[1], p[2]), all) /\ AddUp(ItemRows(p[1], p[2]), all)
              /\ AddUp(TypeRows(p[1], p[2]), all) /\ AddUp(CategoryRows(p[1], p[2]), all)
              /\ AmountOf(Mapping(p[1], p[2])) =
                    Sum(LAMBDA s : Summary(p[1], p[2], s).amount, Suppliers)
              /\ Sum(LAMBDA i : ItemReport(i, p[1], p[2]).amount, Items) = all.amount
  <2> SUFFICES ASSUME NEW p \in Viewed
               PROVE  LET all == Summary(p[1], p[2], None)
                      IN  /\ AddUp(SupplierRows(p[1], p[2]), all) /\ AddUp(ItemRows(p[1], p[2]), all)
                          /\ AddUp(TypeRows(p[1], p[2]), all) /\ AddUp(CategoryRows(p[1], p[2]), all)
                          /\ AmountOf(Mapping(p[1], p[2])) =
                                Sum(LAMBDA s : Summary(p[1], p[2], s).amount, Suppliers)
                          /\ Sum(LAMBDA i : ItemReport(i, p[1], p[2]).amount, Items) = all.amount
    OBVIOUS
  <2>1. PICK from, to : from = p[1] /\ to = p[2]
    OBVIOUS
  <2>2. LET all == Summary(from, to, None)
        IN  /\ AddUp(SupplierRows(from, to), all) /\ AddUp(ItemRows(from, to), all)
            /\ AddUp(TypeRows(from, to), all) /\ AddUp(CategoryRows(from, to), all)
    BY BreakdownsAgree
  <2>3. AmountOf(Mapping(from, to)) = Sum(LAMBDA s : Summary(from, to, s).amount, Suppliers)
    BY MappingAgrees DEF Sum, SumFunction
  <2>4. Sum(LAMBDA i : ItemReport(i, from, to).amount, Items) = Summary(from, to, None).amount
    BY ItemReportsAgree
  <2> QED BY <2>1, <2>2, <2>3, <2>4
<1>2. \A x \in Lines(Recorded) :
          LET r == RowOf(x)
          IN  /\ Amount(r) = MirrorAmount(r) /\ Weight(r) = MirrorWeight(r)
              /\ r.line.unit # "bg" => \A u \in {"bag", "box", "tin"} : QtyWhen(r, u) = MirrorQty(r, u)
              /\ (r.type # None /\ r.type \in {"bag", "kg"}) => Weight(r) = LineKg(r.line)
  BY MirrorsAgree DEF Everywhere
<1> QED BY <1>1, <1>2, ComparisonAgrees, CategoriesAgree, MonthAgrees DEF FiguresAgree

-----------------------------------------------------------------------------
(***************************************************************************)
(* Profits.                                                                *)
(***************************************************************************)
\* The rows of one purchase, summed over its lines.
LEMMA RowsOfOne ==
  ASSUME ReportsInv, NEW n \in Recorded, NEW f, NEW g,
         \A k \in DOMAIN Bill(n).lines : g[k] \in Int /\ f[<<n, k>>] = g[k]
  PROVE  /\ IsFiniteSet(DOMAIN Bill(n).lines)
         /\ SumFunctionOnSet(f, Lines({n})) = SumFunctionOnSet(g, DOMAIN Bill(n).lines)
<1>1. PICK K : K = DOMAIN Bill(n).lines
  OBVIOUS
<1>2. IsFiniteSet(K)
  <2>1. po[n].bill \in DOMAIN Bills
    BY DealTyped DEF Deal
  <2>2. Bill(n).lines \in Seq(BillLine)
    BY <2>1, BillNats DEF Bill, AnyBill
  <2>3. 1 \in Int /\ Len(Bill(n).lines) \in Int /\ K = 1 .. Len(Bill(n).lines)
    BY <1>1, <2>2
  <2>4. IsFiniteSet(1 .. Len(Bill(n).lines))
    BY <2>3, FS_Interval
  <2> QED BY <2>3, <2>4
<1>3. PICK key : key = [k \in K |-> <<n, k>>]
  OBVIOUS
<1>4. \A j, k \in K : key[j] = key[k] => j = k
  BY <1>3
<1>5. \A k \in K : g[k] \in Int /\ f[key[k]] = g[k]
  BY <1>1, <1>3
<1>6. SumFunctionOnSet(f, {key[k] : k \in K}) = SumFunctionOnSet(g, K)
  BY ONLY <1>2, <1>4, <1>5, SumOfImage
<1>7. {key[k] : k \in K} = Lines({n})
  BY <1>1, <1>3 DEF Lines
<1> QED BY <1>1, <1>2, <1>6, <1>7

\* What a line becomes when it is stored.
LEMMA StoredLine ==
  ASSUME NEW l \in BillLine
  PROVE  LET r == Row(l)
         IN  /\ Selling(r) = l.qty * Given(l.sell) /\ Amount(r) = Money(Stripped(l))
             /\ Charges(r.line) = Charges(l)
<1>1. PICK s : s = Stripped(l)
  OBVIOUS
<1>2. /\ s.qty = l.qty /\ s.sell = l.sell /\ s.delivered = l.delivered /\ s.separate = l.separate
      /\ s.freight = l.freight
  <2>1. CASE l.unit \in {"box", "tin"}
    <3>1. s = [l EXCEPT !.kgPer = None, !.perKg = None]
      BY <1>1, <2>1 DEF Stripped
    <3> QED BY <3>1 DEF BillLine
  <2>2. CASE l.unit \notin {"box", "tin"}
    BY <1>1, <2>2 DEF Stripped
  <2> QED BY <2>1, <2>2
<1>3. PICK r : r = Row(l)
  OBVIOUS
<1>4. r.line = s /\ r.total = Money(s) /\ r.total # None
  BY <1>1, <1>3, RowIs
<1>5. Selling(r) = l.qty * Given(l.sell)
  BY <1>2, <1>4 DEF Selling
<1>6. Amount(r) = Money(s)
  BY <1>4 DEF Amount, First
<1>7. Charges(r.line) = Charges(l)
  BY <1>2, <1>4 DEF Charges
<1> QED BY <1>1, <1>3, <1>5, <1>6, <1>7

\* A purchase's own page.
LEMMA MarginHolds ==
  ASSUME ReportsInv, NEW n \in Recorded, Margin(n) # None, po[n].bill \notin Imported
  PROVE  Margin(n) = Added(Selling, Lines({n})) - Added(Amount, Lines({n})) - ChargedOn(Lines({n})) - Trimmed(n)
<1>1. PICK K : K = DOMAIN Bill(n).lines
  OBVIOUS
<1>2. PICK sold, cost, charge, amount, trim :
        /\ sold = [k \in K |-> Bill(n).lines[k].qty * Given(Bill(n).lines[k].sell)]
        /\ cost = [k \in K |-> Money(Bill(n).lines[k]) + Charges(Bill(n).lines[k])]
        /\ charge = [k \in K |-> Charges(Bill(n).lines[k])]
        /\ amount = [k \in K |-> Money(Stripped(Bill(n).lines[k]))]
        /\ trim = [k \in K |-> Money(Bill(n).lines[k]) - Money(Stripped(Bill(n).lines[k]))]
  OBVIOUS
<1>3. PICK total, spent, lost : /\ total = SumFunctionOnSet(sold, K) /\ spent = SumFunctionOnSet(cost, K)
                                /\ lost = SumFunctionOnSet(trim, K)
  OBVIOUS
<1>4. /\ LineSum(LAMBDA l : l.qty * Given(l.sell), Bill(n)) = total
      /\ LineSum(LAMBDA l : Money(l) + Charges(l), Bill(n)) = spent
      /\ Trimmed(n) = lost
  BY <1>1, <1>2, <1>3 DEF LineSum, Sum, SumFunction, Trimmed
<1>5. Margin(n) = total - spent
  <2>1. Margin(n) = IF total <= 0 THEN None ELSE total - spent
    BY <1>4 DEF Margin
  <2> QED BY <2>1
<1>6. \A k \in K : /\ <<n, k>> \in Everywhere /\ Bill(n).lines[k] \in BillLine
                   /\ RowOf(<<n, k>>) = Row(Bill(n).lines[k])
  <2> SUFFICES ASSUME NEW k \in K
               PROVE  /\ <<n, k>> \in Everywhere /\ Bill(n).lines[k] \in BillLine
                      /\ RowOf(<<n, k>>) = Row(Bill(n).lines[k])
    OBVIOUS
  <2>1. PICK x : x = <<n, k>>
    OBVIOUS
  <2>2. x[1] = n /\ x[2] = k
    BY <2>1
  <2>3. x \in Lines(Recorded)
    BY <1>1, <2>1 DEF Lines
  <2> QED BY <2>1, <2>2, <2>3, LineAt DEF Everywhere
<1>7. \A k \in K : LET l == Bill(n).lines[k]
                   IN  /\ l.qty * Given(l.sell) \in Nat /\ Money(l) \in Nat /\ Charges(l) \in Nat
                       /\ Money(Stripped(l)) \in Nat
  <2> SUFFICES ASSUME NEW l \in BillLine
               PROVE  /\ l.qty * Given(l.sell) \in Nat /\ Money(l) \in Nat /\ Charges(l) \in Nat
                      /\ Money(Stripped(l)) \in Nat
    BY <1>6
  <2>1. l.qty \in Nat /\ Given(l.sell) \in Nat
    BY GivenNat DEF BillLine
  <2> QED BY <2>1, LineNats, NatArith
<1>8. \A k \in K : /\ sold[k] \in Int /\ cost[k] \in Int /\ charge[k] \in Int /\ amount[k] \in Int
                   /\ trim[k] \in Int /\ cost[k] = amount[k] + charge[k] + trim[k]
  BY <1>2, <1>7
<1>9. \A k \in K : /\ SellingAt[<<n, k>>] = sold[k] /\ AmountAt[<<n, k>>] = amount[k]
                   /\ ChargesAt[<<n, k>>] = charge[k]
  BY <1>2, <1>6, StoredLine DEF SellingAt, AmountAt, ChargesAt
<1>10. IsFiniteSet(K) /\ SumFunctionOnSet(SellingAt, Lines({n})) = total
  <2>1. \A k \in DOMAIN Bill(n).lines : sold[k] \in Int /\ SellingAt[<<n, k>>] = sold[k]
    BY <1>1, <1>8, <1>9
  <2> QED BY <1>1, <1>3, <2>1, RowsOfOne
<1>11. PICK a : a = SumFunctionOnSet(amount, K) /\ a = SumFunctionOnSet(AmountAt, Lines({n}))
  <2>1. \A k \in DOMAIN Bill(n).lines : amount[k] \in Int /\ AmountAt[<<n, k>>] = amount[k]
    BY <1>1, <1>8, <1>9
  <2> QED BY <1>1, <2>1, RowsOfOne
<1>12. PICK c : c = SumFunctionOnSet(charge, K) /\ c = SumFunctionOnSet(ChargesAt, Lines({n}))
  <2>1. \A k \in DOMAIN Bill(n).lines : charge[k] \in Int /\ ChargesAt[<<n, k>>] = charge[k]
    BY <1>1, <1>8, <1>9
  <2> QED BY <1>1, <2>1, RowsOfOne
<1>13. spent = a + c + lost /\ a \in Int /\ c \in Int /\ lost \in Int /\ total \in Int
  <2>1. PICK stored : stored = [k \in K |-> amount[k] + charge[k]]
    OBVIOUS
  <2>2. \A k \in K : amount[k] \in Int /\ charge[k] \in Int /\ stored[k] = amount[k] + charge[k]
    BY <1>8, <2>1
  <2>3. SumFunctionOnSet(stored, K) = SumFunctionOnSet(amount, K) + SumFunctionOnSet(charge, K)
    BY <1>10, <2>2, SumPlus
  <2>4. \A k \in K : stored[k] \in Int /\ trim[k] \in Int /\ cost[k] = stored[k] + trim[k]
    BY <1>8, <2>2
  <2>5. spent = SumFunctionOnSet(stored, K) + lost
    BY <1>3, <1>10, <2>4, SumPlus
  <2>6. a \in Int /\ c \in Int /\ lost \in Int /\ total \in Int
    BY <1>3, <1>8, <1>10, <1>11, <1>12, SumInt
  <2> QED BY <1>11, <1>12, <2>3, <2>5, <2>6
<1>14. /\ Added(Selling, Lines({n})) = total /\ Added(Amount, Lines({n})) = a
       /\ ChargedOn(Lines({n})) = c
  <2>1. Lines({n}) \subseteq Everywhere
    BY LinesOf
  <2> QED BY <1>10, <1>11, <1>12, <2>1, AddedIs DEF ChargedOn
<1>15. total - spent = total - a - c - lost
  BY <1>13
<1> QED BY <1>4, <1>5, <1>14, <1>15

\* A breakdown of profits adds up to the profit.
LEMMA ProfitBy ==
  ASSUME ReportsInv, NEW X, X \subseteq Everywhere, NEW key, NEW K, IsFiniteSet(K),
         \A x \in X : key[x] \in K,
         NEW v, \A k \in K : v[k] = ProfitOf(GroupOf(X, key, k))
  PROVE  SumFunctionOnSet(v, K) = ProfitOf(X)
<1>1. IsFiniteSet(X)
  BY LinesFinite
<1>2. \A Y : Y \subseteq Everywhere => ProfitOf(Y) = SumFunctionOnSet(ProfitAt, Y)
  BY AddedIs DEF ProfitOf
<1>3. \A k \in K : v[k] = SumFunctionOnSet(ProfitAt, GroupOf(X, key, k))
  <2>1. \A k \in K : GroupOf(X, key, k) \subseteq Everywhere
    BY DEF GroupOf
  <2> QED BY <1>2, <2>1
<1>4. \A x \in X : ProfitAt[x] \in Int
  BY MeasuresAre
<1>5. IsFiniteSet(K)
  OBVIOUS
<1>6. \A x \in X : key[x] \in K
  OBVIOUS
<1>7. SumFunctionOnSet(v, K) = SumFunctionOnSet(ProfitAt, X)
  BY ONLY <1>1, <1>3, <1>4, <1>5, <1>6, Grouping
<1> QED BY <1>2, <1>7

\* The profits of the days are the profit of the period.
LEMMA DaysAgree ==
  ASSUME ReportsInv, NEW from, NEW to
  PROVE  LET daily == DailyProfit(from, to)
         IN  Sum(LAMBDA d : daily[d], DOMAIN daily) = ProfitOf(Lines(InPeriod(from, to)))
<1>1. PICK X : X = Lines(InPeriod(from, to))
  OBVIOUS
<1>2. X \subseteq Everywhere /\ \A x \in X : x[1] \in InPeriod(from, to)
  <2>1. InPeriod(from, to) \subseteq Recorded
    BY DEF InPeriod
  <2> QED BY <1>1, <2>1, LinesOf
<1>3. PICK D : D = {po[n].day : n \in InPeriod(from, to)}
  OBVIOUS
<1>4. IsFiniteSet(D)
  <2>1. PICK S : S = InPeriod(from, to)
    OBVIOUS
  <2>2. IsFiniteSet(S)
    BY <2>1, RecordedFinite, FS_Subset DEF InPeriod
  <2>3. PICK f : f = [n \in S |-> po[n].day]
    OBVIOUS
  <2>4. IsFiniteSet({f[n] : n \in S})
    BY <2>2, ImageFinite
  <2>5. {f[n] : n \in S} = D
    BY <1>3, <2>1, <2>3
  <2> QED BY <2>4, <2>5
<1>5. PICK daily : daily = DailyProfit(from, to)
  OBVIOUS
<1>6. PICK key : key = [x \in X |-> po[x[1]].day]
  OBVIOUS
<1>7. \A x \in X : key[x] \in D
  BY <1>2, <1>3, <1>6
<1>8. DOMAIN daily = D /\ \A d \in D : daily[d] = ProfitOf(GroupOf(X, key, d))
  <2>1. \A d : {x \in X : po[x[1]].day = d} = GroupOf(X, key, d)
    BY <1>6 DEF GroupOf
  <2> QED BY <1>1, <1>3, <1>5, <2>1 DEF DailyProfit
<1>9. SumFunctionOnSet(daily, D) = ProfitOf(X)
  BY <1>2, <1>4, <1>7, <1>8, ProfitBy
<1>10. Sum(LAMBDA d : daily[d], DOMAIN daily) = SumFunctionOnSet(daily, D)
  <2>1. PICK f : f = [d \in D |-> daily[d]]
    OBVIOUS
  <2>2. Sum(LAMBDA d : daily[d], DOMAIN daily) = SumFunctionOnSet(f, D)
    BY <1>8, <2>1 DEF Sum, SumFunction
  <2>3. \A d \in D : daily[d] \in Int /\ f[d] = daily[d]
    <3>1. \A d \in D : GroupOf(X, key, d) \subseteq Everywhere
      BY <1>2 DEF GroupOf
    <3>2. \A Y : Y \subseteq Everywhere => ProfitOf(Y) \in Int
      <4> SUFFICES ASSUME NEW Y, Y \subseteq Everywhere PROVE ProfitOf(Y) \in Int
        OBVIOUS
      <4>1. IsFiniteSet(Y) /\ \A x \in Y : ProfitAt[x] \in Int
        BY LinesFinite, MeasuresAre
      <4>2. SumFunctionOnSet(ProfitAt, Y) \in Int
        BY <4>1, SumInt
      <4> QED BY <4>2, AddedIs DEF ProfitOf
    <3> QED BY <1>8, <2>1, <3>1, <3>2
  <2>4. SumFunctionOnSet(f, D) = SumFunctionOnSet(daily, D)
    BY <1>4, <2>3, SumSame
  <2> QED BY <2>2, <2>4
<1> QED BY <1>1, <1>5, <1>9, <1>10

\* So are those of the items and of the categories.
LEMMA CatalogProfits ==
  ASSUME ReportsInv, NEW from, NEW to
  PROVE  /\ Sum(LAMBDA i : ItemProfit(i, from, to), Items) = ProfitOf(Lines(InPeriod(from, to)))
         /\ Sum(LAMBDA c : CategoryProfit(c, from, to), Cats) = ProfitOf(Lines(InPeriod(from, to)))
<1>1. PICK X : X = Lines(InPeriod(from, to))
  OBVIOUS
<1>2. X \subseteq Everywhere
  BY <1>1, PeriodRows
<1>3. Sum(LAMBDA i : ItemProfit(i, from, to), Items) = ProfitOf(X)
  <2>1. PICK key : key = [x \in X |-> ItemOf(x)]
    OBVIOUS
  <2>2. PICK v : v = [i \in Items |-> ItemProfit(i, from, to)]
    OBVIOUS
  <2>3. \A x \in X : key[x] \in Items
    BY <1>2, <2>1, ItemInCatalog
  <2>4. \A i \in Items : v[i] = ProfitOf(GroupOf(X, key, i))
    <3>1. \A i : {x \in X : ItemOf(x) = i} = GroupOf(X, key, i)
      BY <2>1 DEF GroupOf
    <3> QED BY <1>1, <2>2, <3>1 DEF ItemProfit
  <2>5. IsFiniteSet(Items)
    BY ReportsAssumption
  <2>6. SumFunctionOnSet(v, Items) = ProfitOf(X)
    BY <1>2, <2>3, <2>4, <2>5, ProfitBy
  <2> QED BY <2>2, <2>6 DEF Sum, SumFunction
<1>4. Sum(LAMBDA c : CategoryProfit(c, from, to), Cats) = ProfitOf(X)
  <2>1. PICK key : key = [x \in X |-> items[ItemOf(x)].cat]
    OBVIOUS
  <2>2. PICK v : v = [c \in Cats |-> CategoryProfit(c, from, to)]
    OBVIOUS
  <2>3. \A x \in X : key[x] \in Cats
    BY <1>2, <2>1, ItemInCatalog
  <2>4. \A c \in Cats : v[c] = ProfitOf(GroupOf(X, key, c))
    <3>1. \A c : {x \in X : items[ItemOf(x)].cat = c} = GroupOf(X, key, c)
      BY <2>1 DEF GroupOf
    <3> QED BY <1>1, <2>2, <3>1 DEF CategoryProfit
  <2>5. IsFiniteSet(Cats)
    BY ReportsAssumption
  <2>6. SumFunctionOnSet(v, Cats) = ProfitOf(X)
    BY <1>2, <2>3, <2>4, <2>5, ProfitBy
  <2> QED BY <2>2, <2>6 DEF Sum, SumFunction
<1> QED BY <1>1, <1>3, <1>4

\* What a row sold for is its price, its profit and, with a selling rate, its charges.
LEMMA RowSells ==
  ASSUME ReportsInv, NEW x \in Everywhere
  PROVE  SellingAt[x] = AmountAt[x] + ProfitAt[x] + (IF RowOf(x).profit # None THEN ChargesAt[x] ELSE 0)
<1>1. PICK r : r = RowOf(x)
  OBVIOUS
<1>2. PICK l \in BillLine : r = ImportedRow(l) \/ r = Row(l)
  BY <1>1, LineAt DEF Everywhere
<1>3. PICK s, a, c : s = Selling(r) /\ a = Amount(r) /\ c = Charges(r.line)
  OBVIOUS
<1>4. s \in Nat /\ a \in Nat /\ c \in Nat
  BY <1>1, <1>3, RowMeasures
<1>5. RowProfit(r) = IF r.profit # None THEN s - a - c ELSE s - a
  <2>1. CASE r.profit = None
    BY <1>3, <2>1 DEF RowProfit, First
  <2>2. CASE r.profit # None
    <3>1. r = Row(l)
      BY <1>2, <2>2 DEF ImportedRow
    <3>2. PICK st : st = Stripped(l)
      OBVIOUS
    <3>3. /\ r.line = st /\ r.total = Money(st) /\ r.total # None /\ st.sell # None
          /\ r.profit = st.qty * st.sell - Money(st) - Charges(st)
      BY <2>2, <3>1, <3>2, RowIs
    <3>4. s = st.qty * st.sell
      BY <1>3, <3>3 DEF Selling, Given
    <3>5. a = Money(st) /\ c = Charges(st)
      BY <1>3, <3>3 DEF Amount, First
    <3> QED BY <2>2, <3>3, <3>4, <3>5 DEF RowProfit, First
  <2> QED BY <2>1, <2>2
<1>6. SellingAt[x] = s /\ AmountAt[x] = a /\ ProfitAt[x] = RowProfit(r) /\ ChargesAt[x] = c
  BY <1>1, <1>3 DEF SellingAt, AmountAt, ProfitAt, ChargesAt
<1> QED BY <1>1, <1>4, <1>5, <1>6

\* The dashboard's profit has the charges of the lines with a selling rate in it.
LEMMA DashboardProfit ==
  ASSUME ReportsInv, NEW from, NEW to
  PROVE  LET X == Lines(InPeriod(from, to))
         IN  SnapshotProfit(from, to) = ProfitOf(X) + ChargedOn({x \in X : RowOf(x).profit # None})
<1>1. PICK X : X = Lines(InPeriod(from, to))
  OBVIOUS
<1>2. X \subseteq Everywhere /\ IsFiniteSet(X)
  BY <1>1, PeriodRows, LinesFinite
<1>3. PICK Y : Y = {x \in X : RowOf(x).profit # None}
  OBVIOUS
<1>4. Y \subseteq X /\ Y \subseteq Everywhere /\ IsFiniteSet(Y)
  BY <1>2, <1>3, LinesFinite
<1>5. PICK extra : extra = [x \in X |-> IF RowOf(x).profit # None THEN ChargesAt[x] ELSE 0]
  OBVIOUS
<1>6. PICK rest : rest = [x \in X |-> ProfitAt[x] + extra[x]]
  OBVIOUS
<1>7. \A x \in X : /\ AmountAt[x] \in Int /\ ProfitAt[x] \in Int /\ ChargesAt[x] \in Int /\ extra[x] \in Int
                   /\ rest[x] = ProfitAt[x] + extra[x] /\ SellingAt[x] = AmountAt[x] + rest[x]
  <2> SUFFICES ASSUME NEW x \in X
               PROVE  /\ AmountAt[x] \in Int /\ ProfitAt[x] \in Int /\ ChargesAt[x] \in Int /\ extra[x] \in Int
                      /\ rest[x] = ProfitAt[x] + extra[x] /\ SellingAt[x] = AmountAt[x] + rest[x]
    OBVIOUS
  <2>1. AmountAt[x] \in Int /\ ProfitAt[x] \in Int /\ ChargesAt[x] \in Int
    BY <1>2, MeasuresAre
  <2>2. extra[x] = (IF RowOf(x).profit # None THEN ChargesAt[x] ELSE 0) /\ rest[x] = ProfitAt[x] + extra[x]
    BY <1>5, <1>6
  <2>3. SellingAt[x] = AmountAt[x] + ProfitAt[x] + extra[x]
    BY <1>2, <2>2, RowSells
  <2> QED BY <2>1, <2>2, <2>3
<1>8. \A x \in X : /\ AmountAt[x] \in Int /\ rest[x] \in Int
                   /\ SellingAt[x] = AmountAt[x] + rest[x]
  BY <1>7
<1>9. \A x \in X : /\ ProfitAt[x] \in Int /\ extra[x] \in Int
                   /\ rest[x] = ProfitAt[x] + extra[x]
  BY <1>7
<1>10. PICK s, a, p, c, e, q :
         /\ s = SumFunctionOnSet(SellingAt, X) /\ a = SumFunctionOnSet(AmountAt, X)
         /\ p = SumFunctionOnSet(ProfitAt, X) /\ c = SumFunctionOnSet(ChargesAt, Y)
         /\ e = SumFunctionOnSet(extra, X) /\ q = SumFunctionOnSet(rest, X)
  OBVIOUS
<1>11. s = a + q
  BY <1>2, <1>8, <1>10, SumPlus
<1>12. q = p + e
  BY <1>2, <1>9, <1>10, SumPlus
<1>13. e = c
  <2>1. \A x \in X \ Y : extra[x] = 0
    BY <1>3, <1>5
  <2>2. \A x \in Y : ChargesAt[x] \in Int /\ extra[x] = ChargesAt[x]
    BY <1>3, <1>5, <1>7
  <2>3. \A x \in X : extra[x] \in Int
    BY <1>7
  <2>4. SumFunctionOnSet(extra, Y) = SumFunctionOnSet(extra, X)
    BY <1>2, <1>4, <2>1, <2>3, SumOfSome
  <2>5. SumFunctionOnSet(extra, Y) = SumFunctionOnSet(ChargesAt, Y)
    BY <1>4, <2>2, SumSame
  <2> QED BY <1>10, <2>4, <2>5
<1>14. a \in Int /\ p \in Int /\ e \in Int
  BY <1>2, <1>7, <1>10, SumInt
<1>15. SnapshotProfit(from, to) = s - a /\ ProfitOf(X) = p /\ ChargedOn(Y) = c
  BY <1>1, <1>2, <1>4, <1>10, AddedIs DEF SnapshotProfit, ProfitOf, ChargedOn
<1>16. s - a = p + c
  BY <1>11, <1>12, <1>13, <1>14
<1> QED BY <1>1, <1>3, <1>15, <1>16

\* The profit of the brokers' purchases is that of the rows that have a broker.
LEMMA BrokersAgree ==
  ASSUME ReportsInv, NEW from, NEW to
  PROVE  Sum(LAMBDA b : BrokerMetrics(b, from, to).profit, Brokers)
            = ProfitOf({x \in Lines(InPeriod(from, to)) : BillOf(x).broker # None})
<1>1. PICK X : X = Lines(InPeriod(from, to))
  OBVIOUS
<1>2. PICK Y : Y = {x \in X : BillOf(x).broker # None}
  OBVIOUS
<1>3. X \subseteq Everywhere /\ Y \subseteq Everywhere /\ InPeriod(from, to) \subseteq Recorded
  BY <1>1, <1>2, PeriodRows DEF InPeriod
<1>4. PICK key : key = [x \in Y |-> BillOf(x).broker]
  OBVIOUS
<1>5. \A x \in Y : key[x] \in Brokers
  <2> SUFFICES ASSUME NEW x \in Y PROVE BillOf(x).broker \in Brokers
    BY <1>4
  <2>1. Bill(x[1]) \in AnyBill
    BY <1>3, LineAt DEF Everywhere
  <2> QED BY <1>2, <2>1 DEF BillOf, AnyBill
<1>6. PICK v : v = [b \in Brokers |-> BrokerMetrics(b, from, to).profit]
  OBVIOUS
<1>7. \A b \in Brokers : v[b] = ProfitOf(GroupOf(Y, key, b))
  <2> SUFFICES ASSUME NEW b \in Brokers PROVE v[b] = ProfitOf(GroupOf(Y, key, b))
    OBVIOUS
  <2>1. b # None
    BY ReportsAssumption
  <2>2. PICK S : S = {n \in InPeriod(from, to) : Bill(n).broker = b}
    OBVIOUS
  <2>3. BrokerMetrics(b, from, to).profit = ProfitOf(Lines(S))
    BY <2>2 DEF BrokerMetrics
  <2>4. Lines(S) = GroupOf(Y, key, b)
    <3>1. S \subseteq Recorded
      BY <1>3, <2>2
    <3>2. \A x \in Everywhere : x \in Lines(S) <=> x[1] \in S
      BY <3>1, LinesOf
    <3>3. \A x \in Everywhere : x \in X <=> x[1] \in InPeriod(from, to)
      BY <1>1, <1>3, LinesOf
    <3>4. \A x \in Everywhere : x \in GroupOf(Y, key, b) <=> x[1] \in S
      BY <1>2, <1>4, <2>1, <2>2, <3>3 DEF GroupOf, BillOf
    <3>5. Lines(S) \subseteq Everywhere /\ GroupOf(Y, key, b) \subseteq Everywhere
      BY <1>3, <3>1, LinesOf DEF GroupOf
    <3> QED BY <3>2, <3>4, <3>5
  <2> QED BY <1>6, <2>3, <2>4
<1>8. SumFunctionOnSet(v, Brokers) = ProfitOf(Y)
  <2>1. IsFiniteSet(Brokers)
    BY ReportsAssumption
  <2> QED BY <1>3, <1>5, <1>7, <2>1, ProfitBy
<1>9. Sum(LAMBDA b : BrokerMetrics(b, from, to).profit, Brokers) = SumFunctionOnSet(v, Brokers)
  BY <1>6 DEF Sum, SumFunction
<1> QED BY <1>1, <1>2, <1>8, <1>9

-----------------------------------------------------------------------------
(***************************************************************************)
(* The theorems.                                                           *)
(***************************************************************************)
\* All profits of a period agree.
LEMMA ProfitsHold ==
  ASSUME ReportsInv
  PROVE  ProfitsAgree
<1>1. \A n \in Recorded :
        LET X == Lines({n})
        IN  (Margin(n) # None /\ po[n].bill \notin Imported) =>
              Margin(n) = Added(Selling, X) - Added(Amount, X) - ChargedOn(X) - Trimmed(n)
  BY MarginHolds
<1>2. ASSUME NEW p \in Periods
      PROVE  LET X == Everything(p)
                 daily == DailyProfit(p[1], p[2])
                 profit == Sum(LAMBDA d : daily[d], DOMAIN daily)
                 charged == {x \in X : RowOf(x).profit # None}
             IN  /\ Sum(LAMBDA i : ItemProfit(i, p[1], p[2]), Items) = profit
                 /\ Sum(LAMBDA c : CategoryProfit(c, p[1], p[2]), Cats) = profit
                 /\ SnapshotProfit(p[1], p[2]) = profit + ChargedOn(charged)
                 /\ Sum(LAMBDA b : BrokerMetrics(b, p[1], p[2]).profit, Brokers)
                       = ProfitOf({x \in X : BillOf(x).broker # None})
  <2>1. PICK from, to : from = p[1] /\ to = p[2]
    OBVIOUS
  <2>2. PICK X : X = Lines(InPeriod(from, to))
    OBVIOUS
  <2>3. Everything(p) = X
    BY <2>1, <2>2 DEF Everything
  <2>4. PICK daily : daily = DailyProfit(from, to)
    OBVIOUS
  <2>5. PICK profit : profit = Sum(LAMBDA d : daily[d], DOMAIN daily)
    OBVIOUS
  <2>6. profit = ProfitOf(X)
    BY <2>2, <2>4, <2>5, DaysAgree DEF Sum, SumFunction
  <2>7. Sum(LAMBDA i : ItemProfit(i, from, to), Items) = profit
    BY <2>2, <2>6, CatalogProfits DEF Sum, SumFunction
  <2>8. Sum(LAMBDA c : CategoryProfit(c, from, to), Cats) = profit
    BY <2>2, <2>6, CatalogProfits DEF Sum, SumFunction
  <2>9. SnapshotProfit(from, to) = profit + ChargedOn({x \in X : RowOf(x).profit # None})
    BY <2>2, <2>6, DashboardProfit
  <2>10. Sum(LAMBDA b : BrokerMetrics(b, from, to).profit, Brokers) = ProfitOf({x \in X : BillOf(x).broker # None})
    BY <2>2, BrokersAgree DEF Sum, SumFunction
  <2> QED BY <2>1, <2>3, <2>4, <2>5, <2>7, <2>8, <2>9, <2>10 DEF Sum, SumFunction
<1> QED BY <1>1, <1>2 DEF ProfitsAgree

\* The pipeline.
LEMMA PipelineHolds ==
  ASSUME ReportsInv
  PROVE  PipelineAgrees
<1> SUFFICES ASSUME \A n \in Recorded : ~po[n].touched
             PROVE  /\ Pipeline.amount = Sum(LAMBDA n : po[n].total, Undelivered)
                    /\ \A n \in Recorded : po[n].delivered => po[n].delivery = "stock_committed"
                    /\ Sum(LAMBDA d : Pipeline.count[d], Deliveries)
                          = Cardinality({n \in Recorded : po[n].status # "deleted"})
  BY DEF PipelineAgrees
<1>1. \A n \in Recorded : po[n].delivered \in BOOLEAN /\ po[n].delivery \in Deliveries
  BY DealTyped DEF Deal
<1>2. \A n \in Recorded : /\ po[n].delivered <=> po[n].delivery = "stock_committed"
                          /\ po[n].delivery = "cancelled" => po[n].status \in {"cancelled", "deleted"}
  BY DEF ReportsInv, DeliveredOnce
<1>3. {n \in Recorded : /\ po[n].status \notin {"deleted", "cancelled"}
                        /\ po[n].delivery \notin {"stock_committed", "cancelled"}} = Undelivered
  BY <1>2 DEF Undelivered
<1>4. PICK U : U = Undelivered
  OBVIOUS
<1>5. PICK there : there = {n \in Recorded : po[n].status # "deleted"}
  OBVIOUS
<1>6. PICK count : count = [d \in Deliveries |-> Cardinality({n \in Recorded : po[n].status # "deleted" /\ po[n].delivery = d})]
  OBVIOUS
<1>7. PICK amount : amount = Sum(LAMBDA n : po[n].total, U)
  OBVIOUS
<1>8. Pipeline = [count |-> count, amount |-> amount]
  BY <1>3, <1>4, <1>6, <1>7 DEF Pipeline
<1>9. SumFunctionOnSet(count, Deliveries) = Cardinality(there)
  <2>1. IsFiniteSet(there)
    BY <1>5, RecordedFinite, FS_Subset
  <2>2. PICK one : one = [n \in there |-> 1]
    OBVIOUS
  <2>3. PICK key : key = [n \in there |-> po[n].delivery]
    OBVIOUS
  <2>4. IsFiniteSet(Deliveries)
    <3>1. PICK f : f = [i \in 1 .. 9 |-> <<"pending", "dispatched", "in_transit", "arrived", "staff_verifying",
                                          "staff_verified", "partial", "stock_committed", "cancelled">>[i]]
      OBVIOUS
    <3>2. IsFiniteSet(1 .. 9)
      <4>1. 1 \in Int /\ 9 \in Int
        OBVIOUS
      <4> QED BY <4>1, FS_Interval
    <3>3. IsFiniteSet({f[i] : i \in 1 .. 9})
      BY <3>2, ImageFinite
    <3>4. Deliveries \subseteq {f[i] : i \in 1 .. 9}
      <4>1. \A d \in Deliveries : \E i \in 1 .. 9 : f[i] = d
        BY <3>1 DEF Deliveries
      <4> QED BY <4>1
    <3> QED BY <3>3, <3>4, FS_Subset
  <2>5. \A n \in there : one[n] \in Int /\ one[n] = 1
    BY <2>2
  <2>6. \A n \in there : key[n] \in Deliveries
    BY <1>1, <1>5, <2>3
  <2>7. \A d \in Deliveries : count[d] = SumFunctionOnSet(one, GroupOf(there, key, d))
    <3> SUFFICES ASSUME NEW d \in Deliveries PROVE count[d] = SumFunctionOnSet(one, GroupOf(there, key, d))
      OBVIOUS
    <3>1. PICK G : G = GroupOf(there, key, d)
      OBVIOUS
    <3>2. {n \in Recorded : po[n].status # "deleted" /\ po[n].delivery = d} = G
      BY <1>5, <2>3, <3>1 DEF GroupOf
    <3>3. G \subseteq there /\ IsFiniteSet(G)
      BY <2>1, <3>1, FS_Subset DEF GroupOf
    <3>4. SumFunctionOnSet(one, G) = Cardinality(G)
      BY <2>5, <3>3, CountIsSum
    <3> QED BY <1>6, <3>1, <3>2, <3>4
  <2>8. \A n \in there : one[n] \in Int
    BY <2>5
  <2>9. SumFunctionOnSet(count, Deliveries) = SumFunctionOnSet(one, there)
    BY ONLY <2>1, <2>4, <2>6, <2>7, <2>8, Grouping
  <2>10. SumFunctionOnSet(one, there) = Cardinality(there)
    BY <2>1, <2>5, CountIsSum
  <2> QED BY <2>9, <2>10
<1>10. Sum(LAMBDA d : Pipeline.count[d], Deliveries) = SumFunctionOnSet(count, Deliveries)
  <2>1. Pipeline.count = count
    BY <1>8
  <2>2. [d \in Deliveries |-> Pipeline.count[d]] = count
    BY <1>6, <2>1
  <2> QED BY <2>2 DEF Sum, SumFunction
<1>11. Pipeline.amount = Sum(LAMBDA n : po[n].total, Undelivered)
  BY <1>4, <1>7, <1>8 DEF Sum, SumFunction
<1> QED BY <1>2, <1>5, <1>9, <1>10, <1>11

\* All that is computed from the bills of a period says the same of them:
\* breakdowns by supplier, item, type and category, comparisons, item and
\* category pages, profits by day, item, category and broker, SQL and Python,
\* and the delivery pipeline; for any bills, catalog and number of requests.
THEOREM ReportsHold == ReportsSpec => []ReportsAgree
<1>1. ReportsInv => ReportsAgree
  BY FiguresHold, ProfitsHold, PipelineHolds DEF ReportsAgree
<1> QED BY <1>1, ReportsInvariant, PTL

\* Who owes is on one payment list and in one ledger, with what remains.
THEOREM DebtsHeld == ReportsSpec => []DebtsListed
<1>1. ReportsInv => DebtsListed
  BY DebtsListedHolds
<1> QED BY <1>1, ReportsInvariant, PTL

\* A dashboard that is served unmarked is the one that would be computed, and a
\* new bill is filled from the newest purchase that counts.
THEOREM KeptHeld == ReportsSpec => []KeptTrue
<1>1. ReportsInv => KeptTrue
  BY KeptHolds
<1> QED BY <1>1, ReportsInvariant, PTL
=============================================================================
