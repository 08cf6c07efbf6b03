------------------------- MODULE AppSnapshotProofs --------------------------
(***************************************************************************)
(* Proofs about AppSnapshot: what a request consumes was seen by itself or  *)
(* by the request that published last; an unreadable data root is refused.  *)
(***************************************************************************)
EXTENDS AppSnapshot, TLAPS

\* What a request can still see has been recorded; what it has inspected, and
\* what is published when it consumes, was seen by it or by who published last.
SeenBy(r) ==
    /\ Running(r) => \A s \in Slugs : Visible(s) \in seen[r][s]
    /\ req[r].pc \in {"new", "list"} => req[r].found = Nothing
    /\ At(r, "inspect") =>
        \A s \in Slugs \ req[r].pending : req[r].found[s] \in seen[r][s]
    /\ At(r, "consume") =>
        \E q \in mixed[r] \cup {r} : \A s \in Slugs : apps[s] \in seen[q][s]
    /\ \A q \in mixed[r] : ~At(q, "new")

SeenInv == \A r \in Requests : SeenBy(r)

\* A route asks for one name; only a route opens a path.
AskedInv ==
    \A r \in Requests :
        /\ req[r].op = "route" => \E s \in Slugs : req[r].asked = {s}
        /\ At(r, "open") => req[r].op = "route"
        /\ req[r].pc # "done" => req[r].answer = "none"

\* A request that never saw the data root readable is still before os.ReadDir.
LitInv ==
    \A r \in Requests :
        /\ Running(r) /\ readable => r \in lit
        /\ r \notin lit => \/ req[r].pc \in {"new", "list"}
                           \/ At(r, "done") /\ req[r].answer = "unavailable"

-----------------------------------------------------------------------------
(* What each step of a request does to the local state of the requests.    *)

\* The local state of r changes and stays well typed; the others keep theirs.
OnlyOf(r) ==
    /\ req' \in [Requests -> Request]
    /\ \A q \in Requests \ {r} : req'[q] = req[q]

\* A request keeps what it was asked for.
SameQuestion(r) == req'[r].op = req[r].op /\ req'[r].asked = req[r].asked

\* A step replaces one local state by another well-typed one.
LEMMA Local ==
    ASSUME TypeOK, NEW r \in Requests, NEW new \in Request,
           req' = [req EXCEPT ![r] = new]
    PROVE  OnlyOf(r) /\ req'[r] = new
BY DEF TypeOK, OnlyOf

\* Start chooses what is asked for.
LEMMA StartEffect ==
    ASSUME TypeOK, NEW r \in Requests, Start(r)
    PROVE  /\ OnlyOf(r)
           /\ At(r, "new")
           /\ req'[r].pc = "list"
           /\ req'[r].answer = req[r].answer
           /\ req'[r].found = req[r].found
           /\ req'[r].op = "route" => \E s \in Slugs : req'[r].asked = {s}
<1>1. PICK op \in Ops, asked \in SUBSET Slugs :
          /\ IF op = "home" THEN asked = Slugs ELSE \E s \in Slugs : asked = {s}
          /\ req' = [req EXCEPT ![r].pc = "list", ![r].op = op, ![r].asked = asked]
  BY DEF Start
<1> DEFINE new == [req[r] EXCEPT !.pc = "list", !.op = op, !.asked = asked]
<1>4. req[r] \in Request
  BY DEF TypeOK
<1>2. new \in Request /\ req' = [req EXCEPT ![r] = new]
  <2>1. new \in Request
    BY <1>4 DEF Request, Steps
  <2>2. req' = [req EXCEPT ![r] = new]
    BY <1>1, <1>4 DEF TypeOK
  <2> QED
    BY <2>1, <2>2
<1>3. /\ new.pc = "list" /\ new.answer = req[r].answer
      /\ new.found = req[r].found /\ new.op = op /\ new.asked = asked
  BY DEF TypeOK, Request
<1> HIDE DEF new
<1> QED
  <2>1. At(r, "new")
    BY DEF Start
  <2> QED
    BY <2>1, <1>1, <1>2, <1>3, Local

\* List goes on with the entries of the data root, or ends with a 503.
LEMMA ListEffect ==
    ASSUME TypeOK, NEW r \in Requests, List(r)
    PROVE  /\ OnlyOf(r)
           /\ At(r, "list")
           /\ SameQuestion(r)
           /\ readable => /\ req'[r].pc = "inspect"
                          /\ req'[r].answer = req[r].answer
                          /\ req'[r].found = req[r].found
                          /\ req'[r].pending = {s \in Slugs : root[s] # None}
           /\ ~readable => req'[r].pc = "done" /\ req'[r].answer = "unavailable"
<1> DEFINE new == IF readable
                  THEN [req[r] EXCEPT !.pc = "inspect",
                                      !.pending = {s \in Slugs : root[s] # None}]
                  ELSE [req[r] EXCEPT !.pc = "done", !.answer = "unavailable"]
<1>3. req[r] \in Request
  BY DEF TypeOK
<1>1. new \in Request /\ req' = [req EXCEPT ![r] = new]
  <2>1. CASE readable
    <3>1. new \in Request
      BY <1>3, <2>1 DEF Request, Steps
    <3>2. req' = [req EXCEPT ![r] = new]
      BY <2>1 DEF TypeOK, List
    <3> QED
      BY <3>1, <3>2
  <2>2. CASE ~readable
    <3>1. new \in Request
      BY <1>3, <2>2 DEF Request, Steps, Answers
    <3>2. req' = [req EXCEPT ![r] = new]
      BY <2>2 DEF TypeOK, List, Answer
    <3> QED
      BY <3>1, <3>2
  <2> QED
    BY <2>1, <2>2
<1>2. /\ new.op = req[r].op /\ new.asked = req[r].asked
      /\ readable => /\ new.pc = "inspect"
                     /\ new.answer = req[r].answer
                     /\ new.found = req[r].found
                     /\ new.pending = {s \in Slugs : root[s] # None}
      /\ ~readable => new.pc = "done" /\ new.answer = "unavailable"
  BY DEF TypeOK, Request
<1> HIDE DEF new
<1> QED
  BY <1>1, <1>2, Local DEF SameQuestion, List

\* Inspect records what one entry is.
LEMMA InspectEffect ==
    ASSUME TypeOK, NEW r \in Requests, Inspect(r)
    PROVE  /\ OnlyOf(r)
           /\ At(r, "inspect")
           /\ SameQuestion(r)
           /\ req'[r].pc = req[r].pc
           /\ req'[r].answer = req[r].answer
           /\ \E s \in Slugs :
                /\ req'[r].pending = req[r].pending \ {s}
                /\ req'[r].found = [req[r].found EXCEPT ![s] = Visible(s)]
<1>1. PICK s \in req[r].pending :
          req' = [req EXCEPT ![r].pending = @ \ {s}, ![r].found[s] = Visible(s)]
  BY DEF Inspect
<1>2. s \in Slugs /\ Visible(s) \in Nat /\ req[r] \in Request
  BY DEF TypeOK, Request, Visible, None
<1> DEFINE pending == req[r].pending \ {s}
           found == [req[r].found EXCEPT ![s] = Visible(s)]
           new == [req[r] EXCEPT !.pending = pending, !.found = found]
<1>3. req' = [req EXCEPT ![r] = new]
  BY <1>1 DEF TypeOK
<1>4. pending \in SUBSET Slugs /\ found \in Dirs
  BY <1>2 DEF Request, Dirs
<1> HIDE DEF pending, found
<1>5. new \in Request
  BY <1>2, <1>4 DEF Request
<1>6. /\ new.op = req[r].op /\ new.asked = req[r].asked
      /\ new.pc = req[r].pc /\ new.answer = req[r].answer
      /\ new.pending = pending /\ new.found = found
  BY <1>2 DEF Request
<1> HIDE DEF new
<1>7. OnlyOf(r) /\ req'[r] = new
  BY <1>3, <1>5, Local
<1> QED
  BY <1>2, <1>6, <1>7 DEF SameQuestion, pending, found, Inspect

\* Publish only moves on.
LEMMA PublishEffect ==
    ASSUME TypeOK, NEW r \in Requests, Publish(r)
    PROVE  /\ OnlyOf(r)
           /\ At(r, "inspect")
           /\ SameQuestion(r)
           /\ req'[r].pc = "consume"
           /\ req'[r].answer = req[r].answer
<1> DEFINE new == [req[r] EXCEPT !.pc = "consume"]
<1>1. new \in Request /\ req' = [req EXCEPT ![r] = new]
  BY DEF TypeOK, Request, Steps, Publish
<1>2. /\ new.op = req[r].op /\ new.asked = req[r].asked
      /\ new.pc = "consume" /\ new.answer = req[r].answer
  BY DEF TypeOK, Request
<1> HIDE DEF new
<1> QED
  BY <1>1, <1>2, Local DEF SameQuestion, Publish

\* Consume takes what is published for the names asked for.
LEMMA ConsumeEffect ==
    ASSUME TypeOK, NEW r \in Requests, Consume(r)
    PROVE  /\ OnlyOf(r)
           /\ At(r, "consume")
           /\ SameQuestion(r)
           /\ req'[r].used = Wanted(r)
           /\ \/ /\ req[r].op = "home"
                 /\ req'[r].pc = "done" /\ req'[r].answer = "listed"
              \/ /\ req[r].op = "route" /\ Wanted(r) = Nothing
                 /\ req'[r].pc = "done" /\ req'[r].answer = "missing"
              \/ /\ req[r].op = "route"
                 /\ req'[r].pc = "open" /\ req'[r].answer = "none"
<1>1. PICK step \in Steps, a \in Answers :
          /\ req' = [req EXCEPT ![r].used = Wanted(r), ![r].found = Nothing,
                                ![r].pc = step, ![r].answer = a]
          /\ \/ req[r].op = "home" /\ step = "done" /\ a = "listed"
             \/ /\ req[r].op = "route" /\ Wanted(r) = Nothing
                /\ step = "done" /\ a = "missing"
             \/ req[r].op = "route" /\ step = "open" /\ a = "none"
  <2> DEFINE Took(step, a) ==
        req' = [req EXCEPT ![r].used = Wanted(r), ![r].found = Nothing,
                           ![r].pc = step, ![r].answer = a]
  <2>1. \/ req[r].op = "home" /\ Took("done", "listed")
        \/ req[r].op = "route" /\ Wanted(r) = Nothing /\ Took("done", "missing")
        \/ req[r].op = "route" /\ Took("open", "none")
    BY DEF Consume
  <2>2. {"done", "open"} \subseteq Steps /\ {"listed", "missing", "none"} \subseteq Answers
    BY DEF Steps, Answers
  <2> HIDE DEF Took
  <2>3. \E step \in Steps, a \in Answers :
          /\ Took(step, a)
          /\ \/ req[r].op = "home" /\ step = "done" /\ a = "listed"
             \/ /\ req[r].op = "route" /\ Wanted(r) = Nothing
                /\ step = "done" /\ a = "missing"
             \/ req[r].op = "route" /\ step = "open" /\ a = "none"
    BY <2>1, <2>2
  <2> QED
    BY <2>3 DEF Took
<1> DEFINE new == [req[r] EXCEPT !.used = Wanted(r), !.found = Nothing,
                                 !.pc = step, !.answer = a]
<1>2. req[r] \in Request /\ Wanted(r) \in Dirs /\ Nothing \in Dirs
  BY DEF TypeOK, Wanted, Nothing, Dirs, None
<1>3. req' = [req EXCEPT ![r] = new]
  BY <1>1 DEF TypeOK
<1>4. new \in Request
  BY <1>2 DEF Request
<1>5. /\ new.op = req[r].op /\ new.asked = req[r].asked
      /\ new.used = Wanted(r) /\ new.pc = step /\ new.answer = a
  BY <1>2 DEF Request
<1> HIDE DEF new
<1> QED
  BY <1>1, <1>3, <1>4, <1>5, Local DEF SameQuestion, Consume

\* Open answers by what is there now.
LEMMA OpenEffect ==
    ASSUME TypeOK, NEW r \in Requests, Open(r)
    PROVE  /\ OnlyOf(r)
           /\ At(r, "open")
           /\ SameQuestion(r)
           /\ req'[r].used = req[r].used
           /\ req'[r].pc = "done"
           /\ \E s \in req[r].asked :
                req'[r].answer = IF Visible(s) = None THEN "missing" ELSE "served"
<1>1. PICK s \in req[r].asked, a \in Answers :
          /\ Answer(r, a)
          /\ a = IF Visible(s) = None THEN "missing" ELSE "served"
  BY DEF Open, Answers
<1> DEFINE new == [req[r] EXCEPT !.pc = "done", !.answer = a]
<1>2. new \in Request /\ req' = [req EXCEPT ![r] = new]
  <2>1. req[r] \in Request
    BY DEF TypeOK
  <2>2. new \in Request
    BY <2>1 DEF Request, Steps
  <2>3. req' = [req EXCEPT ![r] = new]
    BY <1>1 DEF TypeOK, Answer
  <2> QED
    BY <2>2, <2>3
<1>3. /\ new.op = req[r].op /\ new.asked = req[r].asked
      /\ new.used = req[r].used /\ new.pc = "done" /\ new.answer = a
  BY DEF TypeOK, Request
<1> HIDE DEF new
<1> QED
  BY <1>1, <1>2, <1>3, Local DEF SameQuestion, Open

-----------------------------------------------------------------------------
(* Types.                                                                  *)

\* Every request's local state stays well typed.
LEMMA RequestTypes ==
    ASSUME TypeOK, [Next]_vars
    PROVE  req' \in [Requests -> Request]
<1>1. ASSUME NEW r \in Requests, Start(r) \/ Handle(r)
      PROVE  req' \in [Requests -> Request]
  BY <1>1, StartEffect, ListEffect, InspectEffect, PublishEffect, ConsumeEffect,
     OpenEffect DEF OnlyOf, Handle
<1>2. CASE \/ \E s \in Slugs : Make(s) \/ Withdraw(s)
           \/ Hide \/ Show \/ UNCHANGED vars
  BY <1>2 DEF Make, Withdraw, Hide, Show, Change, vars, TypeOK
<1> QED
  BY <1>1, <1>2 DEF Next

\* The data root, its history and the published snapshot stay well typed.
LEMMA OtherTypes ==
    ASSUME TypeOK, SeenInv, [Next]_vars
    PROVE  /\ root' \in [Slugs -> 0..changes']
           /\ readable' \in BOOLEAN
           /\ changes' \in Nat
           /\ apps' \in [Slugs -> 0..changes']
           /\ seen' \in [Requests -> [Slugs -> SUBSET (0..changes')]]
           /\ lit' \subseteq Requests
           /\ mixed' \in [Requests -> SUBSET Requests]
<1> USE DEF TypeOK
<1>1. \A s \in Slugs : Visible(s) \in 0..changes
  BY DEF Visible, None
<1>2. ASSUME NEW r \in Requests, Start(r)
      PROVE  /\ seen' \in [Requests -> [Slugs -> SUBSET (0..changes)]]
             /\ lit' \subseteq Requests
             /\ UNCHANGED <<root, readable, changes, apps, mixed>>
  BY <1>1, <1>2 DEF Start
<1>3. ASSUME NEW r \in Requests, Publish(r)
      PROVE  /\ apps' \in [Slugs -> 0..changes]
             /\ mixed' \in [Requests -> SUBSET Requests]
             /\ UNCHANGED <<root, readable, changes, seen, lit>>
  <2>1. req[r].found \in Dirs /\ \A s \in Slugs : req[r].found[s] \in seen[r][s]
    BY <1>3 DEF Publish, At, SeenInv, SeenBy, Request
  <2>2. req[r].found \in [Slugs -> 0..changes]
    BY <2>1 DEF Dirs
  <2> QED
    BY <1>3, <2>2 DEF Publish
<1>4. ASSUME NEW r \in Requests, List(r) \/ Inspect(r) \/ Consume(r) \/ Open(r)
      PROVE  UNCHANGED <<root, readable, changes, apps, seen, lit, mixed>>
  BY <1>4 DEF List, Inspect, Consume, Open
<1>5. ASSUME NEW newRoot \in [Slugs -> 0..(changes + 1)], NEW newReadable \in BOOLEAN,
             Change(newRoot, newReadable)
      PROVE  /\ root' \in [Slugs -> 0..changes']
             /\ readable' \in BOOLEAN
             /\ changes' \in Nat
             /\ apps' \in [Slugs -> 0..changes']
             /\ seen' \in [Requests -> [Slugs -> SUBSET (0..changes')]]
             /\ lit' \subseteq Requests
             /\ mixed' \in [Requests -> SUBSET Requests]
  <2>1. changes' = changes + 1 /\ root' = newRoot /\ readable' = newReadable
    BY <1>5 DEF Change
  <2>2. \A s \in Slugs : Visible(s)' \in 0..changes'
    BY <2>1 DEF Visible, None
  <2> QED
    BY <1>5, <2>1, <2>2 DEF Change
<1>6. ASSUME NEW s \in Slugs, Make(s) \/ Withdraw(s)
      PROVE  \E newRoot \in [Slugs -> 0..(changes + 1)] : Change(newRoot, readable)
  <2>1. [root EXCEPT ![s] = changes + 1] \in [Slugs -> 0..(changes + 1)]
    OBVIOUS
  <2>2. [root EXCEPT ![s] = None] \in [Slugs -> 0..(changes + 1)]
    BY DEF None
  <2> QED
    BY <1>6, <2>1, <2>2 DEF Make, Withdraw
<1>7. ASSUME Hide \/ Show
      PROVE  \E newReadable \in BOOLEAN : Change(root, newReadable)
  BY <1>7 DEF Hide, Show
<1>8. root \in [Slugs -> 0..(changes + 1)]
  OBVIOUS
<1>9. CASE UNCHANGED vars
  BY <1>9 DEF vars
<1> QED
  BY <1>2, <1>3, <1>4, <1>5, <1>6, <1>7, <1>8, <1>9 DEF Next, Handle

-----------------------------------------------------------------------------
(* The parts of the induction.                                             *)

\* The data root: what is visible is recorded for every request in flight.
LEMMA Recorded ==
    ASSUME TypeOK, [Next]_vars, NEW q \in Requests
    PROVE  /\ ~At(q, "new") => \A s \in Slugs : seen[q][s] \subseteq seen'[q][s]
           /\ lit \subseteq lit'
<1>1. ASSUME NEW r \in Requests, Start(r)
      PROVE  ~At(q, "new") => \A s \in Slugs : seen[q][s] \subseteq seen'[q][s]
  BY <1>1 DEF Start, At, TypeOK
<1>2. ASSUME NEW newRoot, NEW newReadable, Change(newRoot, newReadable)
      PROVE  \A s \in Slugs : seen[q][s] \subseteq seen'[q][s]
  BY <1>2 DEF Change
<1>3. ASSUME NEW r \in Requests, Handle(r) PROVE UNCHANGED <<seen, lit>>
  BY <1>3 DEF Handle, List, Inspect, Publish, Consume, Open
<1>4. CASE UNCHANGED vars
  BY <1>4 DEF vars
<1>5. lit \subseteq lit'
  BY <1>3 DEF Next, Start, Make, Withdraw, Hide, Show, Change, vars
<1> QED
  BY <1>1, <1>2, <1>3, <1>4, <1>5 DEF Next, Make, Withdraw, Hide, Show

\* A route asks for one name, and only a route opens a path.
LEMMA AskedStep ==
    ASSUME TypeOK, AskedInv, [Next]_vars
    PROVE  AskedInv'
<1>1. ASSUME NEW r \in Requests, Start(r) PROVE AskedInv'
  BY <1>1, StartEffect DEF AskedInv, At, OnlyOf
<1>2. ASSUME NEW r \in Requests, List(r) PROVE AskedInv'
  BY <1>2, ListEffect DEF AskedInv, At, OnlyOf, SameQuestion
<1>3. ASSUME NEW r \in Requests, Inspect(r) PROVE AskedInv'
  BY <1>3, InspectEffect DEF AskedInv, At, OnlyOf, SameQuestion
<1>4. ASSUME NEW r \in Requests, Publish(r) PROVE AskedInv'
  BY <1>4, PublishEffect DEF AskedInv, At, OnlyOf, SameQuestion
<1>5. ASSUME NEW r \in Requests, Consume(r) PROVE AskedInv'
  BY <1>5, ConsumeEffect DEF AskedInv, At, OnlyOf, SameQuestion
<1>6. ASSUME NEW r \in Requests, Open(r) PROVE AskedInv'
  BY <1>6, OpenEffect DEF AskedInv, At, OnlyOf, SameQuestion
<1>7. ASSUME UNCHANGED req PROVE AskedInv'
  BY <1>7 DEF AskedInv, At
<1> QED
  BY <1>1, <1>2, <1>3, <1>4, <1>5, <1>6, <1>7
     DEF Next, Handle, Make, Withdraw, Hide, Show, Change, vars

\* A request that never saw the data root readable does not get past os.ReadDir.
LEMMA LitStep ==
    ASSUME TypeOK, LitInv, [Next]_vars
    PROVE  LitInv'
<1>1. ASSUME NEW r \in Requests, Start(r) PROVE LitInv'
  BY <1>1, StartEffect DEF Start, LitInv, Running, At, OnlyOf
<1>2. ASSUME NEW r \in Requests, List(r) PROVE LitInv'
  BY <1>2, ListEffect DEF List, LitInv, Running, At, OnlyOf
<1>3. ASSUME NEW r \in Requests, Inspect(r) PROVE LitInv'
  BY <1>3, InspectEffect DEF Inspect, LitInv, Running, At, OnlyOf
<1>4. ASSUME NEW r \in Requests, Publish(r) PROVE LitInv'
  BY <1>4, PublishEffect DEF Publish, LitInv, Running, At, OnlyOf
<1>5. ASSUME NEW r \in Requests, Consume(r) PROVE LitInv'
  BY <1>5, ConsumeEffect DEF Consume, LitInv, Running, At, OnlyOf
<1>6. ASSUME NEW r \in Requests, Open(r) PROVE LitInv'
  BY <1>6, OpenEffect DEF Open, LitInv, Running, At, OnlyOf
<1>7. ASSUME NEW newRoot, NEW newReadable, Change(newRoot, newReadable) PROVE LitInv'
  BY <1>7 DEF Change, LitInv, Running, At
<1>8. CASE UNCHANGED vars
  BY <1>8 DEF vars, LitInv, Running, At
<1> QED
  BY <1>1, <1>2, <1>3, <1>4, <1>5, <1>6, <1>7, <1>8
     DEF Next, Handle, Make, Withdraw, Hide, Show

\* No request is new again.
LEMMA NeverNew ==
    ASSUME TypeOK, [Next]_vars, NEW q \in Requests, ~At(q, "new")
    PROVE  ~At(q, "new")'
<1>1. ASSUME NEW r \in Requests, Start(r) \/ Handle(r)
      PROVE  ~At(q, "new")'
  <2>1. /\ OnlyOf(r)
        /\ ~At(r, "new")'
    BY <1>1, StartEffect, ListEffect, InspectEffect, PublishEffect, ConsumeEffect,
       OpenEffect DEF Handle, At
  <2> QED
    BY <2>1 DEF OnlyOf, At
<1>2. CASE UNCHANGED req
  BY <1>2 DEF At
<1> QED
  BY <1>1, <1>2 DEF Next, Make, Withdraw, Hide, Show, Change, vars

\* A request keeps its part of SeenInv when its local state, the snapshot and
\* who published last for it do not change.
LEMMA SeenKept ==
    ASSUME TypeOK, SeenInv, [Next]_vars, NEW q \in Requests,
           req'[q] = req[q], mixed'[q] = mixed[q],
           At(q, "consume") => apps' = apps,
           Running(q) => \A s \in Slugs : Visible(s)' \in seen'[q][s]
    PROVE  SeenBy(q)'
<1>1. mixed[q] \subseteq Requests /\ SeenBy(q)
  BY DEF TypeOK, SeenInv
<1>2. \A p \in mixed[q] : ~At(p, "new")'
  BY <1>1, NeverNew DEF SeenBy
<1>3. At(q, "inspect")' =>
        \A s \in Slugs \ req'[q].pending : req'[q].found[s] \in seen'[q][s]
  BY <1>1, Recorded DEF SeenBy, At
<1>4. ASSUME At(q, "consume")
      PROVE  \E p \in mixed'[q] \cup {q} : \A s \in Slugs : apps'[s] \in seen'[p][s]
  <2>1. PICK p \in mixed[q] \cup {q} : \A s \in Slugs : apps[s] \in seen[p][s]
    BY <1>1, <1>4 DEF SeenBy
  <2>2. p \in Requests /\ ~At(p, "new")
    BY <1>1, <1>4 DEF SeenBy, At
  <2>3. \A s \in Slugs : seen[p][s] \subseteq seen'[p][s]
    BY <2>2, Recorded
  <2> QED
    BY <1>4, <2>1, <2>3
<1> QED
  BY <1>1, <1>2, <1>3, <1>4 DEF SeenBy, At, Running, Nothing

\* Every step keeps SeenInv.  Start forgets what its own request had seen, and
\* no request in flight refers to it; Publish makes what its request found, and
\* so has seen, the view of all that are about to consume.
LEMMA SeenStep ==
    ASSUME TypeOK, SeenInv, [Next]_vars
    PROVE  SeenInv'
<1>1. ASSUME NEW r \in Requests, Handle(r)
      PROVE  /\ UNCHANGED seen
             /\ \A s \in Slugs : Visible(s)' = Visible(s)
  BY <1>1 DEF Handle, List, Inspect, Publish, Consume, Open, Visible
<1>2. ASSUME NEW r \in Requests, Start(r) PROVE SeenInv'
  <2>1. OnlyOf(r) /\ At(r, "new") /\ At(r, "list")' /\ req'[r].found = req[r].found
    BY <1>2, StartEffect DEF At
  <2>2. /\ seen' = [seen EXCEPT ![r] = [s \in Slugs |-> {Visible(s)}]]
        /\ UNCHANGED <<apps, mixed>>
        /\ \A s \in Slugs : Visible(s)' = Visible(s)
    BY <1>2 DEF Start, Visible
  <2>3. ASSUME NEW q \in Requests \ {r} PROVE SeenBy(q)'
    <3>1. req'[q] = req[q] /\ seen'[q] = seen[q] /\ SeenBy(q)
      BY <2>1, <2>2 DEF OnlyOf, TypeOK, SeenInv
    <3>2. mixed'[q] = mixed[q] /\ apps' = apps
      BY <2>2
    <3>3. Running(q) => \A s \in Slugs : Visible(s)' \in seen'[q][s]
      BY <2>2, <3>1 DEF SeenBy
    <3> QED
      BY <3>1, <3>2, <3>3, SeenKept
  <2>4. SeenBy(r)'
    <3>1. \A s \in Slugs : Visible(s)' \in seen'[r][s]
      BY <2>2 DEF TypeOK
    <3>2. \A q \in mixed'[r] : ~At(q, "new")'
      BY <2>2, NeverNew DEF SeenInv, SeenBy, TypeOK
    <3>3. req'[r].found = Nothing
      BY <2>1 DEF SeenInv, SeenBy, At
    <3> QED
      BY <2>1, <3>1, <3>2, <3>3 DEF SeenBy, At, Nothing
  <2> QED
    BY <2>3, <2>4 DEF SeenInv
<1>3. ASSUME NEW r \in Requests, Handle(r), OnlyOf(r),
             UNCHANGED <<apps, mixed>>, SeenBy(r)'
      PROVE  SeenInv'
  <2>1. ASSUME NEW q \in Requests \ {r} PROVE SeenBy(q)'
    <3>1. req'[q] = req[q] /\ seen'[q] = seen[q] /\ SeenBy(q)
      BY <1>1, <1>3 DEF OnlyOf, SeenInv
    <3> QED
      BY <1>1, <1>3, <3>1, SeenKept DEF SeenBy
  <2> QED
    BY <1>3, <2>1 DEF SeenInv
<1>4. ASSUME NEW r \in Requests, UNCHANGED mixed
      PROVE  \A q \in mixed'[r] : ~At(q, "new")'
  BY <1>4, NeverNew DEF SeenInv, SeenBy, TypeOK
<1>5. ASSUME NEW r \in Requests, List(r) PROVE SeenInv'
  <2>1. UNCHANGED <<apps, mixed>> /\ OnlyOf(r) /\ At(r, "list")
    BY <1>5, ListEffect DEF List
  <2>2. CASE readable
    <3>1. /\ req'[r].pc = "inspect" /\ req'[r].found = Nothing
          /\ req'[r].pending = {s \in Slugs : root[s] # None}
      BY <1>5, <2>1, <2>2, ListEffect DEF SeenInv, SeenBy, At
    <3>2. \A s \in Slugs : Visible(s) \in seen[r][s]
      BY <2>1 DEF SeenInv, SeenBy, At, Running
    <3>3. \A s \in Slugs \ req'[r].pending : req'[r].found[s] = Visible(s)
      BY <2>2, <3>1 DEF Visible, Nothing
    <3>4. SeenBy(r)'
      BY <1>1, <1>4, <1>5, <2>1, <3>1, <3>2, <3>3 DEF SeenBy, At, Handle
    <3> QED
      BY <1>3, <1>5, <2>1, <3>4 DEF Handle
  <2>3. CASE ~readable
    <3>1. SeenBy(r)'
      BY <1>4, <1>5, <2>1, <2>3, ListEffect DEF SeenBy, At, Running
    <3> QED
      BY <1>3, <1>5, <2>1, <3>1 DEF Handle
  <2> QED
    BY <2>2, <2>3
<1>6. ASSUME NEW r \in Requests, Inspect(r) PROVE SeenInv'
  <2>1. UNCHANGED <<apps, mixed, seen>> /\ \A s \in Slugs : Visible(s)' = Visible(s)
    BY <1>6 DEF Inspect, Visible
  <2>2. PICK s \in Slugs :
            /\ req'[r].pending = req[r].pending \ {s}
            /\ req'[r].found = [req[r].found EXCEPT ![s] = Visible(s)]
    BY <1>6, InspectEffect
  <2>3. req[r].found \in [Slugs -> Nat]
    BY DEF TypeOK, Request, Dirs
  <2>4. /\ req'[r].found[s] = Visible(s)
        /\ \A x \in Slugs \ {s} : req'[r].found[x] = req[r].found[x]
    BY <2>2, <2>3
  <2>5. OnlyOf(r) /\ At(r, "inspect") /\ At(r, "inspect")'
    BY <1>6, InspectEffect DEF At
  <2>6. SeenBy(r) /\ \A x \in Slugs : Visible(x) \in seen[r][x]
    BY <2>5 DEF SeenInv, SeenBy, At, Running
  <2>7. \A x \in Slugs \ req'[r].pending : req'[r].found[x] \in seen'[r][x]
    BY <2>1, <2>2, <2>4, <2>5, <2>6 DEF SeenBy
  <2>8. SeenBy(r)'
    BY <1>4, <2>1, <2>5, <2>6, <2>7 DEF SeenBy, At
  <2> QED
    BY <1>3, <1>6, <2>1, <2>5, <2>8 DEF Handle
<1>7. ASSUME NEW r \in Requests, Publish(r) PROVE SeenInv'
  <2>1. OnlyOf(r) /\ At(r, "inspect") /\ At(r, "consume")'
    BY <1>7, PublishEffect DEF At
  <2>2. /\ \A s \in Slugs : apps'[s] \in seen'[r][s]
        /\ mixed' = [q \in Requests |-> IF At(q, "consume") THEN {r} ELSE mixed[q]]
    BY <1>1, <1>7, <2>1 DEF Publish, SeenInv, SeenBy, Handle
  <2>3. ~At(r, "new")'
    BY <2>1 DEF At
  <2>4. \A s \in Slugs : Visible(s) \in seen[r][s]
    BY <2>1 DEF SeenInv, SeenBy, Running, At
  <2>5. SeenBy(r)'
    <3>1. mixed'[r] = mixed[r]
      BY <2>1, <2>2 DEF At
    <3>2. \A q \in mixed'[r] : ~At(q, "new")'
      BY <3>1, NeverNew DEF SeenInv, SeenBy, TypeOK
    <3> QED
      BY <1>1, <1>7, <2>1, <2>2, <2>4, <3>2 DEF SeenBy, At, Handle
  <2>6. ASSUME NEW q \in Requests \ {r} PROVE SeenBy(q)'
    <3>1. req'[q] = req[q] /\ SeenBy(q) /\ seen' = seen
      BY <1>1, <1>7, <2>1 DEF OnlyOf, SeenInv, Handle
    <3>2. \A s \in Slugs : Visible(s)' = Visible(s)
      BY <1>1, <1>7 DEF Handle
    <3>3. CASE At(q, "consume")
      <4>1. mixed'[q] = {r}
        BY <2>2, <3>3
      <4>2. \A s \in Slugs : Visible(s)' \in seen'[q][s]
        BY <3>1, <3>2, <3>3 DEF SeenBy, Running, At
      <4> QED
        BY <2>2, <2>3, <3>1, <3>3, <4>1, <4>2 DEF SeenBy, At
    <3>4. CASE ~At(q, "consume")
      BY <2>2, <3>1, <3>2, <3>4, SeenKept DEF SeenBy
    <3> QED
      BY <3>3, <3>4
  <2> QED
    BY <2>5, <2>6 DEF SeenInv
<1>8. ASSUME NEW r \in Requests, Consume(r) PROVE SeenInv'
  <2>1. /\ UNCHANGED <<apps, mixed>> /\ OnlyOf(r) /\ At(r, "consume")
        /\ req'[r].pc \in {"open", "done"}
    BY <1>8, ConsumeEffect DEF Consume
  <2>2. \A s \in Slugs : Visible(s) \in seen[r][s]
    BY <2>1 DEF SeenInv, SeenBy, Running, At
  <2>3. SeenBy(r)'
    BY <1>1, <1>4, <1>8, <2>1, <2>2 DEF SeenBy, At, Handle
  <2> QED
    BY <1>3, <1>8, <2>1, <2>3 DEF Handle
<1>9. ASSUME NEW r \in Requests, Open(r) PROVE SeenInv'
  <2>1. UNCHANGED <<apps, mixed>> /\ OnlyOf(r) /\ At(r, "done")'
    BY <1>9, OpenEffect DEF Open, At
  <2>2. SeenBy(r)'
    BY <1>4, <2>1 DEF SeenBy, At, Running
  <2> QED
    BY <1>3, <1>9, <2>1, <2>2 DEF Handle
<1>10. ASSUME NEW newRoot, NEW newReadable, Change(newRoot, newReadable)
       PROVE  SeenInv'
  <2>1. /\ UNCHANGED <<apps, req, mixed>>
        /\ \A q \in Requests, s \in Slugs :
              seen'[q][s] = IF Running(q) THEN seen[q][s] \cup {Visible(s)'}
                                          ELSE seen[q][s]
    BY <1>10 DEF Change
  <2> QED
    BY <2>1, SeenKept DEF SeenInv
<1>11. CASE UNCHANGED vars
  <2>1. /\ UNCHANGED <<apps, req, mixed, seen>>
        /\ \A s \in Slugs : Visible(s)' = Visible(s)
    BY <1>11 DEF vars, Visible
  <2> QED
    BY <2>1, SeenKept DEF SeenInv, SeenBy
<1> QED
  BY <1>2, <1>5, <1>6, <1>7, <1>8, <1>9, <1>10, <1>11
     DEF Next, Handle, Make, Withdraw, Hide, Show

\* What was consumed stays covered: it is taken from a snapshot SeenInv speaks
\* of, and afterwards what was seen only grows.
LEMMA NoOlderStep ==
    ASSUME TypeOK, SeenInv, AskedInv, NoOlderThanOverlap, [Next]_vars
    PROVE  NoOlderThanOverlap'
<1> DEFINE Covered(q) == \A s \in req[q].asked :
        \/ req[q].used[s] \in seen[q][s]
        \/ \E p \in mixed[q] : req[q].used[s] \in seen[p][s]
<1>5. \A q \in Requests : Consumed(q) => Covered(q)
  BY DEF NoOlderThanOverlap
<1>1. ASSUME NEW q \in Requests, Consumed(q), req'[q].used = req[q].used,
             req'[q].asked = req[q].asked, mixed'[q] = mixed[q]
      PROVE  Covered(q)'
  <2>1. ~At(q, "new") /\ \A p \in mixed[q] : p \in Requests /\ ~At(p, "new")
    BY <1>1 DEF Consumed, SeenInv, SeenBy, At, TypeOK
  <2>2. \A s \in Slugs : /\ seen[q][s] \subseteq seen'[q][s]
                         /\ \A p \in mixed[q] : seen[p][s] \subseteq seen'[p][s]
    BY <2>1, Recorded
  <2>3. req[q].asked \subseteq Slugs
    BY DEF TypeOK, Request
  <2> QED
    BY <1>1, <1>5, <2>2, <2>3
<1>2. ASSUME NEW q \in Requests, Consume(q) PROVE Covered(q)'
  <2>1. /\ req'[q].used = Wanted(q) /\ req'[q].asked = req[q].asked
        /\ At(q, "consume")
        /\ req[q].asked \subseteq Slugs
    BY <1>2, ConsumeEffect DEF SameQuestion, TypeOK, Request
  <2>2. UNCHANGED <<seen, mixed>>
    BY <1>2 DEF Consume
  <2>3. \A s \in req[q].asked : Wanted(q)[s] = apps[s]
    BY <2>1 DEF Wanted
  <2>4. \E p \in mixed[q] \cup {q} : \A s \in Slugs : apps[s] \in seen[p][s]
    BY <2>1 DEF SeenInv, SeenBy
  <2> QED
    BY <2>1, <2>2, <2>3, <2>4
<1>3. ASSUME NEW q \in Requests, Consumed(q)',
             ~Consume(q)
      PROVE  /\ Consumed(q)
             /\ req'[q].used = req[q].used /\ req'[q].asked = req[q].asked
             /\ mixed'[q] = mixed[q]
  <2>1. ASSUME NEW r \in Requests, Start(r) \/ List(r) \/ Inspect(r) \/ Publish(r)
        PROVE  r # q /\ OnlyOf(r)
    BY <1>3, <2>1, StartEffect, ListEffect, InspectEffect, PublishEffect
       DEF Consumed, At
  <2>2. ASSUME NEW r \in Requests, Consume(r) PROVE r # q /\ OnlyOf(r)
    BY <1>3, <2>2, ConsumeEffect
  <2>3. ASSUME NEW r \in Requests, Publish(r), ~At(q, "consume")
        PROVE  mixed'[q] = mixed[q]
    BY <2>3 DEF Publish
  <2>4. ASSUME NEW r \in Requests,
               \/ Start(r) \/ List(r) \/ Inspect(r) \/ Consume(r) \/ Open(r)
        PROVE  mixed' = mixed
    BY <2>4 DEF Start, List, Inspect, Consume, Open
  <2>5. ASSUME NEW r \in Requests, Start(r) \/ Handle(r), r # q
        PROVE  /\ Consumed(q)
               /\ req'[q].used = req[q].used /\ req'[q].asked = req[q].asked
               /\ mixed'[q] = mixed[q]
    <3>1. req'[q] = req[q]
      BY <2>1, <2>2, <2>5, OpenEffect DEF Handle, OnlyOf
    <3>2. Consumed(q) /\ ~At(q, "consume")
      BY <1>3, <3>1 DEF Consumed, At
    <3> QED
      BY <2>3, <2>4, <2>5, <3>1, <3>2 DEF Handle
  <2>6. ASSUME Open(q)
        PROVE  /\ Consumed(q)
               /\ req'[q].used = req[q].used /\ req'[q].asked = req[q].asked
               /\ mixed'[q] = mixed[q]
    BY <2>4, <2>6, OpenEffect DEF SameQuestion, AskedInv, At, Consumed
  <2>7. CASE UNCHANGED <<req, mixed>>
    BY <1>3, <2>7 DEF Consumed
  <2> QED
    BY <1>3, <2>1, <2>5, <2>6, <2>7
       DEF Next, Handle, Make, Withdraw, Hide, Show, Change, vars
<1> HIDE DEF Covered
<1>4. \A q \in Requests : Consumed(q)' => Covered(q)'
  BY <1>1, <1>2, <1>3
<1> QED
  BY <1>4 DEF Covered, NoOlderThanOverlap

\* What stands behind an answer: something was served, or nothing was found.
TrueOf(r) ==
    \A s \in req[r].asked :
        /\ req[r].answer = "served" => \E v \in seen[r][s] : v # None
        /\ req[r].answer = "missing" /\ mixed[r] = {} => None \in seen[r][s]

TrueInv == \A r \in Requests : TrueOf(r)

\* An answer given stays covered, for what was seen only grows.
LEMMA AnswerKept ==
    ASSUME TypeOK, AskedInv, TrueInv, [Next]_vars, NEW q \in Requests,
           req'[q].asked = req[q].asked, req'[q].answer = req[q].answer,
           ~At(q, "consume") => mixed'[q] = mixed[q]
    PROVE  TrueOf(q)'
<1>1. CASE At(q, "done")
  <2>1. ~At(q, "new") /\ ~At(q, "consume") /\ req[q].asked \subseteq Slugs
    BY <1>1 DEF At, TypeOK, Request
  <2>2. \A s \in req[q].asked : seen[q][s] \subseteq seen'[q][s]
    BY <2>1, Recorded
  <2> QED
    BY <2>1, <2>2 DEF TrueInv, TrueOf
<1>2. CASE ~At(q, "done")
  BY <1>2 DEF AskedInv, At, TrueOf
<1> QED
  BY <1>1, <1>2

\* Every answer is given on what the request, or who published last, has seen.
LEMMA TrueStep ==
    ASSUME TypeOK, AskedInv, SeenInv, TrueInv, [Next]_vars
    PROVE  TrueInv'
<1>1. ASSUME NEW r \in Requests, Start(r) \/ Handle(r)
      PROVE  \A q \in Requests : At(q, "consume") \/ mixed'[q] = mixed[q]
  BY <1>1 DEF Handle, Start, List, Inspect, Publish, Consume, Open, TypeOK
<1>2. ASSUME NEW r \in Requests, NEW q \in Requests \ {r}, Start(r) \/ Handle(r)
      PROVE  TrueOf(q)'
  <2>1. OnlyOf(r)
    BY <1>2, StartEffect, ListEffect, InspectEffect, PublishEffect, ConsumeEffect,
       OpenEffect DEF Handle
  <2>2. req'[q] = req[q]
    BY <2>1 DEF OnlyOf
  <2>3. ~At(q, "consume") => mixed'[q] = mixed[q]
    BY <1>1, <1>2
  <2> QED
    BY <2>2, <2>3, AnswerKept
<1>3. ASSUME NEW r \in Requests, Start(r) \/ List(r) \/ Inspect(r) \/ Publish(r)
      PROVE  TrueOf(r)'
  <2>1. req[r].answer = "none"
    BY <1>3, StartEffect, ListEffect, InspectEffect, PublishEffect DEF At, AskedInv
  <2>2. req'[r].answer \in {"none", "unavailable"}
    BY <1>3, <2>1, StartEffect, ListEffect, InspectEffect, PublishEffect
  <2> QED
    BY <2>2 DEF TrueOf
<1>4. ASSUME NEW r \in Requests, Consume(r) PROVE TrueOf(r)'
  <2>1. /\ At(r, "consume") /\ SameQuestion(r) /\ req[r].asked \subseteq Slugs
        /\ req'[r].answer # "served"
        /\ req'[r].answer = "missing" => Wanted(r) = Nothing
    BY <1>4, ConsumeEffect DEF TypeOK, Request
  <2>2. UNCHANGED <<seen, mixed>>
    BY <1>4 DEF Consume
  <2>3. Wanted(r) = Nothing => \A s \in req[r].asked : apps[s] = None
    <3>1. \A s \in req[r].asked : Wanted(r)[s] = apps[s] /\ Nothing[s] = None
      BY <2>1 DEF Wanted, Nothing
    <3> QED
      BY <3>1
  <2>4. mixed[r] = {} => \A s \in Slugs : apps[s] \in seen[r][s]
    BY <2>1 DEF SeenInv, SeenBy
  <2> QED
    BY <2>1, <2>2, <2>3, <2>4 DEF TrueOf, SameQuestion
<1>5. ASSUME NEW r \in Requests, Open(r) PROVE TrueOf(r)'
  <2>1. PICK s \in req[r].asked :
            req'[r].answer = IF Visible(s) = None THEN "missing" ELSE "served"
    BY <1>5, OpenEffect
  <2>2. At(r, "open") /\ SameQuestion(r)
    BY <1>5, OpenEffect
  <2>3. s \in Slugs /\ req[r].asked = {s}
    BY <2>1, <2>2 DEF AskedInv
  <2>4. Visible(s) \in seen[r][s]
    BY <2>2, <2>3 DEF SeenInv, SeenBy, At, Running
  <2>5. UNCHANGED <<seen, mixed>>
    BY <1>5 DEF Open
  <2> QED
    BY <2>1, <2>2, <2>3, <2>4, <2>5 DEF TrueOf, SameQuestion
<1>6. CASE UNCHANGED <<req, mixed>>
  BY <1>6, AnswerKept DEF TrueInv
<1> QED
  BY <1>2, <1>3, <1>4, <1>5, <1>6
     DEF TrueInv, Next, Handle, Make, Withdraw, Hide, Show, Change, vars

-----------------------------------------------------------------------------
(* The theorems.                                                           *)

\* The inductive invariant.
IInv ==
    /\ TypeOK
    /\ SeenInv
    /\ AskedInv
    /\ LitInv
    /\ NoOlderThanOverlap
    /\ TrueInv

\* It holds when the server starts.
LEMMA IInvInit == Init => IInv
<1> SUFFICES ASSUME Init PROVE IInv
  OBVIOUS
<1>1. Idle \in Request
  BY DEF Idle, Request, Ops, Steps, Dirs, Answers, Nothing, None
<1>2. TypeOK
  BY <1>1 DEF Init, TypeOK, None
<1>3. \A r \in Requests : /\ req[r] = Idle
                          /\ mixed[r] = {}
  BY DEF Init
<1>4. /\ Idle.pc = "new" /\ Idle.asked = {} /\ Idle.op = "home"
      /\ Idle.answer = "none" /\ Idle.found = Nothing
  BY DEF Idle
<1>5. SeenInv /\ AskedInv /\ LitInv
  BY <1>3, <1>4 DEF SeenInv, SeenBy, AskedInv, LitInv, Running, At
<1>6. NoOlderThanOverlap /\ TrueInv
  BY <1>3, <1>4 DEF NoOlderThanOverlap, Consumed, TrueInv, TrueOf
<1> QED
  BY <1>2, <1>5, <1>6 DEF IInv

\* Every step keeps it.
LEMMA IInvStep == IInv /\ [Next]_vars => IInv'
<1> SUFFICES ASSUME IInv, [Next]_vars PROVE IInv'
  OBVIOUS
<1>1. TypeOK /\ SeenInv /\ AskedInv /\ LitInv /\ NoOlderThanOverlap /\ TrueInv
  BY DEF IInv
<1>2. TypeOK'
  BY <1>1, RequestTypes, OtherTypes DEF TypeOK
<1>3. SeenInv' /\ AskedInv' /\ LitInv'
  BY <1>1, SeenStep, AskedStep, LitStep
<1>4. NoOlderThanOverlap' /\ TrueInv'
  BY <1>1, NoOlderStep, TrueStep
<1> QED
  BY <1>2, <1>3, <1>4 DEF IInv

\* The inductive invariant holds in every state, for any numbers of requests,
\* names and changes of the data root.
THEOREM Inductive == Spec => []IInv
BY IInvInit, IInvStep, PTL DEF Spec

\* Every variable keeps a value of its type; no directory is older than the
\* changes counted.
THEOREM TypeCorrect == Spec => []TypeOK
<1>1. IInv => TypeOK
  BY DEF IInv
<1> QED
  BY <1>1, Inductive, PTL

\* A request consumes its own view of the data root or that of a request that
\* published between its own publication and its use, never an older one
\* (refreshApps and app of server.go).
THEOREM NothingOlder == Spec => []NoOlderThanOverlap
<1>1. IInv => NoOlderThanOverlap
  BY DEF IInv
<1> QED
  BY <1>1, Inductive, PTL

\* What is served was there while the request ran, and a 404 that no other
\* request's publication explains is right (serveApplicationRoute of server.go).
THEOREM AnswersTrue == Spec => []AnswersWereTrue
<1>1. IInv => AnswersWereTrue
  BY DEF IInv, TrueInv, TrueOf, AnswersWereTrue
<1> QED
  BY <1>1, Inductive, PTL

\* A request during which the data root was never readable is answered 503
\* (refreshApps of server.go).
THEOREM NeverFromThePast == Spec => []UnreadableRefused
<1>1. IInv => UnreadableRefused
  BY DEF IInv, LitInv, At, UnreadableRefused
<1> QED
  BY <1>1, Inductive, PTL

=============================================================================
