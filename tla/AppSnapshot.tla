---------------------------- MODULE AppSnapshot -----------------------------
(***************************************************************************)
(* The snapshot of applications (server.go): every request lists the data   *)
(* root, looks at each entry, publishes what it found for all requests, and *)
(* then consumes what is published at that moment, which another request    *)
(* may have replaced.  A directory is the number of the change of the data   *)
(* root that made it; None is no directory.                                 *)
(***************************************************************************)
EXTENDS Naturals

CONSTANTS
    Slugs,      \* names a first-level directory may have
    Requests,   \* requests, one after the other or at once
    MaxChanges  \* changes of the data root (a bound)

VARIABLES
    root,       \* the directories in the data root
    readable,   \* the data root can be read
    changes,    \* changes of the data root so far
    apps,       \* server.apps, the published snapshot
    req,        \* the local state of every request
    \* The rest is history: no action reads it.
    seen,       \* what each request could have seen of each name so far
    lit,        \* requests during which the data root was readable
    mixed       \* who published last between a request's publication and its use

vars == <<root, readable, changes, apps, req, seen, lit, mixed>>

None == 0

Dirs == [Slugs -> Nat]

Ops == {"route", "home"}

Steps == {"new", "list", "inspect", "consume", "open", "done"}

Answers == {"none", "listed", "served", "missing", "unavailable"}

\* A route asks for one name; the home page and a share lookup for every name.
Request == [op : Ops, asked : SUBSET Slugs, pc : Steps, pending : SUBSET Slugs,
            found : Dirs, used : Dirs, answer : Answers]

Nothing == [s \in Slugs |-> None]

Idle == [op |-> "home", asked |-> {}, pc |-> "new", pending |-> {},
         found |-> Nothing, used |-> Nothing, answer |-> "none"]

Visible(s) == IF readable THEN root[s] ELSE None

\* newServer publishes a first snapshot before it serves requests.
Init ==
    /\ root \in [Slugs -> {None, 1}]
    /\ readable = TRUE
    /\ changes = 1
    /\ apps = root
    /\ req = [r \in Requests |-> Idle]
    /\ seen = [r \in Requests |-> [s \in Slugs |-> {}]]
    /\ lit = {}
    /\ mixed = [r \in Requests |-> {}]

-----------------------------------------------------------------------------
(* The steps of a request.                                                 *)

At(r, step) == req[r].pc = step

Running(r) == req[r].pc \notin {"new", "done"}

Answer(r, a) == req' = [req EXCEPT ![r].pc = "done", ![r].answer = a]

Start(r) ==
    /\ At(r, "new")
    /\ \E op \in Ops, asked \in SUBSET Slugs :
        /\ IF op = "home" THEN asked = Slugs ELSE \E s \in Slugs : asked = {s}
        /\ req' = [req EXCEPT ![r].pc = "list", ![r].op = op, ![r].asked = asked]
    /\ seen' = [seen EXCEPT ![r] = [s \in Slugs |-> {Visible(s)}]]
    /\ lit' = IF readable THEN lit \cup {r} ELSE lit
    /\ UNCHANGED <<root, readable, changes, apps, mixed>>

\* Mutant: when the data root cannot be read the last snapshot serves.
ListOrReuse(r) ==
    /\ At(r, "list")
    /\ IF readable
       THEN req' = [req EXCEPT ![r].pc = "inspect",
                               ![r].pending = {s \in Slugs : root[s] # None}]
       ELSE req' = [req EXCEPT ![r].pc = "consume"]
    /\ UNCHANGED <<root, readable, changes, apps, seen, lit, mixed>>

\* os.ReadDir; when it fails the answer is 503 and nothing is published or used.
List(r) ==
    /\ At(r, "list")
    /\ IF readable
       THEN req' = [req EXCEPT ![r].pc = "inspect",
                               ![r].pending = {s \in Slugs : root[s] # None}]
       ELSE Answer(r, "unavailable")
    /\ UNCHANGED <<root, readable, changes, apps, seen, lit, mixed>>

\* os.Lstat of one entry; an entry it fails on is skipped.
Inspect(r) ==
    /\ At(r, "inspect")
    /\ \E s \in req[r].pending :
        req' = [req EXCEPT ![r].pending = @ \ {s}, ![r].found[s] = Visible(s)]
    /\ UNCHANGED <<root, readable, changes, apps, seen, lit, mixed>>

\* Mutant: what was found is added to the published map.
PublishMerged(r) ==
    /\ At(r, "inspect")
    /\ req[r].pending = {}
    /\ apps' = [s \in Slugs |-> IF req[r].found[s] = None THEN apps[s] ELSE req[r].found[s]]
    /\ req' = [req EXCEPT ![r].pc = "consume"]
    /\ mixed' = [q \in Requests |->
                    IF At(q, "consume") THEN {r} ELSE mixed[q]]
    /\ UNCHANGED <<root, readable, changes, seen, lit>>

Publish(r) ==
    /\ At(r, "inspect")
    /\ req[r].pending = {}
    /\ apps' = req[r].found
    /\ req' = [req EXCEPT ![r].pc = "consume"]
    /\ mixed' = [q \in Requests |->
                    IF At(q, "consume") THEN {r} ELSE mixed[q]]
    /\ UNCHANGED <<root, readable, changes, seen, lit>>

\* Mutant: the answer forgets the names that were not asked for.
WantedOnly(r) == [s \in req[r].asked |-> apps[s]]

Wanted(r) == [s \in Slugs |-> IF s \in req[r].asked THEN apps[s] ELSE None]

\* `appSnapshot` copies the map for the page; `app` looks one name up.
Consume(r) ==
    /\ At(r, "consume")
    /\ LET Take(step, a) ==
              req' = [req EXCEPT ![r].used = Wanted(r), ![r].found = Nothing,
                                 ![r].pc = step, ![r].answer = a]
       IN  \/ req[r].op = "home" /\ Take("done", "listed")
           \/ req[r].op = "route" /\ Wanted(r) = Nothing /\ Take("done", "missing")
           \/ req[r].op = "route" /\ Wanted(r) # Nothing /\ Take("open", "none")
    /\ UNCHANGED <<root, readable, changes, apps, seen, lit, mixed>>

\* Mutant: the snapshot is trusted and the path is not looked at.
OpenUnchecked(r) ==
    /\ At(r, "open")
    /\ Answer(r, "served")
    /\ UNCHANGED <<root, readable, changes, apps, seen, lit, mixed>>

\* The handler of a route opens the path, whatever is there now.
Open(r) ==
    /\ At(r, "open")
    /\ \E s \in req[r].asked :
        Answer(r, IF Visible(s) = None THEN "missing" ELSE "served")
    /\ UNCHANGED <<root, readable, changes, apps, seen, lit, mixed>>

-----------------------------------------------------------------------------
(* The data root.                                                          *)

\* The history of the requests in flight follows every change.
Change(newRoot, newReadable) ==
    /\ changes < MaxChanges
    /\ changes' = changes + 1
    /\ root' = newRoot
    /\ readable' = newReadable
    /\ seen' = [r \in Requests |-> [s \in Slugs |->
                    IF Running(r) THEN seen[r][s] \cup {Visible(s)'} ELSE seen[r][s]]]
    /\ lit' = IF readable' THEN lit \cup {r \in Requests : Running(r)} ELSE lit
    /\ UNCHANGED <<apps, req, mixed>>

Make(s) == root[s] = None /\ Change([root EXCEPT ![s] = changes + 1], readable)

Withdraw(s) == root[s] # None /\ Change([root EXCEPT ![s] = None], readable)

Hide == readable /\ Change(root, FALSE)

Show == ~readable /\ Change(root, TRUE)

Handle(r) == List(r) \/ Inspect(r) \/ Publish(r) \/ Consume(r) \/ Open(r)

Next ==
    \/ \E r \in Requests : Start(r) \/ Handle(r)
    \/ \E s \in Slugs : Make(s) \/ Withdraw(s)
    \/ Hide
    \/ Show

Spec == Init /\ [][Next]_vars

-----------------------------------------------------------------------------
(* Properties.                                                             *)

\* Every variable has a value of its type; numbers are those of past changes.
TypeOK ==
    /\ root \in [Slugs -> 0..changes]
    /\ readable \in BOOLEAN
    /\ changes \in Nat
    /\ apps \in [Slugs -> 0..changes]
    /\ req \in [Requests -> Request]
    /\ seen \in [Requests -> [Slugs -> SUBSET (0..changes)]]
    /\ lit \subseteq Requests
    /\ mixed \in [Requests -> SUBSET Requests]

Consumed(r) ==
    req[r].pc \in {"open", "done"} /\ req[r].answer # "unavailable"

\* Every name a request consumes is as it was at some moment while the request
\* ran (the contract: a new directory appears and a removed one disappears with
\* the next request).  The code does not keep it.
FreshSnapshot ==
    \A r \in Requests : Consumed(r) =>
        \A s \in req[r].asked : req[r].used[s] \in seen[r][s]

\* What the code does keep: a request consumes its own view of the data root or
\* that of a request which published while it ran (server.go refreshApps, app,
\* appSnapshot); nothing older ever comes back.
NoOlderThanOverlap ==
    \A r \in Requests : Consumed(r) =>
        \A s \in req[r].asked :
            req[r].used[s] \in seen[r][s] \cup UNION {seen[q][s] : q \in mixed[r]}

\* A page is served only of a directory that was there while the request ran,
\* however old the snapshot is; and only such a snapshot makes a 404 wrong.
AnswersWereTrue ==
    \A r \in Requests : \A s \in req[r].asked :
        /\ req[r].answer = "served" => seen[r][s] # {None}
        /\ req[r].answer = "missing" /\ mixed[r] = {} => None \in seen[r][s]

\* While the data root stays unreadable a request is refused, never answered
\* from the last good snapshot (the comment of refreshApps).
UnreadableRefused ==
    \A r \in Requests : At(r, "done") /\ r \notin lit => req[r].answer = "unavailable"

=============================================================================
