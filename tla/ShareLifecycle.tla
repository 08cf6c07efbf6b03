--------------------------- MODULE ShareLifecycle ---------------------------
(***************************************************************************)
(* The life of a share: it is created, looked up by its token, logged into, *)
(* served, and ends by removal, by its expiry, by a change of what it shows  *)
(* or of the passwords around it.  Nothing of it is kept in memory: every    *)
(* request searches the directories again, and a session is a cookie that    *)
(* names the share and the version of its target.                           *)
(***************************************************************************)
EXTENDS ShareGroups

CONSTANTS
    Requests,   \* requests in flight
    NoSession,  \* a request without a cookie
    Entries,    \* what the administrator may write about security
    LineSets,   \* what the administrator may write about shares
    NewGroups,  \* what a browser may ask to create
    Seeds,      \* the data before the first request
    MaxSessions,\* bound: sessions issued
    Lifetime    \* sessionLifetime

ASSUME ShareLifecycleAssumption ==
    /\ Entries \subseteq Entry
    /\ LineSets \subseteq Lines
    /\ NewGroups \subseteq {g \in Group : g.enabled = "true" /\ g.form = "good"}
    /\ Seeds \subseteq Disk
    /\ {MaxSessions, Lifetime} \subseteq Nat

VARIABLES
    disk,       \* the data
    now,        \* the clock
    issued,     \* the share sessions clients hold
    req,        \* the requests in flight
    hist,       \* what happened while a request ran
    edits       \* changes of the data so far

vars == <<disk, now, issued, req, hist, edits>>

-----------------------------------------------------------------------------

TargetVersion == Owners \X {"file", "directory"} \X (0 .. MaxEdits + 1)
                   \X ((SUBSET Setting) \X Positions \X (Passwords \cup {None}))

\* A definition as one reading returned it, with the directory it came from.
Share == [dir : Owners, id : Ids, group : Group, version : TargetVersion]

NoShare == [dir |-> 0]

\* A session: what the cookie says, and (for the properties) what was logged
\* into and the changes there had been when that login began.
Session == [id : Ids, version : TargetVersion, at : 0 .. MaxTime,
            token : Tokens, dir : Owners, since : 0 .. MaxEdits]

\* Mutant: a session of the very last accepted age is refused.
ValidTooShort(s, share) ==
    /\ s # NoSession
    /\ s.id = share.id
    /\ s.version = share.version
    /\ now - s.at < Lifetime

\* Mutant: a session is good for whatever the share shows by now.
ValidAnyVersion(s, share) ==
    /\ s # NoSession
    /\ s.id = share.id
    /\ now - s.at <= Lifetime

Valid(s, share) ==
    /\ s # NoSession
    /\ s.id = share.id
    /\ s.version = share.version
    /\ now - s.at <= Lifetime

Request == [phase : {"idle", "policy", "shares", "decide", "again", "tree", "open", "store"},
            kind : {"visit", "login"}, token : Tokens,
            session : Session \cup {NoSession}, at : Owners,
            policy : Policy, share : Share \cup {NoShare},
            asked : Group \cup {NoGroup}]

AToken == CHOOSE t \in Tokens : TRUE

Idle == [phase |-> "idle", kind |-> "visit", token |-> AToken,
         session |-> NoSession, at |-> 1, policy |-> Unprotected,
         share |-> NoShare, asked |-> NoGroup]

\* While a request ran: the shares with its token that were open at a moment;
\* the files that were unusable all the time; once it is admitted, the
\* positions that had a password (or were unusable) ever since; the changes it
\* met and those there had been before.
History == [open : SUBSET (Owners \X Ids), broken : SUBSET Positions,
            closed : SUBSET Positions, changed : BOOLEAN, since : 0 .. MaxEdits]

Blank == [open |-> {}, broken |-> {}, closed |-> {}, changed |-> FALSE, since |-> 0]

TypeOK ==
    /\ disk \in Disk
    /\ now \in 0 .. MaxTime
    /\ issued \subseteq Session
    /\ req \in [Requests -> Request]
    /\ hist \in [Requests -> History]
    /\ edits \in 0 .. MaxEdits

Init ==
    /\ disk \in Seeds
    /\ now = 0
    /\ issued = {}
    /\ req = [r \in Requests |-> Idle]
    /\ hist = [r \in Requests |-> Blank]
    /\ edits = 0

-----------------------------------------------------------------------------
(* Searching.                                                               *)

\* A share as its own file says it: there, switched on, acceptable, in time.
OpenShares(d, t, token) ==
    {s \in Owners \X Ids :
        /\ d.env[s[1]].usable
        /\ s[2] \in GroupsAt(d, s[1])
        /\ LET g == GroupAt(d, s[1], s[2]) IN
           /\ g.enabled = "true" /\ g.form \in {"good", "loose"}
           /\ g.token = token /\ t <= g.expires}

Broken(d) == {i \in Positions : ~d.env[i].usable}
Closed(d) == {i \in Positions : d.env[i].usable => d.env[i].password # None}

Begin(r) ==
    /\ req[r].phase = "idle"
    /\ \E token \in Tokens, k \in {"visit", "login"}, s \in issued \cup {NoSession} :
          /\ k = "login" => s = NoSession
          /\ req' = [req EXCEPT ![r] = [Idle EXCEPT !.phase = "policy", !.kind = k,
                                          !.token = token, !.session = s]]
          /\ hist' = [hist EXCEPT ![r] =
                IF k = "login" THEN [Blank EXCEPT !.since = edits]
                ELSE [Blank EXCEPT !.open = OpenShares(disk, now, token),
                                   !.broken = Broken(disk)]]
    /\ UNCHANGED <<disk, now, issued, edits>>

Finish(r) ==
    /\ req' = [req EXCEPT ![r] = Idle]
    /\ hist' = [hist EXCEPT ![r] = Blank]
    /\ UNCHANGED <<disk, now, edits>>

Refuse(r) == Finish(r) /\ UNCHANGED issued

Go(r, q) ==
    /\ req' = [req EXCEPT ![r] = q]
    /\ UNCHANGED <<disk, now, issued, hist, edits>>

\* Mutant: what is below a locked directory is searched as well.
ReadPolicyPastLocks(r) ==
    /\ req[r].phase = "policy"
    /\ Go(r, [req[r] EXCEPT !.phase = "shares",
                            !.policy = PolicyAt(disk, req[r].at)])

\* The policy of the directory the walk has reached: one that is locked ends it.
ReadPolicy(r) ==
    LET p == PolicyAt(disk, req[r].at) IN
    /\ req[r].phase = "policy"
    /\ IF p.locked THEN Refuse(r)
       ELSE Go(r, [req[r] EXCEPT !.phase = "shares", !.policy = p])

\* Its shares, with the policy read before: found, or on to the next directory.
\* The file itself may have become unusable in between.
ReadShares(r) ==
    LET q == req[r]
        i == q.at
        found == Offers(disk, now, i, q.policy, q.token)
    IN  /\ q.phase = "shares"
        /\ IF disk.env[i].usable /\ found # {}
           THEN \E id \in found :
                   LET g == GroupAt(disk, i, id) IN
                   Go(r, [q EXCEPT !.phase = "decide", !.at = 1, !.policy = Unprotected,
                                   !.share = [dir |-> i, id |-> id, group |-> g,
                                              version |-> ShareVersion(disk, i, g, q.policy)]])
           ELSE IF /\ disk.env[i].usable /\ ~Spoiled(disk, now, i, q.policy)
                   /\ i + 1 \in Walked(disk, i)
           THEN Go(r, [q EXCEPT !.phase = "policy", !.at = i + 1])
           ELSE Refuse(r)

-----------------------------------------------------------------------------
(* What is done with a share that was found.                                *)

Over(r) == now > req[r].share.group.expires

Unavailable(r) == req[r].phase = "decide" /\ Over(r) /\ Refuse(r)

\* A visitor without a session for this share is sent to its gate.
Gate(r) ==
    /\ req[r].phase = "decide" /\ req[r].kind = "visit"
    /\ ~Over(r)
    /\ ~Valid(req[r].session, req[r].share)
    /\ Refuse(r)

Login(r, typed) ==
    LET q == req[r] IN
    /\ q.phase = "decide" /\ q.kind = "login"
    /\ ~Over(r)
    /\ IF typed = q.share.group.password
       THEN /\ Cardinality(issued) < MaxSessions
            /\ issued' = issued \cup
                  {[id |-> q.share.id, version |-> q.share.version, at |-> now,
                    token |-> q.token, dir |-> q.share.dir, since |-> hist[r].since]}
       ELSE UNCHANGED issued
    /\ Finish(r)

\* A directory share is looked at once more before it is shown.
Admit(r) ==
    LET q == req[r] IN
    /\ q.phase = "decide" /\ q.kind = "visit"
    /\ ~Over(r)
    /\ Valid(q.session, q.share)
    /\ req' = [req EXCEPT ![r] = [q EXCEPT !.phase =
                 IF q.share.group.scope = "file" THEN "open" ELSE "again"]]
    /\ hist' = [hist EXCEPT ![r] = [hist[r] EXCEPT !.closed = Closed(disk)]]
    /\ UNCHANGED <<disk, now, issued, edits>>

\* The target is looked up again, and the policy of its owner.
LookAgain(r) ==
    LET q == req[r]
        i == q.share.dir
        g == q.share.group
    IN  /\ q.phase = "again"
        /\ IF TargetThere(disk, i, g)
           THEN Go(r, [q EXCEPT !.phase = "tree", !.at = TargetDir(i, g),
                                !.policy = PolicyAt(disk, i)])
           ELSE Refuse(r)

\* On to the next directory, or the walk is over.
WalkOn(r, j) ==
    LET q == req[r] IN
    IF j + 1 \in Walked(disk, j) THEN Go(r, [q EXCEPT !.at = j + 1])
    ELSE Go(r, [q EXCEPT !.phase = "open", !.at = 1, !.policy = Unprotected])

\* Mutant: only the directory that is shared has to have its owner's boundary.
LookBelowTopOnly(r) ==
    LET q == req[r]
        p == PolicyAt(disk, q.at)
    IN  /\ q.phase = "tree"
        /\ IF p.locked \/ ~Protected(p) \/
              (q.at = TargetDir(q.share.dir, q.share.group) /\ p.boundary # q.policy.boundary)
           THEN Refuse(r)
           ELSE WalkOn(r, q.at)

\* directoryShareSafe, one directory of the tree after the other: the first with
\* another boundary than the owner's policy, as it was read before, ends it.
LookBelow(r) ==
    LET q == req[r]
        p == PolicyAt(disk, q.at)
    IN  /\ q.phase = "tree"
        /\ IF p.locked \/ ~Protected(p) \/ p.boundary # q.policy.boundary
           THEN Refuse(r)
           ELSE WalkOn(r, q.at)

\* The file, or something in directory j of the tree, is opened by its path.
Serve(r, j) ==
    LET share == req[r].share IN
    /\ req[r].phase = "open"
    /\ IF share.group.scope = "file"
       THEN j = share.dir /\ disk.file[j] # 0
       ELSE j \in TargetDir(share.dir, share.group) .. Depth + 1
    /\ Refuse(r)

Missing(r) ==
    /\ req[r].phase = "open"
    /\ req[r].share.group.scope = "file" /\ disk.file[req[r].share.dir] = 0
    /\ Refuse(r)

-----------------------------------------------------------------------------
(* Creation and removal by the owner, and the administrator.                *)

InFlight(r) == req[r].kind = "visit" /\ req[r].phase \notin {"idle", "store"}

\* A change of the data, and what it means to the requests in flight.
Change(d) ==
    /\ edits < MaxEdits
    /\ disk' = d
    /\ edits' = edits + 1
    /\ hist' = [r \in Requests |->
                  [open    |-> IF InFlight(r) THEN hist[r].open \cup OpenShares(d, now, req[r].token)
                               ELSE {},
                   broken  |-> hist[r].broken \cap Broken(d),
                   closed  |-> hist[r].closed \cap Closed(d),
                   changed |-> InFlight(r),
                   since   |-> hist[r].since]]

\* The lines of a directory that the server rewrites: a new file takes the
\* place of the old one, so the directory has another time.
WithLines(d, i, lines) ==
    [d EXCEPT !.lines[i] = lines, !.stamp[i] = edits + 1]

InUse(token) == \/ \E i \in Owners : \E id \in GroupsAt(disk, i) :
                      GroupAt(disk, i, id).token = token
                \/ \E r \in Requests : req[r].phase = "store" /\ req[r].token = token

\* Mutant: the expiry only has to be in the future.
AcceptableAnyTime(i, g, p) ==
    /\ Protected(p) /\ ~p.locked
    /\ g.expires > now
    /\ TargetThere(disk, i, g)
    /\ WithinBoundary(disk, i, g, p)

\* What createShare asks of a browser's request before it stores it.
Acceptable(i, g, p) ==
    /\ Protected(p) /\ ~p.locked
    /\ g.expires > now /\ ~TooFar(g, now)
    /\ TargetThere(disk, i, g)
    /\ WithinBoundary(disk, i, g, p)

\* A request to create is checked now and stored later; its token is random.
Create(r, i) ==
    /\ req[r].phase = "idle"
    /\ \E g \in NewGroups :
          /\ ~InUse(g.token)
          /\ Acceptable(i, g, PolicyAt(disk, i))
          /\ Go(r, [Idle EXCEPT !.phase = "store", !.at = i, !.token = g.token,
                               !.asked = g])

Store(r) ==
    LET i == req[r].at
        lines == disk.lines[i]
    IN  /\ req[r].phase = "store"
        /\ lines.switch # "false"
        /\ \E id \in Ids \ GroupsAt(disk, i) :
              Change(WithLines(disk, i,
                  [switch |-> "true", groups |-> [lines.groups EXCEPT ![id] = req[r].asked]]))
        /\ req' = [req EXCEPT ![r] = Idle]
        /\ UNCHANGED <<now, issued>>

\* Sharing is switched off, the file does not parse, another writer was faster
\* or the file system failed (EnvFile has the steps).
StoreFails(r) == req[r].phase = "store" /\ Refuse(r)

Delete(i, id) ==
    /\ Protected(PolicyAt(disk, i)) /\ ~PolicyAt(disk, i).locked
    /\ id \in GroupsAt(disk, i)
    /\ Change(WithLines(disk, i, [disk.lines[i] EXCEPT !.groups[id] = NoGroup]))
    /\ UNCHANGED <<now, issued, req>>

\* The administrator writes a file in place, or replaces or removes a target.
Administer(i) ==
    /\ \/ \E e \in Entries \ {disk.env[i]} : Change([disk EXCEPT !.env[i] = e])
       \/ i \in Owners /\ \E l \in LineSets \ {disk.lines[i]} :
             Change([disk EXCEPT !.lines[i] = l])
       \/ i \in Owners /\ \E n \in {0, edits + 2} \ {disk.file[i]} :
             Change([disk EXCEPT !.file[i] = n, !.stamp[i] = edits + 1])
    /\ UNCHANGED <<now, issued, req>>

Tick ==
    /\ now < MaxTime
    /\ now' = now + 1
    /\ UNCHANGED <<disk, issued, req, hist, edits>>

Next ==
    \/ \E r \in Requests :
          \/ Begin(r) \/ ReadPolicy(r) \/ ReadShares(r) \/ Unavailable(r)
          \/ Gate(r) \/ Admit(r) \/ LookAgain(r) \/ LookBelow(r) \/ Missing(r)
          \/ Store(r) \/ StoreFails(r)
          \/ \E w \in Secrets : Login(r, w)
          \/ \E i \in Owners : Serve(r, i) \/ Create(r, i)
    \/ \E i \in Owners, id \in Ids : Delete(i, id)
    \/ \E i \in Positions : Administer(i)
    \/ Tick

Spec == Init /\ [][Next]_vars

-----------------------------------------------------------------------------
(* Properties.                                                              *)

\* What the three readers of the same lines say of one share, though each has
\* checks of its own.  A share the management list offers is found by its link
\* if no directory on the way down is locked or spoiled and no other share has
\* its token.  What a link finds before its end, the list offers, if the lines
\* say SHARE_ENABLED and the token is written as it is encoded (the lookup asks
\* for neither).  And a link on a directory page is one the list offers, where
\* the target exists inside the owner's boundary (the page does not ask).
ReadersAgree ==
    \A i \in Owners : \A id \in GroupsAt(disk, i) :
        LET g == GroupAt(disk, i, id)
            clear == i \in Walked(disk, 1) /\ \A j \in 1 .. i : Passes(disk, now, j)
            sole == \A j \in Owners : \A k \in GroupsAt(disk, j) :
                        GroupAt(disk, j, k).token = g.token => <<j, k>> = <<i, id>>
            p == PolicyAt(disk, i)
            found == <<i, id>> \in Finds(disk, now, g.token)
            listed == id \in Listed(disk, now, i)
            linked == \E K \in Published(disk, now, i) : id \in Links(disk, now, i, K)
            fits == TargetThere(disk, i, g) /\ WithinBoundary(disk, i, g, p) /\ ~p.locked
            written == g.form = "good" /\ disk.lines[i].switch = "true"
        IN  IF listed THEN clear /\ sole => found
            ELSE /\ ~(written /\ now < g.expires /\ found)
                 /\ ~(fits /\ linked)

\* What is served was a share with the token of the link, switched on and in
\* time, at a moment of the request itself, and no file on the way to it was
\* unusable all that time: a share that was removed, switched off or over when
\* the request began is closed, whatever session comes with it.
ServedWasOpen ==
    [][\A r \in Requests, j \in Owners : Serve(r, j) =>
          LET share == req[r].share IN
          /\ <<share.dir, share.id>> \in hist[r].open
          /\ hist[r].broken \cap (0 .. share.dir) = {}]_vars

\* What a session is shown is what was logged into: unless the data changed
\* under the very request, target and policy are, when it is served, those of
\* the login.
SessionForTarget ==
    [][\A r \in Requests, j \in Owners : Serve(r, j) /\ ~hist[r].changed =>
          LET share == req[r].share IN
          req[r].session.version =
              ShareVersion(disk, share.dir, share.group, PolicyAt(disk, share.dir))]_vars

\* A login is not in vain: whoever is sent back to the gate with a session of an
\* accepted age for this share has met a change of the data since that login began.
LoginOpens ==
    [][\A r \in Requests : Gate(r) /\ req[r].session # NoSession =>
          LET s == req[r].session IN
          \/ now - s.at > Lifetime
          \/ <<s.dir, s.id>> # <<req[r].share.dir, req[r].share.id>>
          \/ s.since # edits]_vars

\* A directory share shows nothing of a directory that has had, ever since the
\* visitor was admitted, a password between it and the owner: unless a directory
\* above it cannot be listed, for there the walk does not get to it.
BoundaryKept ==
    [][\A r \in Requests, j \in Owners : Serve(r, j) =>
          LET share == req[r].share IN
          \/ share.group.scope = "file"
          \/ j \notin Walked(disk, TargetDir(share.dir, share.group))
          \/ hist[r].closed \cap (share.dir + 1 .. j) = {}]_vars

\* A share that creation accepts never spoils its directory for its neighbours,
\* unless its target went or got a boundary of its own in the meantime: what
\* createShare asks for and what sharesFromEnv asks for are the same.
CreatedIsReadable ==
    [][\A r \in Requests : Store(r) =>
          LET i == req[r].at
              g == req[r].asked
          IN  \/ ~Spoils(disk', now, i, g, PolicyAt(disk', i))
              \/ ~TargetThere(disk', i, g)
              \/ ~WithinBoundary(disk', i, g, PolicyAt(disk', i))]_vars
=============================================================================
