------------------------ MODULE ShareLifecycleProofs ------------------------
(***************************************************************************)
(* That the three readers of share lines agree, and that a share is served  *)
(* as ShareLifecycle promises, for any data, depth, ids, tokens and clock,  *)
(* any number of requests, sessions and changes.                            *)
(***************************************************************************)
EXTENDS ShareLifecycle, FoldedPolicyProofs

LEMMA Numbers ==
    /\ MaxTime \in Nat /\ MaxAhead \in Nat /\ MaxEdits \in Nat
    /\ MaxSessions \in Nat /\ Lifetime \in Nat /\ Depth \in Nat
    /\ Owners \subseteq Positions /\ Owners \subseteq Nat /\ 1 \in Owners
    /\ \A i \in Owners : i >= 1 /\ 0 .. i \subseteq Positions
BY FoldedPolicyAssumption, ShareGroupsAssumption, ShareLifecycleAssumption
   DEF Owners, Positions

\* The parts of the data.
LEMMA DiskParts ==
    ASSUME NEW d \in Disk
    PROVE  /\ d.env \in Chain
           /\ d.lines \in [Owners -> Lines]
           /\ d.file \in [Owners -> 0 .. MaxEdits + 1]
           /\ d.stamp \in [Owners -> 0 .. MaxEdits]
           /\ d.listable \subseteq Owners
BY DEF Disk

LEMMA GroupParts ==
    ASSUME NEW g \in Group
    PROVE  /\ g.enabled \in {"true", "false"}
           /\ g.form \in {"good", "loose", "bad", "incomplete"}
           /\ g.scope \in {"file", "tree", "here"}
           /\ g.token \in Tokens /\ g.password \in Secrets
           /\ g.expires \in Nat /\ g.expires \in Times
BY Numbers DEF Group, Times

LEMMA GroupAtType ==
    ASSUME NEW d \in Disk, NEW i \in Owners, NEW id \in GroupsAt(d, i)
    PROVE  id \in Ids /\ GroupAt(d, i, id) \in Group
<1>1. d.lines[i] \in Lines
    BY DiskParts
<1>2. d.lines[i].groups \in [Ids -> Group \cup {NoGroup}]
    BY <1>1 DEF Lines
<1> QED BY <1>2 DEF GroupsAt, GroupAt

LEMMA PolicyAtIs ==
    ASSUME NEW d \in Disk, NEW i \in Owners
    PROVE  /\ PolicyAt(d, i) \in Policy
           /\ PolicyAt(d, i).locked <=> \E k \in 0 .. i : ~d.env[k].usable
<1>1. d.env \in Chain /\ i \in Positions
    BY DiskParts, Numbers
<1>2. PolicyAt(d, i) \in Policy
    BY <1>1, PolicyOfType DEF PolicyAt
<1>3. CASE \E k \in 0 .. i : ~d.env[k].usable
    <2>1. PolicyAt(d, i) = Locked
        BY <1>3 DEF PolicyAt, PolicyOf
    <2> QED BY <1>2, <1>3, <2>1 DEF Locked
<1>4. CASE ~ \E k \in 0 .. i : ~d.env[k].usable
    <2>1. PolicyAt(d, i).locked = FALSE
        BY <1>4 DEF PolicyAt, PolicyOf
    <2> QED BY <1>2, <1>4, <2>1
<1> QED BY <1>2, <1>3, <1>4

-----------------------------------------------------------------------------
(* The readers.                                                             *)

\* A share a lookup offers, whose token is written as it is encoded, is one that
\* the list says is available until it ends; and the other way round.
LEMMA OfferedIsAvailable ==
    ASSUME NEW d \in Disk, NEW t \in Nat, NEW i \in Owners, NEW p, NEW token,
           NEW id \in Offers(d, t, i, p, token),
           GroupAt(d, i, id).form = "good", t < GroupAt(d, i, id).expires
    PROVE  ListState(d, t, i, GroupAt(d, i, id), p) = "available"
<1> DEFINE g == GroupAt(d, i, id)
<1>1. id \in GroupsAt(d, i) /\ ~Spoiled(d, t, i, p) /\ g.enabled = "true"
    BY DEF Offers
<1>2. ~Spoils(d, t, i, g, p)
    BY <1>1 DEF Spoiled
<1>3. g.expires \in Nat
    BY <1>1, GroupAtType, GroupParts
<1> HIDE DEF g
<1>4. ~TooFar(g, t) /\ TargetThere(d, i, g) /\ WithinBoundary(d, i, g, p)
    BY <1>1, <1>2 DEF Spoils
<1>5. g.form = "good" /\ g.expires > t
    BY <1>3 DEF g
<1>6. ListState(d, t, i, g, p) = "available"
    BY <1>1, <1>4, <1>5 DEF ListState
<1> QED BY <1>6 DEF g

LEMMA AvailableIsGood ==
    ASSUME NEW d \in Disk, NEW t, NEW i \in Owners, NEW p, NEW g \in Group,
           ListState(d, t, i, g, p) = "available"
    PROVE  g.enabled = "true"
BY GroupParts DEF ListState

\* What a listing holds is good, whatever the order of the map.
LEMMA PublishedIsGood ==
    ASSUME NEW d, NEW t, NEW i, NEW K \in Published(d, t, i), NEW id \in K
    PROVE  /\ d.lines[i].switch = "true"
           /\ id \in GroupsAt(d, i) /\ ~Unpublishable(GroupAt(d, i, id), t)
<1> DEFINE good == {x \in GroupsAt(d, i) : ~Unpublishable(GroupAt(d, i, x), t)}
           kept(S) == {L \in SUBSET S :
                       \A x \in S : \E k \in L : \A l \in L :
                           (GroupAt(d, i, l).scope = GroupAt(d, i, x).scope) <=> (l = k)}
<1>1. Published(d, t, i) = IF d.lines[i].switch # "true" THEN {{}}
                           ELSE IF good = GroupsAt(d, i) THEN kept(good)
                           ELSE UNION {kept(S) : S \in SUBSET good}
    BY Zenon DEF Published
<1>2. \A S : \A L \in kept(S) : L \subseteq S
    OBVIOUS
<1> HIDE DEF kept
<1>3. d.lines[i].switch = "true" /\ K \subseteq good
    <2>1. CASE d.lines[i].switch # "true"
        BY <1>1, <2>1
    <2>2. CASE d.lines[i].switch = "true"
        <3>1. K \in kept(good) \/ K \in UNION {kept(S) : S \in SUBSET good}
            BY <1>1, <2>2
        <3>2. CASE K \in kept(good)
            BY <1>2, <2>2, <3>2
        <3>3. CASE K \in UNION {kept(S) : S \in SUBSET good}
            <4>1. PICK S \in SUBSET good : K \in kept(S)
                BY <3>3
            <4> QED BY <1>2, <2>2, <4>1
        <3> QED BY <3>1, <3>2, <3>3
    <2> QED BY <2>1, <2>2
<1> QED BY <1>3

\* Whatever the data and the time, the readers agree.
LEMMA Agreement ==
    ASSUME disk \in Disk, now \in Nat
    PROVE  ReadersAgree
<1> SUFFICES ASSUME NEW i \in Owners, NEW id \in GroupsAt(disk, i)
    PROVE  LET g == GroupAt(disk, i, id)
               clear == i \in Walked(disk, 1) /\ \A j \in 1 .. i : Passes(disk, now, j)
               sole == \A j \in Owners : \A k \in GroupsAt(disk, j) :
                        GroupAt(disk, j, k).token = g.token => <<j, k>> = <<i, id>>
               p == PolicyAt(disk, i)
               found == <<i, id>> \in Finds(disk, now, g.token)
               listed == id \in Listed(disk, now, i)
               linked == \E K \in Published(disk, now, i) : id \in Links(disk, now, i, K)
               fits == TargetThere(disk, i, g) /\ WithinBoundary(disk, i, g, p) /\ ~p.locked
               written == g.form = "good" /\ disk.lines[i].switch = "true"
           IN  IF listed THEN clear /\ sole => found
               ELSE /\ ~(written /\ now < g.expires /\ found)
                    /\ ~(fits /\ linked)
    BY DEF ReadersAgree
<1> DEFINE g == GroupAt(disk, i, id)
           p == PolicyAt(disk, i)
           found == <<i, id>> \in Finds(disk, now, g.token)
           listed == id \in Listed(disk, now, i)
           here(j) == IF Passes(disk, now, j)
                      THEN Offers(disk, now, j, PolicyAt(disk, j), g.token) ELSE {}
<1>1. id \in Ids /\ g \in Group
    BY GroupAtType
<1>2. found <=> /\ i \in Walked(disk, 1) /\ id \in here(i)
                /\ \A j \in 1 .. i - 1 : Passes(disk, now, j) /\ here(j) = {}
    BY <1>1 DEF Finds
<1>3. ASSUME listed,
             i \in Walked(disk, 1), \A j \in 1 .. i : Passes(disk, now, j),
             \A j \in Owners : \A k \in GroupsAt(disk, j) :
                 GroupAt(disk, j, k).token = g.token => <<j, k>> = <<i, id>>
      PROVE  found
    <2>1. ListState(disk, now, i, g, p) = "available"
        BY <1>3 DEF Listed
    <2>2. g.enabled = "true"
        BY <1>1, <2>1, AvailableIsGood
    <2>3. Passes(disk, now, i)
        BY <1>3, Numbers
    <2>4. id \in here(i)
        BY <2>2, <2>3 DEF Passes, Offers
    <2>5. ASSUME NEW j \in 1 .. i - 1
          PROVE  Passes(disk, now, j) /\ here(j) = {}
        <3>1. j \in Owners /\ j \in 1 .. i /\ j # i
            BY Numbers DEF Owners
        <3>2. ASSUME NEW k \in Offers(disk, now, j, PolicyAt(disk, j), g.token)
              PROVE  FALSE
            <4>1. k \in GroupsAt(disk, j) /\ GroupAt(disk, j, k).token = g.token
                BY DEF Offers
            <4> QED BY <1>3, <3>1, <4>1
        <3>3. Passes(disk, now, j)
            BY <1>3, <3>1
        <3> QED BY <3>2, <3>3
    <2> HIDE DEF here
    <2> QED BY <1>2, <1>3, <2>4, <2>5
<1>4. ASSUME g.form = "good", disk.lines[i].switch = "true", now < g.expires, found
      PROVE  listed
    <2>1. id \in here(i)
        BY <1>2, <1>4
    <2>2. Passes(disk, now, i) /\ id \in Offers(disk, now, i, p, g.token)
        BY <2>1
    <2>3. ListState(disk, now, i, g, p) = "available"
        BY <1>4, <2>2, OfferedIsAvailable
    <2>4. ~p.locked
        BY <2>2 DEF Passes
    <2> QED BY <1>4, <2>3, <2>4 DEF Listed
<1>5. ASSUME TargetThere(disk, i, g), WithinBoundary(disk, i, g, p), ~p.locked,
             NEW K \in Published(disk, now, i), id \in Links(disk, now, i, K)
      PROVE  listed
    <2>1. id \in K /\ g.expires > now
        BY <1>5 DEF Links
    <2>2. disk.lines[i].switch = "true" /\ ~Unpublishable(g, now)
        BY <2>1, PublishedIsGood
    <2> HIDE DEF g, p
    <2>3. g.form = "good" /\ g.enabled = "true" /\ ~TooFar(g, now)
        BY <2>2 DEF Unpublishable
    <2>4. ListState(disk, now, i, g, p) = "available"
        BY <1>5, <2>1, <2>3 DEF ListState
    <2> QED BY <1>5, <2>2, <2>4 DEF Listed, g, p
<1> HIDE DEF g, p, found, listed
<1>6. IF listed
      THEN i \in Walked(disk, 1) /\ (\A j \in 1 .. i : Passes(disk, now, j))
            /\ (\A j \in Owners : \A k \in GroupsAt(disk, j) :
                  GroupAt(disk, j, k).token = g.token => <<j, k>> = <<i, id>>) => found
      ELSE /\ ~(g.form = "good" /\ disk.lines[i].switch = "true" /\ now < g.expires /\ found)
           /\ ~(/\ TargetThere(disk, i, g) /\ WithinBoundary(disk, i, g, p) /\ ~p.locked
                /\ \E K \in Published(disk, now, i) : id \in Links(disk, now, i, K))
    BY <1>3, <1>4, <1>5
<1> QED BY <1>6 DEF g, p, found, listed
-----------------------------------------------------------------------------
(* The invariant.                                                           *)

Walking(q) == q.kind = "visit" /\ q.phase \notin {"idle", "store"}

Holds(q) == q.phase \in {"decide", "again", "tree", "open"}

ShareOf(q) == <<q.share.dir, q.share.id>>

\* No change since the request began, its session's login began, or the login
\* itself began.
Steady(q, h, e) ==
    \/ q.kind = "visit" /\ ~h.changed
    \/ q.kind = "visit" /\ q.session # NoSession /\ q.session.since = e
    \/ q.kind = "login" /\ h.since = e

\* The policy and the share a request holds are those of the data.
Settled(q, d) ==
    /\ q.phase = "shares" => q.policy = PolicyAt(d, q.at)
    /\ Holds(q) =>
          /\ q.share.group = GroupAt(d, q.share.dir, q.share.id)
          /\ q.share.version = ShareVersion(d, q.share.dir, q.share.group,
                                            PolicyAt(d, q.share.dir))

\* A session for data that have not changed since is for the version they have.
Sound(s, d, e) ==
    /\ s.since <= e
    /\ s.since = e =>
          s.version = ShareVersion(d, s.dir, GroupAt(d, s.dir, s.id), PolicyAt(d, s.dir))

Fresh(q, h, d, e) ==
    /\ h.since <= e
    /\ q.session # NoSession => Sound(q.session, d, e)
    /\ Steady(q, h, e) => Settled(q, d)

\* What is open now is among what the request has met, and no file it has read
\* was unusable all the time.
Seeing(q, h, d, t) ==
    Walking(q) =>
        /\ OpenShares(d, t, q.token) \subseteq h.open
        /\ h.broken \subseteq Broken(d)
        /\ q.phase = "shares" => h.broken \cap (0 .. q.at) = {}

Holding(q, h, t) ==
    Holds(q) =>
        /\ q.share \in Share
        /\ q.kind = "visit" =>
              /\ h.broken \cap (0 .. q.share.dir) = {}
              /\ t <= q.share.group.expires => ShareOf(q) \in h.open

Within(q, h, d) ==
    \A j \in Walked(d, TargetDir(q.share.dir, q.share.group)) :
        h.closed \cap (q.share.dir + 1 .. j) = {}

\* The walk is in the tree, with a policy whose boundary is not below the owner.
Searching(q, d) ==
    /\ q.share.group.scope # "file"
    /\ q.policy.boundary <= q.share.dir
    /\ q.at \in Walked(d, TargetDir(q.share.dir, q.share.group))

Admitted(q, h, d) ==
    q.phase \in {"again", "tree", "open"} =>
        /\ q.kind = "visit" /\ q.session.version = q.share.version
        /\ ShareOf(q) \in h.open
        /\ h.closed \subseteq Closed(d)
        /\ q.phase = "again" => q.share.group.scope # "file"
        /\ q.phase = "tree" => Searching(q, d)
        /\ q.phase = "open" /\ q.share.group.scope # "file" => Within(q, h, d)

Asking(q, t) == q.phase = "store" => q.asked \in NewGroups /\ ~TooFar(q.asked, t)

Knows(q, h, d, t, e) ==
    /\ Fresh(q, h, d, e)
    /\ Seeing(q, h, d, t)
    /\ Holding(q, h, t)
    /\ Admitted(q, h, d)
    /\ Asking(q, t)

IInv ==
    /\ TypeOK
    /\ \A s \in issued : Sound(s, disk, edits)
    /\ \A r \in Requests : Knows(req[r], hist[r], disk, now, edits)

-----------------------------------------------------------------------------
(* Parts of states.                                                         *)

LEMMA States ==
    ASSUME IInv
    PROVE  /\ disk \in Disk /\ now \in Nat /\ edits \in Nat
           /\ req \in [Requests -> Request] /\ hist \in [Requests -> History]
           /\ \A r \in Requests : Knows(req[r], hist[r], disk, now, edits)
BY Numbers DEF IInv, TypeOK

LEMMA IdleKnows ==
    /\ Idle \in Request
    /\ \A h, d, t, e : h.since <= e => Knows(Idle, h, d, t, e)
<1>1. AToken \in Tokens
    BY ShareGroupsAssumption DEF AToken
<1>2. Idle \in Request
    BY <1>1, Numbers, FixedPolicies DEF Idle, Request
<1>3. Idle.phase = "idle" /\ Idle.session = NoSession
    BY DEF Idle
<1> QED BY <1>2, <1>3 DEF Knows, Fresh, Settled, Holds, Seeing, Walking,
                          Holding, Admitted, Asking

LEMMA BlankType ==
    Blank \in History /\ Blank.since = 0
BY Numbers DEF Blank, History

LEMMA OpenSharesIs ==
    ASSUME NEW d, NEW t, NEW token
    PROVE  OpenShares(d, t, token) \in SUBSET (Owners \X Ids)
BY DEF OpenShares

\* What is found is acceptable, and open unless it is over.
LEMMA FoundShare ==
    ASSUME NEW d \in Disk, NEW t \in Nat, NEW i \in Owners, NEW p \in Policy,
           NEW token, NEW id \in Offers(d, t, i, p, token), d.env[i].usable
    PROVE  LET g == GroupAt(d, i, id)
               s == [dir |-> i, id |-> id, group |-> g, version |-> ShareVersion(d, i, g, p)]
           IN  /\ s \in Share
               /\ t <= g.expires => <<i, id>> \in OpenShares(d, t, token)
<1> DEFINE g == GroupAt(d, i, id)
           v == ShareVersion(d, i, g, p)
<1>1. /\ id \in GroupsAt(d, i) /\ ~Spoiled(d, t, i, p)
      /\ g.enabled = "true" /\ g.token = token
    BY DEF Offers
<1>2. g \in Group /\ id \in Ids
    BY <1>1, GroupAtType
<1>3. ~Spoils(d, t, i, g, p)
    BY <1>1 DEF Spoiled
<1> HIDE DEF g
<1>4. g.form \in {"good", "loose"} /\ TargetThere(d, i, g)
    BY <1>1, <1>2, <1>3, GroupParts DEF Spoils
<1>5. TargetDir(i, g) \in Owners
    BY <1>4 DEF TargetThere
<1>6. (IF g.scope = "file" THEN d.file[i] ELSE d.stamp[TargetDir(i, g)])
          \in 0 .. MaxEdits + 1
    <2>1. d.file[i] \in 0 .. MaxEdits + 1 /\ d.stamp[TargetDir(i, g)] \in 0 .. MaxEdits
        BY <1>5, DiskParts
    <2> QED BY <2>1, Numbers
<1>7. (IF g.scope = "file" THEN "file" ELSE "directory") \in {"file", "directory"}
    OBVIOUS
<1>8. v \in TargetVersion
    BY <1>5, <1>6, <1>7, VersionType DEF ShareVersion, TargetVersion
<1> HIDE DEF v
<1>9. [dir |-> i, id |-> id, group |-> g, version |-> v] \in Share
    BY <1>2, <1>8 DEF Share
<1>10. ASSUME t <= g.expires
       PROVE  <<i, id>> \in OpenShares(d, t, token)
    BY <1>1, <1>2, <1>4, <1>10 DEF OpenShares, g
<1> QED BY <1>9, <1>10 DEF g, v

\* The nearest password is the boundary.
LEMMA BoundaryIs ==
    ASSUME NEW d \in Disk, NEW i \in Owners
    PROVE  /\ PolicyAt(d, i).boundary <= i
           /\ \A k \in 0 .. i : ~PolicyAt(d, i).locked /\ k \in Closed(d)
                 => k <= PolicyAt(d, i).boundary
<1> DEFINE c == d.env
           at == Nearest(c, i, "password")
<1>1. c \in Chain /\ i \in Positions /\ i \in Nat /\ i >= 1 /\ 0 .. i \subseteq Positions
    BY DiskParts, Numbers
<1>2. at \in {-1} \cup Setters(c, i, "password") /\ \A k \in Setters(c, i, "password") : k <= at
    BY <1>1, NearestIs
<1>3. at \in {-1} \cup 0 .. i
    BY <1>2 DEF Setters
<1> HIDE DEF at
<1>4. CASE \E k \in 0 .. i : ~c[k].usable
    <2>1. PolicyAt(d, i) = Locked
        BY <1>4 DEF PolicyAt, PolicyOf
    <2>2. Locked.boundary = 1 /\ Locked.locked
        BY DEF Locked
    <2> QED BY <1>1, <2>1, <2>2
<1>5. CASE ~ \E k \in 0 .. i : ~c[k].usable
    <2>1. PolicyAt(d, i).boundary = IF at >= 0 THEN at ELSE 1
        BY <1>5 DEF PolicyAt, PolicyOf, at
    <2>2. ASSUME NEW k \in 0 .. i, k \in Closed(d)
          PROVE  k <= at /\ k >= 0
        <3>1. c[k].password # None
            BY <1>5, <2>2 DEF Closed
        <3> QED BY <1>2, <3>1 DEF Setters, Sets
    <2> HIDE DEF c
    <2>3. PolicyAt(d, i).boundary <= i
        BY <1>1, <1>3, <2>1
    <2>4. \A k \in 0 .. i : k \in Closed(d) => k <= PolicyAt(d, i).boundary
        BY <1>3, <2>1, <2>2
    <2> QED BY <2>3, <2>4
<1> QED BY <1>4, <1>5

\* What has another boundary than an owner above it is not closed.
LEMMA NothingClosed ==
    ASSUME NEW d \in Disk, NEW i \in Owners, NEW j \in Owners, NEW b \in Nat, b <= i,
           ~PolicyAt(d, j).locked, PolicyAt(d, j).boundary = b
    PROVE  Closed(d) \cap (i + 1 .. j) = {}
<1>1. i \in Nat /\ j \in Nat
    BY Numbers
<1>2. \A k \in 0 .. j : k \in Closed(d) => k <= b
    BY BoundaryIs
<1> QED BY <1>1, <1>2

\* A walk that goes no further than j has seen all of the tree.
LEMMA WalkedToTheEnd ==
    ASSUME NEW d, NEW top \in Owners, NEW j \in Walked(d, top),
           j + 1 \notin Walked(d, j), NEW x \in Walked(d, top)
    PROVE  x <= j
<1>1. top \in Nat /\ Depth \in Nat /\ j \in top .. Depth + 1 /\ x \in top .. Depth + 1
    BY Numbers DEF Walked
<1>2. SUFFICES ASSUME x > j PROVE FALSE
    BY <1>1
<1>3. j \in top .. x - 1 /\ j + 1 \in j .. Depth + 1 /\ j .. (j + 1) - 1 = {j}
    BY <1>1, <1>2
<1>4. j \in d.listable
    BY <1>3 DEF Walked
<1> QED BY <1>3, <1>4 DEF Walked

LEMMA WalkedOn ==
    ASSUME NEW d, NEW top \in Owners, NEW j \in Walked(d, top), j + 1 \in Walked(d, j)
    PROVE  j + 1 \in Walked(d, top) /\ j + 1 \in Owners
<1>1. top \in Nat /\ top >= 1 /\ Depth \in Nat /\ j \in top .. Depth + 1 /\ j + 1 \in j .. Depth + 1
    BY Numbers DEF Walked
<1>2. j .. (j + 1) - 1 = {j} /\ top .. (j + 1) - 1 = (top .. j - 1) \cup {j}
    BY <1>1
<1>3. j \in d.listable /\ top .. j - 1 \subseteq d.listable
    BY <1>2 DEF Walked
<1>4. top .. (j + 1) - 1 \subseteq d.listable
    BY <1>2, <1>3
<1> QED BY <1>1, <1>4 DEF Walked, Owners

-----------------------------------------------------------------------------
(* Every step keeps the invariant.                                          *)

\* Where the data stay, only the request that moves matters.
LEMMA OneMoves ==
    ASSUME IInv, UNCHANGED <<disk, now, edits>>,
           NEW r \in Requests, NEW n \in Request, NEW h \in History,
           req' = [req EXCEPT ![r] = n], hist' = [hist EXCEPT ![r] = h],
           Knows(n, h, disk, now, edits),
           issued' \subseteq Session, \A s \in issued' : Sound(s, disk, edits)
    PROVE  IInv'
<1>1. req \in [Requests -> Request] /\ hist \in [Requests -> History]
    BY States
<1>2. TypeOK'
    BY <1>1 DEF IInv, TypeOK
<1>3. ASSUME NEW x \in Requests
      PROVE  Knows(req'[x], hist'[x], disk', now', edits')
    <2>1. CASE x = r
        <3>1. req'[x] = n /\ hist'[x] = h
            BY <1>1, <2>1
        <3> QED BY <3>1
    <2>2. CASE x # r
        <3>1. req'[x] = req[x] /\ hist'[x] = hist[x]
            BY <1>1, <2>2
        <3>2. Knows(req[x], hist[x], disk, now, edits)
            BY States
        <3> QED BY <3>1, <3>2
    <2> QED BY <2>1, <2>2
<1>4. \A s \in issued' : Sound(s, disk', edits')
    OBVIOUS
<1> QED BY <1>2, <1>3, <1>4 DEF IInv

LEMMA FinishKeeps ==
    ASSUME IInv, NEW r \in Requests, Finish(r),
           issued' \subseteq Session, \A s \in issued' : Sound(s, disk, edits)
    PROVE  IInv'
<1>1. Blank.since <= edits
    BY States, BlankType
<1>2. Knows(Idle, Blank, disk, now, edits)
    BY <1>1, IdleKnows
<1> QED BY <1>2, IdleKnows, BlankType, OneMoves DEF Finish

LEMMA RefuseKeeps ==
    ASSUME IInv, NEW r \in Requests, Refuse(r)
    PROVE  IInv'
<1>1. issued' = issued /\ Finish(r)
    BY DEF Refuse
<1>2. issued' \subseteq Session /\ \A s \in issued' : Sound(s, disk, edits)
    BY <1>1 DEF IInv, TypeOK
<1> QED BY <1>1, <1>2, FinishKeeps

LEMMA GoKeeps ==
    ASSUME IInv, NEW r \in Requests, NEW n \in Request, Go(r, n),
           Knows(n, hist[r], disk, now, edits)
    PROVE  IInv'
<1>1. hist[r] \in History /\ hist' = [hist EXCEPT ![r] = hist[r]]
    BY States DEF Go
<1>2. issued' \subseteq Session /\ \A s \in issued' : Sound(s, disk, edits)
    BY DEF Go, IInv, TypeOK
<1> QED BY <1>1, <1>2, OneMoves DEF Go

LEMMA BeginKeeps ==
    ASSUME IInv, NEW r \in Requests, Begin(r)
    PROVE  IInv'
<1>1. PICK token \in Tokens, k \in {"visit", "login"}, s \in issued \cup {NoSession} :
         /\ req' = [req EXCEPT ![r] = [Idle EXCEPT !.phase = "policy", !.kind = k,
                                          !.token = token, !.session = s]]
         /\ hist' = [hist EXCEPT ![r] =
                IF k = "login" THEN [Blank EXCEPT !.since = edits]
                ELSE [Blank EXCEPT !.open = OpenShares(disk, now, token),
                                   !.broken = Broken(disk)]]
    BY DEF Begin
<1> DEFINE n == [Idle EXCEPT !.phase = "policy", !.kind = k, !.token = token, !.session = s]
           h == IF k = "login" THEN [Blank EXCEPT !.since = edits]
                ELSE [Blank EXCEPT !.open = OpenShares(disk, now, token),
                                   !.broken = Broken(disk)]
<1>2. s \in Session \cup {NoSession} /\ (s # NoSession => Sound(s, disk, edits))
    BY DEF IInv, TypeOK
<1>3. edits \in 0 .. MaxEdits
    BY DEF IInv, TypeOK
<1>4. /\ n \in Request /\ n.phase = "policy" /\ n.kind = k /\ n.token = token
      /\ n.session = s
    BY <1>2, IdleKnows DEF Request
<1>5. Broken(disk) \subseteq Positions
    BY DEF Broken
<1>6. /\ h \in History /\ h.since <= edits
      /\ k = "visit" => h.open = OpenShares(disk, now, token) /\ h.broken = Broken(disk)
    <2>1. CASE k = "login"
        <3> DEFINE g == [Blank EXCEPT !.since = edits]
        <3>1. g \in History /\ g.since = edits
            BY <1>3, BlankType DEF History
        <3>2. h = g
            BY <2>1
        <3> QED BY <1>3, <2>1, <3>1, <3>2
    <2>2. CASE k = "visit"
        <3> DEFINE g == [Blank EXCEPT !.open = OpenShares(disk, now, token),
                                      !.broken = Broken(disk)]
        <3>1. /\ g \in History /\ g.since = 0
              /\ g.open = OpenShares(disk, now, token) /\ g.broken = Broken(disk)
            BY <1>5, BlankType, OpenSharesIs DEF History
        <3>2. h = g
            BY <2>2
        <3> QED BY <1>3, <2>2, <3>1, <3>2
    <2> QED BY <2>1, <2>2
<1>7. req' = [req EXCEPT ![r] = n] /\ hist' = [hist EXCEPT ![r] = h]
    BY <1>1
<1> HIDE DEF n, h
<1>8. Knows(n, h, disk, now, edits)
    BY <1>2, <1>4, <1>6 DEF Knows, Fresh, Settled, Holds, Seeing, Walking,
                            Holding, Admitted, Asking
<1>9. /\ UNCHANGED <<disk, now, edits>>
      /\ issued' \subseteq Session /\ \A x \in issued' : Sound(x, disk, edits)
    BY DEF Begin, IInv, TypeOK
<1> QED BY <1>4, <1>6, <1>7, <1>8, <1>9, OneMoves

LEMMA ReadPolicyKeeps ==
    ASSUME IInv, NEW r \in Requests, ReadPolicy(r)
    PROVE  IInv'
<1> DEFINE q == req[r]
           h == hist[r]
           p == PolicyAt(disk, q.at)
           n == [q EXCEPT !.phase = "shares", !.policy = p]
<1>1. CASE p.locked
    BY <1>1, RefuseKeeps DEF ReadPolicy
<1>2. CASE ~p.locked
    <2>1. q.phase = "policy" /\ Go(r, n)
        BY <1>2 DEF ReadPolicy
    <2>2. q \in Request /\ q.at \in Owners /\ disk \in Disk
        BY States DEF Request
    <2>3. p \in Policy /\ \A k \in 0 .. q.at : disk.env[k].usable
        BY <1>2, <2>2, PolicyAtIs
    <2> HIDE DEF p
    <2>4. /\ n \in Request /\ n.phase = "shares" /\ n.kind = q.kind /\ n.at = q.at
          /\ n.policy = p /\ n.token = q.token /\ n.session = q.session
        BY <2>2, <2>3 DEF Request
    <2> HIDE DEF n
    <2>5. Knows(q, h, disk, now, edits)
        BY States
    <2>6. Fresh(n, h, disk, edits)
        BY <2>4, <2>5 DEF Knows, Fresh, Settled, Holds, p
    <2>7. Seeing(n, h, disk, now)
        <3> SUFFICES ASSUME Walking(n)
                     PROVE  /\ OpenShares(disk, now, n.token) \subseteq h.open
                            /\ h.broken \subseteq Broken(disk)
                            /\ h.broken \cap (0 .. n.at) = {}
            BY DEF Seeing
        <3>1. OpenShares(disk, now, q.token) \subseteq h.open /\ h.broken \subseteq Broken(disk)
            BY <2>1, <2>4, <2>5 DEF Knows, Seeing, Walking
        <3>2. Broken(disk) \cap (0 .. q.at) = {}
            BY <2>3 DEF Broken
        <3> QED BY <2>4, <3>1, <3>2
    <2>8. Knows(n, h, disk, now, edits)
        BY <2>4, <2>6, <2>7 DEF Knows, Holding, Admitted, Asking, Holds
    <2> QED BY <2>1, <2>4, <2>8, GoKeeps
<1> QED BY <1>1, <1>2

LEMMA ReadSharesKeeps ==
    ASSUME IInv, NEW r \in Requests, ReadShares(r)
    PROVE  IInv'
<1> DEFINE q == req[r]
           h == hist[r]
           i == q.at
           found == Offers(disk, now, i, q.policy, q.token)
<1>1. /\ q \in Request /\ i \in Owners /\ q.policy \in Policy
      /\ disk \in Disk /\ now \in Nat /\ q.phase = "shares"
    BY States DEF Request, ReadShares
<1>2. Knows(q, h, disk, now, edits)
    BY States
<1>3. CASE disk.env[i].usable /\ found # {}
    <2>1. PICK id \in found :
              LET g == GroupAt(disk, i, id) IN
              Go(r, [q EXCEPT !.phase = "decide", !.at = 1, !.policy = Unprotected,
                              !.share = [dir |-> i, id |-> id, group |-> g,
                                         version |-> ShareVersion(disk, i, g, q.policy)]])
        BY <1>3 DEF ReadShares
    <2> DEFINE g == GroupAt(disk, i, id)
               v == ShareVersion(disk, i, g, q.policy)
               s == [dir |-> i, id |-> id, group |-> g, version |-> v]
               n == [q EXCEPT !.phase = "decide", !.at = 1, !.policy = Unprotected,
                              !.share = s]
    <2>2. s \in Share /\ (now <= g.expires => <<i, id>> \in OpenShares(disk, now, q.token))
        BY <1>1, <1>3, FoundShare
    <2>3. s.dir = i /\ s.id = id /\ s.group = g /\ s.version = v
        OBVIOUS
    <2>4. Go(r, n)
        BY <2>1
    <2> HIDE DEF s
    <2>5. /\ n \in Request /\ n.phase = "decide" /\ n.kind = q.kind
          /\ n.share = s /\ n.token = q.token /\ n.session = q.session
        BY <1>1, <2>2, Numbers, FixedPolicies DEF Request
    <2> HIDE DEF n, g, v
    <2>6. Fresh(n, h, disk, edits)
        <3>1. Steady(n, h, edits) => Steady(q, h, edits)
            BY <2>5 DEF Steady
        <3>2. Steady(q, h, edits) => q.policy = PolicyAt(disk, i)
            BY <1>1, <1>2 DEF Knows, Fresh, Settled
        <3>3. q.policy = PolicyAt(disk, i) => Settled(n, disk)
            BY <2>3, <2>5 DEF Settled, g, v
        <3> QED BY <1>2, <2>5, <3>1, <3>2, <3>3 DEF Knows, Fresh
    <2>7. Walking(n) => /\ OpenShares(disk, now, q.token) \subseteq h.open
                        /\ h.broken \subseteq Broken(disk)
                        /\ h.broken \cap (0 .. i) = {}
        BY <1>1, <1>2, <2>5 DEF Knows, Seeing, Walking
    <2>8. Seeing(n, h, disk, now)
        BY <2>5, <2>7 DEF Seeing
    <2>9. Holding(n, h, now)
        BY <2>2, <2>3, <2>5, <2>7 DEF Holding, Holds, ShareOf, Walking
    <2>10. Knows(n, h, disk, now, edits)
        BY <2>5, <2>6, <2>8, <2>9 DEF Knows, Admitted, Asking
    <2> QED BY <2>4, <2>5, <2>10, GoKeeps
<1>4. CASE ~(disk.env[i].usable /\ found # {})
    <2> DEFINE n == [q EXCEPT !.phase = "policy", !.at = i + 1]
    <2>1. Refuse(r) \/ (i + 1 \in Walked(disk, i) /\ Go(r, n))
        BY <1>4 DEF ReadShares
    <2>2. CASE i + 1 \in Walked(disk, i) /\ Go(r, n)
        <3>1. i + 1 \in Owners
            BY <1>1, <2>2, Numbers DEF Walked, Owners
        <3>2. /\ n \in Request /\ n.phase = "policy" /\ n.kind = q.kind
              /\ n.token = q.token /\ n.session = q.session
            BY <1>1, <3>1 DEF Request
        <3> HIDE DEF n
        <3>3. Knows(n, h, disk, now, edits)
            BY <1>1, <1>2, <3>2 DEF Knows, Fresh, Settled, Holds, Seeing, Walking,
                                    Holding, Admitted, Asking
        <3> QED BY <2>2, <3>2, <3>3, GoKeeps
    <2> QED BY <2>1, <2>2, RefuseKeeps
<1> QED BY <1>3, <1>4

LEMMA LoginKeeps ==
    ASSUME IInv, NEW r \in Requests, NEW w, Login(r, w)
    PROVE  IInv'
<1> DEFINE q == req[r]
           h == hist[r]
           s == [id |-> q.share.id, version |-> q.share.version, at |-> now,
                 token |-> q.token, dir |-> q.share.dir, since |-> h.since]
<1>1. q.phase = "decide" /\ q.kind = "login" /\ Finish(r)
    BY DEF Login
<1>2. issued' = issued \cup {s} \/ issued' = issued
    BY DEF Login
<1>3. Knows(q, h, disk, now, edits)
    BY States
<1>4. q.share \in Share
    BY <1>1, <1>3 DEF Knows, Holding, Holds
<1>5. s \in Session
    <2>1. h.since \in 0 .. MaxEdits /\ q.token \in Tokens /\ now \in 0 .. MaxTime
        BY DEF IInv, TypeOK, Request, History
    <2> QED BY <1>4, <2>1 DEF Share, Session
<1>6. Sound(s, disk, edits)
    <2>1. /\ s.since = h.since /\ s.dir = q.share.dir /\ s.id = q.share.id
          /\ s.version = q.share.version
        OBVIOUS
    <2> HIDE DEF s
    <2>2. h.since <= edits
        BY <1>3 DEF Knows, Fresh
    <2>3. h.since = edits => Settled(q, disk)
        BY <1>1, <1>3 DEF Knows, Fresh, Steady
    <2> QED BY <1>1, <2>1, <2>2, <2>3 DEF Sound, Settled, Holds
<1> HIDE DEF s
<1>7. issued' \subseteq Session /\ \A x \in issued' : Sound(x, disk, edits)
    BY <1>2, <1>5, <1>6 DEF IInv, TypeOK
<1> QED BY <1>1, <1>7, FinishKeeps

LEMMA AdmitKeeps ==
    ASSUME IInv, NEW r \in Requests, Admit(r)
    PROVE  IInv'
<1> DEFINE q == req[r]
           g == hist[r]
           n == [q EXCEPT !.phase = IF q.share.group.scope = "file" THEN "open" ELSE "again"]
           h == [g EXCEPT !.closed = Closed(disk)]
<1>1. /\ q.phase = "decide" /\ q.kind = "visit" /\ ~Over(r) /\ Valid(q.session, q.share)
      /\ req' = [req EXCEPT ![r] = n] /\ hist' = [hist EXCEPT ![r] = h]
      /\ UNCHANGED <<disk, now, issued, edits>>
    BY DEF Admit
<1>2. q \in Request /\ g \in History /\ now \in Nat /\ Knows(q, g, disk, now, edits)
    BY States
<1>3. q.share \in Share
    BY <1>1, <1>2 DEF Knows, Holding, Holds
<1>4. q.share.group \in Group /\ q.share.group.expires \in Nat
    BY <1>3, GroupParts DEF Share
<1>5. /\ n \in Request /\ n.phase \in {"again", "open"} /\ n.kind = "visit"
      /\ n.phase = "open" => q.share.group.scope = "file"
      /\ n.phase = "again" => q.share.group.scope # "file"
      /\ n.share = q.share /\ n.token = q.token /\ n.session = q.session
    BY <1>1, <1>2 DEF Request
<1>6. Closed(disk) \subseteq Positions
    BY DEF Closed
<1>7. /\ h \in History /\ h.closed = Closed(disk) /\ h.open = g.open
      /\ h.broken = g.broken /\ h.changed = g.changed /\ h.since = g.since
    BY <1>2, <1>6 DEF History
<1> HIDE DEF n, h
<1>8. Fresh(n, h, disk, edits)
    BY <1>1, <1>2, <1>5, <1>7 DEF Knows, Fresh, Steady, Settled, Holds
<1>9. Seeing(n, h, disk, now)
    BY <1>1, <1>2, <1>5, <1>7 DEF Knows, Seeing, Walking
<1>10. /\ g.broken \cap (0 .. q.share.dir) = {}
       /\ ShareOf(q) \in g.open
    BY <1>1, <1>2, <1>4 DEF Knows, Holding, Holds, Over
<1>11. Holding(n, h, now)
    BY <1>3, <1>5, <1>7, <1>10 DEF Holding, ShareOf
<1>12. Admitted(n, h, disk)
    BY <1>1, <1>5, <1>7, <1>10 DEF Admitted, ShareOf, Valid
<1>13. Knows(n, h, disk, now, edits)
    BY <1>5, <1>8, <1>9, <1>11, <1>12 DEF Knows, Asking
<1>14. issued' \subseteq Session /\ \A s \in issued' : Sound(s, disk, edits)
    BY <1>1 DEF IInv, TypeOK
<1> QED BY <1>1, <1>5, <1>7, <1>13, <1>14, OneMoves

\* A request that goes on through the tree keeps what it knows; only where it is
\* in it has to be shown.
LEMMA LookingOn ==
    ASSUME IInv, NEW r \in Requests, req[r].phase \in {"again", "tree"},
           NEW n \in Request, Go(r, n), n.phase \in {"tree", "open"},
           n.kind = req[r].kind, n.share = req[r].share, n.token = req[r].token,
           n.session = req[r].session,
           n.phase = "tree" => Searching(n, disk),
           n.phase = "open" => Within(n, hist[r], disk)
    PROVE  IInv'
<1> DEFINE q == req[r]
           h == hist[r]
<1>1. Knows(q, h, disk, now, edits)
    BY States
<1>2. Fresh(n, h, disk, edits)
    BY <1>1 DEF Knows, Fresh, Steady, Settled, Holds
<1>3. Seeing(n, h, disk, now)
    BY <1>1 DEF Knows, Seeing, Walking
<1>4. Holding(n, h, now)
    BY <1>1 DEF Knows, Holding, Holds, ShareOf
<1>5. Admitted(n, h, disk)
    BY <1>1 DEF Knows, Admitted, ShareOf
<1>6. Knows(n, h, disk, now, edits)
    BY <1>2, <1>3, <1>4, <1>5 DEF Knows, Asking
<1> QED BY <1>6, GoKeeps

LEMMA LookAgainKeeps ==
    ASSUME IInv, NEW r \in Requests, LookAgain(r)
    PROVE  IInv'
<1> DEFINE q == req[r]
           i == q.share.dir
           g == q.share.group
           p == PolicyAt(disk, i)
           n == [q EXCEPT !.phase = "tree", !.at = TargetDir(i, g), !.policy = p]
<1>1. CASE ~TargetThere(disk, i, g)
    BY <1>1, RefuseKeeps DEF LookAgain
<1>2. CASE TargetThere(disk, i, g)
    <2>1. q.phase = "again" /\ Go(r, n)
        BY <1>2 DEF LookAgain
    <2>2. q \in Request /\ disk \in Disk /\ Knows(q, hist[r], disk, now, edits)
        BY States
    <2>3. i \in Owners /\ TargetDir(i, g) \in Owners
        BY <1>2, <2>1, <2>2 DEF Knows, Holding, Holds, Share, TargetThere
    <2>4. p \in Policy /\ p.boundary <= i
        BY <2>2, <2>3, PolicyAtIs, BoundaryIs
    <2>5. TargetDir(i, g) \in Walked(disk, TargetDir(i, g))
        BY <2>3, Numbers DEF Walked, Owners
    <2> HIDE DEF p
    <2>6. /\ n \in Request /\ n.phase = "tree" /\ n.kind = q.kind /\ n.share = q.share
          /\ n.token = q.token /\ n.session = q.session
          /\ n.at = TargetDir(i, g) /\ n.policy = p
        BY <2>2, <2>3, <2>4 DEF Request
    <2> HIDE DEF n
    <2>7. g.scope # "file"
        BY <2>1, <2>2 DEF Knows, Admitted
    <2>8. Searching(n, disk)
        BY <2>4, <2>5, <2>6, <2>7 DEF Searching
    <2> QED BY <2>1, <2>6, <2>8, LookingOn
<1> QED BY <1>1, <1>2

\* What a directory has that passes is not a boundary of its own, so none above it
\* in the tree is one.
LEMMA LookBelowKeeps ==
    ASSUME IInv, NEW r \in Requests, LookBelow(r)
    PROVE  IInv'
<1> DEFINE q == req[r]
           h == hist[r]
           i == q.share.dir
           j == q.at
           top == TargetDir(i, q.share.group)
           p == PolicyAt(disk, j)
           n == [q EXCEPT !.at = j + 1]
           m == [q EXCEPT !.phase = "open", !.at = 1, !.policy = Unprotected]
<1>1. CASE p.locked \/ ~Protected(p) \/ p.boundary # q.policy.boundary
    BY <1>1, RefuseKeeps DEF LookBelow
<1>2. CASE ~(p.locked \/ ~Protected(p) \/ p.boundary # q.policy.boundary)
    <2>1. q.phase = "tree" /\ WalkOn(r, j)
        BY <1>2 DEF LookBelow
    <2>2. q \in Request /\ disk \in Disk /\ Knows(q, h, disk, now, edits)
        BY States
    <2>3. i \in Owners /\ j \in Owners
        BY <2>1, <2>2 DEF Knows, Holding, Holds, Share, Request
    <2>4. /\ q.share.group.scope # "file" /\ q.policy.boundary <= i
          /\ j \in Walked(disk, top) /\ h.closed \subseteq Closed(disk)
        BY <2>1, <2>2 DEF Knows, Admitted, Searching
    <2>5. top \in Owners
        BY <2>3, <2>4, Numbers DEF TargetDir, Walked, Owners
    <2>6. q.policy.boundary \in Nat
        BY <2>2, FoldedPolicyAssumption DEF Request, Policy, Positions
    <2>7. h.closed \cap (i + 1 .. j) = {}
        BY <1>2, <2>2, <2>3, <2>4, <2>6, NothingClosed
    <2> HIDE DEF p, top
    <2>8. CASE j + 1 \in Walked(disk, j)
        <3>1. j + 1 \in Walked(disk, top) /\ j + 1 \in Owners
            BY <2>4, <2>5, <2>8, WalkedOn
        <3>2. /\ n \in Request /\ n.phase = "tree" /\ n.kind = q.kind /\ n.share = q.share
              /\ n.token = q.token /\ n.session = q.session
              /\ n.at = j + 1 /\ n.policy = q.policy
            BY <2>1, <2>2, <3>1 DEF Request
        <3>3. Go(r, n)
            BY <2>1, <2>8 DEF WalkOn
        <3> HIDE DEF n
        <3>4. Searching(n, disk)
            BY <2>4, <3>1, <3>2 DEF Searching, top
        <3> QED BY <2>1, <3>2, <3>3, <3>4, LookingOn
    <2>9. CASE j + 1 \notin Walked(disk, j)
        <3>1. /\ m \in Request /\ m.phase = "open" /\ m.kind = q.kind /\ m.share = q.share
              /\ m.token = q.token /\ m.session = q.session
            BY <2>2, Numbers, FixedPolicies DEF Request
        <3>2. Go(r, m)
            BY <2>1, <2>9 DEF WalkOn
        <3> HIDE DEF m
        <3>3. ASSUME NEW x \in Walked(disk, top)
              PROVE  h.closed \cap (i + 1 .. x) = {}
            <4>1. x <= j /\ x \in Nat /\ i \in Nat /\ j \in Nat
                BY <2>3, <2>4, <2>5, <2>9, WalkedToTheEnd, Numbers DEF Walked
            <4>2. i + 1 .. x \subseteq i + 1 .. j
                BY <4>1
            <4> QED BY <2>7, <4>2
        <3>4. Within(m, h, disk)
            BY <3>1, <3>3 DEF Within, top
        <3> QED BY <2>1, <3>1, <3>2, <3>4, LookingOn
    <2> QED BY <2>8, <2>9
<1> QED BY <1>1, <1>2

LEMMA CreateKeeps ==
    ASSUME IInv, NEW r \in Requests, NEW i \in Owners, Create(r, i)
    PROVE  IInv'
<1>1. PICK g \in NewGroups :
          /\ Acceptable(i, g, PolicyAt(disk, i))
          /\ Go(r, [Idle EXCEPT !.phase = "store", !.at = i, !.token = g.token,
                               !.asked = g])
    BY DEF Create
<1> DEFINE n == [Idle EXCEPT !.phase = "store", !.at = i, !.token = g.token, !.asked = g]
<1>2. g \in Group
    BY ShareLifecycleAssumption
<1>3. /\ n \in Request /\ n.phase = "store" /\ n.asked = g /\ n.session = NoSession
    BY <1>2, IdleKnows, GroupParts DEF Request, Idle
<1>4. Go(r, n)
    BY <1>1
<1> HIDE DEF n
<1>5. ~TooFar(g, now)
    BY <1>1 DEF Acceptable
<1>6. hist[r].since <= edits
    BY States DEF Knows, Fresh
<1>7. Knows(n, hist[r], disk, now, edits)
    BY <1>3, <1>5, <1>6 DEF Knows, Fresh, Settled, Holds, Seeing, Walking,
                            Holding, Admitted, Asking
<1> QED BY <1>3, <1>4, <1>7, GoKeeps

\* A change of the data: nothing is steady any more, and the rest only shrinks.
LEMMA ChangeKnows ==
    ASSUME NEW q, NEW g, NEW d, NEW t, NEW e \in Nat, Knows(q, g, d, t, e),
           NEW c, c.listable = d.listable,
           NEW h,
           Walking(q) => h.changed /\ h.open = g.open \cup OpenShares(c, t, q.token),
           h.broken = g.broken \cap Broken(c), h.closed = g.closed \cap Closed(c),
           h.since = g.since, h.since \in Nat,
           q.session # NoSession => q.session.since \in Nat,
           q.kind \in {"visit", "login"}
    PROVE  Knows(q, h, c, t, e + 1)
<1>1. Fresh(q, h, c, e + 1)
    <2>1. h.since <= e /\ (q.session # NoSession => q.session.since <= e)
        BY DEF Knows, Fresh, Sound
    <2>2. h.since <= e + 1 /\ h.since # e + 1
        BY <2>1
    <2>3. q.session # NoSession => q.session.since <= e + 1 /\ q.session.since # e + 1
        BY <2>1
    <2>4. q.session # NoSession => Sound(q.session, c, e + 1)
        BY <2>3 DEF Sound
    <2>5. Steady(q, h, e + 1) => ~Walking(q) /\ q.kind = "visit"
        BY <2>2, <2>3 DEF Steady
    <2>6. Steady(q, h, e + 1) => Settled(q, c)
        BY <2>5 DEF Walking, Settled, Holds
    <2> QED BY <2>2, <2>4, <2>6 DEF Fresh
<1>2. Seeing(q, h, c, t)
    BY DEF Knows, Seeing
<1>3. Holding(q, h, t)
    BY DEF Knows, Holding, Holds, Walking
<1>4. Walked(c, TargetDir(q.share.dir, q.share.group))
          = Walked(d, TargetDir(q.share.dir, q.share.group))
    BY DEF Walked
<1>5. Admitted(q, h, c)
    <2> SUFFICES ASSUME q.phase \in {"again", "tree", "open"}
                 PROVE  /\ q.kind = "visit" /\ q.session.version = q.share.version
                        /\ ShareOf(q) \in h.open
                        /\ h.closed \subseteq Closed(c)
                        /\ q.phase = "again" => q.share.group.scope # "file"
                        /\ q.phase = "tree" => Searching(q, c)
                        /\ q.phase = "open" /\ q.share.group.scope # "file" => Within(q, h, c)
        BY DEF Admitted
    <2>1. /\ q.kind = "visit" /\ q.session.version = q.share.version
          /\ ShareOf(q) \in g.open
          /\ q.phase = "again" => q.share.group.scope # "file"
          /\ q.phase = "tree" => Searching(q, d)
          /\ q.phase = "open" /\ q.share.group.scope # "file" => Within(q, g, d)
        BY DEF Knows, Admitted
    <2>2. ShareOf(q) \in h.open
        BY <2>1 DEF Walking
    <2>3. Within(q, g, d) => Within(q, h, c)
        BY <1>4 DEF Within
    <2>4. Searching(q, d) => Searching(q, c)
        BY <1>4 DEF Searching
    <2> QED BY <2>1, <2>2, <2>3, <2>4
<1>6. Asking(q, t)
    BY DEF Knows
<1> QED BY <1>1, <1>2, <1>3, <1>5, <1>6 DEF Knows

LEMMA ChangeKeeps ==
    ASSUME IInv, NEW d \in Disk, d.listable = disk.listable, Change(d),
           UNCHANGED <<now, issued>>,
           req' \in [Requests -> Request], \A x \in Requests : req'[x] \in {req[x], Idle}
    PROVE  IInv'
<1>1. /\ disk' = d /\ edits' = edits + 1 /\ edits < MaxEdits
      /\ edits \in 0 .. MaxEdits /\ edits \in Nat
    BY Numbers DEF Change, IInv, TypeOK
<1>2. ASSUME NEW x \in Requests
      PROVE  /\ hist'[x] \in History /\ hist'[x].since = hist[x].since
             /\ hist'[x].broken = hist[x].broken \cap Broken(d)
             /\ hist'[x].closed = hist[x].closed \cap Closed(d)
             /\ Walking(req[x]) =>
                   /\ hist'[x].changed
                   /\ hist'[x].open = hist[x].open \cup OpenShares(d, now, req[x].token)
    <2> DEFINE o == IF InFlight(x) THEN hist[x].open \cup OpenShares(d, now, req[x].token)
                    ELSE {}
               b == hist[x].broken \cap Broken(d)
               c == hist[x].closed \cap Closed(d)
               m == InFlight(x)
    <2>1. hist'[x] = [open |-> o, broken |-> b, closed |-> c, changed |-> m,
                      since |-> hist[x].since]
        BY DEF Change
    <2>2. hist[x] \in History
        BY States
    <2>3. o \in SUBSET (Owners \X Ids)
        BY <2>2, OpenSharesIs DEF History
    <2>4. b \subseteq Positions /\ c \subseteq Positions /\ m \in BOOLEAN
          /\ hist[x].since \in 0 .. MaxEdits
        BY <2>2 DEF History, InFlight
    <2>5. Walking(req[x]) => m /\ o = hist[x].open \cup OpenShares(d, now, req[x].token)
        BY DEF Walking, InFlight
    <2> HIDE DEF o, b, c, m
    <2>6. hist'[x] \in History
        BY <2>1, <2>3, <2>4 DEF History
    <2> QED BY <2>1, <2>5, <2>6 DEF b, c
<1>3. hist' \in [Requests -> History]
    <2>1. hist' = [x \in Requests |-> hist'[x]]
        BY DEF Change
    <2> QED BY <1>2, <2>1
<1>4. TypeOK'
    <2>1. edits' \in 0 .. MaxEdits
        BY <1>1, Numbers
    <2> QED BY <1>1, <1>3, <2>1 DEF IInv, TypeOK
<1>5. ASSUME NEW s \in issued' PROVE Sound(s, disk', edits')
    <2>1. s \in Session /\ Sound(s, disk, edits)
        BY DEF IInv, TypeOK
    <2>2. s.since \in Nat /\ s.since <= edits
        BY <2>1, Numbers DEF Session, Sound
    <2>3. s.since <= edits' /\ s.since # edits'
        BY <1>1, <2>2
    <2> QED BY <2>3 DEF Sound
<1>6. ASSUME NEW x \in Requests
      PROVE  Knows(req'[x], hist'[x], disk', now', edits')
    <2>1. Knows(req[x], hist[x], disk, now, edits)
        BY States
    <2>2. /\ req[x].kind \in {"visit", "login"} /\ hist'[x].since \in Nat
          /\ req[x].session # NoSession => req[x].session.since \in Nat
        <3>1. req[x] \in Request /\ hist[x] \in History
            BY States
        <3> QED BY <1>2, <3>1, Numbers DEF Request, History, Session
    <2>3. Knows(req[x], hist'[x], d, now, edits + 1)
        BY <1>1, <1>2, <2>1, <2>2, ChangeKnows
    <2>4. hist'[x].since <= edits + 1
        BY <2>3 DEF Knows, Fresh
    <2>5. Knows(Idle, hist'[x], d, now, edits + 1)
        BY <2>4, IdleKnows
    <2> QED BY <1>1, <2>3, <2>5
<1> QED BY <1>4, <1>5, <1>6 DEF IInv

LEMMA WithLinesType ==
    ASSUME IInv, edits < MaxEdits, NEW i \in Owners, NEW l \in Lines
    PROVE  /\ WithLines(disk, i, l) \in Disk
           /\ WithLines(disk, i, l).listable = disk.listable
<1>1. disk \in Disk /\ edits + 1 \in 0 .. MaxEdits
    BY Numbers DEF IInv, TypeOK
<1> DEFINE ls == [disk.lines EXCEPT ![i] = l]
           st == [disk.stamp EXCEPT ![i] = edits + 1]
<1>2. ls \in [Owners -> Lines] /\ st \in [Owners -> 0 .. MaxEdits]
    BY <1>1, DiskParts
<1>3. WithLines(disk, i, l) = [disk EXCEPT !.lines = ls, !.stamp = st]
    BY <1>1 DEF WithLines, Disk
<1> HIDE DEF ls, st
<1> QED BY <1>1, <1>2, <1>3 DEF Disk

LEMMA StoreKeeps ==
    ASSUME IInv, NEW r \in Requests, Store(r)
    PROVE  IInv'
<1> DEFINE i == req[r].at
           lines == disk.lines[i]
<1>1. PICK id \in Ids \ GroupsAt(disk, i) :
          Change(WithLines(disk, i,
              [switch |-> "true", groups |-> [lines.groups EXCEPT ![id] = req[r].asked]]))
    BY DEF Store
<1> DEFINE gs == [lines.groups EXCEPT ![id] = req[r].asked]
           l == [switch |-> "true", groups |-> gs]
<1>2. i \in Owners /\ req[r].phase = "store" /\ req[r].asked \in NewGroups
    BY States DEF Store, Request, Knows, Asking
<1>3. req[r].asked \in Group
    BY <1>2, ShareLifecycleAssumption
<1>4. lines \in Lines
    BY <1>2, States, DiskParts
<1>5. gs \in [Ids -> Group \cup {NoGroup}]
    BY <1>3, <1>4 DEF Lines
<1>6. Change(WithLines(disk, i, l)) /\ edits < MaxEdits
    BY <1>1 DEF Change
<1> HIDE DEF gs
<1>7. l \in Lines
    BY <1>5 DEF Lines
<1> HIDE DEF l
<1>8. /\ WithLines(disk, i, l) \in Disk
      /\ WithLines(disk, i, l).listable = disk.listable
    BY <1>2, <1>6, <1>7, WithLinesType
<1>9. req' = [req EXCEPT ![r] = Idle] /\ UNCHANGED <<now, issued>>
    BY DEF Store
<1>10. req' \in [Requests -> Request] /\ \A x \in Requests : req'[x] \in {req[x], Idle}
    BY <1>9, States, IdleKnows
<1> QED BY <1>6, <1>8, <1>9, <1>10, ChangeKeeps

LEMMA DeleteKeeps ==
    ASSUME IInv, NEW i \in Owners, NEW id \in Ids, Delete(i, id)
    PROVE  IInv'
<1> DEFINE gs == [disk.lines[i].groups EXCEPT ![id] = NoGroup]
           l == [disk.lines[i] EXCEPT !.groups = gs]
<1>1. disk.lines[i] \in Lines
    BY States, DiskParts
<1>2. gs \in [Ids -> Group \cup {NoGroup}]
    BY <1>1 DEF Lines
<1>3. Change(WithLines(disk, i, l)) /\ edits < MaxEdits
    BY DEF Delete, Change
<1> HIDE DEF gs
<1>4. l \in Lines
    BY <1>1, <1>2 DEF Lines
<1> HIDE DEF l
<1>5. /\ WithLines(disk, i, l) \in Disk
      /\ WithLines(disk, i, l).listable = disk.listable
    BY <1>3, <1>4, WithLinesType
<1>6. UNCHANGED <<now, issued, req>>
    BY DEF Delete
<1>7. req' \in [Requests -> Request] /\ \A x \in Requests : req'[x] \in {req[x], Idle}
    BY <1>6, States
<1> QED BY <1>3, <1>5, <1>6, <1>7, ChangeKeeps

LEMMA AdministerKeeps ==
    ASSUME IInv, NEW i \in Positions, Administer(i)
    PROVE  IInv'
<1>1. disk \in Disk
    BY States
<1>2. \E d \in Disk : d.listable = disk.listable /\ Change(d)
    <2>1. CASE \E e \in Entries \ {disk.env[i]} : Change([disk EXCEPT !.env[i] = e])
        <3>1. PICK e \in Entries : Change([disk EXCEPT !.env[i] = e])
            BY <2>1
        <3> DEFINE c == [disk.env EXCEPT ![i] = e]
                   d == [disk EXCEPT !.env = c]
        <3>2. e \in Entry
            BY ShareLifecycleAssumption
        <3>3. c \in Chain
            BY <1>1, <3>2, DiskParts DEF Chain
        <3>4. Change(d)
            BY <3>1
        <3> HIDE DEF c
        <3>5. d \in Disk /\ d.listable = disk.listable
            BY <1>1, <3>3 DEF Disk
        <3> QED BY <3>4, <3>5
    <2>2. CASE i \in Owners /\ \E l \in LineSets \ {disk.lines[i]} :
                   Change([disk EXCEPT !.lines[i] = l])
        <3>1. PICK l \in LineSets : Change([disk EXCEPT !.lines[i] = l])
            BY <2>2
        <3> DEFINE c == [disk.lines EXCEPT ![i] = l]
                   d == [disk EXCEPT !.lines = c]
        <3>2. l \in Lines
            BY ShareLifecycleAssumption
        <3>3. c \in [Owners -> Lines]
            BY <1>1, <3>2, DiskParts
        <3>4. Change(d)
            BY <3>1
        <3> HIDE DEF c
        <3>5. d \in Disk /\ d.listable = disk.listable
            BY <1>1, <3>3 DEF Disk
        <3> QED BY <3>4, <3>5
    <2>3. CASE i \in Owners /\ \E n \in {0, edits + 2} \ {disk.file[i]} :
                   Change([disk EXCEPT !.file[i] = n, !.stamp[i] = edits + 1])
        <3>1. PICK n \in {0, edits + 2} :
                  Change([disk EXCEPT !.file[i] = n, !.stamp[i] = edits + 1])
            BY <2>3
        <3> DEFINE f == [disk.file EXCEPT ![i] = n]
                   s == [disk.stamp EXCEPT ![i] = edits + 1]
                   d == [disk EXCEPT !.file = f, !.stamp = s]
        <3>2. edits < MaxEdits /\ edits \in Nat
            BY <3>1, States DEF Change
        <3>3. n \in 0 .. MaxEdits + 1 /\ edits + 1 \in 0 .. MaxEdits
            BY <3>2, Numbers
        <3>4. f \in [Owners -> 0 .. MaxEdits + 1] /\ s \in [Owners -> 0 .. MaxEdits]
            BY <1>1, <3>3, DiskParts
        <3>5. Change(d)
            <4>1. [disk EXCEPT !.file[i] = n, !.stamp[i] = edits + 1] = d
                BY <1>1 DEF Disk
            <4> QED BY <3>1, <4>1
        <3> HIDE DEF f, s
        <3>6. d \in Disk /\ d.listable = disk.listable
            BY <1>1, <3>4 DEF Disk
        <3> QED BY <3>5, <3>6
    <2> QED BY <2>1, <2>2, <2>3 DEF Administer
<1>3. UNCHANGED <<now, issued, req>>
    BY DEF Administer
<1>4. req' \in [Requests -> Request] /\ \A x \in Requests : req'[x] \in {req[x], Idle}
    BY <1>3, States
<1> QED BY <1>2, <1>3, <1>4, ChangeKeeps

LEMMA TickKeeps ==
    ASSUME IInv, Tick
    PROVE  IInv'
<1>1. /\ now \in Nat /\ now' = now + 1 /\ now < MaxTime
      /\ UNCHANGED <<disk, issued, req, hist, edits>>
    BY States DEF Tick
<1>2. TypeOK'
    BY <1>1, Numbers DEF IInv, TypeOK
<1>3. ASSUME NEW x \in Requests
      PROVE  Knows(req[x], hist[x], disk, now + 1, edits)
    <2> DEFINE q == req[x]
               h == hist[x]
    <2>1. Knows(q, h, disk, now, edits) /\ disk \in Disk
        BY States
    <2>2. OpenShares(disk, now + 1, q.token) \subseteq OpenShares(disk, now, q.token)
        <3> SUFFICES ASSUME NEW s \in OpenShares(disk, now + 1, q.token)
                     PROVE  s \in OpenShares(disk, now, q.token)
            OBVIOUS
        <3> DEFINE g == GroupAt(disk, s[1], s[2])
        <3>1. /\ s \in Owners \X Ids /\ disk.env[s[1]].usable
              /\ s[2] \in GroupsAt(disk, s[1])
              /\ g.enabled = "true" /\ g.form \in {"good", "loose"}
              /\ g.token = q.token /\ now + 1 <= g.expires
            BY DEF OpenShares
        <3>2. g.expires \in Nat
            BY <2>1, <3>1, GroupAtType, GroupParts
        <3>3. now <= g.expires
            BY <1>1, <3>1, <3>2
        <3> QED BY <3>1, <3>3 DEF OpenShares
    <2>3. Seeing(q, h, disk, now + 1)
        BY <2>1, <2>2 DEF Knows, Seeing
    <2>4. Holding(q, h, now + 1)
        <3>1. Holds(q) => q.share.group.expires \in Nat
            <4>1. Holds(q) => q.share.group \in Group
                BY <2>1 DEF Knows, Holding, Share
            <4> QED BY <4>1, GroupParts
        <3>2. Holds(q) /\ now + 1 <= q.share.group.expires => now <= q.share.group.expires
            BY <1>1, <3>1
        <3> QED BY <2>1, <3>2 DEF Knows, Holding
    <2>5. Asking(q, now + 1)
        <3>1. q.phase = "store" => q.asked \in Group
            BY <2>1, ShareLifecycleAssumption DEF Knows, Asking
        <3>2. q.phase = "store" => q.asked.expires \in Nat
            BY <3>1, GroupParts
        <3> QED BY <1>1, <2>1, <3>2, Numbers DEF Knows, Asking, TooFar
    <2> QED BY <2>1, <2>3, <2>4, <2>5 DEF Knows
<1>4. \A s \in issued' : Sound(s, disk', edits')
    BY <1>1 DEF IInv
<1> QED BY <1>1, <1>2, <1>3, <1>4 DEF IInv

-----------------------------------------------------------------------------
(* The theorems.                                                            *)

LEMMA IInvInit == Init => IInv
<1> SUFFICES ASSUME Init PROVE IInv
    OBVIOUS
<1>1. TypeOK
    BY Numbers, IdleKnows, BlankType, ShareLifecycleAssumption DEF Init, TypeOK
<1>2. ASSUME NEW r \in Requests
      PROVE  Knows(req[r], hist[r], disk, now, edits)
    <2>1. req[r] = Idle /\ hist[r].since <= edits
        BY BlankType DEF Init
    <2> QED BY <2>1, IdleKnows
<1> QED BY <1>1, <1>2 DEF Init, IInv

LEMMA IInvNext == IInv /\ [Next]_vars => IInv'
<1> SUFFICES ASSUME IInv, [Next]_vars PROVE IInv'
    OBVIOUS
<1>1. ASSUME NEW r \in Requests,
             Begin(r) \/ ReadPolicy(r) \/ ReadShares(r) \/ Admit(r)
               \/ LookAgain(r) \/ LookBelow(r)
      PROVE  IInv'
    BY <1>1, BeginKeeps, ReadPolicyKeeps, ReadSharesKeeps, AdmitKeeps, LookAgainKeeps,
       LookBelowKeeps
<1>2. ASSUME NEW r \in Requests,
             \/ Unavailable(r) \/ Gate(r) \/ Missing(r) \/ StoreFails(r)
             \/ \E i \in Owners : Serve(r, i)
      PROVE  IInv'
    <2>1. Refuse(r)
        BY <1>2 DEF Unavailable, Gate, Missing, StoreFails, Serve
    <2> QED BY <2>1, RefuseKeeps
<1>3. ASSUME NEW r \in Requests, NEW w \in Secrets, Login(r, w)
      PROVE  IInv'
    BY <1>3, LoginKeeps
<1>4. ASSUME NEW r \in Requests, Store(r) \/ \E i \in Owners : Create(r, i)
      PROVE  IInv'
    BY <1>4, StoreKeeps, CreateKeeps
<1>5. ASSUME NEW i \in Owners, NEW id \in Ids, Delete(i, id)
      PROVE  IInv'
    BY <1>5, DeleteKeeps
<1>6. ASSUME NEW i \in Positions, Administer(i)
      PROVE  IInv'
    BY <1>6, AdministerKeeps
<1>7. CASE Tick
    BY <1>7, TickKeeps
<1>8. CASE UNCHANGED vars
    BY <1>8 DEF vars, IInv, TypeOK
<1> QED BY <1>1, <1>2, <1>3, <1>4, <1>5, <1>6, <1>7, <1>8 DEF Next

\* What a request knows of a share is kept up, for any data, number of requests
\* and changes.
THEOREM Inductive == Spec => []IInv
BY IInvInit, IInvNext, PTL DEF Spec

\* Types, of the data, shares, sessions and requests.
THEOREM TypeCorrect == Spec => []TypeOK
<1>1. IInv => TypeOK
    BY DEF IInv
<1> QED BY <1>1, Inductive, PTL

\* The lookup, the management list and the directory page agree about every
\* share of every directory.
THEOREM ReadersNeverDisagree == Spec => []ReadersAgree
<1>1. IInv => ReadersAgree
    BY States, Agreement
<1> QED BY <1>1, Inductive, PTL

\* What is served was open at a moment of the request, and no file above it was
\* unusable throughout.
THEOREM OnlyOpenIsServed == Spec => ServedWasOpen
<1>1. ASSUME IInv, NEW r \in Requests, NEW j \in Owners, Serve(r, j)
      PROVE  LET share == req[r].share IN
             /\ <<share.dir, share.id>> \in hist[r].open
             /\ hist[r].broken \cap (0 .. share.dir) = {}
    <2>1. req[r].phase = "open" /\ Knows(req[r], hist[r], disk, now, edits)
        BY <1>1, States DEF Serve
    <2>2. req[r].kind = "visit" /\ ShareOf(req[r]) \in hist[r].open
        BY <2>1 DEF Knows, Admitted
    <2>3. hist[r].broken \cap (0 .. req[r].share.dir) = {}
        BY <2>1, <2>2 DEF Knows, Holding, Holds
    <2> QED BY <2>2, <2>3 DEF ShareOf
<1>2. IInv /\ [Next]_vars =>
         [\A r \in Requests, j \in Owners : Serve(r, j) =>
             LET share == req[r].share IN
             /\ <<share.dir, share.id>> \in hist[r].open
             /\ hist[r].broken \cap (0 .. share.dir) = {}]_vars
    BY <1>1
<1> QED BY <1>2, Inductive, PTL DEF Spec, ServedWasOpen

\* What a session is shown is what was logged into, as long as the data stay
\* what they were when the request began.
THEOREM SessionsKeepTheirTarget == Spec => SessionForTarget
<1>1. ASSUME IInv, NEW r \in Requests, NEW j \in Owners, Serve(r, j), ~hist[r].changed
      PROVE  LET share == req[r].share IN
             req[r].session.version =
                 ShareVersion(disk, share.dir, share.group, PolicyAt(disk, share.dir))
    <2>1. req[r].phase = "open" /\ Knows(req[r], hist[r], disk, now, edits)
        BY <1>1, States DEF Serve
    <2>2. req[r].kind = "visit" /\ req[r].session.version = req[r].share.version
        BY <2>1 DEF Knows, Admitted
    <2>3. Settled(req[r], disk)
        BY <1>1, <2>1, <2>2 DEF Knows, Fresh, Steady
    <2> QED BY <2>1, <2>2, <2>3 DEF Settled, Holds
<1>2. IInv /\ [Next]_vars =>
         [\A r \in Requests, j \in Owners : Serve(r, j) /\ ~hist[r].changed =>
             LET share == req[r].share IN
             req[r].session.version =
                 ShareVersion(disk, share.dir, share.group, PolicyAt(disk, share.dir))]_vars
    BY <1>1
<1> QED BY <1>2, Inductive, PTL DEF Spec, SessionForTarget

\* A login that nothing has changed since is not asked for again.
THEOREM LoginsAreNotInVain == Spec => LoginOpens
<1>1. ASSUME IInv, NEW r \in Requests, Gate(r), req[r].session # NoSession
      PROVE  LET s == req[r].session IN
             \/ now - s.at > Lifetime
             \/ <<s.dir, s.id>> # <<req[r].share.dir, req[r].share.id>>
             \/ s.since # edits
    <2> DEFINE q == req[r]
               s == q.session
    <2>1. /\ q.phase = "decide" /\ q.kind = "visit" /\ ~Valid(s, q.share)
          /\ Knows(q, hist[r], disk, now, edits)
        BY <1>1, States DEF Gate
    <2> SUFFICES ASSUME ~(now - s.at > Lifetime), s.dir = q.share.dir, s.id = q.share.id,
                        s.since = edits
                 PROVE  FALSE
        OBVIOUS
    <2>2. Sound(s, disk, edits) /\ Settled(q, disk)
        BY <1>1, <2>1 DEF Knows, Fresh, Steady
    <2>3. s.version = q.share.version
        BY <2>1, <2>2 DEF Sound, Settled, Holds
    <2>4. now - s.at <= Lifetime
        <3>1. now \in Nat /\ s.at \in Nat
            <4>1. s \in Session
                BY <1>1, States DEF Request
            <4> QED BY <1>1, <4>1, States, Numbers DEF Session
        <3> QED BY <3>1, Numbers
    <2> QED BY <1>1, <2>1, <2>3, <2>4 DEF Valid
<1>2. IInv /\ [Next]_vars =>
         [\A r \in Requests : Gate(r) /\ req[r].session # NoSession =>
             LET s == req[r].session IN
             \/ now - s.at > Lifetime
             \/ <<s.dir, s.id>> # <<req[r].share.dir, req[r].share.id>>
             \/ s.since # edits]_vars
    BY <1>1
<1> QED BY <1>2, Inductive, PTL DEF Spec, LoginOpens

\* A directory share never shows what has had a password of its own since the
\* visitor was admitted, but below a directory that cannot be listed.
THEOREM BoundariesAreKept == Spec => BoundaryKept
<1>1. ASSUME IInv, NEW r \in Requests, NEW j \in Owners, Serve(r, j)
      PROVE  LET share == req[r].share IN
             \/ share.group.scope = "file"
             \/ j \notin Walked(disk, TargetDir(share.dir, share.group))
             \/ hist[r].closed \cap (share.dir + 1 .. j) = {}
    <2>1. req[r].phase = "open" /\ Knows(req[r], hist[r], disk, now, edits)
        BY <1>1, States DEF Serve
    <2>2. req[r].share.group.scope # "file" => Within(req[r], hist[r], disk)
        BY <2>1 DEF Knows, Admitted
    <2> QED BY <2>2 DEF Within
<1>2. IInv /\ [Next]_vars =>
         [\A r \in Requests, j \in Owners : Serve(r, j) =>
             LET share == req[r].share IN
             \/ share.group.scope = "file"
             \/ j \notin Walked(disk, TargetDir(share.dir, share.group))
             \/ hist[r].closed \cap (share.dir + 1 .. j) = {}]_vars
    BY <1>1
<1> QED BY <1>2, Inductive, PTL DEF Spec, BoundaryKept

\* What creation has accepted spoils no directory.
THEOREM CreatedSharesAreReadable == Spec => CreatedIsReadable
<1>1. ASSUME IInv, NEW r \in Requests, Store(r)
      PROVE  LET i == req[r].at
                 g == req[r].asked
             IN  \/ ~Spoils(disk', now, i, g, PolicyAt(disk', i))
                 \/ ~TargetThere(disk', i, g)
                 \/ ~WithinBoundary(disk', i, g, PolicyAt(disk', i))
    <2>1. req[r].asked \in NewGroups /\ ~TooFar(req[r].asked, now)
        BY <1>1, States DEF Store, Knows, Asking
    <2>2. req[r].asked.form = "good"
        BY <2>1, ShareLifecycleAssumption
    <2> QED BY <2>1, <2>2 DEF Spoils
<1>2. IInv /\ [Next]_vars =>
         [\A r \in Requests : Store(r) =>
             LET i == req[r].at
                 g == req[r].asked
             IN  \/ ~Spoils(disk', now, i, g, PolicyAt(disk', i))
                 \/ ~TargetThere(disk', i, g)
                 \/ ~WithinBoundary(disk', i, g, PolicyAt(disk', i))]_vars
    BY <1>1
<1> QED BY <1>2, Inductive, PTL DEF Spec, CreatedIsReadable

=============================================================================
