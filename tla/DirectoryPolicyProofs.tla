----------------------- MODULE DirectoryPolicyProofs -----------------------
(***************************************************************************)
(* That the policy of a chain of files read one by one never opens what was  *)
(* closed, nor passes over what was broken, is one that was in force, and    *)
(* what sessions are worth against it, for any depth, any entries and any    *)
(* number of requests and changes.                                           *)
(***************************************************************************)
EXTENDS DirectoryPolicy, FoldedPolicyProofs

LEMMA LastInPositions ==
    ASSUME NEW q, q.path \in Path
    PROVE  LastOf(q) \in Positions
<1>1. /\ q.path.names \in 0 .. Depth + 1
      /\ q.path.op \in {"page", "_shares"}
      /\ q.path.slash \in BOOLEAN
      /\ q.path.op = "page" => q.path.slash \/ q.path.names > 0
      /\ q.path.op = "_shares" => ~q.path.slash
      /\ q.path.op = "_shares" \/ q.path.slash => q.path.names <= Depth
    BY DEF Path
<1>2. LoginDir(q.path) \in 0 .. Depth
    BY <1>1, FoldedPolicyAssumption DEF LoginDir
<1>3. RequestDir(q.path) \in 0 .. Depth
    BY <1>1, FoldedPolicyAssumption DEF RequestDir, IsListing
<1>4. LastOf(q) \in {LoginDir(q.path) + 1, RequestDir(q.path) + 1, 0 + 1}
    BY DEF LastOf, Last
<1>5. \A n \in 0 .. Depth : n + 1 \in Positions
    BY FoldedPolicyAssumption DEF Positions
<1>6. LoginDir(q.path) + 1 \in Positions /\ RequestDir(q.path) + 1 \in Positions
    BY <1>2, <1>3, <1>5
<1>7. 0 + 1 \in Positions
    BY FoldedPolicyAssumption, <1>5
<1> QED BY <1>4, <1>6, <1>7

-----------------------------------------------------------------------------
(* Nothing in flight.                                                       *)

LEMMA IdleType == Idle \in Request
<1>1. [op |-> "page", names |-> 0, slash |-> TRUE] \in Path
    BY FoldedPolicyAssumption DEF Path
<1>2. 0 \in Positions
    BY FoldedPolicyAssumption DEF Positions
<1> QED BY <1>1, <1>2, FixedPolicies DEF Idle, Request

LEMMA BlankType == Blank \in History
BY DirectoryPolicyAssumption DEF Blank, History

-----------------------------------------------------------------------------
(* Type correctness, and that no request sees more changes than there were. *)

TInv == TypeOK /\ \A r \in Requests : hist[r].edits <= edits

LEMMA TInvInit == Init => TInv
<1> SUFFICES ASSUME Init PROVE TInv
    OBVIOUS
<1>1. env \in Chain
    BY DirectoryPolicyAssumption DEF Init, Chain
<1>2. startup \in Passwords \cup {None}
    BY DirectoryPolicyAssumption DEF Init
<1>3. run \in 0 .. MaxRuns /\ now \in 0 .. MaxTime /\ edits \in 0 .. MaxEdits
    BY DirectoryPolicyAssumption DEF Init
<1>4. req \in [Requests -> Request] /\ hist \in [Requests -> History]
    BY IdleType, BlankType DEF Init
<1>5. \A r \in Requests : hist[r].edits <= edits
    BY DEF Init, Blank
<1> QED BY <1>1, <1>2, <1>3, <1>4, <1>5 DEF TInv, TypeOK, Init

LEMMA TInvReading ==
    ASSUME TInv, NEW r \in Requests, NEW q \in Request, StartReading(r, q)
    PROVE  TInv'
<1> DEFINE n == [q EXCEPT !.phase = "reading"]
           h == [seen |-> {env}, edits |-> 0, since |-> edits]
<1>1. n \in Request
    BY DEF Request
<1>2. h \in History /\ h.edits = 0
    BY DirectoryPolicyAssumption DEF TInv, TypeOK, History
<1>3. req' = [req EXCEPT ![r] = n] /\ hist' = [hist EXCEPT ![r] = h]
    BY DEF StartReading
<1> HIDE DEF n, h
<1>4. req' \in [Requests -> Request] /\ hist' \in [Requests -> History]
    BY <1>1, <1>2, <1>3 DEF TInv, TypeOK
<1>5. UNCHANGED <<env, startup, run, now, issued, edits>>
    BY DEF StartReading
<1>6. \A x \in Requests : hist'[x].edits <= edits'
    BY <1>2, <1>3, <1>5 DEF TInv, TypeOK
<1> QED BY <1>4, <1>5, <1>6 DEF TInv, TypeOK

LEMMA TInvFinish ==
    ASSUME TInv, NEW r \in Requests, Finish(r), issued' \subseteq Session
    PROVE  TInv'
<1>1. req' \in [Requests -> Request] /\ hist' \in [Requests -> History]
    BY IdleType, BlankType DEF TInv, TypeOK, Finish
<1>2. UNCHANGED <<env, startup, run, now, edits>>
    BY DEF Finish
<1>3. \A x \in Requests : hist'[x].edits <= edits'
    <2>1. Blank.edits <= edits
        BY DirectoryPolicyAssumption DEF Blank, TInv, TypeOK
    <2> QED BY <2>1, <1>2, BlankType DEF Finish, TInv, TypeOK
<1> QED BY <1>1, <1>2, <1>3 DEF TInv, TypeOK

\* What Read leaves of a request.
LEMMA ReadEffect ==
    ASSUME TInv, NEW r \in Requests, Read(r),
           req[r].next \in 0 .. LastOf(req[r])
    PROVE  \E n \in Request :
              /\ req' = [req EXCEPT ![r] = n]
              /\ n.kind = req[r].kind /\ n.path = req[r].path
              /\ n.session = req[r].session
              /\ LET q == req[r]
                     e == env[q.next]
                     p == Merge(q.policy, q.next, e)
                 IN  \/ ~e.usable /\ n.phase = "decide" /\ n.policy = Locked
                     \/ /\ e.usable /\ q.next = LastOf(q)
                        /\ n.phase = "decide" /\ n.policy = WithStartup(p, startup)
                     \/ /\ e.usable /\ q.next < LastOf(q)
                        /\ n.phase = "reading" /\ n.next = q.next + 1
                        /\ n.policy = p
<1> DEFINE q == req[r]
           e == env[q.next]
           p == Merge(q.policy, q.next, e)
           locking == [q EXCEPT !.phase = "decide", !.policy = Locked]
           ending == [q EXCEPT !.phase = "decide", !.policy = WithStartup(p, startup)]
           going == [q EXCEPT !.next = q.next + 1, !.policy = p]
<1>1. q \in Request /\ q.path \in Path /\ q.policy \in Policy /\ q.next \in Positions
    BY DEF TInv, TypeOK, Request
<1>2. e \in Entry /\ e.usable \in BOOLEAN
    BY <1>1 DEF TInv, TypeOK, Chain, Entry
<1>3. p \in Policy /\ WithStartup(p, startup) \in Policy
    BY <1>1, <1>2, MergeType, WithStartupType DEF TInv, TypeOK
<1>4. LastOf(q) \in Positions
    BY <1>1, LastInPositions
<1>5. /\ q.phase = "reading"
      /\ req' = [req EXCEPT ![r] = IF ~e.usable THEN locking
                                   ELSE IF q.next = LastOf(q) THEN ending ELSE going]
    BY DEF Read
<1> HIDE DEF p, e
<1>6. locking \in Request /\ ending \in Request
    BY <1>1, <1>3, FixedPolicies DEF Request
<1>7. CASE ~e.usable
    <2>1. /\ locking.kind = q.kind /\ locking.path = q.path
          /\ locking.session = q.session
          /\ locking.phase = "decide" /\ locking.policy = Locked
        BY <1>1 DEF Request
    <2>2. req' = [req EXCEPT ![r] = locking]
        BY <1>5, <1>7
    <2> HIDE DEF locking
    <2> QED BY <1>6, <1>7, <2>1, <2>2 DEF e, p
<1>8. CASE e.usable /\ q.next = LastOf(q)
    <2>1. /\ ending.kind = q.kind /\ ending.path = q.path
          /\ ending.session = q.session
          /\ ending.phase = "decide" /\ ending.policy = WithStartup(p, startup)
        BY <1>1 DEF Request
    <2>2. req' = [req EXCEPT ![r] = ending]
        BY <1>5, <1>8
    <2> HIDE DEF ending
    <2> QED BY <1>6, <1>8, <2>1, <2>2 DEF e, p
<1>9. CASE e.usable /\ q.next # LastOf(q)
    <2>1. q.next < LastOf(q) /\ q.next + 1 \in Positions
        BY <1>1, <1>4, <1>9, FoldedPolicyAssumption DEF Positions
    <2>2. /\ going.kind = q.kind /\ going.path = q.path
          /\ going.session = q.session
          /\ going.phase = "reading" /\ going.next = q.next + 1 /\ going.policy = p
        BY <1>1, <1>5 DEF Request
    <2>3. req' = [req EXCEPT ![r] = going]
        BY <1>5, <1>9
    <2>4. going \in Request
        BY <1>1, <1>3, <2>1 DEF Request
    <2> HIDE DEF going
    <2> QED BY <1>9, <2>1, <2>2, <2>3, <2>4 DEF e, p
<1> QED BY <1>2, <1>7, <1>8, <1>9

LEMMA TInvRead ==
    ASSUME TInv, NEW r \in Requests, Read(r), req[r].next \in 0 .. LastOf(req[r])
    PROVE  TInv'
<1>1. UNCHANGED <<env, startup, run, now, issued, hist, edits>>
    BY DEF Read
<1>2. req' \in [Requests -> Request]
    BY ReadEffect DEF TInv, TypeOK
<1> QED BY <1>1, <1>2 DEF TInv, TypeOK

LEMMA Seeing ==
    ASSUME NEW h \in History, NEW c \in Chain,
           h.edits + 1 \in 0 .. MaxEdits
    PROVE  LET g == [h EXCEPT !.seen = @ \cup {c}, !.edits = @ + 1] IN
           /\ g \in History
           /\ g.seen = h.seen \cup {c} /\ g.edits = h.edits + 1
<1> DEFINE g == [h EXCEPT !.seen = @ \cup {c}, !.edits = @ + 1]
<1>1. h.seen \cup {c} \subseteq Chain
    BY DEF History
<1>2. g.seen = h.seen \cup {c} /\ g.edits = h.edits + 1 /\ g.since = h.since
    BY DEF History
<1>3. \A S \in SUBSET Chain, n \in 0 .. MaxEdits :
          [h EXCEPT !.seen = S, !.edits = n] \in History
    BY DEF History
<1>4. g \in History
    BY <1>1, <1>3
<1> QED BY <1>2, <1>4

LEMMA TInvEdit ==
    ASSUME TInv, NEW i \in Positions, Edit(i)
    PROVE  TInv'
<1>1. env' \in Chain
    BY DirectoryPolicyAssumption DEF Edit, TInv, TypeOK, Chain
<1>2. edits' = edits + 1 /\ edits' \in 0 .. MaxEdits
    <2>1. edits' = edits + 1 /\ edits < MaxEdits
        BY DEF Edit
    <2>2. edits \in 0 .. MaxEdits /\ MaxEdits \in Nat
        BY DirectoryPolicyAssumption DEF TInv, TypeOK
    <2> QED BY <2>1, <2>2
<1> DEFINE seeing(r) == [hist[r] EXCEPT !.seen = @ \cup {env'}, !.edits = @ + 1]
<1>3. ASSUME NEW r \in Requests
      PROVE  hist'[r] \in History /\ hist'[r].edits <= edits'
    <2>1. hist[r] \in History /\ hist[r].edits \in 0 .. MaxEdits /\ hist[r].edits <= edits
        BY DEF TInv, TypeOK, History
    <2>2. hist[r].edits + 1 \in 0 .. MaxEdits /\ hist[r].edits + 1 <= edits'
        <3>1. edits \in 0 .. MaxEdits /\ MaxEdits \in Nat
            BY DirectoryPolicyAssumption DEF TInv, TypeOK
        <3> QED BY <1>2, <2>1, <3>1
    <2>3. seeing(r) \in History /\ seeing(r).edits <= edits'
        BY <1>1, <2>1, <2>2, Seeing
    <2>4. hist'[r] = seeing(r) \/ hist'[r] = hist[r]
        BY DEF Edit
    <2>5. edits <= edits'
        BY <1>2, DirectoryPolicyAssumption DEF TInv, TypeOK
    <2> HIDE DEF seeing
    <2>6. CASE hist'[r] = seeing(r)
        BY <2>3, <2>6
    <2>7. CASE hist'[r] = hist[r]
        BY <1>2, <2>1, <2>7, DirectoryPolicyAssumption DEF TInv, TypeOK
    <2> QED BY <2>4, <2>6, <2>7
<1>4. hist' \in [Requests -> History]
    <2>1. hist' = [r \in Requests |-> hist'[r]]
        BY DEF Edit
    <2> QED BY <1>3, <2>1
<1> QED BY <1>1, <1>2, <1>3, <1>4 DEF Edit, TInv, TypeOK

-----------------------------------------------------------------------------
(* What a fold has met.                                                     *)

\* A file that is merged was usable, and a policy without a password stays so
\* only over a file without one.
LEMMA MergeOpens ==
    ASSUME NEW p, NEW i, NEW e
    PROVE  /\ ~Merge(p, i, e).locked
           /\ Merge(p, i, e).password = None => e.password = None /\ p.password = None
BY DEF Merge

LEMMA StartupOpens ==
    ASSUME NEW p \in Policy, NEW s, ~Protected(WithStartup(p, s))
    PROVE  p.password = None /\ s = None
BY DEF WithStartup, Protected, Policy

\* A state of the files, once seen, says of each what it has not been throughout.
LEMMA SeenDenies ==
    ASSUME NEW q, NEW h, NEW c \in h.seen, NEW i
    PROVE  /\ c[i].usable => i \notin KeptBroken(q, h)
           /\ c[i].usable /\ c[i].password = None => i \notin KeptClosed(q, h)
BY DEF KeptBroken, KeptClosed, Closed

\* Seeing more takes nothing back.
LEMMA SeenMore ==
    ASSUME NEW q, NEW h, NEW g, h.seen \subseteq g.seen
    PROVE  /\ KeptBroken(q, g) \subseteq KeptBroken(q, h)
           /\ KeptClosed(q, g) \subseteq KeptClosed(q, h)
BY DEF KeptBroken, KeptClosed

LEMMA KeptOfSamePath ==
    ASSUME NEW q, NEW n, n.kind = q.kind, n.path = q.path, NEW h
    PROVE  /\ LastOf(n) = LastOf(q)
           /\ KeptBroken(n, h) = KeptBroken(q, h)
           /\ KeptClosed(n, h) = KeptClosed(q, h)
<1>1. LastOf(n) = LastOf(q)
    BY DEF LastOf
<1> QED BY <1>1 DEF KeptBroken, KeptClosed

LEMMA KeptOnTheWay ==
    ASSUME NEW q, NEW h
    PROVE  /\ KeptBroken(q, h) \subseteq 0 .. LastOf(q)
           /\ KeptClosed(q, h) \subseteq 0 .. LastOf(q)
BY DEF KeptBroken, KeptClosed

-----------------------------------------------------------------------------
(* The fold, of one request.                                                *)

LEMMA FoldStarts ==
    ASSUME NEW q, q.phase = "reading", q.next = 0, q.path \in Path,
           NEW h, NEW c, h.seen = {c}, NEW s
    PROVE  Folding(q, h, c) /\ Folded(q, h, s)
<1>1. 0 \in 0 .. LastOf(q)
    BY LastInPositions, FoldedPolicyAssumption DEF Positions
<1>2. 0 .. q.next - 1 = {}
    OBVIOUS
<1> QED BY <1>1, <1>2 DEF Folding, Folded

\* One file more: if it does not lock, it was usable when it was read, and if it
\* leaves the policy open it was open.
LEMMA FoldGoesOn ==
    ASSUME NEW q, q.phase = "reading", q.path \in Path, q.policy \in Policy,
           NEW h, NEW c, NEW s, Folding(q, h, c),
           NEW n, n.kind = q.kind, n.path = q.path, n.policy \in Policy,
           LET e == c[q.next]
               p == Merge(q.policy, q.next, e)
           IN  \/ ~e.usable /\ n.phase = "decide" /\ n.policy = Locked
               \/ /\ e.usable /\ q.next = LastOf(q)
                  /\ n.phase = "decide" /\ n.policy = WithStartup(p, s)
               \/ /\ e.usable /\ q.next < LastOf(q)
                  /\ n.phase = "reading" /\ n.next = q.next + 1
                  /\ n.policy = p,
           Merge(q.policy, q.next, c[q.next]) \in Policy
    PROVE  Folding(n, h, c) /\ Folded(n, h, s)
<1> DEFINE k == q.next
           e == c[q.next]
           p == Merge(q.policy, q.next, e)
<1>1. /\ LastOf(n) = LastOf(q)
      /\ KeptBroken(n, h) = KeptBroken(q, h)
      /\ KeptClosed(n, h) = KeptClosed(q, h)
    BY KeptOfSamePath
<1>2. PICK seen \in h.seen : \A i \in 0 .. LastOf(q) : seen[i] = c[i]
    BY DEF Folding
<1>3. k \in 0 .. LastOf(q) /\ seen[k] = e /\ LastOf(q) \in Nat
    BY <1>2, LastInPositions, FoldedPolicyAssumption DEF Folding, Positions
<1>4. ASSUME e.usable
      PROVE  /\ \A i \in 0 .. k : i \notin KeptBroken(q, h)
             /\ p.password = None => \A i \in 0 .. k : i \notin KeptClosed(q, h)
    <2>1. /\ \A i \in 0 .. k - 1 : i \notin KeptBroken(q, h)
          /\ q.policy.password = None => \A i \in 0 .. k - 1 : i \notin KeptClosed(q, h)
        BY DEF Folding
    <2>2. /\ k \notin KeptBroken(q, h)
          /\ e.password = None => k \notin KeptClosed(q, h)
        BY <1>3, <1>4, SeenDenies
    <2>3. \A i \in 0 .. k : i = k \/ i \in 0 .. k - 1
        BY <1>3
    <2>4. p.password = None => e.password = None /\ q.policy.password = None
        BY MergeOpens
    <2> HIDE DEF p, k, e
    <2> QED BY <2>1, <2>2, <2>3, <2>4
<1>5. CASE ~e.usable /\ n.phase = "decide" /\ n.policy = Locked
    <2>1. n.policy.locked /\ Protected(n.policy)
        BY <1>5 DEF Locked, Protected
    <2> QED BY <1>5, <2>1 DEF Folding, Folded
<1>6. CASE e.usable /\ k = LastOf(q) /\ n.phase = "decide" /\ n.policy = WithStartup(p, s)
    <2>1. KeptBroken(q, h) = {}
        BY <1>4, <1>6, KeptOnTheWay
    <2>2. ~Protected(n.policy) => p.password = None /\ s = None
        BY <1>6, StartupOpens
    <2>3. ~Protected(n.policy) => KeptClosed(q, h) = {}
        BY <1>4, <1>6, <2>2, KeptOnTheWay
    <2> HIDE DEF p
    <2> QED BY <1>1, <1>6, <2>1, <2>2, <2>3 DEF Folding, Folded
<1>7. CASE /\ e.usable /\ k < LastOf(q)
           /\ n.phase = "reading" /\ n.next = k + 1 /\ n.policy = p
    <2>1. n.next \in 0 .. LastOf(n) /\ n.next - 1 = k
        BY <1>1, <1>3, <1>7
    <2>2. \A i \in 0 .. n.next - 1 : i \notin KeptBroken(n, h)
        BY <1>1, <1>4, <1>7, <2>1
    <2>3. n.policy.password = None =>
              \A i \in 0 .. n.next - 1 : i \notin KeptClosed(n, h)
        BY <1>1, <1>4, <1>7, <2>1
    <2>4. \E x \in h.seen : \A i \in 0 .. LastOf(n) : x[i] = c[i]
        BY <1>1, <1>2
    <2> QED BY <1>7, <2>1, <2>2, <2>3, <2>4 DEF Folding, Folded
<1> QED BY <1>5, <1>6, <1>7

\* A change on the way is seen ...
LEMMA FoldSees ==
    ASSUME NEW q, NEW h, NEW c, NEW s, Folding(q, h, c), q.phase = "reading",
           NEW d, NEW g, g.seen = h.seen \cup {d}
    PROVE  Folding(q, g, d) /\ Folded(q, g, s)
<1>1. /\ KeptBroken(q, g) \subseteq KeptBroken(q, h)
      /\ KeptClosed(q, g) \subseteq KeptClosed(q, h)
    BY SeenMore
<1>2. d \in g.seen
    OBVIOUS
<1> QED BY <1>1, <1>2 DEF Folding, Folded

\* ... and one beside it does not matter.
LEMMA FoldIgnores ==
    ASSUME NEW q, q.path \in Path, NEW h, NEW c \in Chain, Folding(q, h, c),
           NEW j \in Positions, NEW d \in Chain,
           \A i \in Positions \ {j} : d[i] = c[i],
           q.phase = "reading" => j > LastOf(q)
    PROVE  Folding(q, h, d)
<1>1. LastOf(q) \in Positions
    BY LastInPositions
<1>2. ASSUME q.phase = "reading"
      PROVE  \A i \in 0 .. LastOf(q) : d[i] = c[i]
    BY <1>1, <1>2, FoldedPolicyAssumption DEF Positions
<1> QED BY <1>2 DEF Folding

-----------------------------------------------------------------------------
(* Every step keeps the invariant.                                          *)

LEMMA IInvTInv == IInv <=> /\ TInv
                           /\ \A r \in Requests :
                                 /\ Folding(req[r], hist[r], env)
                                 /\ Folded(req[r], hist[r], startup)
BY DEF IInv, TInv

\* Where the files and the password stay, only the request that moves matters.
LEMMA OneMoves ==
    ASSUME IInv, TInv', UNCHANGED <<env, startup>>,
           NEW r \in Requests, NEW n, NEW h,
           req' = [req EXCEPT ![r] = n], hist' = [hist EXCEPT ![r] = h],
           Folding(n, h, env), Folded(n, h, startup)
    PROVE  IInv'
<1>1. req \in [Requests -> Request] /\ hist \in [Requests -> History]
    BY DEF IInv, TypeOK
<1>2. env' = env /\ startup' = startup
    OBVIOUS
<1>3. ASSUME NEW x \in Requests
      PROVE  Folding(req'[x], hist'[x], env') /\ Folded(req'[x], hist'[x], startup')
    <2>1. CASE x = r
        <3>1. req'[x] = n /\ hist'[x] = h
            BY <1>1, <2>1
        <3> QED BY <1>2, <3>1
    <2>2. CASE x # r
        <3>1. req'[x] = req[x] /\ hist'[x] = hist[x]
            BY <1>1, <2>2
        <3>2. Folding(req[x], hist[x], env) /\ Folded(req[x], hist[x], startup)
            BY DEF IInv
        <3> QED BY <1>2, <3>1, <3>2
    <2> QED BY <2>1, <2>2
<1> QED BY <1>3 DEF IInv, TInv

LEMMA StartKeeps ==
    ASSUME IInv, NEW r \in Requests, NEW q \in Request,
           q.next = 0, StartReading(r, q)
    PROVE  IInv'
<1> DEFINE n == [q EXCEPT !.phase = "reading"]
           h == [seen |-> {env}, edits |-> 0, since |-> edits]
<1>1. TInv'
    BY IInvTInv, TInvReading
<1>2. n.phase = "reading" /\ n.next = 0 /\ n.path \in Path
    BY DEF Request
<1>3. h.seen = {env}
    OBVIOUS
<1>4. /\ req' = [req EXCEPT ![r] = n] /\ hist' = [hist EXCEPT ![r] = h]
      /\ UNCHANGED <<env, startup>>
    BY DEF StartReading
<1> HIDE DEF n, h
<1>5. Folding(n, h, env) /\ Folded(n, h, startup)
    BY <1>2, <1>3, FoldStarts
<1> QED BY <1>1, <1>4, <1>5, OneMoves

LEMMA BeginKeeps ==
    ASSUME IInv, NEW r \in Requests, Begin(r) \/ BeginLogin(r) \/ BeginForm(r)
    PROVE  IInv'
<1>1. CASE Begin(r)
    <2>1. PICK p \in Path, s \in issued \cup {NoSession} :
              StartReading(r, [Idle EXCEPT !.path = p, !.session = s])
        BY <1>1 DEF Begin
    <2> DEFINE q == [Idle EXCEPT !.path = p, !.session = s]
    <2>2. s \in Session \cup {NoSession}
        BY DEF IInv, TypeOK
    <2>3. q \in Request
        BY <2>2, IdleType DEF Request
    <2>4. q.next = 0
        BY IdleType DEF Request, Idle
    <2>5. StartReading(r, q)
        BY <2>1
    <2> HIDE DEF q
    <2> QED BY <2>3, <2>4, <2>5, StartKeeps
<1>2. CASE BeginLogin(r)
    <2>1. PICK p \in Path :
              StartReading(r, [Idle EXCEPT !.kind = "login", !.path = p])
        BY <1>2 DEF BeginLogin, ReturnTargets
    <2> DEFINE q == [Idle EXCEPT !.kind = "login", !.path = p]
    <2>2. q \in Request
        BY IdleType DEF Request
    <2>3. q.next = 0
        BY IdleType DEF Request, Idle
    <2>4. StartReading(r, q)
        BY <2>1
    <2> HIDE DEF q
    <2> QED BY <2>2, <2>3, <2>4, StartKeeps
<1>3. CASE BeginForm(r)
    <2>1. PICK p \in Path :
              StartReading(r, [Idle EXCEPT !.kind = "form", !.path = p])
        BY <1>3 DEF BeginForm, ReturnTargets
    <2> DEFINE q == [Idle EXCEPT !.kind = "form", !.path = p]
    <2>2. q \in Request
        BY IdleType DEF Request
    <2>3. q.next = 0
        BY IdleType DEF Request, Idle
    <2>4. StartReading(r, q)
        BY <2>1
    <2> HIDE DEF q
    <2> QED BY <2>2, <2>3, <2>4, StartKeeps
<1> QED BY <1>1, <1>2, <1>3

LEMMA SecondLookKeeps ==
    ASSUME IInv, NEW r \in Requests, SecondLook(r)
    PROVE  IInv'
<1> DEFINE q == [req[r] EXCEPT !.next = 0, !.again = TRUE, !.policy = Unprotected]
<1>1. req[r] \in Request /\ 0 \in Positions
    BY FoldedPolicyAssumption DEF IInv, TypeOK, Positions
<1>2. q \in Request
    BY <1>1, FixedPolicies DEF Request
<1>3. q.next = 0
    BY <1>1 DEF Request
<1>4. StartReading(r, q)
    BY DEF SecondLook
<1> HIDE DEF q
<1> QED BY <1>2, <1>3, <1>4, StartKeeps

LEMMA ReadKeeps ==
    ASSUME IInv, NEW r \in Requests, Read(r)
    PROVE  IInv'
<1> DEFINE q == req[r]
           p == Merge(q.policy, q.next, env[q.next])
<1>1. q.phase = "reading" /\ UNCHANGED <<env, startup, hist>>
    BY DEF Read
<1>2. /\ q \in Request /\ q.path \in Path /\ q.policy \in Policy
      /\ q.next \in Positions /\ env[q.next] \in Entry
      /\ Folding(q, hist[r], env) /\ hist \in [Requests -> History]
    BY DEF IInv, TypeOK, Request, Chain
<1>3. q.next \in 0 .. LastOf(q)
    BY <1>1, <1>2 DEF Folding
<1>4. p \in Policy
    BY <1>2, MergeType
<1>5. PICK n \in Request :
         /\ req' = [req EXCEPT ![r] = n]
         /\ n.kind = q.kind /\ n.path = q.path
         /\ LET e == env[q.next] IN
            \/ ~e.usable /\ n.phase = "decide" /\ n.policy = Locked
            \/ /\ e.usable /\ q.next = LastOf(q)
               /\ n.phase = "decide" /\ n.policy = WithStartup(p, startup)
            \/ /\ e.usable /\ q.next < LastOf(q)
               /\ n.phase = "reading" /\ n.next = q.next + 1
               /\ n.policy = p
    BY <1>3, IInvTInv, ReadEffect
<1>6. n.policy \in Policy
    BY DEF Request
<1>7. Folding(n, hist[r], env) /\ Folded(n, hist[r], startup)
    BY <1>1, <1>2, <1>4, <1>5, <1>6, FoldGoesOn
<1>8. TInv'
    BY <1>3, IInvTInv, TInvRead
<1>9. hist' = [hist EXCEPT ![r] = hist[r]]
    BY <1>1, <1>2
<1> QED BY <1>1, <1>5, <1>7, <1>8, <1>9, OneMoves

LEMMA FinishKeeps ==
    ASSUME IInv, NEW r \in Requests, Finish(r), issued' \subseteq Session
    PROVE  IInv'
<1>1. TInv'
    BY IInvTInv, TInvFinish
<1>2. Folding(Idle, Blank, env) /\ Folded(Idle, Blank, startup)
    BY DEF Folding, Folded, Idle
<1>3. /\ req' = [req EXCEPT ![r] = Idle] /\ hist' = [hist EXCEPT ![r] = Blank]
      /\ UNCHANGED <<env, startup>>
    BY DEF Finish
<1> QED BY <1>1, <1>2, <1>3, OneMoves

LEMMA SucceedsKeeps ==
    ASSUME IInv, NEW r \in Requests, NEW w \in Passwords, LoginSucceeds(r, w)
    PROVE  IInv'
<1> DEFINE s == [version |-> Version(req[r].policy), at |-> now, run |-> run,
                 proved |-> w, settings |-> req[r].policy.chain,
                 kind |-> req[r].kind, path |-> req[r].path, since |-> hist[r].since]
<1>1. /\ req[r].policy \in Policy /\ req[r].path \in Path
      /\ hist[r].since \in 0 .. MaxEdits
      /\ now \in 0 .. MaxTime /\ run \in 0 .. MaxRuns
    BY DEF IInv, TypeOK, Request, History
<1>2. req[r].policy.chain \in SUBSET Setting
    BY <1>1 DEF Policy
<1>3. Version(req[r].policy) \in (SUBSET Setting) \X Positions \X (Passwords \cup {None})
    BY <1>1, VersionType
<1>4. s \in Session
    <2>1. req[r].kind \in {"login", "form"}
        BY DEF LoginSucceeds, IInv, TypeOK, Request
    <2> QED BY <1>1, <1>2, <1>3, <2>1 DEF Session
<1>5. issued' = issued \cup {s} /\ Finish(r)
    BY DEF LoginSucceeds
<1> HIDE DEF s
<1>6. issued' \subseteq Session
    BY <1>4, <1>5 DEF IInv, TypeOK
<1> QED BY <1>5, <1>6, FinishKeeps

LEMMA EditKeeps ==
    ASSUME IInv, NEW i \in Positions, Edit(i)
    PROVE  IInv'
<1>1. TInv'
    BY IInvTInv, TInvEdit
<1>2. /\ env \in Chain /\ env' \in Chain /\ req' = req /\ startup' = startup
      /\ \A j \in Positions \ {i} : env'[j] = env[j]
    BY <1>1 DEF Edit, IInv, TInv, TypeOK, Chain
<1>3. ASSUME NEW x \in Requests
      PROVE  Folding(req[x], hist'[x], env') /\ Folded(req[x], hist'[x], startup)
    <2>1. /\ Folding(req[x], hist[x], env) /\ Folded(req[x], hist[x], startup)
          /\ req[x].path \in Path /\ hist[x] \in History
        BY DEF IInv, TypeOK, Request
    <2>2. CASE Observes(x, i)
        <3>1. hist'[x].seen = hist[x].seen \cup {env'}
            BY <2>1, <2>2 DEF Edit, History
        <3>2. req[x].phase = "reading"
            BY <2>2 DEF Observes
        <3> QED BY <2>1, <3>1, <3>2, FoldSees
    <2>3. CASE ~Observes(x, i)
        <3>1. hist'[x] = hist[x]
            BY <2>3 DEF Edit
        <3>2. req[x].phase = "reading" => i > LastOf(req[x])
            BY <2>1, <2>3, LastInPositions, FoldedPolicyAssumption DEF Observes, Positions
        <3>3. Folding(req[x], hist[x], env')
            BY <1>2, <2>1, <3>2, FoldIgnores
        <3> QED BY <2>1, <3>1, <3>3
    <2> QED BY <2>2, <2>3
<1> QED BY <1>1, <1>2, <1>3 DEF IInv, TInv

LEMMA ClockKeeps ==
    ASSUME IInv, SetClock
    PROVE  IInv'
<1>1. now' \in 0 .. MaxTime /\ UNCHANGED <<env, startup, run, issued, req, hist, edits>>
    BY DEF SetClock
<1> QED BY <1>1 DEF IInv, TypeOK

LEMMA RestartKeeps ==
    ASSUME IInv, Restart
    PROVE  IInv'
<1>1. /\ run' = run + 1 /\ run < MaxRuns /\ startup' \in Startups
      /\ UNCHANGED <<env, now, issued, edits>>
    BY DEF Restart
<1>2. req' = [r \in Requests |-> Idle] /\ hist' = [r \in Requests |-> Blank]
    BY DEF Restart
<1>3. run' \in 0 .. MaxRuns /\ startup' \in Passwords \cup {None}
    BY <1>1, DirectoryPolicyAssumption DEF IInv, TypeOK
<1>4. TypeOK'
    BY <1>1, <1>2, <1>3, IdleType, BlankType DEF IInv, TypeOK
<1>5. ASSUME NEW r \in Requests
      PROVE  /\ hist'[r].edits <= edits'
             /\ Folding(req'[r], hist'[r], env') /\ Folded(req'[r], hist'[r], startup')
    <2>1. req'[r].phase = "idle" /\ hist'[r].edits = 0
        BY <1>2 DEF Idle, Blank
    <2>2. 0 <= edits'
        BY <1>1 DEF IInv, TypeOK
    <2> QED BY <2>1, <2>2 DEF Folding, Folded
<1> QED BY <1>4, <1>5 DEF IInv

-----------------------------------------------------------------------------
(* The theorems.                                                            *)

LEMMA IInvInit == Init => IInv
<1> SUFFICES ASSUME Init PROVE IInv
    OBVIOUS
<1>1. TInv
    BY TInvInit
<1>2. ASSUME NEW r \in Requests
      PROVE  Folding(req[r], hist[r], env) /\ Folded(req[r], hist[r], startup)
    <2>1. req[r].phase = "idle"
        BY DEF Init, Idle
    <2> QED BY <2>1 DEF Folding, Folded
<1> QED BY <1>1, <1>2 DEF IInv, TInv

LEMMA IInvNext == IInv /\ [Next]_vars => IInv'
<1> SUFFICES ASSUME IInv, [Next]_vars PROVE IInv'
    OBVIOUS
<1>1. ASSUME NEW r \in Requests, Begin(r) \/ BeginLogin(r) \/ BeginForm(r)
      PROVE  IInv'
    BY <1>1, BeginKeeps
<1>2. ASSUME NEW r \in Requests, Read(r)
      PROVE  IInv'
    BY <1>2, ReadKeeps
<1>3. ASSUME NEW r \in Requests, SecondLook(r)
      PROVE  IInv'
    BY <1>3, SecondLookKeeps
<1>4. ASSUME NEW r \in Requests, LoginFails(r) \/ \E v \in Verdicts : Answer(r, v)
      PROVE  IInv'
    <2>1. Finish(r) /\ issued' = issued
        BY <1>4 DEF LoginFails, Answer
    <2>2. issued' \subseteq Session
        BY <2>1 DEF IInv, TypeOK
    <2> QED BY <2>1, <2>2, FinishKeeps
<1>5. ASSUME NEW r \in Requests, NEW w \in Passwords, LoginSucceeds(r, w)
      PROVE  IInv'
    BY <1>5, SucceedsKeeps
<1>6. ASSUME NEW i \in Positions, Edit(i)
      PROVE  IInv'
    BY <1>6, EditKeeps
<1>7. CASE SetClock
    BY <1>7, ClockKeeps
<1>8. CASE Restart
    BY <1>8, RestartKeeps
<1>9. CASE UNCHANGED vars
    BY <1>9 DEF vars, IInv, TypeOK
<1> QED BY <1>1, <1>2, <1>3, <1>4, <1>5, <1>6, <1>7, <1>8, <1>9 DEF Next

\* The fold of every request in flight keeps to what it has seen, for any depth,
\* entries, requests and number of changes.
THEOREM Inductive == Spec => []IInv
BY IInvInit, IInvNext, PTL DEF Spec

\* Types, of the files, sessions, policies and requests.
THEOREM TypeCorrect == Spec => []TypeOK
<1>1. IInv => TypeOK
    BY DEF IInv
<1> QED BY <1>1, Inductive, PTL

\* What was closed all the time a policy was read is not opened by it.
THEOREM ClosedIsNotOpened == Spec => ClosedStaysClosed
<1>1. ASSUME IInv, [Next]_vars
      PROVE  [\A r \in Requests : Answer(r, "open") =>
                 startup = None /\ KeptClosed(req[r], hist[r]) = {}]_vars
    <2>1. ASSUME NEW r \in Requests, Answer(r, "open")
          PROVE  startup = None /\ KeptClosed(req[r], hist[r]) = {}
        <3>1. req[r].phase = "decide" /\ Verdict(req[r]) = "open"
            BY <2>1 DEF Answer
        <3>2. ~Protected(req[r].policy)
            BY <3>1 DEF Verdict
        <3>3. Folded(req[r], hist[r], startup)
            BY <1>1 DEF IInv
        <3> QED BY <3>1, <3>2, <3>3 DEF Folded
    <2> QED BY <2>1
<1> QED BY <1>1, Inductive, PTL DEF Spec, ClosedStaysClosed

\* Where a file was unusable all the time a policy was read, the policy lets
\* nobody in and no session is issued for it.
THEOREM BrokenIsLocked == Spec => BrokenLocks
<1>1. ASSUME IInv, [Next]_vars
      PROVE  [\A r \in Requests : Lets(r) => KeptBroken(req[r], hist[r]) = {}]_vars
    <2>1. ASSUME NEW r \in Requests, Lets(r)
          PROVE  KeptBroken(req[r], hist[r]) = {}
        <3>1. CASE \E w \in Passwords : LoginSucceeds(r, w)
            <4>1. req[r].phase = "decide" /\ ~req[r].policy.locked
                BY <3>1 DEF LoginSucceeds
            <4> QED BY <1>1, <4>1 DEF IInv, Folded
        <3>2. CASE Answer(r, "open") \/ Answer(r, "session")
            <4>1. /\ req[r].phase = "decide"
                  /\ Verdict(req[r]) \in {"open", "session"}
                BY <3>2 DEF Answer
            <4>2. ~req[r].policy.locked
                BY <4>1 DEF Verdict, Protected
            <4> QED BY <1>1, <4>1, <4>2 DEF IInv, Folded
        <3> QED BY <2>1, <3>1, <3>2 DEF Lets
    <2> QED BY <2>1
<1> QED BY <1>1, Inductive, PTL DEF Spec, BrokenLocks

-----------------------------------------------------------------------------
(* What is read while at most one file changes was in force.                *)

\* What a request has folded is the policy of a chain d, as far as it has come.
SoFar(q, d) ==
    /\ \A i \in 0 .. q.next - 1 : d[i].usable
    /\ q.policy = IF q.next = 0 THEN Unprotected ELSE PolicyOf(d, q.next - 1, None)

\* d is a chain that the request has seen, and what is ahead of it is as in d.
\* Before anything changes that holds of every chain it has seen; a change behind
\* it leaves d as it is, and after one ahead of it the changed chain will do.
Along(q, h, c) ==
    q.phase = "reading" /\ h.edits <= 1 =>
        /\ h.edits = 0 => \A d \in h.seen : \A i \in 0 .. LastOf(q) : d[i] = c[i]
        /\ \E d \in h.seen : /\ SoFar(q, d)
                             /\ \A i \in q.next .. LastOf(q) : d[i] = c[i]

Arrived(q, h, s) ==
    q.phase = "decide" /\ h.edits <= 1 =>
        \E d \in h.seen : q.policy = PolicyOf(d, LastOf(q), s)

WInv == \A r \in Requests : /\ Along(req[r], hist[r], env)
                            /\ Arrived(req[r], hist[r], startup)

LEMMA AlongGoesOn ==
    ASSUME NEW q, q.phase = "reading", q.path \in Path, q.next \in 0 .. LastOf(q),
           NEW h \in History, NEW c \in Chain, NEW s \in Passwords \cup {None},
           Along(q, h, c),
           NEW n, n.kind = q.kind, n.path = q.path,
           LET e == c[q.next]
               p == Merge(q.policy, q.next, e)
           IN  \/ ~e.usable /\ n.phase = "decide" /\ n.policy = Locked
               \/ /\ e.usable /\ q.next = LastOf(q)
                  /\ n.phase = "decide" /\ n.policy = WithStartup(p, s)
               \/ /\ e.usable /\ q.next < LastOf(q)
                  /\ n.phase = "reading" /\ n.next = q.next + 1
                  /\ n.policy = p
    PROVE  Along(n, h, c) /\ Arrived(n, h, s)
<1> DEFINE k == q.next
           last == LastOf(q)
           e == c[k]
           p == Merge(q.policy, k, e)
<1>1. LastOf(n) = last
    BY DEF LastOf
<1>2. last \in Positions /\ last \in Nat /\ k \in Nat /\ k <= last /\ k \in Positions
    <2>1. last \in Positions
        BY LastInPositions
    <2> QED BY <2>1, FoldedPolicyAssumption DEF Positions
<1> SUFFICES ASSUME h.edits <= 1
             PROVE  Along(n, h, c) /\ Arrived(n, h, s)
    BY DEF Along, Arrived
<1>3. h.edits = 0 => \A d \in h.seen : \A i \in 0 .. last : d[i] = c[i]
    BY DEF Along
<1>4. PICK d \in h.seen : /\ SoFar(q, d)
                          /\ \A i \in k .. last : d[i] = c[i]
    BY DEF Along
<1>5. d \in Chain
    BY DEF History
<1>6. d[k] = e
    BY <1>2, <1>4
<1>7. ASSUME e.usable
      PROVE  p = PolicyOf(d, k, None) /\ \A i \in 0 .. k : d[i].usable
    <2>1. \A i \in 0 .. k : d[i].usable
        BY <1>2, <1>4, <1>6, <1>7 DEF SoFar
    <2>2. CASE k = 0
        <3>1. q.policy = Unprotected
            BY <1>4, <2>2 DEF SoFar
        <3>2. d[0].usable /\ d[0] = e
            BY <1>6, <1>7, <2>2
        <3> QED BY <1>5, <2>1, <2>2, <3>1, <3>2, FoldBegins
    <2>3. CASE k # 0
        <3> DEFINE i == k - 1
        <3>1. i \in Positions /\ i + 1 = k
            BY <1>2, <2>3, FoldedPolicyAssumption DEF Positions
        <3>2. q.policy = PolicyOf(d, i, None)
            BY <1>4, <2>3 DEF SoFar
        <3> HIDE DEF i
        <3>3. PolicyOf(d, i + 1, None) = Merge(PolicyOf(d, i, None), i + 1, d[i + 1])
            BY <1>2, <1>5, <2>1, <3>1, FoldGoesOnBy
        <3> QED BY <1>6, <2>1, <3>1, <3>2, <3>3
    <2> QED BY <2>2, <2>3
<1> HIDE DEF p
<1>8. CASE ~e.usable /\ n.phase = "decide" /\ n.policy = Locked
    <2>1. \E i \in 0 .. last : ~d[i].usable
        BY <1>2, <1>6, <1>8
    <2>2. PolicyOf(d, last, s) = Locked
        BY <2>1 DEF PolicyOf
    <2> QED BY <1>1, <1>8, <2>2 DEF Along, Arrived
<1>9. CASE /\ e.usable /\ k = last
           /\ n.phase = "decide" /\ n.policy = WithStartup(p, s)
    <2>1. p = PolicyOf(d, last, None) /\ \A i \in 0 .. last : d[i].usable
        BY <1>7, <1>9
    <2>2. n.policy = PolicyOf(d, last, s)
        BY <1>2, <1>5, <1>9, <2>1, FoldEnds
    <2> QED BY <1>1, <1>9, <2>2 DEF Along, Arrived
<1>10. CASE /\ e.usable /\ k < last
            /\ n.phase = "reading" /\ n.next = k + 1 /\ n.policy = p
    <2>1. p = PolicyOf(d, k, None) /\ \A i \in 0 .. k : d[i].usable
        BY <1>7, <1>10
    <2>2. n.next - 1 = k /\ n.next # 0
        BY <1>2, <1>10
    <2>3. SoFar(n, d)
        BY <1>10, <2>1, <2>2 DEF SoFar
    <2>4. \A i \in n.next .. last : d[i] = c[i]
        BY <1>2, <1>4, <1>10
    <2> QED BY <1>1, <1>3, <1>10, <2>3, <2>4 DEF Along, Arrived
<1>11. \/ ~e.usable /\ n.phase = "decide" /\ n.policy = Locked
       \/ /\ e.usable /\ k = last
          /\ n.phase = "decide" /\ n.policy = WithStartup(p, s)
       \/ /\ e.usable /\ k < last
          /\ n.phase = "reading" /\ n.next = k + 1 /\ n.policy = p
    BY DEF p
<1> QED BY <1>8, <1>9, <1>10, <1>11

LEMMA AlongSees ==
    ASSUME NEW q, q.phase = "reading", q.path \in Path, q.next \in 0 .. LastOf(q),
           NEW h \in History, NEW c \in Chain, NEW d \in Chain, NEW g,
           Along(q, h, c), NEW j \in Positions,
           \A i \in Positions \ {j} : d[i] = c[i],
           g.seen = h.seen \cup {d}, g.edits = h.edits + 1
    PROVE  Along(q, g, d)
<1> DEFINE k == q.next
           last == LastOf(q)
<1>1. last \in Positions /\ 0 .. last \subseteq Positions /\ last \in Nat /\ k \in Nat /\ k <= last
    <2>1. last \in Positions
        BY LastInPositions
    <2> QED BY <2>1, FoldedPolicyAssumption DEF Positions
<1>2. h.edits \in Nat /\ g.edits # 0 /\ j \in Nat
    BY FoldedPolicyAssumption, DirectoryPolicyAssumption DEF History, Positions
<1> SUFFICES ASSUME g.edits <= 1
             PROVE  \E x \in g.seen : /\ SoFar(q, x)
                                      /\ \A i \in k .. last : x[i] = d[i]
    BY <1>2 DEF Along
<1>3. h.edits = 0
    BY <1>2
<1>4. \A x \in h.seen : \A i \in 0 .. last : x[i] = c[i]
    BY <1>3 DEF Along
<1>5. PICK x \in h.seen : SoFar(q, x)
    BY <1>3 DEF Along
<1>6. x \in Chain
    BY DEF History
<1>7. CASE j < k
    <2>1. \A i \in k .. last : i \in Positions \ {j} /\ i \in 0 .. last
        BY <1>1, <1>2, <1>7
    <2>2. \A i \in k .. last : x[i] = d[i]
        BY <1>4, <2>1
    <2> QED BY <1>5, <2>2
<1>8. CASE ~(j < k)
    <2>1. \A i \in 0 .. k - 1 : i \in Positions \ {j} /\ i \in 0 .. last
        BY <1>1, <1>2, <1>8
    <2>2. \A i \in 0 .. k - 1 : x[i] = d[i]
        BY <1>4, <2>1
    <2>3. k # 0 => PolicyOf(x, k - 1, None) = PolicyOf(d, k - 1, None)
        <3> SUFFICES ASSUME k # 0 PROVE PolicyOf(x, k - 1, None) = PolicyOf(d, k - 1, None)
            OBVIOUS
        <3>1. k - 1 \in Positions
            BY <1>1
        <3> QED BY <1>6, <2>2, <3>1, PolicyOnTheWay
    <2>4. SoFar(q, d)
        BY <1>5, <2>2, <2>3 DEF SoFar
    <2> QED BY <2>4
<1> QED BY <1>7, <1>8

LEMMA AlongIgnores ==
    ASSUME NEW q, q.path \in Path, NEW h, NEW c \in Chain, Along(q, h, c),
           q.phase = "reading" => q.next \in 0 .. LastOf(q),
           NEW j \in Positions, NEW d \in Chain,
           \A i \in Positions \ {j} : d[i] = c[i],
           q.phase = "reading" => j > LastOf(q)
    PROVE  Along(q, h, d)
<1>1. LastOf(q) \in Positions
    BY LastInPositions
<1>2. ASSUME q.phase = "reading"
      PROVE  \A i \in 0 .. LastOf(q) : d[i] = c[i]
    BY <1>1, <1>2, FoldedPolicyAssumption DEF Positions
<1>3. ASSUME q.phase = "reading"
      PROVE  \A i \in q.next .. LastOf(q) : d[i] = c[i]
    BY <1>1, <1>2, <1>3
<1> QED BY <1>2, <1>3 DEF Along

LEMMA WOneMoves ==
    ASSUME IInv, WInv, UNCHANGED <<env, startup>>,
           NEW r \in Requests, NEW n, NEW h,
           req' = [req EXCEPT ![r] = n], hist' = [hist EXCEPT ![r] = h],
           Along(n, h, env), Arrived(n, h, startup)
    PROVE  WInv'
<1>1. req \in [Requests -> Request] /\ hist \in [Requests -> History]
    BY DEF IInv, TypeOK
<1>2. env' = env /\ startup' = startup
    OBVIOUS
<1>3. ASSUME NEW x \in Requests
      PROVE  Along(req'[x], hist'[x], env') /\ Arrived(req'[x], hist'[x], startup')
    <2>1. CASE x = r
        <3>1. req'[x] = n /\ hist'[x] = h
            BY <1>1, <2>1
        <3> QED BY <1>2, <3>1
    <2>2. CASE x # r
        <3>1. req'[x] = req[x] /\ hist'[x] = hist[x]
            BY <1>1, <2>2
        <3>2. Along(req[x], hist[x], env) /\ Arrived(req[x], hist[x], startup)
            BY DEF WInv
        <3> QED BY <1>2, <3>1, <3>2
    <2> QED BY <2>1, <2>2
<1> QED BY <1>3 DEF WInv

LEMMA WStartKeeps ==
    ASSUME IInv, WInv, NEW r \in Requests, NEW q \in Request,
           q.next = 0, q.policy = Unprotected, StartReading(r, q)
    PROVE  WInv'
<1> DEFINE n == [q EXCEPT !.phase = "reading"]
           h == [seen |-> {env}, edits |-> 0, since |-> edits]
<1>1. n.phase = "reading" /\ n.next = 0 /\ n.policy = Unprotected
    BY DEF Request
<1>2. h.seen = {env}
    OBVIOUS
<1>3. /\ req' = [req EXCEPT ![r] = n] /\ hist' = [hist EXCEPT ![r] = h]
      /\ UNCHANGED <<env, startup>>
    BY DEF StartReading
<1> HIDE DEF n, h
<1>4. SoFar(n, env)
    BY <1>1 DEF SoFar
<1>5. Along(n, h, env) /\ Arrived(n, h, startup)
    BY <1>1, <1>2, <1>4 DEF Along, Arrived
<1> QED BY <1>3, <1>5, WOneMoves

LEMMA WBeginKeeps ==
    ASSUME IInv, WInv, NEW r \in Requests, Begin(r) \/ BeginLogin(r) \/ BeginForm(r)
    PROVE  WInv'
<1>1. CASE Begin(r)
    <2>1. PICK p \in Path, s \in issued \cup {NoSession} :
              StartReading(r, [Idle EXCEPT !.path = p, !.session = s])
        BY <1>1 DEF Begin
    <2> DEFINE q == [Idle EXCEPT !.path = p, !.session = s]
    <2>2. s \in Session \cup {NoSession}
        BY DEF IInv, TypeOK
    <2>3. q \in Request
        BY <2>2, IdleType DEF Request
    <2>4. q.next = 0 /\ q.policy = Unprotected
        BY DEF Idle
    <2>5. StartReading(r, q)
        BY <2>1
    <2> HIDE DEF q
    <2> QED BY <2>3, <2>4, <2>5, WStartKeeps
<1>2. CASE BeginLogin(r)
    <2>1. PICK p \in Path :
              StartReading(r, [Idle EXCEPT !.kind = "login", !.path = p])
        BY <1>2 DEF BeginLogin, ReturnTargets
    <2> DEFINE q == [Idle EXCEPT !.kind = "login", !.path = p]
    <2>2. q \in Request
        BY IdleType DEF Request
    <2>3. q.next = 0 /\ q.policy = Unprotected
        BY DEF Idle
    <2>4. StartReading(r, q)
        BY <2>1
    <2> HIDE DEF q
    <2> QED BY <2>2, <2>3, <2>4, WStartKeeps
<1>3. CASE BeginForm(r)
    <2>1. PICK p \in Path :
              StartReading(r, [Idle EXCEPT !.kind = "form", !.path = p])
        BY <1>3 DEF BeginForm, ReturnTargets
    <2> DEFINE q == [Idle EXCEPT !.kind = "form", !.path = p]
    <2>2. q \in Request
        BY IdleType DEF Request
    <2>3. q.next = 0 /\ q.policy = Unprotected
        BY DEF Idle
    <2>4. StartReading(r, q)
        BY <2>1
    <2> HIDE DEF q
    <2> QED BY <2>2, <2>3, <2>4, WStartKeeps
<1> QED BY <1>1, <1>2, <1>3

LEMMA WSecondLookKeeps ==
    ASSUME IInv, WInv, NEW r \in Requests, SecondLook(r)
    PROVE  WInv'
<1> DEFINE q == [req[r] EXCEPT !.next = 0, !.again = TRUE, !.policy = Unprotected]
<1>1. req[r] \in Request /\ 0 \in Positions
    BY FoldedPolicyAssumption DEF IInv, TypeOK, Positions
<1>2. q \in Request
    BY <1>1, FixedPolicies DEF Request
<1>3. q.next = 0 /\ q.policy = Unprotected
    BY <1>1 DEF Request
<1>4. StartReading(r, q)
    BY DEF SecondLook
<1> HIDE DEF q
<1> QED BY <1>2, <1>3, <1>4, WStartKeeps

LEMMA WReadKeeps ==
    ASSUME IInv, WInv, NEW r \in Requests, Read(r)
    PROVE  WInv'
<1> DEFINE q == req[r]
           p == Merge(q.policy, q.next, env[q.next])
<1>1. q.phase = "reading" /\ UNCHANGED <<env, startup, hist>>
    BY DEF Read
<1>2. /\ q.path \in Path /\ env \in Chain /\ hist[r] \in History
      /\ startup \in Passwords \cup {None}
      /\ Folding(q, hist[r], env) /\ hist \in [Requests -> History]
    BY DEF IInv, TypeOK, Request
<1>3. q.next \in 0 .. LastOf(q)
    BY <1>1, <1>2 DEF Folding
<1>4. PICK n \in Request :
         /\ req' = [req EXCEPT ![r] = n]
         /\ n.kind = q.kind /\ n.path = q.path
         /\ LET e == env[q.next] IN
            \/ ~e.usable /\ n.phase = "decide" /\ n.policy = Locked
            \/ /\ e.usable /\ q.next = LastOf(q)
               /\ n.phase = "decide" /\ n.policy = WithStartup(p, startup)
            \/ /\ e.usable /\ q.next < LastOf(q)
               /\ n.phase = "reading" /\ n.next = q.next + 1
               /\ n.policy = p
    BY <1>3, IInvTInv, ReadEffect
<1>5. Along(q, hist[r], env)
    BY DEF WInv
<1>6. Along(n, hist[r], env) /\ Arrived(n, hist[r], startup)
    BY <1>1, <1>2, <1>3, <1>4, <1>5, AlongGoesOn
<1>7. hist' = [hist EXCEPT ![r] = hist[r]]
    BY <1>1, <1>2
<1> QED BY <1>1, <1>4, <1>6, <1>7, WOneMoves

LEMMA WFinishKeeps ==
    ASSUME IInv, WInv, NEW r \in Requests, Finish(r)
    PROVE  WInv'
<1>1. Along(Idle, Blank, env) /\ Arrived(Idle, Blank, startup)
    BY DEF Along, Arrived, Idle
<1>2. /\ req' = [req EXCEPT ![r] = Idle] /\ hist' = [hist EXCEPT ![r] = Blank]
      /\ UNCHANGED <<env, startup>>
    BY DEF Finish
<1> QED BY <1>1, <1>2, WOneMoves

LEMMA WEditKeeps ==
    ASSUME IInv, WInv, NEW i \in Positions, Edit(i), TInv'
    PROVE  WInv'
<1>1. /\ env \in Chain /\ env' \in Chain /\ req' = req /\ startup' = startup
      /\ \A j \in Positions \ {i} : env'[j] = env[j]
    BY DEF Edit, IInv, TInv, TypeOK, Chain
<1>2. ASSUME NEW x \in Requests
      PROVE  Along(req[x], hist'[x], env') /\ Arrived(req[x], hist'[x], startup)
    <2>1. /\ Along(req[x], hist[x], env) /\ Arrived(req[x], hist[x], startup)
          /\ Folding(req[x], hist[x], env)
          /\ req[x].path \in Path /\ hist[x] \in History
        BY DEF IInv, TypeOK, Request, WInv
    <2>2. req[x].phase = "reading" => req[x].next \in 0 .. LastOf(req[x])
        BY <2>1 DEF Folding
    <2>3. CASE Observes(x, i)
        <3>1. /\ hist'[x].seen = hist[x].seen \cup {env'}
              /\ hist'[x].edits = hist[x].edits + 1
            BY <2>1, <2>3 DEF Edit, History
        <3>2. req[x].phase = "reading"
            BY <2>3 DEF Observes
        <3>3. Along(req[x], hist'[x], env')
            BY <1>1, <2>1, <2>2, <3>1, <3>2, AlongSees
        <3> QED BY <3>2, <3>3 DEF Arrived
    <2>4. CASE ~Observes(x, i)
        <3>1. hist'[x] = hist[x]
            BY <2>4 DEF Edit
        <3>2. req[x].phase = "reading" => i > LastOf(req[x])
            BY <2>1, <2>4, LastInPositions, FoldedPolicyAssumption DEF Observes, Positions
        <3>3. Along(req[x], hist[x], env')
            BY <1>1, <2>1, <2>2, <3>2, AlongIgnores
        <3> QED BY <2>1, <3>1, <3>3
    <2> QED BY <2>3, <2>4
<1> QED BY <1>1, <1>2 DEF WInv

LEMMA WInvNext == IInv /\ WInv /\ IInv' /\ [Next]_vars => WInv'
<1> SUFFICES ASSUME IInv, WInv, IInv', [Next]_vars PROVE WInv'
    OBVIOUS
<1>1. ASSUME NEW r \in Requests, Begin(r) \/ BeginLogin(r) \/ BeginForm(r)
      PROVE  WInv'
    BY <1>1, WBeginKeeps
<1>2. ASSUME NEW r \in Requests, Read(r)
      PROVE  WInv'
    BY <1>2, WReadKeeps
<1>3. ASSUME NEW r \in Requests, SecondLook(r)
      PROVE  WInv'
    BY <1>3, WSecondLookKeeps
<1>4. ASSUME NEW r \in Requests, LoginFails(r) \/ \E v \in Verdicts : Answer(r, v)
      PROVE  WInv'
    <2>1. Finish(r)
        BY <1>4 DEF LoginFails, Answer
    <2> QED BY <2>1, WFinishKeeps
<1>5. ASSUME NEW r \in Requests, NEW w \in Passwords, LoginSucceeds(r, w)
      PROVE  WInv'
    <2>1. Finish(r)
        BY <1>5 DEF LoginSucceeds
    <2> QED BY <2>1, WFinishKeeps
<1>6. ASSUME NEW i \in Positions, Edit(i)
      PROVE  WInv'
    <2>1. TInv'
        BY DEF IInv, TInv
    <2> QED BY <1>6, <2>1, WEditKeeps
<1>7. CASE SetClock
    BY <1>7 DEF SetClock, WInv
<1>8. CASE Restart
    BY <1>8 DEF Restart, WInv, Along, Arrived, Idle
<1>9. CASE UNCHANGED vars
    BY <1>9 DEF vars, WInv
<1> QED BY <1>1, <1>2, <1>3, <1>4, <1>5, <1>6, <1>7, <1>8, <1>9 DEF Next

LEMMA WInvInit == Init => WInv
<1> SUFFICES ASSUME Init, NEW r \in Requests
             PROVE  Along(req[r], hist[r], env) /\ Arrived(req[r], hist[r], startup)
    BY DEF WInv
<1>1. req[r].phase = "idle"
    BY DEF Init, Idle
<1> QED BY <1>1 DEF Along, Arrived

LEMMA AlwaysAlong == Spec => []WInv
BY WInvInit, WInvNext, Inductive, PTL DEF Spec

\* A policy that is read file by file while at most one file changes is the one
\* that the whole chain had at some moment of the reading, for any depth.
THEOREM ReadsWhatWas == Spec => []PolicyWasInForce
<1>1. WInv => PolicyWasInForce
    BY DEF WInv, Arrived, PolicyWasInForce
<1> QED BY <1>1, AlwaysAlong, PTL

-----------------------------------------------------------------------------
(* What a session is bound to.                                              *)

PasswordsIn(S) == {x \in S : x[2] = "password"}

\* No position sets the same thing twice.
Sole(S) == \A x, y \in S : x[1] = y[1] /\ x[2] = y[2] => x[3] = y[3]

\* What the settings S of a chain, and the start-up password s, say of who
\* protects it with what.
Tells(S, boundary, password, s) ==
    IF PasswordsIn(S) = {}
    THEN password = s /\ boundary = (IF s # None THEN 0 ELSE 1)
    ELSE /\ <<boundary, "password", password>> \in S
         /\ \A x \in PasswordsIn(S) : x[1] <= boundary

\* So a version says nothing that its settings do not.
LEMMA ToldOnce ==
    ASSUME NEW S \in SUBSET Setting, Sole(S), NEW s,
           NEW b \in Positions, NEW p, Tells(S, b, p, s),
           NEW c \in Positions, NEW w, Tells(S, c, w, s)
    PROVE  b = c /\ p = w
<1>1. CASE PasswordsIn(S) = {}
    BY <1>1 DEF Tells
<1>2. CASE PasswordsIn(S) # {}
    <2> DEFINE x == <<b, "password", p>>
               y == <<c, "password", w>>
    <2>1. x \in PasswordsIn(S) /\ y \in PasswordsIn(S)
        BY <1>2 DEF Tells, PasswordsIn
    <2>2. x[1] <= c /\ y[1] <= b
        BY <1>2, <2>1 DEF Tells
    <2>3. b = c
        BY <2>2, FoldedPolicyAssumption DEF Positions
    <2>4. x[3] = y[3]
        BY <2>1, <2>3 DEF Sole, PasswordsIn
    <2> QED BY <2>3, <2>4
<1> QED BY <1>1, <1>2

LEMMA MergeTells ==
    ASSUME NEW p \in Policy, Sole(p.chain), Tells(p.chain, p.boundary, p.password, None),
           NEW k \in Positions, \A x \in p.chain : x[1] < k, NEW e \in Entry
    PROVE  LET m == Merge(p, k, e) IN
           /\ Sole(m.chain) /\ Tells(m.chain, m.boundary, m.password, None)
           /\ \A x \in m.chain : x[1] <= k
<1> DEFINE S == SettingsOf(k, e)
           m == Merge(p, k, e)
           T == p.chain \cup S
<1>1. /\ m.chain = T
      /\ m.password = IF e.password # None THEN e.password ELSE p.password
      /\ m.boundary = IF e.password # None THEN k ELSE p.boundary
    BY DEF Merge
<1>2. /\ \A x \in S : x[1] = k /\ x[2] \in {"password", "scripts"}
      /\ \A x \in S : x[2] = "password" => x = <<k, "password", e.password>> /\ e.password # None
      /\ \A x \in S : x[2] = "scripts" => x = <<k, "scripts", e.scripts>>
      /\ e.password # None => <<k, "password", e.password>> \in S
    BY DEF SettingsOf
<1>3. k \in Int /\ \A x \in p.chain : x[1] \in Int
    BY FoldedPolicyAssumption DEF Positions, Policy, Setting
<1> HIDE DEF m, S
<1>4. \A x \in T : x[1] <= k
    BY <1>2, <1>3
<1>5. Sole(T)
    <2> SUFFICES ASSUME NEW x \in T, NEW y \in T, x[1] = y[1], x[2] = y[2]
                 PROVE  x[3] = y[3]
        BY DEF Sole
    <2>1. CASE x \in S /\ y \in S
        <3>1. CASE x[2] = "password"
            BY <1>2, <2>1, <3>1
        <3>2. CASE x[2] = "scripts"
            BY <1>2, <2>1, <3>2
        <3> QED BY <1>2, <2>1, <3>1, <3>2
    <2>2. CASE x \in p.chain /\ y \in p.chain
        BY <2>2 DEF Sole
    <2>3. CASE (x \in S /\ y \in p.chain) \/ (x \in p.chain /\ y \in S)
        BY <1>2, <1>3, <2>3
    <2>4. (x \in S \/ x \in p.chain) /\ (y \in S \/ y \in p.chain)
        OBVIOUS
    <2> QED BY <2>1, <2>2, <2>3, <2>4
<1>6. CASE e.password # None
    <2>1. <<k, "password", e.password>> \in T
        BY <1>2, <1>6
    <2>2. PasswordsIn(T) # {}
        BY <2>1 DEF PasswordsIn
    <2>3. \A x \in PasswordsIn(T) : x[1] <= k
        BY <1>4 DEF PasswordsIn
    <2>4. Tells(T, k, e.password, None)
        BY <2>1, <2>2, <2>3 DEF Tells
    <2> QED BY <1>1, <1>4, <1>5, <1>6, <2>4 DEF m
<1>7. CASE e.password = None
    <2>1. PasswordsIn(T) = PasswordsIn(p.chain)
        BY <1>2, <1>7 DEF PasswordsIn
    <2>2. Tells(T, p.boundary, p.password, None)
        BY <2>1 DEF Tells
    <2> QED BY <1>1, <1>4, <1>5, <1>7, <2>2 DEF m
<1> QED BY <1>6, <1>7

LEMMA StartupTells ==
    ASSUME NEW p \in Policy, ~p.locked, Tells(p.chain, p.boundary, p.password, None),
           NEW s \in Passwords \cup {None}
    PROVE  LET w == WithStartup(p, s) IN
           w.chain = p.chain /\ ~w.locked /\ Tells(w.chain, w.boundary, w.password, s)
<1>1. CASE PasswordsIn(p.chain) = {}
    <2>1. p.password = None /\ p.boundary = 1 /\ ~Protected(p)
        BY <1>1 DEF Tells, Protected
    <2>2. CASE s = None
        BY <2>1, <2>2 DEF WithStartup
    <2>3. CASE s # None
        <3>1. WithStartup(p, s) = [p EXCEPT !.password = s, !.boundary = 0]
            BY <2>1, <2>3 DEF WithStartup
        <3>2. /\ WithStartup(p, s).chain = p.chain /\ ~WithStartup(p, s).locked
              /\ WithStartup(p, s).password = s /\ WithStartup(p, s).boundary = 0
            BY <3>1 DEF Policy
        <3> QED BY <1>1, <2>3, <3>2 DEF Tells
    <2> QED BY <2>2, <2>3
<1>2. CASE PasswordsIn(p.chain) # {}
    <2>1. <<p.boundary, "password", p.password>> \in Setting
        BY <1>2 DEF Tells, Policy
    <2>2. p.password \in Passwords
        BY <2>1 DEF Setting
    <2>3. WithStartup(p, s) = p
        BY <2>2, FoldedPolicyAssumption DEF WithStartup, Protected
    <2> QED BY <1>2, <2>3 DEF Tells
<1> QED BY <1>1, <1>2

-----------------------------------------------------------------------------

\* What a policy that is read, or has been, names; a policy that locks names
\* nothing anybody looks at.
Telling(q, s) ==
    LET p == q.policy IN
    /\ q.phase = "reading" =>
          /\ ~p.locked /\ Sole(p.chain) /\ Tells(p.chain, p.boundary, p.password, None)
          /\ \A x \in p.chain : x[1] < q.next
    /\ q.phase = "decide" /\ ~p.locked =>
          Sole(p.chain) /\ Tells(p.chain, p.boundary, p.password, s)

\* A session of this process says what its settings say; one whose login began
\* after the last change has the settings of the page it is for.
Bound(s) ==
    /\ s.version = <<s.settings, s.version[2], s.proved>>
    /\ s.run <= run /\ s.since <= edits
    /\ s.run = run => /\ Sole(s.settings)
                      /\ Tells(s.settings, s.version[2], s.proved, startup)
    /\ s.since = edits => s.settings = Settings(env, LastOf(s))

\* A request brings a session that was issued before it began.  While no change
\* has met it, it has seen one state of the files, the present one if nothing
\* has changed since.
Dated(q, h) ==
    /\ q.session = NoSession \/ q.session \in issued
    /\ q.phase # "idle" =>
          /\ h.since <= edits
          /\ q.session # NoSession => q.session.since <= h.since
          /\ h.edits = 0 => \E c \in Chain : h.seen = {c}
          /\ h.since = edits => h.edits = 0 /\ h.seen = {env}

SInv ==
    /\ \A s \in issued : Bound(s)
    /\ \A r \in Requests : Telling(req[r], startup) /\ Dated(req[r], hist[r])

\* One request moves, and sessions are only added.
LEMMA SOneMoves ==
    ASSUME IInv, SInv, UNCHANGED <<env, startup, run, edits>>, issued \subseteq issued',
           \A s \in issued' \ issued : Bound(s),
           NEW r \in Requests, NEW n, NEW h,
           req' = [req EXCEPT ![r] = n], hist' = [hist EXCEPT ![r] = h],
           Telling(n, startup), Dated(n, h)
    PROVE  SInv'
<1>1. req \in [Requests -> Request] /\ hist \in [Requests -> History]
    BY DEF IInv, TypeOK
<1>2. env' = env /\ startup' = startup /\ run' = run /\ edits' = edits
    OBVIOUS
<1>3. ASSUME NEW s \in issued' PROVE Bound(s)'
    <2>1. Bound(s)
        BY DEF SInv
    <2> QED BY <1>2, <2>1 DEF Bound
<1>4. ASSUME NEW q, NEW g, Dated(q, g) PROVE Dated(q, g)'
    BY <1>2, <1>4 DEF Dated
<1>5. ASSUME NEW x \in Requests
      PROVE  Telling(req'[x], startup') /\ Dated(req[x], hist[x])'
    <2>1. CASE x = r
        <3>1. req'[x] = n /\ hist'[x] = h
            BY <1>1, <2>1
        <3>2. Dated(n, h)'
            BY <1>4
        <3> QED BY <1>2, <3>1, <3>2 DEF Dated
    <2>2. CASE x # r
        <3>1. req'[x] = req[x] /\ hist'[x] = hist[x]
            BY <1>1, <2>2
        <3>2. Telling(req[x], startup) /\ Dated(req[x], hist[x])
            BY DEF SInv
        <3> QED BY <1>2, <3>1, <3>2 DEF Dated
    <2> QED BY <2>1, <2>2
<1> QED BY <1>3, <1>5 DEF SInv

LEMMA SStartKeeps ==
    ASSUME IInv, SInv, NEW r \in Requests, NEW q \in Request,
           q.next = 0, q.policy = Unprotected,
           q.session = NoSession \/ q.session \in issued, StartReading(r, q)
    PROVE  SInv'
<1> DEFINE n == [q EXCEPT !.phase = "reading"]
           h == [seen |-> {env}, edits |-> 0, since |-> edits]
<1>1. /\ n.phase = "reading" /\ n.next = 0 /\ n.policy = Unprotected
      /\ n.session = q.session
    BY DEF Request
<1>2. h.seen = {env} /\ h.edits = 0 /\ h.since = edits
    OBVIOUS
<1>3. /\ req' = [req EXCEPT ![r] = n] /\ hist' = [hist EXCEPT ![r] = h]
      /\ UNCHANGED <<env, startup, run, edits, issued>>
    BY DEF StartReading
<1> HIDE DEF n, h
<1>4. Telling(n, startup)
    BY <1>1 DEF Telling, Unprotected, Sole, Tells, PasswordsIn
<1>5. Dated(n, h)
    <2>1. edits \in Nat /\ env \in Chain
        BY DirectoryPolicyAssumption DEF IInv, TypeOK
    <2>2. n.session # NoSession => n.session.since <= edits
        BY <1>1 DEF SInv, Bound
    <2> QED BY <1>1, <1>2, <2>1, <2>2 DEF Dated
<1> QED BY <1>3, <1>4, <1>5, SOneMoves

LEMMA SBeginKeeps ==
    ASSUME IInv, SInv, NEW r \in Requests, Begin(r) \/ BeginLogin(r) \/ BeginForm(r)
    PROVE  SInv'
<1>1. CASE Begin(r)
    <2>1. PICK p \in Path, s \in issued \cup {NoSession} :
              StartReading(r, [Idle EXCEPT !.path = p, !.session = s])
        BY <1>1 DEF Begin
    <2> DEFINE q == [Idle EXCEPT !.path = p, !.session = s]
    <2>2. q \in Request
        BY IdleType DEF Request, IInv, TypeOK
    <2>3. q.next = 0 /\ q.policy = Unprotected /\ q.session = s
        BY DEF Idle
    <2>4. StartReading(r, q)
        BY <2>1
    <2> HIDE DEF q
    <2> QED BY <2>2, <2>3, <2>4, SStartKeeps
<1>2. CASE BeginLogin(r) \/ BeginForm(r)
    <2>1. PICK p \in Path, k \in {"login", "form"} :
              StartReading(r, [Idle EXCEPT !.kind = k, !.path = p])
        BY <1>2 DEF BeginLogin, BeginForm, ReturnTargets
    <2> DEFINE q == [Idle EXCEPT !.kind = k, !.path = p]
    <2>2. q \in Request
        BY IdleType DEF Request
    <2>3. q.next = 0 /\ q.policy = Unprotected /\ q.session = NoSession
        BY DEF Idle
    <2>4. StartReading(r, q)
        BY <2>1
    <2> HIDE DEF q
    <2> QED BY <2>2, <2>3, <2>4, SStartKeeps
<1> QED BY <1>1, <1>2

LEMMA SSecondLookKeeps ==
    ASSUME IInv, SInv, NEW r \in Requests, SecondLook(r)
    PROVE  SInv'
<1> DEFINE q == [req[r] EXCEPT !.next = 0, !.again = TRUE, !.policy = Unprotected]
<1>1. req[r] \in Request /\ 0 \in Positions
    BY FoldedPolicyAssumption DEF IInv, TypeOK, Positions
<1>2. q \in Request
    BY <1>1, FixedPolicies DEF Request
<1>3. q.next = 0 /\ q.policy = Unprotected /\ q.session = req[r].session
    BY <1>1 DEF Request
<1>4. StartReading(r, q)
    BY DEF SecondLook
<1> HIDE DEF q
<1>5. q.session = NoSession \/ q.session \in issued
    BY <1>3 DEF SInv, Dated
<1> QED BY <1>2, <1>3, <1>4, <1>5, SStartKeeps

LEMMA SReadKeeps ==
    ASSUME IInv, SInv, NEW r \in Requests, Read(r)
    PROVE  SInv'
<1> DEFINE q == req[r]
           h == hist[r]
           e == env[q.next]
           p == Merge(q.policy, q.next, e)
<1>1. q.phase = "reading" /\ UNCHANGED <<env, startup, run, issued, hist, edits>>
    BY DEF Read
<1>2. /\ q.path \in Path /\ q.policy \in Policy /\ q.next \in Positions
      /\ env \in Chain /\ startup \in Passwords \cup {None}
      /\ Folding(q, h, env) /\ hist \in [Requests -> History]
    BY DEF IInv, TypeOK, Request
<1>3. q.next \in 0 .. LastOf(q) /\ e \in Entry
    BY <1>1, <1>2 DEF Folding, Chain
<1>4. PICK n \in Request :
         /\ req' = [req EXCEPT ![r] = n]
         /\ n.session = q.session
         /\ \/ n.phase = "decide" /\ n.policy = Locked
            \/ n.phase = "decide" /\ n.policy = WithStartup(p, startup)
            \/ n.phase = "reading" /\ n.next = q.next + 1 /\ n.policy = p
    BY <1>3, IInvTInv, ReadEffect
<1>5. /\ Sole(p.chain) /\ Tells(p.chain, p.boundary, p.password, None)
      /\ \A x \in p.chain : x[1] <= q.next
      /\ ~p.locked /\ p \in Policy
    <2>1. /\ Sole(q.policy.chain) /\ \A x \in q.policy.chain : x[1] < q.next
          /\ Tells(q.policy.chain, q.policy.boundary, q.policy.password, None)
        BY <1>1 DEF SInv, Telling
    <2>2. ~p.locked
        BY DEF Merge
    <2> QED BY <1>2, <1>3, <2>1, <2>2, MergeTells, MergeType
<1> HIDE DEF p
<1>6. Telling(n, startup)
    <2>1. CASE n.phase = "decide" /\ n.policy = Locked
        BY <2>1 DEF Telling, Locked
    <2>2. CASE n.phase = "decide" /\ n.policy = WithStartup(p, startup)
        BY <1>2, <1>5, <2>2, StartupTells DEF Telling
    <2>3. CASE n.phase = "reading" /\ n.next = q.next + 1 /\ n.policy = p
        <3>1. \A x \in p.chain : x[1] \in Int
            BY <1>5, FoldedPolicyAssumption DEF Policy, Setting, Positions
        <3>2. q.next \in Int
            BY <1>2, FoldedPolicyAssumption DEF Positions
        <3>3. \A x \in p.chain : x[1] < n.next
            BY <1>5, <2>3, <3>1, <3>2
        <3> QED BY <1>5, <2>3, <3>3 DEF Telling
    <2> QED BY <1>4, <2>1, <2>2, <2>3
<1>7. Dated(n, h)
    BY <1>1, <1>4 DEF SInv, Dated
<1>8. hist' = [hist EXCEPT ![r] = h]
    BY <1>1, <1>2
<1> QED BY <1>1, <1>4, <1>6, <1>7, <1>8, SOneMoves

LEMMA SFinishKeeps ==
    ASSUME IInv, SInv, NEW r \in Requests, Finish(r), issued \subseteq issued',
           \A s \in issued' \ issued : Bound(s)
    PROVE  SInv'
<1>1. Telling(Idle, startup) /\ Dated(Idle, Blank)
    BY DEF Telling, Dated, Idle
<1>2. /\ req' = [req EXCEPT ![r] = Idle] /\ hist' = [hist EXCEPT ![r] = Blank]
      /\ UNCHANGED <<env, startup, run, edits>>
    BY DEF Finish
<1> QED BY <1>1, <1>2, SOneMoves

\* The policy of a request that no change has met, and none can any more, is the
\* one in force.
LEMMA PresentPolicy ==
    ASSUME IInv, WInv, SInv, NEW r \in Requests, req[r].phase = "decide",
           hist[r].since = edits, ~req[r].policy.locked
    PROVE  req[r].policy.chain = Settings(env, LastOf(req[r]))
<1>1. hist[r].edits = 0 /\ hist[r].seen = {env}
    BY DEF SInv, Dated
<1>2. req[r].policy = PolicyOf(env, LastOf(req[r]), startup)
    BY <1>1 DEF WInv, Arrived
<1> QED BY <1>2 DEF PolicyOf, Locked

LEMMA SSucceedsKeeps ==
    ASSUME IInv, WInv, SInv, NEW r \in Requests, NEW w \in Passwords, LoginSucceeds(r, w)
    PROVE  SInv'
<1> DEFINE q == req[r]
           p == q.policy
           s == [version |-> Version(p), at |-> now, run |-> run,
                 proved |-> w, settings |-> p.chain,
                 kind |-> q.kind, path |-> q.path, since |-> hist[r].since]
<1>1. /\ q.phase = "decide" /\ ~p.locked /\ w = p.password
      /\ issued' = issued \cup {s} /\ Finish(r)
    BY DEF LoginSucceeds
<1>2. Version(p) = <<p.chain, p.boundary, p.password>>
    BY DEF Version
<1>3. run \in Int /\ hist[r].since <= edits
    BY <1>1, DirectoryPolicyAssumption DEF IInv, TypeOK, SInv, Dated
<1>4. Sole(p.chain) /\ Tells(p.chain, p.boundary, p.password, startup)
    BY <1>1 DEF SInv, Telling
<1>5. LastOf(s) = LastOf(q)
    BY DEF LastOf
<1>6. hist[r].since = edits => p.chain = Settings(env, LastOf(q))
    BY <1>1, PresentPolicy
<1>7. /\ s.version = <<p.chain, p.boundary, p.password>>
      /\ s.run = run /\ s.proved = w /\ s.settings = p.chain
      /\ s.since = hist[r].since
    BY <1>2
<1>8. Bound(s)
    <2> HIDE DEF s
    <2> QED BY <1>1, <1>3, <1>4, <1>5, <1>6, <1>7 DEF Bound
<1> HIDE DEF s
<1> QED BY <1>1, <1>8, SFinishKeeps

LEMMA SEditKeeps ==
    ASSUME IInv, SInv, NEW i \in Positions, Edit(i)
    PROVE  SInv'
<1>1. edits \in Nat /\ edits' = edits + 1 /\ UNCHANGED <<startup, run, issued, req>>
    <2>1. edits \in Nat
        BY DirectoryPolicyAssumption DEF IInv, TypeOK
    <2>2. edits' = edits + 1 /\ UNCHANGED <<startup, run, issued, req>>
        BY DEF Edit
    <2> QED BY <2>1, <2>2
<1>2. ASSUME NEW s \in issued' PROVE Bound(s)'
    <2>1. Bound(s) /\ s.since \in Nat
        BY <1>1, DirectoryPolicyAssumption DEF SInv, IInv, TypeOK, Session
    <2>2. s.since <= edits' /\ s.since # edits'
        BY <1>1, <2>1 DEF Bound
    <2> QED BY <1>1, <2>1, <2>2 DEF Bound
<1>3. ASSUME NEW x \in Requests
      PROVE  Telling(req'[x], startup') /\ Dated(req[x], hist[x])'
    <2>1. /\ Telling(req[x], startup) /\ Dated(req[x], hist[x])
          /\ hist[x] \in History /\ hist[x].since \in Nat /\ hist[x].edits \in Nat
        BY DirectoryPolicyAssumption DEF SInv, IInv, TypeOK, History
    <2>2. hist'[x].since = hist[x].since
        BY <2>1 DEF Edit, History
    <2>3. \/ hist'[x].edits = hist[x].edits /\ hist'[x].seen = hist[x].seen
          \/ hist'[x].edits = hist[x].edits + 1
        BY <2>1 DEF Edit, History
    <2>4. req[x].phase # "idle" => hist'[x].since <= edits' /\ hist'[x].since # edits'
        BY <1>1, <2>1, <2>2 DEF Dated
    <2>5. req[x].phase # "idle" /\ hist'[x].edits = 0 => \E c \in Chain : hist'[x].seen = {c}
        BY <2>1, <2>3 DEF Dated
    <2>6. Dated(req[x], hist[x])'
        BY <1>1, <2>1, <2>2, <2>4, <2>5 DEF Dated
    <2> QED BY <1>1, <2>1, <2>6
<1> QED BY <1>2, <1>3 DEF SInv

LEMMA SRestartKeeps ==
    ASSUME IInv, SInv, Restart
    PROVE  SInv'
<1>1. /\ run \in Int /\ run' = run + 1 /\ UNCHANGED <<env, issued, edits>>
      /\ req' = [r \in Requests |-> Idle] /\ hist' = [r \in Requests |-> Blank]
    BY DirectoryPolicyAssumption DEF Restart, IInv, TypeOK
<1>2. ASSUME NEW s \in issued' PROVE Bound(s)'
    <2>1. Bound(s) /\ s.run \in Int
        BY <1>1, DirectoryPolicyAssumption DEF SInv, IInv, TypeOK, Session
    <2>2. s.run <= run' /\ s.run # run'
        BY <1>1, <2>1 DEF Bound
    <2> QED BY <1>1, <2>1, <2>2 DEF Bound
<1>3. ASSUME NEW x \in Requests
      PROVE  Telling(req'[x], startup') /\ Dated(req[x], hist[x])'
    BY <1>1 DEF Telling, Dated, Idle
<1> QED BY <1>2, <1>3 DEF SInv

LEMMA SInvNext == IInv /\ WInv /\ SInv /\ [Next]_vars => SInv'
<1> SUFFICES ASSUME IInv, WInv, SInv, [Next]_vars PROVE SInv'
    OBVIOUS
<1>1. ASSUME NEW r \in Requests, Begin(r) \/ BeginLogin(r) \/ BeginForm(r)
      PROVE  SInv'
    BY <1>1, SBeginKeeps
<1>2. ASSUME NEW r \in Requests, Read(r)
      PROVE  SInv'
    BY <1>2, SReadKeeps
<1>3. ASSUME NEW r \in Requests, SecondLook(r)
      PROVE  SInv'
    BY <1>3, SSecondLookKeeps
<1>4. ASSUME NEW r \in Requests, LoginFails(r) \/ \E v \in Verdicts : Answer(r, v)
      PROVE  SInv'
    <2>1. Finish(r) /\ issued' = issued
        BY <1>4 DEF LoginFails, Answer
    <2> QED BY <2>1, SFinishKeeps
<1>5. ASSUME NEW r \in Requests, NEW w \in Passwords, LoginSucceeds(r, w)
      PROVE  SInv'
    BY <1>5, SSucceedsKeeps
<1>6. ASSUME NEW i \in Positions, Edit(i)
      PROVE  SInv'
    BY <1>6, SEditKeeps
<1>7. CASE SetClock
    BY <1>7 DEF SetClock, SInv, Bound, Dated
<1>8. CASE Restart
    BY <1>8, SRestartKeeps
<1>9. CASE UNCHANGED vars
    BY <1>9 DEF vars, SInv, Bound, Dated
<1> QED BY <1>1, <1>2, <1>3, <1>4, <1>5, <1>6, <1>7, <1>8, <1>9 DEF Next

LEMMA AlwaysBound == Spec => []SInv
<1>1. Init => SInv
    BY DEF Init, SInv, Telling, Dated, Idle
<1> QED BY <1>1, SInvNext, Inductive, AlwaysAlong, PTL DEF Spec

\* Who is sent to the login with a session of this process and an accepted age
\* has one whose settings are not those of the policy.
LEMMA SentToLogin ==
    ASSUME IInv, SInv, NEW r \in Requests, Answer(r, "login"), Current(req[r].session)
    PROVE  /\ req[r].phase = "decide" /\ ~req[r].policy.locked
           /\ req[r].kind = "view" /\ req[r].path.op = "page"
           /\ req[r].session \in issued
           /\ req[r].session.settings # req[r].policy.chain
<1> DEFINE q == req[r]
           p == q.policy
           s == q.session
<1>1. /\ q.phase = "decide" /\ q.kind = "view" /\ Verdict(q) = "login"
    BY DEF Answer
<1>2. /\ q.path.op # "_shares" /\ Protected(p) /\ ~p.locked
      /\ ~Valid(s, Version(p))
    BY <1>1 DEF Verdict
<1>3. q \in Request /\ q.path.op = "page"
    BY <1>2 DEF IInv, TypeOK, Request, Path
<1>4. /\ s # NoSession /\ s.run = run
      /\ now - s.at >= -Ahead /\ now - s.at <= Lifetime
    <2>1. s # NoSession /\ s.run = run /\ now - s.at \in -Ahead .. Lifetime
        BY DEF Current
    <2> QED BY <2>1, DirectoryPolicyAssumption
<1>5. s \in issued /\ s \in Session
    BY <1>4 DEF SInv, Dated, IInv, TypeOK
<1>6. s.version # Version(p)
    BY <1>2, <1>4 DEF Valid
<1>7. ASSUME s.settings = p.chain PROVE FALSE
    <2>1. /\ Sole(p.chain) /\ Tells(p.chain, p.boundary, p.password, startup)
        BY <1>1, <1>2 DEF SInv, Telling
    <2>2. /\ s.version = <<p.chain, s.version[2], s.proved>>
          /\ Tells(p.chain, s.version[2], s.proved, startup)
        BY <1>4, <1>5, <1>7 DEF SInv, Bound
    <2>3. s.version[2] \in Positions /\ p.boundary \in Positions /\ p.chain \in SUBSET Setting
        BY <1>3, <1>5 DEF Session, Request, Policy
    <2>4. s.version[2] = p.boundary /\ s.proved = p.password
        BY <2>1, <2>2, <2>3, ToldOnce
    <2> QED BY <1>6, <2>2, <2>4 DEF Version
<1> QED BY <1>1, <1>2, <1>3, <1>5, <1>7

\* Whoever is admitted with a session has typed the password in force, in a login
\* that saw the settings in force, for any depth and any number of changes
\* before (at most one of them while the policy was read).
THEOREM SessionsEndWithSettings == Spec => SessionInForce
<1>1. ASSUME IInv, WInv, SInv, NEW r \in Requests, Answer(r, "session"), hist[r].edits <= 1
      PROVE  \E c \in hist[r].seen :
                LET p == PolicyOf(c, LastOf(req[r]), startup) IN
                /\ ~p.locked
                /\ p.password = req[r].session.proved
                /\ p.chain = req[r].session.settings
    <2> DEFINE q == req[r]
               s == q.session
    <2>1. q.phase = "decide" /\ Verdict(q) = "session"
        BY <1>1 DEF Answer
    <2>2. ~q.policy.locked /\ Valid(s, Version(q.policy))
        BY <2>1 DEF Verdict
    <2>3. s \in issued /\ s.version = Version(q.policy)
        BY <1>1, <2>2 DEF Valid, SInv, Dated
    <2>4. s.version = <<s.settings, s.version[2], s.proved>>
        BY <1>1, <2>3 DEF SInv, Bound
    <2>5. q.policy.chain = s.settings /\ q.policy.password = s.proved
        BY <2>3, <2>4 DEF Version
    <2>6. PICK c \in hist[r].seen : q.policy = PolicyOf(c, LastOf(q), startup)
        BY <1>1, <2>1 DEF WInv, Arrived
    <2> QED BY <2>2, <2>5, <2>6
<1>2. IInv /\ WInv /\ SInv /\ [Next]_vars =>
          [\A r \in Requests : Answer(r, "session") /\ hist[r].edits <= 1 =>
              \E c \in hist[r].seen :
                  LET p == PolicyOf(c, LastOf(req[r]), startup) IN
                  /\ ~p.locked
                  /\ p.password = req[r].session.proved
                  /\ p.chain = req[r].session.settings]_vars
    BY <1>1
<1> QED BY <1>2, Inductive, AlwaysAlong, AlwaysBound, PTL DEF Spec, SessionInForce

\* A login is not in vain, short of the form's exception: with no change since it
\* began, its page is opened, for any depth.
THEOREM LoginsAreNotInVain == Spec => LoginSuffices
<1>1. ASSUME IInv, WInv, SInv, NEW r \in Requests,
             Answer(r, "login"), Current(req[r].session)
      PROVE  \/ req[r].session.path # req[r].path
             \/ req[r].session.since # edits
             \/ /\ req[r].session.kind = "form"
                /\ req[r].session.settings # Settings(env, LastOf(req[r]))
    <2> DEFINE q == req[r]
               s == q.session
    <2> SUFFICES ASSUME s.path = q.path, s.since = edits
                 PROVE  s.kind = "form" /\ s.settings # Settings(env, LastOf(q))
        OBVIOUS
    <2>1. /\ q.phase = "decide" /\ ~q.policy.locked /\ q.kind = "view"
          /\ q.path.op = "page" /\ s \in issued /\ s.settings # q.policy.chain
        BY <1>1, SentToLogin
    <2>2. hist[r].since = edits
        <3>1. s # NoSession
            BY <1>1 DEF Current
        <3>2. hist[r].since <= edits /\ edits <= hist[r].since
            BY <1>1, <2>1, <3>1 DEF SInv, Dated
        <3>3. hist[r].since \in Int /\ edits \in Int
            BY <1>1, DirectoryPolicyAssumption DEF IInv, TypeOK, History
        <3> QED BY <3>2, <3>3
    <2>3. q.policy.chain = Settings(env, LastOf(q))
        BY <1>1, <2>1, <2>2, PresentPolicy
    <2>4. s.settings = Settings(env, LastOf(s))
        BY <1>1, <2>1 DEF SInv, Bound
    <2>5. s \in Session /\ q.path \in Path
        BY <1>1, <2>1 DEF IInv, TypeOK, Request
    <2>6. s.kind = "login" => LastOf(s) = LastOf(q)
        <3>1. q.path.slash \/ q.path.names > 0
            BY <2>1, <2>5 DEF Path
        <3>2. LoginDir(q.path) = RequestDir(q.path)
            BY <2>1, <2>5, <3>1 DEF LoginDir, RequestDir, IsListing, Path
        <3> QED BY <2>1, <3>2 DEF LastOf
    <2> QED BY <2>1, <2>3, <2>4, <2>5, <2>6 DEF Session
<1>2. IInv /\ WInv /\ SInv /\ [Next]_vars =>
          [\A r \in Requests : Answer(r, "login") /\ Current(req[r].session) =>
              \/ req[r].session.path # req[r].path
              \/ req[r].session.since # edits
              \/ /\ req[r].session.kind = "form"
                 /\ req[r].session.settings # Settings(env, LastOf(req[r]))]_vars
    BY <1>1
<1> QED BY <1>2, Inductive, AlwaysAlong, AlwaysBound, PTL DEF Spec, LoginSuffices

\* A session opens whatever the same settings protect, for any depth.
THEOREM TransparentAreNoBoundary == Spec => TransparentDirectories
<1>1. ASSUME IInv, WInv, SInv, NEW r \in Requests,
             Answer(r, "login"), Current(req[r].session), hist[r].edits = 0,
             NEW c \in hist[r].seen
      PROVE  Settings(c, LastOf(req[r])) # req[r].session.settings
    <2> DEFINE q == req[r]
    <2>1. /\ q.phase = "decide" /\ ~q.policy.locked
          /\ q.session.settings # q.policy.chain
        BY <1>1, SentToLogin
    <2>2. PICK d \in hist[r].seen : q.policy = PolicyOf(d, LastOf(q), startup)
        BY <1>1, <2>1 DEF WInv, Arrived
    <2>3. c = d
        BY <1>1, <2>1 DEF SInv, Dated
    <2>4. q.policy.chain = Settings(d, LastOf(q))
        BY <2>1, <2>2 DEF PolicyOf, Locked
    <2> QED BY <2>1, <2>3, <2>4
<1>2. IInv /\ WInv /\ SInv /\ [Next]_vars =>
          [\A r \in Requests :
              Answer(r, "login") /\ Current(req[r].session) /\ hist[r].edits = 0 =>
                  \A c \in hist[r].seen :
                      Settings(c, LastOf(req[r])) # req[r].session.settings]_vars
    BY <1>1
<1> QED BY <1>2, Inductive, AlwaysAlong, AlwaysBound, PTL DEF Spec, TransparentDirectories

=============================================================================
