-------------------------- MODULE DirectoryPolicy --------------------------
(***************************************************************************)
(* Requests that are admitted by a directory's policy, while the `.env`      *)
(* files on the way change.  Nothing is cached and nothing is locked: every  *)
(* request reads the files one by one, folds them and holds the session      *)
(* cookie it was sent against the version of what it has read.  A login      *)
(* issues a session for the version it has seen: of the page it will return  *)
(* to when it is posted below the application (authApp), and of the          *)
(* application when it is posted to `/_auth/<application>` (auth), as the    *)
(* form of the login page does.                                              *)
(***************************************************************************)
EXTENDS FoldedPolicy

CONSTANTS
    Requests,   \* requests in flight
    NoSession,  \* a request without a cookie
    Entries,    \* what the administrator may write into a file
    Startups,   \* passwords (or None) the server may be started with
    MaxEdits,   \* bound: changes of a file
    MaxRuns,    \* bound: starts of the server, less one
    MaxSessions,\* bound: sessions issued
    MaxTime,    \* bound: what the clock shows
    Lifetime,   \* sessionLifetime
    Ahead       \* how far in the future a session may come from (a minute)

ASSUME DirectoryPolicyAssumption ==
    /\ Entries \subseteq Entry
    /\ Startups \subseteq Passwords \cup {None}
    /\ Startups # {}
    /\ {MaxEdits, MaxRuns, MaxSessions, MaxTime, Lifetime, Ahead} \subseteq Nat

VARIABLES
    env,        \* the `.env` file of each position
    startup,    \* s.global.Password
    run,        \* which start of the server this is: stands for its secret
    now,        \* the clock
    issued,     \* the sessions clients hold
    req,        \* the requests in flight
    hist,       \* what happened to the files while a request read them
    edits       \* changes so far

vars == <<env, startup, run, now, issued, req, hist, edits>>

-----------------------------------------------------------------------------
(* Paths and what they ask for.                                             *)

\* A path below the application: whether it is for managing shares, the number
\* of names, and whether it ends with a slash.  A page with a slash is the
\* listing of a directory; one without is a file, or what _preview, _download,
\* _html and _html-content make of it.
Path == {p \in [op : {"page", "_shares"}, names : 0 .. Depth + 1, slash : BOOLEAN] :
            /\ p.op = "page" => p.slash \/ p.names > 0
            /\ p.op = "_shares" => ~p.slash
            /\ p.op = "_shares" \/ p.slash => p.names <= Depth}

IsListing(p) == p.op = "page" /\ p.slash

\* How many names lead to the directory whose policy admits a request.
RequestDir(p) == IF IsListing(p) \/ p.op = "_shares" THEN p.names ELSE p.names - 1

\* Mutant: a login always drops the last name.
LoginParent(p) == IF p.names > 0 THEN p.names - 1 ELSE p.names

\* How many names lead to the directory whose policy a login for p resolves.
LoginDir(p) == IF p.names > 0 /\ ~p.slash THEN p.names - 1 ELSE p.names

\* A session: what the cookie says, and (for the properties) the password that
\* was typed for it, the settings and the changes its login had seen, which login,
\* and the page it returned to.
Session == [version : (SUBSET Setting) \X Positions \X (Passwords \cup {None}),
            at : 0 .. MaxTime, run : 0 .. MaxRuns,
            proved : Passwords, settings : SUBSET Setting,
            kind : {"login", "form"}, path : Path,
            since : 0 .. MaxEdits]

\* Mutant: a session of the very last accepted age is refused.
ValidTooShort(s, version) ==
    /\ s # NoSession
    /\ s.run = run
    /\ s.version = version
    /\ now - s.at >= -Ahead
    /\ now - s.at < Lifetime

Valid(s, version) ==
    /\ s # NoSession
    /\ s.run = run
    /\ s.version = version
    /\ now - s.at >= -Ahead
    /\ now - s.at <= Lifetime

-----------------------------------------------------------------------------

Request == [phase : {"idle", "reading", "decide"}, kind : {"view", "login", "form"},
            path : Path, session : Session \cup {NoSession},
            next : Positions, again : BOOLEAN, policy : Policy]

Idle == [phase |-> "idle", kind |-> "view",
         path |-> [op |-> "page", names |-> 0, slash |-> TRUE],
         session |-> NoSession, next |-> 0, again |-> FALSE,
         policy |-> Unprotected]

\* Of the files a request has to read: the states they were in while it read
\* them and how often they changed; and the changes there had been before.
History == [seen : SUBSET Chain, edits : 0 .. MaxEdits, since : 0 .. MaxEdits]

Blank == [seen |-> {}, edits |-> 0, since |-> 0]

LastOf(q) == Last(CASE q.kind = "view"  -> RequestDir(q.path)
                    [] q.kind = "login" -> LoginDir(q.path)
                    [] OTHER -> 0)   \* the application itself

TypeOK ==
    /\ env \in Chain
    /\ startup \in Passwords \cup {None}
    /\ run \in 0 .. MaxRuns
    /\ now \in 0 .. MaxTime
    /\ issued \subseteq Session
    /\ req \in [Requests -> Request]
    /\ hist \in [Requests -> History]
    /\ edits \in 0 .. MaxEdits

Init ==
    /\ env \in [Positions -> Entries]
    /\ startup \in Startups
    /\ run = 0
    /\ now = 0
    /\ issued = {}
    /\ req = [r \in Requests |-> Idle]
    /\ hist = [r \in Requests |-> Blank]
    /\ edits = 0

-----------------------------------------------------------------------------
(* Reading a policy.                                                        *)

StartReading(r, q) ==
    /\ req' = [req EXCEPT ![r] = [q EXCEPT !.phase = "reading"]]
    /\ hist' = [hist EXCEPT ![r] = [seen |-> {env}, edits |-> 0, since |-> edits]]
    /\ UNCHANGED <<env, startup, run, now, issued, edits>>

Begin(r) ==
    /\ req[r].phase = "idle"
    /\ \E p \in Path, s \in issued \cup {NoSession} :
          StartReading(r, [Idle EXCEPT !.path = p, !.session = s])

\* A login returns to what sent to it, which is a page (authorizePolicy).
ReturnTargets == {p \in Path : p.op = "page"}

BeginLogin(r) ==
    /\ req[r].phase = "idle"
    /\ \E p \in ReturnTargets :
          StartReading(r, [Idle EXCEPT !.kind = "login", !.path = p])

\* What auth reads of the application's file before (effectiveConfig) it only
\* uses when the policy protects nothing; no session comes of that.
BeginForm(r) ==
    /\ req[r].phase = "idle"
    /\ \E p \in ReturnTargets :
          StartReading(r, [Idle EXCEPT !.kind = "form", !.path = p])

\* Mutant: a file that is not usable is passed over.
ReadPassingOver(r) ==
    LET q == req[r]
        p == IF env[q.next].usable THEN Merge(q.policy, q.next, env[q.next])
             ELSE q.policy
        next ==
            IF q.next = LastOf(q)
            THEN [q EXCEPT !.phase = "decide", !.policy = WithStartup(p, startup)]
            ELSE [q EXCEPT !.next = q.next + 1, !.policy = p]
    IN  /\ q.phase = "reading"
        /\ req' = [req EXCEPT ![r] = next]
        /\ UNCHANGED <<env, startup, run, now, issued, hist, edits>>

\* Read the next file.  One that is not usable locks, and the rest is not read.
Read(r) ==
    LET q == req[r]
        p == Merge(q.policy, q.next, env[q.next])
        next ==
            IF ~env[q.next].usable
            THEN [q EXCEPT !.phase = "decide", !.policy = Locked]
            ELSE IF q.next = LastOf(q)
            THEN [q EXCEPT !.phase = "decide", !.policy = WithStartup(p, startup)]
            ELSE [q EXCEPT !.next = q.next + 1, !.policy = p]
    IN  /\ q.phase = "reading"
        /\ req' = [req EXCEPT ![r] = next]
        /\ UNCHANGED <<env, startup, run, now, issued, hist, edits>>

-----------------------------------------------------------------------------
(* Admission.                                                               *)

\* authorizePolicy for what is read, authorizedForShareCreation for what manages
\* shares: the one sends to the login, the other denies that there is anything.
Verdict(q) ==
    LET admitted == Valid(q.session, Version(q.policy)) IN
    IF q.path.op = "_shares"
    THEN IF Protected(q.policy) /\ ~q.policy.locked /\ admitted
         THEN "session" ELSE "hidden"
    ELSE IF ~Protected(q.policy) THEN "open"
    ELSE IF q.policy.locked THEN "locked"
    ELSE IF admitted THEN "session" ELSE "login"

Verdicts == {"open", "locked", "session", "login", "hidden"}

\* A listing is admitted twice, with a fresh policy each time.
NeedsSecondLook(q) ==
    IsListing(q.path) /\ ~q.again /\ Verdict(q) \in {"open", "session"}

SecondLook(r) ==
    /\ req[r].phase = "decide" /\ req[r].kind = "view"
    /\ NeedsSecondLook(req[r])
    /\ StartReading(r, [req[r] EXCEPT !.next = 0, !.again = TRUE,
                                      !.policy = Unprotected])

Finish(r) ==
    /\ req' = [req EXCEPT ![r] = Idle]
    /\ hist' = [hist EXCEPT ![r] = Blank]
    /\ UNCHANGED <<env, startup, run, now, edits>>

Answer(r, verdict) ==
    /\ req[r].phase = "decide" /\ req[r].kind = "view"
    /\ ~NeedsSecondLook(req[r])
    /\ Verdict(req[r]) = verdict
    /\ Finish(r)
    /\ UNCHANGED issued

\* A login that gets no session: nothing is protected, the directory is locked,
\* the limiter is full (LoginLimiter says when) or the password is wrong.
LoginFails(r) ==
    /\ req[r].phase = "decide" /\ req[r].kind # "view"
    /\ Finish(r)
    /\ UNCHANGED issued

LoginSucceeds(r, typed) ==
    LET q == req[r] IN
    /\ q.phase = "decide" /\ q.kind # "view"
    /\ Protected(q.policy) /\ ~q.policy.locked
    /\ typed = q.policy.password
    /\ Cardinality(issued) < MaxSessions
    /\ issued' = issued \cup
          {[version |-> Version(q.policy), at |-> now, run |-> run,
            proved |-> typed, settings |-> q.policy.chain, kind |-> q.kind,
            path |-> q.path, since |-> hist[r].since]}
    /\ Finish(r)

-----------------------------------------------------------------------------
(* The administrator, the clock, a restart.                                 *)

Observes(r, i) == req[r].phase = "reading" /\ i <= LastOf(req[r])

Edit(i) ==
    /\ edits < MaxEdits
    /\ \E e \in Entries \ {env[i]} : env' = [env EXCEPT ![i] = e]
    /\ edits' = edits + 1
    /\ hist' = [r \in Requests |->
                  IF Observes(r, i)
                  THEN [hist[r] EXCEPT !.seen = @ \cup {env'}, !.edits = @ + 1]
                  ELSE hist[r]]
    /\ UNCHANGED <<startup, run, now, issued, req>>

\* Clocks are set as well as run.
SetClock ==
    /\ \E t \in 0 .. MaxTime : t # now /\ now' = t
    /\ UNCHANGED <<env, startup, run, issued, req, hist, edits>>

\* A new process draws a new secret; clients keep their cookies.
Restart ==
    /\ run < MaxRuns
    /\ run' = run + 1
    /\ startup' \in Startups
    /\ req' = [r \in Requests |-> Idle]
    /\ hist' = [r \in Requests |-> Blank]
    /\ UNCHANGED <<env, now, issued, edits>>

Next ==
    \/ \E r \in Requests :
          \/ Begin(r) \/ BeginLogin(r) \/ BeginForm(r)
          \/ Read(r) \/ SecondLook(r) \/ LoginFails(r)
          \/ \E v \in Verdicts : Answer(r, v)
          \/ \E w \in Passwords : LoginSucceeds(r, w)
    \/ \E i \in Positions : Edit(i)
    \/ SetClock
    \/ Restart

Spec == Init /\ [][Next]_vars

-----------------------------------------------------------------------------
(* Properties.                                                              *)

Closed(e) == e.usable => e.password # None

\* The directories on q's way that have been closed, or unusable, in every state
\* that h has seen.
KeptClosed(q, h) == {i \in 0 .. LastOf(q) : \A c \in h.seen : Closed(c[i])}
KeptBroken(q, h) == {i \in 0 .. LastOf(q) : \A c \in h.seen : ~c[i].usable}

\* A page is only shown without a session if no directory on the way has had a
\* password (or been unusable) all the time the policy was read, however many
\* files changed meanwhile, and the server was started without a password
\* (resolveDirectoryPolicy, authorizePolicy).
ClosedStaysClosed ==
    [][\A r \in Requests : Answer(r, "open") =>
          startup = None /\ KeptClosed(req[r], hist[r]) = {}]_vars

Lets(r) == \/ Answer(r, "open")
           \/ Answer(r, "session")
           \/ \E w \in Passwords : LoginSucceeds(r, w)

\* Where a file on the way has been unusable all the time the policy was read,
\* nothing is shown, with or without a session, and no session is issued (the
\* early return that locks the subtree).
BrokenLocks ==
    [][\A r \in Requests : Lets(r) => KeptBroken(req[r], hist[r]) = {}]_vars

\* What makes the two so.  A request q that reads has seen, in h, the files on
\* its way as they are in c, and folded none into its policy but one that was
\* usable (or without a password) in a state it has seen; so has one that decides.
Folding(q, h, c) ==
    q.phase = "reading" =>
        /\ q.next \in 0 .. LastOf(q)
        /\ \E seen \in h.seen : \A i \in 0 .. LastOf(q) : seen[i] = c[i]
        /\ \A i \in 0 .. q.next - 1 : i \notin KeptBroken(q, h)
        /\ q.policy.password = None =>
               \A i \in 0 .. q.next - 1 : i \notin KeptClosed(q, h)

Folded(q, h, s) ==
    q.phase = "decide" =>
        /\ ~q.policy.locked => KeptBroken(q, h) = {}
        /\ ~Protected(q.policy) => s = None /\ KeptClosed(q, h) = {}

IInv ==
    /\ TypeOK
    /\ \A r \in Requests :
          /\ hist[r].edits <= edits
          /\ Folding(req[r], hist[r], env)
          /\ Folded(req[r], hist[r], startup)

\* A policy read while at most one file changed is the policy of the whole chain
\* at some moment of the reading, although the files are read one by one.  (Two
\* changes can be mixed into a policy that never was.)
PolicyWasInForce ==
    \A r \in Requests :
        req[r].phase = "decide" /\ hist[r].edits <= 1 =>
            \E c \in hist[r].seen :
                req[r].policy = PolicyOf(c, LastOf(req[r]), startup)

\* Whoever is admitted with a session has typed the very password that is in
\* force, in a login that saw the very settings that are: a password or
\* html_scripts line added, changed or removed on the way ends the sessions at
\* the next request (the session version; README.md:65).
SessionInForce ==
    [][\A r \in Requests : Answer(r, "session") /\ hist[r].edits <= 1 =>
          \E c \in hist[r].seen :
              LET p == PolicyOf(c, LastOf(req[r]), startup) IN
              /\ ~p.locked
              /\ p.password = req[r].session.proved
              /\ p.chain = req[r].session.settings]_vars

\* A session of this run of the server, of an age that is accepted.
Current(s) == s # NoSession /\ s.run = run /\ now - s.at \in -Ahead .. Lifetime

\* A session opens the page its login returned to, unless a file has changed
\* since the login began: nobody is sent round in circles (authApp against
\* serveApp and appResource).  The form of the login page makes an exception:
\* where a directory on the way has a security setting of its own, it logged
\* into the application and not into what the page needs (auth).
LoginSuffices ==
    [][\A r \in Requests : Answer(r, "login") /\ Current(req[r].session) =>
          \/ req[r].session.path # req[r].path
          \/ req[r].session.since # edits
          \/ /\ req[r].session.kind = "form"
             /\ req[r].session.settings # Settings(env, LastOf(req[r]))]_vars

\* Whoever has logged in with the form is returned to the page that asked for it
\* and sees it, unless a file has changed since (what the login page says,
\* web/pages.tmpl:25).  The exception in LoginSuffices breaks it.
FormReturns ==
    [][\A r \in Requests :
          Answer(r, "login") /\ Current(req[r].session)
              /\ req[r].session.kind = "form" =>
          \/ req[r].session.path # req[r].path
          \/ req[r].session.since # edits]_vars

\* A session also opens every other page that the same settings protect: a
\* directory without a security setting of its own is not a boundary (the
\* comment in resolveDirectoryPolicy).
TransparentDirectories ==
    [][\A r \in Requests :
          Answer(r, "login") /\ Current(req[r].session) /\ hist[r].edits = 0 =>
              \A c \in hist[r].seen :
                  Settings(c, LastOf(req[r])) # req[r].session.settings]_vars
=============================================================================
