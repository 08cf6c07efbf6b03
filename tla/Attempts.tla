------------------------------ MODULE Attempts ------------------------------
(***************************************************************************)
(* The requests that use the attempt limiters: password logins (`authApp`,  *)
(* `auth`, `shareAuth`), which count first and then check the password       *)
(* behind the one-slot KDF gate, and lookups of share tokens (`share`),      *)
(* which ask first, then search the disk, and count a miss afterwards.  The  *)
(* logins and the lookups have a table each.  One action is what a request   *)
(* does between two points where another request may run.                   *)
(***************************************************************************)
EXTENDS LoginLimiter, Sequences

CONSTANTS
    Requests,   \* requests in flight at once; each may be followed by another
    None,       \* no key
    MaxTime     \* the clock stops here (a bound)

ASSUME AttemptsAssumption ==
    /\ IsFiniteSet(Requests)
    /\ None \notin Keys
    /\ MaxTime \in Nat

VARIABLES
    now,        \* the clock of both limiters
    logins,     \* limiter.entries
    lookups,    \* shareLookupLimiter.entries
    gate,       \* kdfGate: its holder, then those blocked on it, in order
    req,        \* what each request is doing, and for which key
    \* The rest is history: no action reads it.
    checks,     \* when logins of the key were let through since it was last dropped
    misses      \* searches in vain since the key's lookup window started

vars == <<now, logins, lookups, gate, req, checks, misses>>

Steps == {"idle", "gate", "verify", "reset", "walk", "miss", "hit"}

Request == [pc : Steps, key : Keys \cup {None}]

Idle == [pc |-> "idle", key |-> None]

Times == 0..MaxTime

Init ==
    /\ now = 0
    /\ logins = EmptyTable
    /\ lookups = EmptyTable
    /\ gate = <<>>
    /\ req = [r \in Requests |-> Idle]
    /\ checks = [k \in Keys |-> <<>>]
    /\ misses = [k \in Keys |-> 0]

-----------------------------------------------------------------------------

At(r, step) == req[r].pc = step

Goto(r, step) == req' = [req EXCEPT ![r].pc = step]

Begin(r, step, k) == req' = [req EXCEPT ![r] = [pc |-> step, key |-> k]]

Answer(r) == req' = [req EXCEPT ![r] = Idle]

\* The history of a key ends when the table drops the key.
ChecksOf(t, c) == [k \in Keys |-> IF k \in DOMAIN t THEN c[k] ELSE <<>>]

MissesOf(t, m) == [k \in Keys |-> IF k \in DOMAIN t THEN m[k] ELSE 0]

\* A stored hash is checked behind the gate, a `plain:` password at once.
Login(r, k) ==
    /\ At(r, "idle")
    /\ logins' \in AfterAllowed(logins, k, now)
    /\ IF Allowed(logins, k, now)
       THEN /\ checks' = ChecksOf(logins', [checks EXCEPT ![k] = Append(@, now)])
            /\ Begin(r, "gate", k) \/ Begin(r, "reset", k) \/ UNCHANGED req
       ELSE UNCHANGED <<checks, req>>
    /\ UNCHANGED <<now, lookups, gate, misses>>

\* `kdfGate <- struct{}{}`: blocked senders are served in order of arrival.
Enter(r) ==
    /\ At(r, "gate")
    /\ gate' = Append(gate, r)
    /\ Goto(r, "verify")
    /\ UNCHANGED <<now, logins, lookups, checks, misses>>

\* Mutant: a wrong password returns before `<-kdfGate`.
VerifyKeepingGate(r) ==
    /\ At(r, "verify")
    /\ Head(gate) = r
    /\ \/ Goto(r, "reset") /\ gate' = Tail(gate)
       \/ Answer(r) /\ UNCHANGED gate
    /\ UNCHANGED <<now, logins, lookups, checks, misses>>

\* Mutant: the slot is given back by a request that never held it.
VerifyUnordered(r) ==
    /\ At(r, "verify")
    /\ gate' = Tail(gate)
    /\ Goto(r, "reset") \/ Answer(r)
    /\ UNCHANGED <<now, logins, lookups, checks, misses>>

Verify(r) ==
    /\ At(r, "verify")
    /\ Head(gate) = r
    /\ gate' = Tail(gate)
    /\ Goto(r, "reset") \/ Answer(r)      \* right or wrong password
    /\ UNCHANGED <<now, logins, lookups, checks, misses>>

Reset(r) ==
    /\ At(r, "reset")
    /\ logins' = AfterReset(logins, req[r].key)
    /\ checks' = ChecksOf(logins', checks)
    /\ Answer(r)
    /\ UNCHANGED <<now, lookups, gate, misses>>

\* Mutant: the search starts without asking the limiter.
LookupUnasked(r, k) ==
    /\ At(r, "idle")
    /\ Begin(r, "walk", k)
    /\ UNCHANGED <<now, logins, lookups, gate, checks, misses>>

Lookup(r, k) ==
    /\ At(r, "idle")
    /\ lookups' = AfterBlocked(lookups, k, now)
    /\ misses' = MissesOf(lookups', misses)
    /\ IF Allowed(lookups, k, now) THEN Begin(r, "walk", k) ELSE UNCHANGED req
    /\ UNCHANGED <<now, logins, gate, checks>>

\* findShare: the token is that of a share which has not expired, or is not.
Walk(r) ==
    /\ At(r, "walk")
    /\ Goto(r, "hit") \/ Goto(r, "miss")
    /\ UNCHANGED <<now, logins, lookups, gate, checks, misses>>

\* What `allowed` answers is ignored here.
Miss(r) ==
    LET k == req[r].key
        m == IF Live(lookups, k, now) THEN misses[k] ELSE 0
    IN  /\ At(r, "miss")
        /\ lookups' \in AfterAllowed(lookups, k, now)
        /\ misses' = MissesOf(lookups', [misses EXCEPT ![k] = m + 1])
        /\ Answer(r)
        /\ UNCHANGED <<now, logins, gate, checks>>

Hit(r) ==
    /\ At(r, "hit")
    /\ lookups' = AfterReset(lookups, req[r].key)
    /\ misses' = MissesOf(lookups', misses)
    /\ Answer(r)
    /\ UNCHANGED <<now, logins, gate, checks>>

Tick ==
    /\ now < MaxTime
    /\ now' = now + 1
    /\ UNCHANGED <<logins, lookups, gate, req, checks, misses>>

Continue(r) == Enter(r) \/ Verify(r) \/ Reset(r) \/ Walk(r) \/ Miss(r) \/ Hit(r)

Next ==
    \/ Tick
    \/ \E r \in Requests :
        \/ \E k \in Keys : Login(r, k) \/ Lookup(r, k)
        \/ Continue(r)

Spec == Init /\ [][Next]_vars

\* The scheduler runs every goroutine, and every key derivation ends.
FairSpec == Spec /\ \A r \in Requests : WF_vars(Continue(r))

-----------------------------------------------------------------------------
(* Properties.                                                             *)

\* Every variable has a value of its type; a window never starts in the future.
TypeOK ==
    /\ now \in Times
    /\ IsTable(logins)
    /\ IsTable(lookups)
    /\ \A k \in DOMAIN logins : logins[k].start <= now
    /\ \A k \in DOMAIN lookups : lookups[k].start <= now
    /\ gate \in Seq(Requests)
    /\ req \in [Requests -> Request]
    /\ checks \in [Keys -> Seq(Times)]
    /\ misses \in [Keys -> Nat]

\* However many sources there are, the tables stay within max, although a
\* refusal stores an entry and evicts none (security.go allowed).
Bounded ==
    /\ Cardinality(DOMAIN logins) <= Capacity
    /\ Cardinality(DOMAIN lookups) <= Capacity

\* Two fixed windows may meet in the middle of a rolling one, but no more: of
\* twice the limit of password checks in a row the last comes a window after the
\* first at the earliest, as long as the table keeps the key (no success, no
\* eviction).  Any stretch as long as a window therefore holds fewer.
LoginsLimited ==
    \A k \in Keys : \A i, j \in DOMAIN checks[k] :
        j = i + 2 * Limit - 1 => checks[k][j] >= checks[k][i] + Window

\* The table forgets attempts that still count only for a request that may
\* reset the key, or to make room in a full table, which stays full
\* (security.go allowed, reset).
WindowKept ==
    [][\A k \in DOMAIN logins :
         Live(logins, k, now) /\ k \notin DOMAIN logins' =>
            \/ \E r \in Requests : req[r] = [pc |-> "reset", key |-> k]
            \/ /\ DOMAIN logins' \ DOMAIN logins # {}
               /\ Cardinality(DOMAIN logins') = Capacity]_vars

\* Asking first and counting later lets through what is in flight: a source
\* has at most one search per concurrent request beyond the limit.
LookupsLimited ==
    \A k \in Keys : misses[k] < Limit + Cardinality(Requests)

\* What server.go and TestUnknownShareLookupsAreRateLimitedBeforeDiscovery say:
\* once the limit is reached no unknown token starts a search.
UnknownLookupsLimited == \A k \in Keys : misses[k] <= Limit

\* The gate holds exactly the requests that have to pass it, each once.
GateInOrder ==
    /\ \A r \in Requests : At(r, "verify") <=> \E i \in DOMAIN gate : gate[i] = r
    /\ \A i, j \in DOMAIN gate : gate[i] = gate[j] => i = j

\* Every request is answered: nobody waits at the KDF gate for ever.
EveryAttemptAnswered == \A r \in Requests : ~At(r, "idle") ~> At(r, "idle")

=============================================================================
