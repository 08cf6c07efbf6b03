---------------------------- MODULE LoginLimiter ----------------------------
(***************************************************************************)
(* The attempt table of security.go.  Every operation holds the limiter's   *)
(* mutex from its first statement to its last, so each is one function of   *)
(* the table and the clock; the modules that use a table apply them in one  *)
(* step.  A table is a function from the keys it holds to windows.          *)
(***************************************************************************)
EXTENDS Naturals, FiniteSets, Functions

CONSTANTS
    Keys,       \* pairs of a password boundary (or the lookup) and a source
    Limit,      \* attempts in a window (5 in the code)
    Window,     \* length of a window (5 minutes)
    Capacity    \* entries a table may hold (max, 2048)

ASSUME LimiterAssumption ==
    /\ IsFiniteSet(Keys)
    /\ Limit \in Nat \ {0}
    /\ Window \in Nat \ {0}
    /\ Capacity \in Nat \ {0}

AttemptWindow == [count : 0..Limit, start : Nat]

IsTable(t) ==
    /\ DOMAIN t \subseteq Keys
    /\ t \in [DOMAIN t -> AttemptWindow]

EmptyTable == [k \in {} |-> [count |-> 0, start |-> 0]]

\* Mutant: a window ends one unit early.
LiveShorter(t, k, now) == k \in DOMAIN t /\ now + 1 < t[k].start + Window

Live(t, k, now) == k \in DOMAIN t /\ now < t[k].start + Window

\* A window that is missing or over is replaced by one that starts now.
Current(t, k, now) ==
    IF Live(t, k, now) THEN t[k] ELSE [count |-> 0, start |-> now]

\* Mutant: one attempt more than the limit.
AllowedOneMore(t, k, now) == Current(t, k, now).count <= Limit

\* What `allowed` answers, and the negation of what `blocked` answers.
Allowed(t, k, now) == Current(t, k, now).count < Limit

Put(t, k, w) == [x \in DOMAIN t \cup {k} |-> IF x = k THEN w ELSE t[x]]

\* Mutant: the table is trimmed when it is one entry larger than it may be.
TrimmedLate(t, k) ==
    IF Cardinality(DOMAIN t) <= Capacity + 1
    THEN {t}
    ELSE {Restrict(t, K) :
            K \in {L \in SUBSET DOMAIN t : k \in L /\ Cardinality(L) = Capacity}}

\* Map iteration has no order: any entries but the caller's may be evicted,
\* expired or not, until the rest fits.
Trimmed(t, k) ==
    IF Cardinality(DOMAIN t) <= Capacity
    THEN {t}
    ELSE {Restrict(t, K) :
            K \in {L \in SUBSET DOMAIN t : k \in L /\ Cardinality(L) = Capacity}}

\* The tables `allowed` may leave; a refusal counts nothing and evicts nothing.
AfterAllowed(t, k, now) ==
    LET w == Current(t, k, now) IN
    IF Allowed(t, k, now)
    THEN Trimmed(Put(t, k, [w EXCEPT !.count = @ + 1]), k)
    ELSE {Put(t, k, w)}

\* Mutant: a success clears the attempts of everybody.
AfterResetAll(t, k) == EmptyTable

AfterReset(t, k) == Restrict(t, DOMAIN t \ {k})

\* `blocked` drops a window that is over.
AfterBlocked(t, k, now) == IF Live(t, k, now) THEN t ELSE AfterReset(t, k)

=============================================================================
