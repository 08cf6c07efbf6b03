--------------------------- MODULE AttemptsProofs ---------------------------
(***************************************************************************)
(* Proofs about Attempts: types, the size of the two limiter tables, the     *)
(* KDF gate, the searches a source may have in vain, and how many password   *)
(* checks any stretch of time may hold.                                     *)
(***************************************************************************)
EXTENDS Attempts, FiniteSetTheorems, TLAPS

\* A table within max.
Fits(t) == IsTable(t) /\ Cardinality(DOMAIN t) <= Capacity

\* No window of the table starts in the future.
Past(t) == \A k \in DOMAIN t : t[k].start <= now

\* What the limiter sees of the clock.
LEMMA CurrentWindow ==
    ASSUME NEW t, NEW k, IsTable(t), Past(t), now \in Nat
    PROVE  /\ Current(t, k, now) \in AttemptWindow
           /\ Current(t, k, now).start <= now
           /\ ~Allowed(t, k, now) => k \in DOMAIN t
BY LimiterAssumption DEF Current, AttemptWindow, IsTable, Past, Live, Allowed

\* Storing a window makes a table of one more entry at most.
LEMMA PutTable ==
    ASSUME NEW t, NEW k \in Keys, NEW w \in AttemptWindow, IsTable(t), Past(t),
           w.start <= now
    PROVE  /\ IsTable(Put(t, k, w))
           /\ DOMAIN Put(t, k, w) = DOMAIN t \cup {k}
           /\ \A x \in DOMAIN Put(t, k, w) : Put(t, k, w)[x].start <= now
BY DEF Put, IsTable, Past

\* Dropping entries leaves a table.
LEMMA RestrictTable ==
    ASSUME NEW t, NEW K \in SUBSET DOMAIN t, IsTable(t), Past(t)
    PROVE  /\ IsTable(Restrict(t, K))
           /\ DOMAIN Restrict(t, K) = K
           /\ \A x \in K : Restrict(t, K)[x].start <= now
BY DEF Restrict, IsTable, Past

\* A part of a table that fits, fits.
LEMMA PartFits ==
    ASSUME NEW t, NEW K \in SUBSET DOMAIN t, Fits(t), Past(t)
    PROVE  /\ Fits(Restrict(t, K))
           /\ \A x \in DOMAIN Restrict(t, K) : Restrict(t, K)[x].start <= now
<1>1. IsFiniteSet(DOMAIN t)
  BY LimiterAssumption, FS_Subset DEF Fits, IsTable
<1>2. /\ IsFiniteSet(K)
      /\ Cardinality(K) <= Cardinality(DOMAIN t)
      /\ Cardinality(K) \in Nat
      /\ Cardinality(DOMAIN t) \in Nat
  BY <1>1, FS_Subset, FS_CardinalityType
<1>3. /\ IsTable(Restrict(t, K))
      /\ DOMAIN Restrict(t, K) = K
      /\ \A x \in K : Restrict(t, K)[x].start <= now
  BY RestrictTable DEF Fits
<1> QED
  BY <1>2, <1>3, LimiterAssumption DEF Fits

\* Whatever `allowed` answers and evicts, it leaves a table that fits.
LEMMA AllowedFits ==
    ASSUME NEW t, NEW k \in Keys, NEW u \in AfterAllowed(t, k, now),
           Fits(t), Past(t), now \in Nat
    PROVE  /\ Fits(u)
           /\ \A x \in DOMAIN u : u[x].start <= now
<1> DEFINE w == Current(t, k, now)
           c == [w EXCEPT !.count = @ + 1]
<1>1. /\ w \in AttemptWindow
      /\ w.start <= now
      /\ ~Allowed(t, k, now) => k \in DOMAIN t
  BY CurrentWindow DEF Fits
<1>2. CASE ~Allowed(t, k, now)
  <2>1. u = Put(t, k, w)
    BY <1>2 DEF AfterAllowed
  <2> HIDE DEF w
  <2>2. /\ IsTable(Put(t, k, w))
        /\ DOMAIN Put(t, k, w) = DOMAIN t \cup {k}
        /\ \A x \in DOMAIN Put(t, k, w) : Put(t, k, w)[x].start <= now
    BY <1>1, PutTable DEF Fits
  <2>3. DOMAIN t \cup {k} = DOMAIN t
    BY <1>1, <1>2
  <2> QED
    BY <2>1, <2>2, <2>3 DEF Fits
<1>3. CASE Allowed(t, k, now)
  <2>1. c \in AttemptWindow /\ c.start <= now
    BY <1>1, <1>3, LimiterAssumption DEF Allowed, AttemptWindow
  <2>2. u \in Trimmed(Put(t, k, c), k)
    BY <1>3 DEF AfterAllowed
  <2> DEFINE p == Put(t, k, c)
  <2>3. IsTable(p) /\ \A x \in DOMAIN p : p[x].start <= now
    BY <2>1, PutTable DEF Fits
  <2> HIDE DEF p, c, w
  <2>4. CASE Cardinality(DOMAIN p) <= Capacity
    BY <2>2, <2>3, <2>4 DEF Trimmed, Fits, p
  <2>5. CASE ~(Cardinality(DOMAIN p) <= Capacity)
    <3>1. PICK K \in SUBSET DOMAIN p : Cardinality(K) = Capacity /\ u = Restrict(p, K)
      BY <2>2, <2>5 DEF Trimmed, p
    <3>2. /\ IsTable(u)
          /\ DOMAIN u = K
          /\ \A x \in K : u[x].start <= now
      BY <2>3, <3>1, RestrictTable DEF Past
    <3> QED
      BY <3>1, <3>2, LimiterAssumption DEF Fits
  <2> QED
    BY <2>4, <2>5
<1> QED
  BY <1>2, <1>3

\* Both tables fit and know the past only.
TablesInv ==
    /\ now \in Times
    /\ Fits(logins) /\ Past(logins)
    /\ Fits(lookups) /\ Past(lookups)

\* The limiters start empty.
LEMMA TablesInit == Init => TablesInv
<1> SUFFICES ASSUME Init PROVE TablesInv
  OBVIOUS
<1>1. DOMAIN EmptyTable = {} /\ Cardinality({}) = 0
  BY FS_EmptySet DEF EmptyTable
<1>2. Fits(EmptyTable)
  BY <1>1, LimiterAssumption DEF Fits, IsTable, EmptyTable
<1> QED
  BY <1>1, <1>2, AttemptsAssumption DEF Init, TablesInv, Past, Times

\* Every step keeps both tables within max.
LEMMA TablesStep ==
    ASSUME TablesInv, [Next]_vars,
           \A r \in Requests : ~At(r, "idle") => req[r].key \in Keys
    PROVE  TablesInv'
<1> USE DEF Times
<1>0. now \in Nat
  BY AttemptsAssumption DEF TablesInv
<1>1. ASSUME NEW r \in Requests, NEW k \in Keys, Login(r, k)
      PROVE  TablesInv'
  <2>1. logins' \in AfterAllowed(logins, k, now) /\ UNCHANGED <<now, lookups>>
    BY <1>1 DEF Login
  <2>2. Fits(logins') /\ \A x \in DOMAIN logins' : logins'[x].start <= now
    BY <1>0, <2>1, AllowedFits DEF TablesInv
  <2> QED
    BY <2>1, <2>2 DEF TablesInv, Fits, IsTable, Past
<1>2. ASSUME NEW r \in Requests, NEW k \in Keys, Lookup(r, k)
      PROVE  TablesInv'
  <2>1. PICK K \in SUBSET DOMAIN lookups :
            lookups' = lookups \/ lookups' = Restrict(lookups, K)
    BY <1>2 DEF Lookup, AfterBlocked, AfterReset
  <2>2. Fits(lookups') /\ \A x \in DOMAIN lookups' : lookups'[x].start <= now
    BY <2>1, PartFits DEF TablesInv, Past
  <2> QED
    BY <1>2, <2>2 DEF TablesInv, Fits, IsTable, Past, Lookup
<1>3. ASSUME NEW r \in Requests, Reset(r)
      PROVE  TablesInv'
  <2>1. Fits(logins') /\ \A x \in DOMAIN logins' : logins'[x].start <= now
    BY <1>3, PartFits DEF TablesInv, Reset, AfterReset
  <2> QED
    BY <1>3, <2>1 DEF TablesInv, Fits, IsTable, Past, Reset
<1>4. ASSUME NEW r \in Requests, Miss(r)
      PROVE  TablesInv'
  <2>1. /\ lookups' \in AfterAllowed(lookups, req[r].key, now)
        /\ req[r].key \in Keys
        /\ UNCHANGED <<now, logins>>
    BY <1>4 DEF Miss, At
  <2>2. Fits(lookups') /\ \A x \in DOMAIN lookups' : lookups'[x].start <= now
    BY <1>0, <2>1, AllowedFits DEF TablesInv
  <2> QED
    BY <2>1, <2>2 DEF TablesInv, Fits, IsTable, Past
<1>5. ASSUME NEW r \in Requests, Hit(r)
      PROVE  TablesInv'
  <2>1. Fits(lookups') /\ \A x \in DOMAIN lookups' : lookups'[x].start <= now
    BY <1>5, PartFits DEF TablesInv, Hit, AfterReset
  <2> QED
    BY <1>5, <2>1 DEF TablesInv, Fits, IsTable, Past, Hit
<1>6. CASE Tick
  <2>1. now' = now + 1 /\ now' \in Times /\ UNCHANGED <<logins, lookups>>
    BY <1>0, <1>6, AttemptsAssumption DEF Tick
  <2>2. /\ \A x \in DOMAIN logins : logins[x].start \in Nat
        /\ \A x \in DOMAIN lookups : lookups[x].start \in Nat
    BY DEF TablesInv, Fits, IsTable, AttemptWindow
  <2> QED
    BY <1>0, <2>1, <2>2 DEF TablesInv, Fits, IsTable, Past
<1>7. CASE \/ \E r \in Requests : Enter(r) \/ Verify(r) \/ Walk(r)
          \/ UNCHANGED vars
  BY <1>7 DEF TablesInv, Fits, IsTable, Past, Enter, Verify, Walk, vars
<1> QED
  BY <1>1, <1>2, <1>3, <1>4, <1>5, <1>6, <1>7 DEF Next, Continue

-----------------------------------------------------------------------------
(* Requests, the gate and the history.                                     *)

LocalsInv ==
    /\ req \in [Requests -> Request]
    /\ \A r \in Requests : ~At(r, "idle") => req[r].key \in Keys
    /\ checks \in [Keys -> Seq(Times)]
    /\ misses \in [Keys -> Nat]

GateInv == gate \in Seq(Requests) /\ GateInOrder

\* Requests, counts and times start well typed, with nobody at the gate.
LEMMA LocalsInit == Init => LocalsInv /\ GateInv
<1> SUFFICES ASSUME Init PROVE LocalsInv /\ GateInv
  OBVIOUS
<1>1. LocalsInv
  BY DEF Init, LocalsInv, At, Idle, Request, Steps
<1>2. GateInv
  BY DEF Init, GateInv, GateInOrder, At, Idle
<1> QED
  BY <1>1, <1>2

\* A request's step leaves the requests' own state well typed.
LEMMA RequestStep ==
    ASSUME LocalsInv, [Next]_vars
    PROVE  /\ req' \in [Requests -> Request]
           /\ \A r \in Requests : ~At(r, "idle")' => req'[r].key \in Keys
<1> USE DEF LocalsInv, At, Steps, Idle
<1>1. ASSUME NEW r \in Requests, NEW k \in Keys, Login(r, k) \/ Lookup(r, k)
      PROVE  UNCHANGED req \/ \E s \in {"gate", "reset", "walk"} : Begin(r, s, k)
  <2>1. CASE Login(r, k)
    BY <2>1 DEF Login
  <2>2. CASE Lookup(r, k)
    BY <2>2 DEF Lookup
  <2> QED
    BY <1>1, <2>1, <2>2
<1>2. ASSUME NEW r \in Requests, Continue(r)
      PROVE  /\ ~At(r, "idle")
             /\ Answer(r) \/ \E s \in Steps \ {"idle"} : Goto(r, s)
  BY <1>2 DEF Continue, Enter, Verify, Reset, Walk, Miss, Hit
<1>3. ASSUME NEW r \in Requests, NEW k \in Keys, NEW s \in Steps, Begin(r, s, k)
      PROVE  /\ req' \in [Requests -> Request]
             /\ \A q \in Requests : ~At(q, "idle")' => req'[q].key \in Keys
  <2>1. [pc |-> s, key |-> k] \in Request
    BY DEF Request
  <2> QED
    BY <1>3, <2>1 DEF Begin
<1>4. ASSUME NEW r \in Requests, NEW s \in Steps, Goto(r, s), req[r].key \in Keys
      PROVE  /\ req' \in [Requests -> Request]
             /\ \A q \in Requests : ~At(q, "idle")' => req'[q].key \in Keys
  <2>1. req[r] \in Request
    OBVIOUS
  <2>2. [req[r] EXCEPT !.pc = s] \in Request /\ [req[r] EXCEPT !.pc = s].key = req[r].key
    BY <2>1 DEF Request
  <2>3. req' = [req EXCEPT ![r] = [req[r] EXCEPT !.pc = s]]
    BY <1>4 DEF Goto
  <2> QED
    BY <1>4, <2>2, <2>3
<1>5. ASSUME NEW r \in Requests, Answer(r)
      PROVE  /\ req' \in [Requests -> Request]
             /\ \A q \in Requests : ~At(q, "idle")' => req'[q].key \in Keys
  <2>1. Idle \in Request
    BY DEF Request
  <2> QED
    BY <1>5, <2>1 DEF Answer
<1>6. CASE Tick \/ UNCHANGED vars
  BY <1>6 DEF Tick, vars
<1> QED
  BY <1>1, <1>2, <1>3, <1>4, <1>5, <1>6 DEF Next

\* The history stays well typed.
LEMMA HistoryStep ==
    ASSUME LocalsInv, now \in Times, [Next]_vars
    PROVE  /\ checks' \in [Keys -> Seq(Times)]
           /\ misses' \in [Keys -> Nat]
<1> USE DEF LocalsInv
<1>1. <<>> \in Seq(Times)
  OBVIOUS
<1>2. ASSUME NEW r \in Requests, NEW k \in Keys, Login(r, k)
      PROVE  checks' \in [Keys -> Seq(Times)] /\ UNCHANGED misses
  <2> DEFINE c == [checks EXCEPT ![k] = Append(@, now)]
  <2>1. c \in [Keys -> Seq(Times)]
    OBVIOUS
  <2> HIDE DEF c
  <2>2. checks' = ChecksOf(logins', c) \/ checks' = checks
    BY <1>2 DEF Login, c
  <2> QED
    BY <1>1, <1>2, <2>1, <2>2 DEF Login, ChecksOf
<1>3. ASSUME NEW r \in Requests, Reset(r)
      PROVE  checks' \in [Keys -> Seq(Times)] /\ UNCHANGED misses
  BY <1>1, <1>3 DEF Reset, ChecksOf
<1>4. ASSUME NEW r \in Requests, Miss(r)
      PROVE  misses' \in [Keys -> Nat] /\ UNCHANGED checks
  <2>1. PICK m \in Nat :
            misses' = MissesOf(lookups', [misses EXCEPT ![req[r].key] = m + 1])
    <3>1. req[r].key \in Keys
      BY <1>4 DEF Miss, At
    <3> QED
      BY <1>4, <3>1 DEF Miss
  <2> QED
    BY <1>4, <2>1 DEF Miss, MissesOf
<1>5. ASSUME NEW r \in Requests,
             Hit(r) \/ \E k \in Keys : Lookup(r, k)
      PROVE  misses' \in [Keys -> Nat] /\ UNCHANGED checks
  BY <1>5 DEF Hit, Lookup, MissesOf
<1>6. CASE \/ Tick \/ UNCHANGED vars
          \/ \E r \in Requests : Enter(r) \/ Verify(r) \/ Walk(r)
  BY <1>6 DEF Tick, Enter, Verify, Walk, vars
<1> QED
  BY <1>2, <1>3, <1>4, <1>5, <1>6 DEF Next, Continue

\* The gate's queue is exactly the requests that have to pass it.
LEMMA GateStep ==
    ASSUME LocalsInv, GateInv, [Next]_vars
    PROVE  GateInv'
<1> /\ gate \in Seq(Requests)
    /\ req \in [Requests -> Request]
  BY DEF LocalsInv, GateInv
<1> USE DEF GateInv, GateInOrder, At
<1>1. ASSUME NEW r \in Requests, Enter(r)
      PROVE  GateInv'
  <2>1. /\ gate' = Append(gate, r)
        /\ req[r].pc = "gate"
        /\ \A q \in Requests : (req'[q].pc = "verify") <=> (q = r \/ req[q].pc = "verify")
    BY <1>1 DEF Enter, Goto, Request
  <2>2. /\ gate' \in Seq(Requests)
        /\ DOMAIN gate = 1 .. Len(gate)
        /\ DOMAIN gate' = 1 .. Len(gate) + 1
        /\ Len(gate) \in Nat
        /\ \A i \in DOMAIN gate : gate'[i] = gate[i] /\ gate[i] # r
        /\ gate'[Len(gate) + 1] = r
    <3>1. /\ gate' \in Seq(Requests)
          /\ DOMAIN gate = 1 .. Len(gate)
          /\ DOMAIN gate' = 1 .. Len(gate) + 1
          /\ Len(gate) \in Nat
          /\ gate'[Len(gate) + 1] = r
      BY <2>1
    <3>2. \A i \in DOMAIN gate : gate'[i] = gate[i]
      BY <2>1
    <3>3. \A i \in DOMAIN gate : gate[i] # r
      BY <2>1
    <3> QED
      BY <3>1, <3>2, <3>3
  <2>3. \A q \in Requests : (req'[q].pc = "verify") <=> \E i \in DOMAIN gate' : gate'[i] = q
    BY <2>1, <2>2
  <2>4. \A i, j \in DOMAIN gate' : gate'[i] = gate'[j] => i = j
    <3> SUFFICES ASSUME NEW i \in DOMAIN gate', NEW j \in DOMAIN gate', gate'[i] = gate'[j]
                 PROVE  i = j
      OBVIOUS
    <3>1. CASE i \in DOMAIN gate /\ j \in DOMAIN gate
      BY <2>2, <3>1
    <3>2. CASE i \in DOMAIN gate /\ j = Len(gate) + 1
      BY <2>2, <3>2
    <3>3. CASE i = Len(gate) + 1 /\ j \in DOMAIN gate
      BY <2>2, <3>3
    <3>4. CASE i = Len(gate) + 1 /\ j = Len(gate) + 1
      BY <3>4
    <3> QED
      BY <2>2, <3>1, <3>2, <3>3, <3>4
  <2> QED
    BY <2>2, <2>3, <2>4
<1>2. ASSUME NEW r \in Requests, Verify(r)
      PROVE  GateInv'
  <2>1. /\ gate' = Tail(gate) /\ Head(gate) = r
        /\ req[r].pc = "verify"
        /\ \A q \in Requests : (req'[q].pc = "verify") <=> (q # r /\ req[q].pc = "verify")
    BY <1>2 DEF Verify, Goto, Answer, Idle, Request
  <2>2. gate # <<>>
    BY <2>1
  <2>3. /\ gate' \in Seq(Requests)
        /\ DOMAIN gate = 1 .. Len(gate)
        /\ DOMAIN gate' = 1 .. Len(gate) - 1
        /\ Len(gate) \in Nat \ {0}
        /\ \A i \in DOMAIN gate' : gate'[i] = gate[i + 1]
        /\ gate[1] = r
    BY <2>1, <2>2
  <2>4. \A q \in Requests : (req'[q].pc = "verify") <=> \E i \in DOMAIN gate' : gate'[i] = q
    <3> SUFFICES ASSUME NEW q \in Requests
                 PROVE  (req'[q].pc = "verify") <=> \E i \in DOMAIN gate' : gate'[i] = q
      OBVIOUS
    <3>1. ASSUME req'[q].pc = "verify" PROVE \E i \in DOMAIN gate' : gate'[i] = q
      <4>1. PICK j \in DOMAIN gate : gate[j] = q
        BY <2>1, <3>1
      <4>2. j # 1
        BY <2>1, <2>3, <3>1, <4>1
      <4>3. j - 1 \in DOMAIN gate' /\ (j - 1) + 1 = j
        BY <2>3, <4>2
      <4>4. gate'[j - 1] = q
        BY <2>3, <4>1, <4>3
      <4> QED
        BY <4>3, <4>4
    <3>2. ASSUME NEW i \in DOMAIN gate', gate'[i] = q PROVE req'[q].pc = "verify"
      <4>1. i + 1 \in DOMAIN gate /\ gate[i + 1] = q /\ i + 1 # 1 /\ 1 \in DOMAIN gate
        BY <2>3, <3>2
      <4>2. q # r
        BY <2>3, <4>1
      <4> QED
        BY <2>1, <4>1, <4>2
    <3> QED
      BY <3>1, <3>2
  <2>5. \A i, j \in DOMAIN gate' : gate'[i] = gate'[j] => i = j
    <3> SUFFICES ASSUME NEW i \in DOMAIN gate', NEW j \in DOMAIN gate', gate'[i] = gate'[j]
                 PROVE  i = j
      OBVIOUS
    <3>1. i + 1 \in DOMAIN gate /\ j + 1 \in DOMAIN gate /\ gate[i + 1] = gate[j + 1]
      BY <2>3
    <3>2. i + 1 = j + 1
      BY <3>1
    <3> QED
      BY <2>3, <3>2
  <2> QED
    BY <2>3, <2>4, <2>5
<1>3. CASE \/ Tick \/ UNCHANGED vars
          \/ \E r \in Requests :
                \/ Reset(r) \/ Walk(r) \/ Miss(r) \/ Hit(r)
                \/ \E k \in Keys : Login(r, k) \/ Lookup(r, k)
  <2>1. /\ UNCHANGED gate
        /\ \A q \in Requests : (req'[q].pc = "verify") <=> (req[q].pc = "verify")
    <3>1. CASE Tick \/ UNCHANGED vars
      BY <3>1 DEF Tick, vars
    <3>2. ASSUME NEW r \in Requests, NEW new, req[r].pc # "verify", new.pc # "verify",
                 req' = [req EXCEPT ![r] = new]
          PROVE  \A q \in Requests : (req'[q].pc = "verify") <=> (req[q].pc = "verify")
      BY <3>2
    <3>3. ASSUME NEW r \in Requests, Reset(r) \/ Walk(r) \/ Miss(r) \/ Hit(r)
          PROVE  /\ UNCHANGED gate
                 /\ \A q \in Requests : (req'[q].pc = "verify") <=> (req[q].pc = "verify")
      <4>1. UNCHANGED gate /\ req[r].pc # "verify" /\ req[r] \in Request
        BY <3>3 DEF Reset, Walk, Miss, Hit
      <4>2. CASE Walk(r)
        <5>1. PICK st \in {"hit", "miss"} : req' = [req EXCEPT ![r] = [req[r] EXCEPT !.pc = st]]
          BY <4>2 DEF Walk, Goto
        <5>2. [req[r] EXCEPT !.pc = st].pc = st
          BY <4>1 DEF Request
        <5> QED
          BY <3>2, <4>1, <5>1, <5>2
      <4>3. CASE Reset(r) \/ Miss(r) \/ Hit(r)
        <5>1. req' = [req EXCEPT ![r] = Idle] /\ Idle.pc # "verify"
          BY <4>3 DEF Reset, Miss, Hit, Answer, Idle
        <5> QED
          BY <3>2, <4>1, <5>1
      <4> QED
        BY <3>3, <4>2, <4>3
    <3>4. ASSUME NEW r \in Requests, NEW k \in Keys, Login(r, k) \/ Lookup(r, k)
          PROVE  /\ UNCHANGED gate
                 /\ \A q \in Requests : (req'[q].pc = "verify") <=> (req[q].pc = "verify")
      <4>1. /\ UNCHANGED gate
            /\ req[r].pc # "verify"
            /\ \/ UNCHANGED req
               \/ Begin(r, "gate", k) \/ Begin(r, "reset", k) \/ Begin(r, "walk", k)
        <5>1. CASE Login(r, k)
          BY <5>1 DEF Login
        <5>2. CASE Lookup(r, k)
          BY <5>2 DEF Lookup
        <5> QED
          BY <3>4, <5>1, <5>2
      <4>2. CASE UNCHANGED req
        BY <4>1, <4>2
      <4>3. ASSUME NEW st \in {"gate", "reset", "walk"}, Begin(r, st, k)
            PROVE  \A q \in Requests : (req'[q].pc = "verify") <=> (req[q].pc = "verify")
        <5>1. [pc |-> st, key |-> k].pc # "verify"
          OBVIOUS
        <5> QED
          BY <3>2, <4>1, <4>3, <5>1 DEF Begin
      <4> QED
        BY <4>1, <4>2, <4>3
    <3> QED
      BY <1>3, <3>1, <3>2, <3>3, <3>4
  <2> QED
    BY <2>1
<1> QED
  BY <1>1, <1>2, <1>3 DEF Next, Continue

-----------------------------------------------------------------------------
(* Lookups: a miss that the table still counts is in the history too, and    *)
(* what is in flight can add one miss each.                                  *)

Flying == {"walk", "miss", "hit"}

\* The lookups of a key that were let through and have not been answered.
Of(q, k) == {r \in Requests : q[r].pc \in Flying /\ q[r].key = k}

Matches(t, m) ==
    \A k \in Keys :
        /\ k \notin DOMAIN t => m[k] = 0
        /\ k \in DOMAIN t /\ t[k].count < Limit => m[k] = t[k].count

InFlight(m, q) ==
    \A k \in Keys : m[k] + Cardinality(Of(q, k)) < Limit + Cardinality(Requests)

LookupInv == Matches(lookups, misses) /\ InFlight(misses, req)

LEMMA OfSize ==
    ASSUME NEW q, NEW k
    PROVE  /\ IsFiniteSet(Of(q, k)) /\ Cardinality(Of(q, k)) \in Nat
           /\ Cardinality(Requests) \in Nat /\ Cardinality(Of(q, k)) <= Cardinality(Requests)
<1>1. Of(q, k) \subseteq Requests
  BY DEF Of
<1> QED
  BY <1>1, AttemptsAssumption, FS_Subset, FS_CardinalityType

LEMMA InFlightInit ==
    Init => LookupInv
<1> SUFFICES ASSUME Init PROVE LookupInv
  OBVIOUS
<1>1. Matches(lookups, misses)
  BY DEF Init, Matches, EmptyTable
<1>2. ASSUME NEW k \in Keys
      PROVE  misses[k] + Cardinality(Of(req, k)) < Limit + Cardinality(Requests)
  <2>1. misses[k] = 0
    BY DEF Init
  <2>2. Cardinality(Of(req, k)) \in Nat /\ Cardinality(Requests) \in Nat
        /\ Cardinality(Of(req, k)) <= Cardinality(Requests)
    BY OfSize
  <2> QED
    BY <2>1, <2>2, LimiterAssumption
<1> QED
  BY <1>1, <1>2 DEF LookupInv, InFlight

\* What `allowed` counts of a miss, the history counts.
LEMMA MissMatches ==
    ASSUME NEW t, NEW m \in [Keys -> Nat], NEW k \in Keys, NEW u \in AfterAllowed(t, k, now),
           IsTable(t), Past(t), now \in Nat, Matches(t, m)
    PROVE  LET since == IF Live(t, k, now) THEN m[k] ELSE 0
               n == MissesOf(u, [m EXCEPT ![k] = since + 1])
           IN  /\ Matches(u, n)
               /\ n[k] <= m[k] + 1 /\ \A x \in Keys \ {k} : n[x] <= m[x]
<1> DEFINE since == IF Live(t, k, now) THEN m[k] ELSE 0
           n == MissesOf(u, [m EXCEPT ![k] = since + 1])
           w == Current(t, k, now)
           c == IF Allowed(t, k, now) THEN [w EXCEPT !.count = @ + 1] ELSE w
           p == Put(t, k, c)
<1>1. /\ w \in AttemptWindow /\ w.start <= now
      /\ ~Allowed(t, k, now) => k \in DOMAIN t
  BY CurrentWindow
<1>2. c \in AttemptWindow /\ c.start <= now
  BY <1>1, LimiterAssumption DEF Allowed, AttemptWindow
<1>3. IsTable(p) /\ DOMAIN p = DOMAIN t \cup {k}
  BY <1>2, PutTable
<1>4. p[k] = c /\ \A x \in DOMAIN t \ {k} : p[x] = t[x]
  BY DEF Put
<1>5. PICK K \in SUBSET DOMAIN p : DOMAIN u = K /\ k \in K /\ \A x \in K : u[x] = p[x]
  <2>1. CASE ~Allowed(t, k, now)
    BY <1>3, <2>1 DEF AfterAllowed
  <2>2. CASE Allowed(t, k, now)
    <3>1. u \in Trimmed(p, k)
      BY <2>2 DEF AfterAllowed
    <3> HIDE DEF p
    <3>2. CASE u = p
      BY <1>3, <3>2
    <3>3. ASSUME NEW K \in SUBSET DOMAIN p, k \in K, u = Restrict(p, K)
          PROVE  DOMAIN u = K /\ \A x \in K : u[x] = p[x]
      BY <3>3 DEF Restrict
    <3> QED
      BY <3>1, <3>2, <3>3 DEF Trimmed
  <2> QED
    BY <2>1, <2>2
<1>6. since \in Nat /\ since <= m[k] /\ (w.count < Limit => since = w.count)
  <2>1. CASE Live(t, k, now)
    BY <2>1 DEF Current, Live, Matches
  <2>2. CASE ~Live(t, k, now)
    BY <2>2 DEF Current
  <2> QED
    BY <2>1, <2>2
<1>7. c.count < Limit => since + 1 = c.count
  <2>1. CASE w.count < Limit
    <3>1. c.count = w.count + 1
      BY <1>1, <2>1 DEF Allowed, AttemptWindow
    <3> QED
      BY <1>6, <2>1, <3>1
  <2>2. CASE ~(w.count < Limit)
    BY <2>2 DEF Allowed
  <2> QED
    BY <2>1, <2>2
<1> HIDE DEF since, c, p, w
<1>8. /\ n[k] = since + 1
      /\ \A x \in Keys \ {k} : n[x] = IF x \in K THEN m[x] ELSE 0
  BY <1>5 DEF MissesOf
<1> HIDE DEF n
<1>9. Matches(u, n)
  <2> SUFFICES ASSUME NEW x \in Keys
               PROVE  /\ x \notin K => n[x] = 0
                      /\ x \in K /\ u[x].count < Limit => n[x] = u[x].count
    BY <1>5 DEF Matches
  <2>1. CASE x = k
    BY <1>4, <1>5, <1>7, <1>8, <2>1
  <2>2. CASE x # k
    BY <1>3, <1>4, <1>5, <1>8, <2>2 DEF Matches
  <2> QED
    BY <2>1, <2>2
<1>10. n[k] <= m[k] + 1 /\ \A x \in Keys \ {k} : n[x] <= m[x]
  <2>1. n[k] <= m[k] + 1
    BY <1>6, <1>8
  <2>2. \A x \in Keys \ {k} : n[x] <= m[x]
    BY <1>8
  <2> QED
    BY <2>1, <2>2
<1> QED
  BY <1>9, <1>10 DEF n, since

\* Dropping entries forgets their misses.
LEMMA DropMatches ==
    ASSUME NEW t, NEW m \in [Keys -> Nat], NEW K \in SUBSET DOMAIN t, IsTable(t), Matches(t, m)
    PROVE  LET n == MissesOf(Restrict(t, K), m)
           IN  Matches(Restrict(t, K), n) /\ \A x \in Keys : n[x] <= m[x]
<1> DEFINE u == Restrict(t, K)
           n == MissesOf(u, m)
<1>1. DOMAIN u = K /\ \A x \in K : u[x] = t[x]
  BY DEF Restrict
<1> HIDE DEF u
<1>2. \A x \in Keys : n[x] = IF x \in K THEN m[x] ELSE 0
  BY <1>1 DEF MissesOf
<1> HIDE DEF n
<1>3. Matches(u, n)
  BY <1>1, <1>2 DEF Matches
<1>4. \A x \in Keys : n[x] <= m[x]
  BY <1>2
<1> QED
  BY <1>3, <1>4 DEF n, u

\* What a step of one request does to who is in flight.
LEMMA OfChange ==
    ASSUME NEW q \in [Requests -> Request], NEW r \in Requests, NEW new, NEW k
    PROVE  Of([q EXCEPT ![r] = new], k) =
               IF new.pc \in Flying /\ new.key = k THEN Of(q, k) \cup {r} ELSE Of(q, k) \ {r}
BY DEF Of

LEMMA OfAdd ==
    ASSUME NEW q, NEW k, NEW r, r \notin Of(q, k)
    PROVE  Cardinality(Of(q, k) \cup {r}) = Cardinality(Of(q, k)) + 1
BY OfSize, FS_AddElement

LEMMA OfRemove ==
    ASSUME NEW q, NEW k, NEW r
    PROVE  /\ Cardinality(Of(q, k) \ {r}) <= Cardinality(Of(q, k))
           /\ Cardinality(Of(q, k) \ {r}) \in Nat
           /\ r \in Of(q, k) => Cardinality(Of(q, k) \ {r}) = Cardinality(Of(q, k)) - 1
<1>1. IsFiniteSet(Of(q, k)) /\ Cardinality(Of(q, k)) \in Nat
  BY OfSize
<1>2. CASE r \in Of(q, k)
  <2>1. Cardinality(Of(q, k) \ {r}) = Cardinality(Of(q, k)) - 1 /\ Cardinality(Of(q, k)) # 0
    BY <1>1, <1>2, FS_RemoveElement, FS_EmptySet
  <2> QED
    BY <1>1, <2>1
<1>3. CASE r \notin Of(q, k)
  <2>1. Of(q, k) \ {r} = Of(q, k)
    BY <1>3
  <2> QED
    BY <1>1, <1>3, <2>1
<1> QED
  BY <1>2, <1>3

\* A request that is not about to search leaves who is in flight, or leaves it.
LEMMA OthersFly ==
    ASSUME LocalsInv, LookupInv, NEW m \in [Keys -> Nat], NEW r \in Requests, NEW new,
           new.pc \notin Flying \/ (new.pc \in Flying /\ r \in Of(req, new.key)),
           \A k \in Keys : m[k] <= misses[k]
    PROVE  InFlight(m, [req EXCEPT ![r] = new])
<1> SUFFICES ASSUME NEW k \in Keys
             PROVE  m[k] + Cardinality(Of([req EXCEPT ![r] = new], k))
                        < Limit + Cardinality(Requests)
  BY DEF InFlight
<1> DEFINE after == Of([req EXCEPT ![r] = new], k)
<1>1. after = Of(req, k) \ {r} \/ after = Of(req, k)
  <2>1. req \in [Requests -> Request]
    BY DEF LocalsInv
  <2>2. after = IF new.pc \in Flying /\ new.key = k THEN Of(req, k) \cup {r} ELSE Of(req, k) \ {r}
    BY <2>1, OfChange
  <2> HIDE DEF after
  <2>3. new.pc \in Flying /\ new.key = k => Of(req, k) \cup {r} = Of(req, k)
    OBVIOUS
  <2> QED
    BY <2>2, <2>3
<1> HIDE DEF after
<1>2. Cardinality(after) <= Cardinality(Of(req, k)) /\ Cardinality(after) \in Nat
  <2>1. CASE after = Of(req, k) \ {r}
    BY <2>1, OfRemove
  <2>2. CASE after = Of(req, k)
    <3>1. Cardinality(Of(req, k)) \in Nat
      BY OfSize
    <3> QED
      BY <2>2, <3>1
  <2> QED
    BY <1>1, <2>1, <2>2
<1>3. misses[k] + Cardinality(Of(req, k)) < Limit + Cardinality(Requests)
      /\ Cardinality(Of(req, k)) \in Nat /\ Cardinality(Requests) \in Nat
      /\ m[k] \in Nat /\ misses[k] \in Nat /\ m[k] <= misses[k] /\ Limit \in Nat
  BY OfSize, LimiterAssumption DEF LookupInv, InFlight, LocalsInv
<1>4. m[k] + Cardinality(after) < Limit + Cardinality(Requests)
  BY <1>2, <1>3
<1> QED
  BY <1>4 DEF after

LEMMA LookupStep ==
    ASSUME TablesInv, LocalsInv, LookupInv, [Next]_vars
    PROVE  LookupInv'
<1>0. /\ now \in Nat /\ IsTable(lookups) /\ Past(lookups) /\ misses \in [Keys -> Nat]
      /\ Matches(lookups, misses) /\ InFlight(misses, req)
      /\ req \in [Requests -> Request]
      /\ \A k \in Keys : misses[k] <= misses[k]
  BY DEF TablesInv, LocalsInv, LookupInv, Fits, Times
<1>1. ASSUME NEW r \in Requests, NEW k \in Keys, Lookup(r, k)
      PROVE  LookupInv'
  <2>1. PICK K \in SUBSET DOMAIN lookups : lookups' = Restrict(lookups, K)
    <3>1. CASE Live(lookups, k, now)
      <4>1. lookups' = Restrict(lookups, DOMAIN lookups)
        BY <1>0, <1>1, <3>1 DEF Lookup, AfterBlocked, Restrict, IsTable
      <4> QED
        BY <4>1
    <3>2. CASE ~Live(lookups, k, now)
      BY <1>1, <3>2 DEF Lookup, AfterBlocked, AfterReset
    <3> QED
      BY <3>1, <3>2
  <2>2. misses' = MissesOf(Restrict(lookups, K), misses)
    BY <1>1, <2>1 DEF Lookup
  <2>3. Matches(lookups', misses') /\ \A x \in Keys : misses'[x] <= misses[x]
    BY <1>0, <2>1, <2>2, DropMatches
  <2>4. misses' \in [Keys -> Nat]
    BY <1>0, <2>2 DEF MissesOf
  <2>5. InFlight(misses', req')
    <3>1. CASE ~Allowed(lookups, k, now)
      <4>1. req' = req
        BY <1>1, <3>1 DEF Lookup
      <4>2. ASSUME NEW x \in Keys
            PROVE  misses'[x] + Cardinality(Of(req, x)) < Limit + Cardinality(Requests)
        <5>1. misses[x] + Cardinality(Of(req, x)) < Limit + Cardinality(Requests)
              /\ Cardinality(Of(req, x)) \in Nat /\ Cardinality(Requests) \in Nat
              /\ misses[x] \in Nat /\ misses'[x] \in Nat /\ misses'[x] <= misses[x]
              /\ Limit \in Nat
          BY <1>0, <2>3, <2>4, OfSize, LimiterAssumption DEF InFlight
        <5> QED
          BY <5>1
      <4> QED
        BY <4>1, <4>2 DEF InFlight
    <3>2. CASE Allowed(lookups, k, now)
      <4> DEFINE new == [pc |-> "walk", key |-> k]
      <4>1. req' = [req EXCEPT ![r] = new] /\ r \notin Of(req, k) /\ req[r].pc = "idle"
        BY <1>1, <3>2 DEF Lookup, Begin, At, Of, Flying
      <4>2. new.pc \in Flying /\ new.key = k
        BY DEF Flying
      <4> HIDE DEF new
      <4>3. misses'[k] < Limit /\ misses'[k] \in Nat
        <5>1. CASE Live(lookups, k, now)
          <6>1. k \in DOMAIN lookups /\ lookups[k].count < Limit /\ lookups[k].count \in Nat
            BY <1>0, <3>2, <5>1 DEF Live, Allowed, Current, IsTable, AttemptWindow
          <6>2. misses[k] = lookups[k].count /\ misses'[k] <= misses[k] /\ misses'[k] \in Nat
            BY <1>0, <2>3, <2>4, <6>1 DEF Matches
          <6> QED
            BY <6>1, <6>2, LimiterAssumption
        <5>2. CASE ~Live(lookups, k, now)
          <6>1. k \notin DOMAIN lookups'
            BY <1>1, <5>2 DEF Lookup, AfterBlocked, AfterReset, Restrict
          <6>2. misses'[k] = 0
            BY <2>3, <6>1 DEF Matches
          <6> QED
            BY <6>2, LimiterAssumption
        <5> QED
          BY <5>1, <5>2
      <4>4. ASSUME NEW x \in Keys
            PROVE  misses'[x] + Cardinality(Of(req', x)) < Limit + Cardinality(Requests)
        <5>1. CASE x = k
          <6>1. Cardinality(Of(req', k)) <= Cardinality(Requests)
                /\ Cardinality(Of(req', k)) \in Nat /\ Cardinality(Requests) \in Nat
                /\ Limit \in Nat
            BY OfSize, LimiterAssumption
          <6> QED
            BY <4>3, <5>1, <6>1
        <5>2. CASE x # k
          <6>1. Of(req', x) = Of(req, x) \ {r}
            BY <1>0, <4>1, <4>2, <5>2, OfChange
          <6>2. misses[x] + Cardinality(Of(req, x)) < Limit + Cardinality(Requests)
                /\ Cardinality(Of(req, x)) \in Nat /\ Cardinality(Requests) \in Nat
                /\ misses[x] \in Nat /\ misses'[x] \in Nat /\ misses'[x] <= misses[x]
                /\ Limit \in Nat
            BY <1>0, <2>3, <2>4, OfSize, LimiterAssumption DEF InFlight
          <6>3. Cardinality(Of(req', x)) <= Cardinality(Of(req, x))
                /\ Cardinality(Of(req', x)) \in Nat
            BY <6>1, OfRemove
          <6> QED
            BY <6>2, <6>3
        <5> QED
          BY <5>1, <5>2
      <4> QED
        BY <4>4 DEF InFlight
    <3> QED
      BY <3>1, <3>2
  <2> QED
    BY <2>3, <2>5 DEF LookupInv
<1>2. ASSUME NEW r \in Requests, Miss(r)
      PROVE  LookupInv'
  <2>1. PICK k \in Keys : k = req[r].key /\ r \in Of(req, k)
    BY <1>2 DEF LocalsInv, Miss, At, Of, Flying
  <2> DEFINE since == IF Live(lookups, k, now) THEN misses[k] ELSE 0
  <2>2. /\ lookups' \in AfterAllowed(lookups, k, now)
        /\ misses' = MissesOf(lookups', [misses EXCEPT ![k] = since + 1])
        /\ req' = [req EXCEPT ![r] = Idle]
    BY <1>2, <2>1 DEF Miss, Answer
  <2>3. /\ Matches(lookups', misses')
        /\ misses'[k] <= misses[k] + 1 /\ \A x \in Keys \ {k} : misses'[x] <= misses[x]
    BY <1>0, <2>1, <2>2, MissMatches
  <2>4. misses' \in [Keys -> Nat]
    <3>1. since + 1 \in Nat
      BY <1>0, <2>1
    <3> HIDE DEF since
    <3> QED
      BY <1>0, <2>2, <3>1 DEF MissesOf
  <2> HIDE DEF since
  <2>5. ASSUME NEW x \in Keys
        PROVE  misses'[x] + Cardinality(Of(req', x)) < Limit + Cardinality(Requests)
    <3>1. Of(req', x) = Of(req, x) \ {r}
      <4>1. Idle.pc \notin Flying
        BY DEF Idle, Flying
      <4>2. Of([req EXCEPT ![r] = Idle], x) = Of(req, x) \ {r}
        BY <1>0, <4>1 DEF Of
      <4>3. req' = [req EXCEPT ![r] = Idle]
        BY <2>2
      <4> QED
        BY <4>2, <4>3
    <3>2. misses[x] + Cardinality(Of(req, x)) < Limit + Cardinality(Requests)
          /\ Cardinality(Of(req, x)) \in Nat /\ Cardinality(Requests) \in Nat
          /\ misses[x] \in Nat /\ misses'[x] \in Nat /\ Limit \in Nat
      BY <1>0, <2>4, OfSize, LimiterAssumption DEF InFlight
    <3>3. /\ Cardinality(Of(req', x)) <= Cardinality(Of(req, x))
          /\ Cardinality(Of(req', x)) \in Nat
          /\ r \in Of(req, x) => Cardinality(Of(req', x)) = Cardinality(Of(req, x)) - 1
      BY <3>1, OfRemove
    <3>4. CASE x = k
      <4>1. misses'[x] <= misses[x] + 1
        BY <2>3, <3>4
      <4>2. Cardinality(Of(req', x)) = Cardinality(Of(req, x)) - 1
        BY <2>1, <3>3, <3>4
      <4> QED
        BY <3>2, <4>1, <4>2
    <3>5. CASE x # k
      <4>1. misses'[x] <= misses[x]
        BY <2>3, <3>5
      <4>2. Cardinality(Of(req', x)) <= Cardinality(Of(req, x))
            /\ Cardinality(Of(req', x)) \in Nat
        BY <3>3
      <4> QED
        BY <3>2, <4>1, <4>2
    <3> QED
      BY <3>4, <3>5
  <2> QED
    BY <2>3, <2>5 DEF LookupInv, InFlight
<1>3. ASSUME NEW r \in Requests, Hit(r)
      PROVE  LookupInv'
  <2> DEFINE K == DOMAIN lookups \ {req[r].key}
  <2>1. /\ lookups' = Restrict(lookups, K) /\ misses' = MissesOf(lookups', misses)
        /\ req' = [req EXCEPT ![r] = Idle]
    BY <1>3 DEF Hit, AfterReset, Answer
  <2>2. K \in SUBSET DOMAIN lookups
    OBVIOUS
  <2> HIDE DEF K
  <2>3. Matches(lookups', misses') /\ \A x \in Keys : misses'[x] <= misses[x]
    BY <1>0, <2>1, <2>2, DropMatches
  <2>4. misses' \in [Keys -> Nat]
    BY <1>0, <2>1 DEF MissesOf
  <2>5. Idle.pc \notin Flying
    BY DEF Idle, Flying
  <2>6. InFlight(misses', req')
    BY <2>1, <2>3, <2>4, <2>5, OthersFly
  <2> QED
    BY <2>3, <2>6 DEF LookupInv
<1>4. ASSUME UNCHANGED <<lookups, misses>>, NEW r \in Requests, NEW new,
             req' = [req EXCEPT ![r] = new],
             new.pc \notin Flying \/ (new.pc \in Flying /\ r \in Of(req, new.key))
      PROVE  LookupInv'
  BY <1>0, <1>4, OthersFly DEF LookupInv
<1>5. ASSUME NEW r \in Requests, Walk(r)
      PROVE  LookupInv'
  <2>1. PICK st \in {"hit", "miss"} : req' = [req EXCEPT ![r] = [req[r] EXCEPT !.pc = st]]
    BY <1>5 DEF Walk, Goto
  <2> DEFINE new == [req[r] EXCEPT !.pc = st]
  <2>2. new.pc = st /\ new.key = req[r].key /\ new.pc \in Flying
    BY <1>0 DEF Request, Flying
  <2>3. r \in Of(req, new.key)
    BY <1>5, <2>2 DEF Walk, At, Of, Flying
  <2>4. req' = [req EXCEPT ![r] = new]
    BY <2>1
  <2> HIDE DEF new
  <2> QED
    BY <1>4, <1>5, <2>2, <2>3, <2>4 DEF Walk
<1>6. ASSUME NEW r \in Requests, Enter(r) \/ Verify(r) \/ Reset(r)
      PROVE  LookupInv'
  <2>1. UNCHANGED <<lookups, misses>>
    BY <1>6 DEF Enter, Verify, Reset
  <2>2. Answer(r) \/ Goto(r, "verify") \/ Goto(r, "reset")
    BY <1>6 DEF Enter, Verify, Reset
  <2>3. CASE Answer(r)
    <3>1. Idle.pc \notin Flying
      BY DEF Idle, Flying
    <3> QED
      BY <1>4, <2>1, <2>3, <3>1 DEF Answer
  <2>4. ASSUME NEW st \in {"verify", "reset"}, Goto(r, st)
        PROVE  LookupInv'
    <3> DEFINE new == [req[r] EXCEPT !.pc = st]
    <3>1. req' = [req EXCEPT ![r] = new] /\ new.pc \notin Flying
      BY <1>0, <2>4 DEF Goto, Request, Flying
    <3> HIDE DEF new
    <3> QED
      BY <1>4, <2>1, <3>1
  <2> QED
    BY <2>2, <2>3, <2>4
<1>7. ASSUME NEW r \in Requests, NEW k \in Keys, Login(r, k)
      PROVE  LookupInv'
  <2>1. UNCHANGED <<lookups, misses>>
    BY <1>7 DEF Login
  <2>2. UNCHANGED req \/ \E st \in {"gate", "reset"} : Begin(r, st, k)
    BY <1>7 DEF Login
  <2>3. CASE UNCHANGED req
    BY <1>0, <2>1, <2>3 DEF LookupInv
  <2>4. ASSUME NEW st \in {"gate", "reset"}, Begin(r, st, k)
        PROVE  LookupInv'
    <3>1. [pc |-> st, key |-> k].pc \notin Flying
      BY DEF Flying
    <3> QED
      BY <1>4, <2>1, <2>4, <3>1 DEF Begin
  <2> QED
    BY <2>2, <2>3, <2>4
<1>8. CASE Tick \/ UNCHANGED vars
  <2>1. UNCHANGED <<lookups, misses, req>>
    BY <1>8 DEF Tick, vars
  <2> QED
    BY <1>0, <2>1 DEF LookupInv
<1> QED
  BY <1>1, <1>2, <1>3, <1>5, <1>6, <1>7, <1>8 DEF Next, Continue

-----------------------------------------------------------------------------
(* Logins: the checks of the window that is running are the last of the      *)
(* history, the first of them opened it, and a limit's worth of checks       *)
(* before it lies a window back.                                             *)

Spread(c) ==
    \A i, j \in 1 .. Len(c) : j = i + 2 * Limit - 1 => c[j] >= c[i] + Window

\* The last n checks of c are those of a window that started at s; the first b
\* came before it.
Counts(c, b, n, s) ==
    /\ Len(c) = b + n
    /\ c[b + 1] = s
    /\ \A i \in 1 .. b :
          /\ c[i] < s
          /\ i + Limit <= b + 1 => c[i] + Window <= s
    /\ \A i \in b + 1 .. b + n : s <= c[i] /\ c[i] < s + Window

\* One more check at the end.
LEMMA Appended ==
    ASSUME NEW c \in Seq(Nat), NEW t \in Nat
    PROVE  /\ Len(c) \in Nat
           /\ Append(c, t) \in Seq(Nat) /\ Len(Append(c, t)) = Len(c) + 1
           /\ Append(c, t)[Len(c) + 1] = t
           /\ \A i \in 1 .. Len(c) : Append(c, t)[i] = c[i] /\ c[i] \in Nat
OBVIOUS

\* It keeps the distance if it keeps that to the checks a limit back.
LEMMA SpreadAppended ==
    ASSUME NEW c \in Seq(Nat), NEW t \in Nat, Spread(c),
           \A i \in 1 .. Len(c) : i + (2 * Limit - 1) = Len(c) + 1 => c[i] + Window <= t
    PROVE  Spread(Append(c, t))
<1> DEFINE d == Append(c, t)
<1>1. /\ Len(c) \in Nat /\ Len(d) = Len(c) + 1 /\ d[Len(c) + 1] = t
      /\ \A i \in 1 .. Len(c) : d[i] = c[i] /\ c[i] \in Nat
    BY Appended
<1> HIDE DEF d
<1> SUFFICES ASSUME NEW i \in 1 .. Len(d), NEW j \in 1 .. Len(d), j = i + 2 * Limit - 1
             PROVE  d[j] >= d[i] + Window
    BY DEF Spread, d
<1>3. CASE j \in 1 .. Len(c)
    <2>1. i \in 1 .. Len(c)
        BY <1>1, <1>3, LimiterAssumption
    <2> QED BY <1>1, <1>3, <2>1 DEF Spread
<1>4. CASE j = Len(c) + 1
    <2>1. i \in 1 .. Len(c) /\ i + (2 * Limit - 1) = Len(c) + 1
        BY <1>1, <1>4, LimiterAssumption
    <2> QED BY <1>1, <1>4, <2>1, LimiterAssumption
<1> QED BY <1>1, <1>3, <1>4

\* One more check in the window that is running.
LEMMA OneMore ==
    ASSUME NEW c \in Seq(Nat), NEW b \in Nat, NEW n \in 1 .. Limit, NEW s \in Nat,
           NEW t \in Nat, Counts(c, b, n, s), Spread(c),
           n < Limit, s <= t, t < s + Window
    PROVE  Spread(Append(c, t)) /\ Counts(Append(c, t), b, n + 1, s)
<1> DEFINE d == Append(c, t)
<1> USE LimiterAssumption
<1>1. /\ Len(c) \in Nat /\ Len(d) = Len(c) + 1 /\ d[Len(c) + 1] = t
      /\ \A i \in 1 .. Len(c) : d[i] = c[i] /\ c[i] \in Nat
    BY Appended
<1>2. ASSUME NEW i \in 1 .. Len(c), i + (2 * Limit - 1) = Len(c) + 1
      PROVE  c[i] + Window <= t
    <2>1. i \in 1 .. b /\ i + Limit <= b + 1 /\ Len(c) = b + n
        <3>1. Len(c) = b + n
            BY DEF Counts
        <3> QED BY <1>2, <3>1
    <2>2. c[i] + Window <= s /\ c[i] \in Nat
        BY <1>1, <2>1 DEF Counts
    <2> QED BY <2>2
<1>3. Spread(d)
    BY <1>2, SpreadAppended
<1> HIDE DEF d
<1>4. Len(c) = b + n /\ c[b + 1] = s
    BY DEF Counts
<1>5. /\ Len(d) = b + (n + 1) /\ d[b + 1] = s
      /\ \A i \in 1 .. b : d[i] = c[i]
    BY <1>1, <1>4
<1>6. ASSUME NEW i \in b + 1 .. b + (n + 1)
      PROVE  s <= d[i] /\ d[i] < s + Window
    <2>1. CASE i = b + n + 1
        BY <1>1, <1>4, <2>1
    <2>2. CASE i \in b + 1 .. b + n
        <3>1. s <= c[i] /\ c[i] < s + Window
            BY <2>2 DEF Counts
        <3>2. d[i] = c[i]
            BY <1>1, <1>4, <2>2
        <3> QED BY <3>1, <3>2
    <2> QED BY <2>1, <2>2
<1>7. Counts(d, b, n + 1, s)
    BY <1>5, <1>6 DEF Counts
<1> QED BY <1>3, <1>7 DEF d

\* The first check of a window that follows one that is over.
LEMMA NextWindow ==
    ASSUME NEW c \in Seq(Nat), NEW b \in Nat, NEW n \in 1 .. Limit, NEW s \in Nat,
           NEW t \in Nat, Counts(c, b, n, s), Spread(c), s + Window <= t
    PROVE  Spread(Append(c, t)) /\ Counts(Append(c, t), Len(c), 1, t)
<1> DEFINE d == Append(c, t)
<1> USE LimiterAssumption
<1>1. /\ Len(c) \in Nat /\ Len(d) = Len(c) + 1 /\ d[Len(c) + 1] = t
      /\ \A i \in 1 .. Len(c) : d[i] = c[i] /\ c[i] \in Nat
    BY Appended
<1>2. Len(c) = b + n
    BY DEF Counts
<1>3. ASSUME NEW i \in 1 .. Len(c)
      PROVE  c[i] < t /\ (i + Limit <= Len(c) + 1 => c[i] + Window <= t)
    <2>1. CASE i <= b
        <3>1. c[i] < s /\ c[i] \in Nat
            BY <1>1, <1>2, <2>1 DEF Counts
        <3> QED BY <3>1
    <2>2. CASE i > b
        <3>1. s <= c[i] /\ c[i] < s + Window /\ c[i] \in Nat /\ c[b + 1] = s
            BY <1>1, <1>2, <2>2 DEF Counts
        <3>2. i + Limit <= Len(c) + 1 => i = b + 1
            BY <1>2, <2>2
        <3> QED BY <3>1, <3>2
    <2> QED BY <2>1, <2>2
<1>4. Spread(d)
    <2>1. ASSUME NEW i \in 1 .. Len(c), i + (2 * Limit - 1) = Len(c) + 1
          PROVE  c[i] + Window <= t
        <3>1. i + Limit <= Len(c) + 1
            BY <1>1, <2>1
        <3> QED BY <1>3, <3>1
    <2> QED BY <2>1, SpreadAppended
<1> HIDE DEF d
<1>5. Counts(d, Len(c), 1, t)
    BY <1>1, <1>3 DEF Counts
<1> QED BY <1>4, <1>5 DEF d

\* The first check of a key.
LEMMA FirstCheck ==
    ASSUME NEW t \in Nat
    PROVE  Spread(Append(<<>>, t)) /\ Counts(Append(<<>>, t), 0, 1, t)
<1> DEFINE d == Append(<<>>, t)
<1>1. Len(d) = 1 /\ d[1] = t
    OBVIOUS
<1> HIDE DEF d
<1>2. Spread(d)
    BY <1>1, LimiterAssumption DEF Spread
<1>3. Counts(d, 0, 1, t)
    BY <1>1, LimiterAssumption DEF Counts
<1> QED BY <1>2, <1>3 DEF d

\* The table knows of a key's history the window that is running.
Knows(t, c, k) ==
    /\ Spread(c[k])
    /\ k \notin DOMAIN t => c[k] = <<>>
    /\ k \in DOMAIN t => /\ t[k].count \in 1 .. Limit
                         /\ \E b \in Nat : Counts(c[k], b, t[k].count, t[k].start)

LoginInv == \A k \in Keys : Knows(logins, checks, k)

\* What `allowed` leaves: the key's window, and others as they were.
LEMMA AllowedEntries ==
    ASSUME NEW t, NEW k \in Keys, NEW u \in AfterAllowed(t, k, now),
           IsTable(t), Past(t), now \in Nat
    PROVE  /\ k \in DOMAIN u
           /\ u[k] = IF Allowed(t, k, now)
                     THEN [Current(t, k, now) EXCEPT !.count = @ + 1]
                     ELSE Current(t, k, now)
           /\ \A x \in DOMAIN u \ {k} : x \in DOMAIN t /\ u[x] = t[x]
           /\ ~Allowed(t, k, now) => \A x \in DOMAIN t : x \in DOMAIN u
<1> DEFINE w == Current(t, k, now)
           c == IF Allowed(t, k, now) THEN [w EXCEPT !.count = @ + 1] ELSE w
           p == Put(t, k, c)
<1>1. DOMAIN p = DOMAIN t \cup {k} /\ p[k] = c /\ \A x \in DOMAIN t \ {k} : p[x] = t[x]
  BY DEF Put
<1>2. CASE ~Allowed(t, k, now)
  <2>1. u = p
    BY <1>2 DEF AfterAllowed
  <2> HIDE DEF p
  <2> QED
    BY <1>1, <1>2, <2>1
<1>3. CASE Allowed(t, k, now)
  <2>1. u \in Trimmed(p, k)
    BY <1>3 DEF AfterAllowed
  <2> HIDE DEF p
  <2>2. u = p \/ \E K \in SUBSET DOMAIN p : k \in K /\ u = Restrict(p, K)
    BY <2>1 DEF Trimmed
  <2>3. /\ k \in DOMAIN u /\ DOMAIN u \subseteq DOMAIN p
        /\ \A x \in DOMAIN u : u[x] = p[x]
    BY <1>1, <2>2 DEF Restrict
  <2> QED
    BY <1>1, <1>3, <2>3
<1> QED
  BY <1>2, <1>3

\* A login that is let through is known of, and nothing else changes but that
\* the history of an evicted key ends.
LEMMA LoginKnown ==
    ASSUME NEW t, NEW c \in [Keys -> Seq(Times)], NEW k \in Keys,
           NEW u \in AfterAllowed(t, k, now), IsTable(t), Past(t), now \in Times,
           Allowed(t, k, now), \A x \in Keys : Knows(t, c, x)
    PROVE  \A x \in Keys : Knows(u, ChecksOf(u, [c EXCEPT ![k] = Append(@, now)]), x)
<1> DEFINE d == ChecksOf(u, [c EXCEPT ![k] = Append(@, now)])
           w == Current(t, k, now)
<1>1. now \in Nat /\ \A x \in Keys : c[x] \in Seq(Nat)
  BY AttemptsAssumption DEF Times
<1>2. w \in AttemptWindow /\ w.start <= now
  BY <1>1, CurrentWindow
<1>3. /\ k \in DOMAIN u /\ u[k] = [w EXCEPT !.count = @ + 1]
      /\ \A x \in DOMAIN u \ {k} : x \in DOMAIN t /\ u[x] = t[x]
  BY <1>1, AllowedEntries
<1>4. u[k].count = w.count + 1 /\ u[k].start = w.start
  BY <1>2, <1>3 DEF AttemptWindow
<1>5. /\ d[k] = Append(c[k], now)
      /\ \A x \in Keys \ {k} : d[x] = IF x \in DOMAIN u THEN c[x] ELSE <<>>
  BY <1>3 DEF ChecksOf
<1>6. w.count \in Nat /\ w.start \in Nat /\ w.count < Limit /\ Limit \in Nat
  BY <1>2, LimiterAssumption DEF AttemptWindow, Allowed
<1>7. Spread(d[k]) /\ \E b \in Nat : Counts(d[k], b, w.count + 1, w.start)
  <2>1. CASE Live(t, k, now)
    <3>1. w = t[k] /\ k \in DOMAIN t /\ now < w.start + Window
      BY <2>1 DEF Current, Live
    <3> HIDE DEF w, d
    <3>2. w.count \in 1 .. Limit /\ Spread(c[k])
      BY <3>1 DEF Knows
    <3>3. PICK b \in Nat : Counts(c[k], b, w.count, w.start)
      BY <3>1 DEF Knows
    <3>4. Spread(Append(c[k], now)) /\ Counts(Append(c[k], now), b, w.count + 1, w.start)
      BY <1>1, <1>2, <1>6, <3>1, <3>2, <3>3, OneMore
    <3> QED
      BY <1>5, <3>4
  <2>2. CASE ~Live(t, k, now) /\ k \in DOMAIN t
    <3>1. w = [count |-> 0, start |-> now] /\ t[k].start + Window <= now
      <4>1. t[k].start \in Nat
        BY <2>2 DEF IsTable, AttemptWindow
      <4> QED
        BY <1>1, <2>2, <4>1, LimiterAssumption DEF Current, Live
    <3>2. w.count + 1 = 1 /\ w.start = now
      BY <3>1
    <3> HIDE DEF w, d
    <3>3. t[k].count \in 1 .. Limit /\ Spread(c[k]) /\ t[k].start \in Nat
      BY <2>2 DEF Knows, IsTable, AttemptWindow
    <3>4. PICK b \in Nat : Counts(c[k], b, t[k].count, t[k].start)
      BY <2>2 DEF Knows
    <3>5. /\ Spread(Append(c[k], now))
          /\ Counts(Append(c[k], now), Len(c[k]), 1, now)
      BY <1>1, <3>1, <3>3, <3>4, NextWindow
    <3>6. Len(c[k]) \in Nat
      BY <1>1
    <3> QED
      BY <1>5, <3>2, <3>5, <3>6
  <2>3. CASE k \notin DOMAIN t
    <3>1. w = [count |-> 0, start |-> now] /\ c[k] = <<>>
      BY <2>3 DEF Current, Live, Knows
    <3>2. w.count + 1 = 1 /\ w.start = now
      BY <3>1
    <3> HIDE DEF w, d
    <3>3. Spread(Append(c[k], now)) /\ Counts(Append(c[k], now), 0, 1, now)
      BY <1>1, <3>1, FirstCheck
    <3> QED
      BY <1>5, <3>2, <3>3
  <2> QED
    BY <2>1, <2>2, <2>3
<1> HIDE DEF d, w
<1>8. Knows(u, d, k)
  <2>1. u[k].count \in 1 .. Limit
    BY <1>4, <1>6
  <2> QED
    BY <1>3, <1>4, <1>7, <2>1 DEF Knows
<1>9. ASSUME NEW x \in Keys \ {k}
      PROVE  Knows(u, d, x)
  <2>1. CASE x \in DOMAIN u
    BY <1>3, <1>5, <2>1 DEF Knows
  <2>2. CASE x \notin DOMAIN u
    <3>1. Spread(<<>>)
      BY DEF Spread
    <3> QED
      BY <1>5, <2>2, <3>1 DEF Knows
  <2> QED
    BY <2>1, <2>2
<1> QED
  BY <1>8, <1>9 DEF d

LEMMA LoginInit == Init => LoginInv
<1> SUFFICES ASSUME Init, NEW k \in Keys PROVE Knows(logins, checks, k)
  BY DEF LoginInv
<1>1. checks[k] = <<>> /\ DOMAIN logins = {}
  BY DEF Init, EmptyTable
<1>2. Spread(<<>>)
  BY DEF Spread
<1> QED
  BY <1>1, <1>2 DEF Knows

LEMMA LoginStep ==
    ASSUME TablesInv, LocalsInv, LoginInv, [Next]_vars
    PROVE  LoginInv'
<1>0. /\ now \in Times /\ now \in Nat /\ IsTable(logins) /\ Past(logins)
      /\ checks \in [Keys -> Seq(Times)]
      /\ \A k \in Keys : Knows(logins, checks, k)
  BY DEF TablesInv, LocalsInv, LoginInv, Fits, Times
<1>1. ASSUME NEW r \in Requests, NEW k \in Keys, Login(r, k)
      PROVE  LoginInv'
  <2>1. logins' \in AfterAllowed(logins, k, now)
    BY <1>1 DEF Login
  <2>2. CASE Allowed(logins, k, now)
    <3>1. checks' = ChecksOf(logins', [checks EXCEPT ![k] = Append(@, now)])
      BY <1>1, <2>2 DEF Login
    <3>2. \A x \in Keys : Knows(logins', checks', x)
      BY <1>0, <2>1, <2>2, <3>1, LoginKnown
    <3> QED
      BY <3>2 DEF LoginInv, Knows
  <2>3. CASE ~Allowed(logins, k, now)
    <3>1. Live(logins, k, now) /\ Current(logins, k, now) = logins[k]
      BY <2>3, LimiterAssumption DEF Allowed, Current
    <3>2. /\ k \in DOMAIN logins' /\ logins'[k] = logins[k]
          /\ \A x \in DOMAIN logins' \ {k} : x \in DOMAIN logins /\ logins'[x] = logins[x]
          /\ \A x \in DOMAIN logins : x \in DOMAIN logins'
      BY <1>0, <2>1, <2>3, <3>1, AllowedEntries
    <3>3. checks' = checks
      BY <1>1, <2>3 DEF Login
    <3>4. ASSUME NEW x \in Keys
          PROVE  Knows(logins', checks', x)
      <4>1. x \in DOMAIN logins <=> x \in DOMAIN logins'
        BY <3>1, <3>2 DEF Live
      <4>2. x \in DOMAIN logins => logins'[x] = logins[x]
        BY <3>2, <4>1
      <4> QED
        BY <1>0, <3>3, <4>1, <4>2 DEF Knows
    <3> QED
      BY <3>4 DEF LoginInv, Knows
  <2> QED
    BY <2>2, <2>3
<1>2. ASSUME NEW r \in Requests, Reset(r)
      PROVE  LoginInv'
  <2> DEFINE K == DOMAIN logins \ {req[r].key}
  <2>1. logins' = Restrict(logins, K) /\ checks' = ChecksOf(logins', checks)
    BY <1>2 DEF Reset, AfterReset
  <2>2. DOMAIN logins' = K /\ \A x \in K : logins'[x] = logins[x]
    BY <2>1 DEF Restrict
  <2>3. \A x \in Keys : checks'[x] = IF x \in K THEN checks[x] ELSE <<>>
    BY <2>1, <2>2 DEF ChecksOf
  <2>4. Spread(<<>>) /\ K \subseteq DOMAIN logins
    BY DEF Spread
  <2> HIDE DEF K
  <2>5. \A x \in Keys : Knows(logins', checks', x)
    BY <1>0, <2>2, <2>3, <2>4 DEF Knows
  <2> QED
    BY <2>5 DEF LoginInv, Knows
<1>3. CASE \/ Tick \/ UNCHANGED vars
          \/ \E r \in Requests :
                \/ Enter(r) \/ Verify(r) \/ Walk(r) \/ Miss(r) \/ Hit(r)
                \/ \E k \in Keys : Lookup(r, k)
  <2>1. UNCHANGED <<logins, checks>>
    BY <1>3 DEF Tick, Enter, Verify, Walk, Miss, Hit, Lookup, vars
  <2> QED
    BY <1>0, <2>1 DEF LoginInv, Knows
<1> QED
  BY <1>1, <1>2, <1>3 DEF Next, Continue

-----------------------------------------------------------------------------

IInv == TablesInv /\ LocalsInv /\ GateInv /\ LookupInv /\ LoginInv

\* The inductive invariant of the limiters, their users and the gate.
LEMMA Inductive == Spec => []IInv
<1>1. Init => IInv
  BY TablesInit, LocalsInit, InFlightInit, LoginInit DEF IInv
<1>2. IInv /\ [Next]_vars => IInv'
  <2> SUFFICES ASSUME IInv, [Next]_vars PROVE IInv'
    OBVIOUS
  <2>1. TablesInv'
    BY TablesStep DEF IInv, LocalsInv
  <2>2. LocalsInv'
    BY RequestStep, HistoryStep DEF IInv, TablesInv, LocalsInv, At
  <2> QED
    BY <2>1, <2>2, GateStep, LookupStep, LoginStep DEF IInv
<1> QED
  BY <1>1, <1>2, PTL DEF Spec

\* Every variable keeps its type, for any limits, keys and requests.
THEOREM TypeCorrect == Spec => []TypeOK
<1>1. IInv => TypeOK
  BY DEF IInv, TablesInv, LocalsInv, GateInv, TypeOK, Fits, Past
<1> QED
  BY <1>1, Inductive, PTL

\* However many sources and requests there are, in whatever order they come,
\* neither limiter table ever holds more than max entries.
THEOREM TablesBounded == Spec => []Bounded
<1>1. IInv => Bounded
  BY DEF IInv, TablesInv, Bounded, Fits
<1> QED
  BY <1>1, Inductive, PTL

\* Whoever waits at the KDF gate is in its queue once, and nobody else is: a
\* key derivation is never run by two requests and no slot is lost.
THEOREM GateKept == Spec => []GateInOrder
<1>1. IInv => GateInOrder
  BY DEF IInv, GateInv
<1> QED
  BY <1>1, Inductive, PTL

\* Asking the limiter first and counting a miss later lets a source search in
\* vain once per request in flight beyond the limit, and never more often,
\* however the searches, the evictions and the windows meet.
THEOREM SearchesBounded == Spec => []LookupsLimited
<1>1. IInv => LookupsLimited
  <2> SUFFICES ASSUME IInv, NEW k \in Keys
               PROVE  misses[k] < Limit + Cardinality(Requests)
    BY DEF LookupsLimited
  <2>1. misses[k] + Cardinality(Of(req, k)) < Limit + Cardinality(Requests)
        /\ misses[k] \in Nat /\ Limit \in Nat
    BY LimiterAssumption DEF IInv, LookupInv, InFlight, LocalsInv
  <2>2. Cardinality(Of(req, k)) \in Nat /\ Cardinality(Requests) \in Nat
    BY OfSize
  <2> QED
    BY <2>1, <2>2
<1> QED
  BY <1>1, Inductive, PTL

\* Of twice the limit of password checks in a row the last comes a whole window
\* after the first, wherever the fixed windows fall: the first window of two that
\* meet began with its first check, and the second holds no more than the limit.
THEOREM ChecksSpread == Spec => []LoginsLimited
<1>1. IInv => LoginsLimited
  BY DEF IInv, LoginInv, LocalsInv, Knows, Spread, LoginsLimited
<1> QED
  BY <1>1, Inductive, PTL

\* The login table forgets attempts only for a request that may reset the key,
\* or for one of a new key that finds the table full.
THEOREM AttemptsKept == Spec => WindowKept
<1> DEFINE A == \A k \in DOMAIN logins :
         Live(logins, k, now) /\ k \notin DOMAIN logins' =>
            \/ \E r \in Requests : req[r] = [pc |-> "reset", key |-> k]
            \/ /\ DOMAIN logins' \ DOMAIN logins # {}
               /\ Cardinality(DOMAIN logins') = Capacity
<1>1. IInv /\ [Next]_vars => [A]_vars
  <2> SUFFICES ASSUME IInv, Next, NEW k \in DOMAIN logins, k \notin DOMAIN logins'
               PROVE  \/ \E r \in Requests : req[r] = [pc |-> "reset", key |-> k]
                      \/ /\ DOMAIN logins' \ DOMAIN logins # {}
                         /\ Cardinality(DOMAIN logins') = Capacity
    OBVIOUS
  <2>1. PICK r \in Requests : Reset(r) \/ \E x \in Keys : Login(r, x)
    BY DEF Next, Tick, Continue, Enter, Verify, Walk, Miss, Hit, Lookup
  <2>2. CASE Reset(r)
    <3>1. DOMAIN logins' = DOMAIN logins \ {req[r].key} /\ req[r].pc = "reset"
      BY <2>2 DEF Reset, AfterReset, Restrict, At
    <3>2. req[r] \in Request /\ req[r].key = k
      BY <3>1 DEF IInv, LocalsInv
    <3>3. req[r] = [pc |-> "reset", key |-> k]
      BY <3>1, <3>2 DEF Request
    <3> QED
      BY <3>3
  <2>3. ASSUME NEW x \in Keys, Login(r, x)
        PROVE  /\ DOMAIN logins' \ DOMAIN logins # {}
               /\ Cardinality(DOMAIN logins') = Capacity
    <3> DEFINE w == Current(logins, x, now)
               p == Put(logins, x, [w EXCEPT !.count = @ + 1])
    <3>1. DOMAIN p = DOMAIN logins \cup {x} /\ DOMAIN Put(logins, x, w) = DOMAIN logins \cup {x}
      BY DEF Put
    <3>2. Allowed(logins, x, now) /\ logins' \in Trimmed(p, x)
      <4>1. logins' \in AfterAllowed(logins, x, now)
        BY <2>3 DEF Login
      <4> HIDE DEF p
      <4>2. CASE Allowed(logins, x, now)
        BY <4>1, <4>2 DEF AfterAllowed, p
      <4>3. CASE ~Allowed(logins, x, now)
        <5>1. logins' = Put(logins, x, w)
          BY <4>1, <4>3 DEF AfterAllowed
        <5> QED
          BY <3>1, <5>1
      <4> QED
        BY <4>2, <4>3
    <3> HIDE DEF p
    <3>3. /\ ~(Cardinality(DOMAIN p) <= Capacity)
          /\ \E K \in SUBSET DOMAIN p : x \in K /\ Cardinality(K) = Capacity
                                        /\ logins' = Restrict(p, K)
      BY <3>1, <3>2 DEF Trimmed
    <3>4. PICK K \in SUBSET DOMAIN p : x \in K /\ Cardinality(K) = Capacity
                                       /\ logins' = Restrict(p, K)
      BY <3>3
    <3>5. DOMAIN logins' = K
      BY <3>4 DEF Restrict
    <3>6. x \notin DOMAIN logins
      <4>1. x \in DOMAIN logins => DOMAIN p = DOMAIN logins
        BY <3>1
      <4>2. Cardinality(DOMAIN logins) <= Capacity
        BY DEF IInv, TablesInv, Fits
      <4> QED
        BY <3>3, <4>1, <4>2
    <3> QED
      BY <3>4, <3>5, <3>6
  <2> QED
    BY <2>1, <2>2, <2>3
<1>2. [][A]_vars => WindowKept
  BY PTL DEF WindowKept
<1> QED
  BY <1>1, <1>2, Inductive, PTL DEF Spec

=============================================================================
