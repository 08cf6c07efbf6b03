------------------------- MODULE FoldedPolicyProofs -------------------------
(***************************************************************************)
(* That the policy of a chain of files, said all at once, is a policy, and   *)
(* is what the loop folds together file by file.                            *)
(***************************************************************************)
EXTENDS FoldedPolicy, FiniteSetTheorems, WellFoundedInduction, TLAPS

LEMMA HasGreatest ==
    ASSUME NEW N \in Nat, NEW T, T \subseteq 0 .. N, T # {}
    PROVE  \E x \in T : \A y \in T : x >= y
<1> DEFINE F == {x .. N : x \in T}
<1>1. F \subseteq FiniteSubsetsOf(0 .. N) /\ F # {}
    <2>1. \A x \in T : x .. N \subseteq 0 .. N /\ IsFiniteSet(x .. N)
        BY FS_Interval
    <2> QED BY <2>1 DEF FiniteSubsetsOf
<1>2. IsFiniteSet(0 .. N)
    BY FS_Interval
<1>3. IsWellFoundedOn(StrictSubsetOrdering(0 .. N), FiniteSubsetsOf(0 .. N))
    BY <1>2, FS_StrictSubsetOrderingWellFounded
<1> HIDE DEF F
<1>4. \E S \in F : \A U \in F : ~ (<<U, S>> \in StrictSubsetOrdering(0 .. N))
    BY <1>1, <1>3, WFMin
<1> USE DEF F
<1>5. PICK x \in T : \A y \in T : ~ (<<y .. N, x .. N>> \in StrictSubsetOrdering(0 .. N))
    BY <1>4
<1>6. ASSUME NEW y \in T, y > x PROVE FALSE
    <2>1. y .. N \subseteq x .. N /\ x \in x .. N /\ x \notin y .. N
        BY <1>6
    <2>2. y .. N \in SUBSET (0 .. N) /\ x .. N \in SUBSET (0 .. N)
        OBVIOUS
    <2> QED BY <2>1, <2>2, <1>5, <1>6 DEF StrictSubsetOrdering
<1> QED BY <1>5, <1>6

LEMMA FixedPolicies == Unprotected \in Policy /\ Locked \in Policy
<1>1. /\ 1 \in Positions /\ {} \in SUBSET Setting
      /\ TRUE \in BOOLEAN /\ FALSE \in BOOLEAN /\ None \in Passwords \cup {None}
    BY FoldedPolicyAssumption DEF Positions
<1>2. Unprotected \in Policy
    BY <1>1 DEF Unprotected, Policy
<1>3. Locked \in Policy
    BY <1>1 DEF Locked, Policy
<1> QED BY <1>2, <1>3

LEMMA SettingsOfType ==
    ASSUME NEW i \in Positions, NEW e \in Entry
    PROVE  SettingsOf(i, e) \subseteq Setting
<1>1. e.password # None => <<i, "password", e.password>> \in Setting
    BY DEF Setting, Entry
<1>2. e.scripts # "unset" => <<i, "scripts", e.scripts>> \in Setting
    BY DEF Setting, Entry
<1> QED BY <1>1, <1>2 DEF SettingsOf

LEMMA MergeType ==
    ASSUME NEW p \in Policy, NEW i \in Positions, NEW e \in Entry
    PROVE  Merge(p, i, e) \in Policy
<1>1. p.chain \cup SettingsOf(i, e) \subseteq Setting
    BY SettingsOfType DEF Policy
<1>2. /\ p.password \in Passwords \cup {None} /\ p.boundary \in Positions
      /\ p.scripts \in BOOLEAN /\ e.password \in Passwords \cup {None}
    BY DEF Policy, Entry
<1> QED BY <1>1, <1>2 DEF Merge, Policy

LEMMA WithStartupType ==
    ASSUME NEW p \in Policy, NEW s \in Passwords \cup {None}
    PROVE  WithStartup(p, s) \in Policy
<1>1. 0 \in Positions
    BY FoldedPolicyAssumption DEF Positions
<1> QED BY <1>1 DEF WithStartup, Policy

LEMMA VersionType ==
    ASSUME NEW p \in Policy
    PROVE  Version(p) \in (SUBSET Setting) \X Positions \X (Passwords \cup {None})
BY DEF Version, Policy

-----------------------------------------------------------------------------
(* The nearest position that sets something.                                *)

Sets(e, what) ==
    \/ what = "password" /\ e.password # None
    \/ what = "scripts" /\ e.scripts # "unset"

Setters(c, last, what) == {i \in 0 .. last : Sets(c[i], what)}

LEMMA SettersOfChain ==
    ASSUME NEW c \in Chain, NEW last \in Positions, NEW what \in {"password", "scripts"}
    PROVE  {s[1] : s \in {t \in Settings(c, last) : t[2] = what}} = Setters(c, last, what)
<1> DEFINE S == {s[1] : s \in {t \in Settings(c, last) : t[2] = what}}
<1>1. ASSUME NEW i \in S PROVE i \in Setters(c, last, what)
    <2>1. PICK t \in Settings(c, last) : t[2] = what /\ i = t[1]
        BY <1>1
    <2>2. PICK j \in 0 .. last : t \in SettingsOf(j, c[j])
        BY <2>1 DEF Settings
    <2>3. \/ t = <<j, "password", c[j].password>> /\ c[j].password # None
          \/ t = <<j, "scripts", c[j].scripts>> /\ c[j].scripts # "unset"
        BY <2>2 DEF SettingsOf
    <2>4. i = j /\ Sets(c[j], what)
        BY <2>1, <2>3 DEF Sets
    <2> QED BY <2>4 DEF Setters
<1>2. ASSUME NEW i \in Setters(c, last, what) PROVE i \in S
    <2>1. i \in 0 .. last /\ Sets(c[i], what)
        BY <1>2 DEF Setters
    <2>2. CASE what = "password"
        <3>1. <<i, "password", c[i].password>> \in SettingsOf(i, c[i])
            BY <2>1, <2>2 DEF Sets, SettingsOf
        <3>2. <<i, "password", c[i].password>> \in Settings(c, last)
            BY <2>1, <3>1 DEF Settings
        <3> QED BY <3>2, <2>2
    <2>3. CASE what = "scripts"
        <3>1. <<i, "scripts", c[i].scripts>> \in SettingsOf(i, c[i])
            BY <2>1, <2>3 DEF Sets, SettingsOf
        <3>2. <<i, "scripts", c[i].scripts>> \in Settings(c, last)
            BY <2>1, <3>1 DEF Settings
        <3> QED BY <3>2, <2>3
    <2> QED BY <2>2, <2>3
<1> QED BY <1>1, <1>2

\* Nearest is the greatest position that sets `what`; -1 if there is none.
LEMMA NearestIs ==
    ASSUME NEW c \in Chain, NEW last \in Positions, NEW what \in {"password", "scripts"}
    PROVE  LET n == Nearest(c, last, what) IN
           /\ n \in {-1} \cup Setters(c, last, what)
           /\ \A i \in Setters(c, last, what) : i <= n
<1> DEFINE T == Setters(c, last, what)
           S == {-1} \cup T
<1>1. T \subseteq 0 .. last /\ last \in Nat
    BY FoldedPolicyAssumption DEF Setters, Positions
<1>2. \E x \in S : \A y \in S : x >= y
    <2>1. CASE T = {}
        BY <2>1
    <2>2. CASE T # {}
        <3> HIDE DEF T
        <3>1. PICK x \in T : \A y \in T : x >= y
            BY <2>2, <1>1, HasGreatest
        <3> QED BY <3>1, <1>1
    <2> QED BY <2>1, <2>2
<1>3. Nearest(c, last, what) = Max(S)
    BY SettersOfChain DEF Nearest
<1> HIDE DEF S
<1>4. Max(S) \in S /\ \A y \in S : Max(S) >= y
    BY <1>2 DEF Max
<1> USE DEF S
<1> HIDE DEF T
<1>5. \A y \in T : y <= Max(S)
    BY <1>1, <1>4
<1> QED BY <1>3, <1>4, <1>5 DEF T

\* Only what is on the way matters.
LEMMA NearestAt ==
    ASSUME NEW c \in Chain, NEW last \in Positions, NEW what \in {"password", "scripts"},
           NEW n, n \in {-1} \cup Setters(c, last, what),
           \A i \in Setters(c, last, what) : i <= n
    PROVE  Nearest(c, last, what) = n
<1>1. Setters(c, last, what) \subseteq Int
    BY DEF Setters
<1> QED BY <1>1, NearestIs, FoldedPolicyAssumption DEF Setters, Positions

\* A policy said all at once is a policy.
LEMMA PolicyOfType ==
    ASSUME NEW c \in Chain, NEW last \in Positions, NEW s \in Passwords \cup {None}
    PROVE  PolicyOf(c, last, s) \in Policy
<1> DEFINE at == Nearest(c, last, "password")
           hs == Nearest(c, last, "scripts")
<1>1. 0 .. last \subseteq Positions /\ 0 \in Positions /\ 1 \in Positions
    BY FoldedPolicyAssumption DEF Positions
<1>2. \A i \in 0 .. last : c[i] \in Entry
    BY <1>1 DEF Chain
<1>3. at \in {-1} \cup 0 .. last
    BY NearestIs DEF Setters
<1>4. Settings(c, last) \subseteq Setting
    BY <1>1, <1>2, SettingsOfType DEF Settings
<1> HIDE DEF at, hs
<1>5. at >= 0 => at \in 0 .. last
    BY <1>3
<1>6. at >= 0 => c[at].password \in Passwords \cup {None} /\ at \in Positions
    BY <1>1, <1>2, <1>5 DEF Entry
<1>7. (hs >= 0 => c[hs].scripts = "allow") \in BOOLEAN
    OBVIOUS
<1> DEFINE p == [locked   |-> FALSE,
              password |-> IF at >= 0 THEN c[at].password ELSE s,
              boundary |-> IF at >= 0 THEN at
                           ELSE IF s # None THEN 0 ELSE 1,
              scripts  |-> hs >= 0 => c[hs].scripts = "allow",
              chain    |-> Settings(c, last)]
<1>8. p \in Policy
    <2>1. /\ (IF at >= 0 THEN c[at].password ELSE s) \in Passwords \cup {None}
          /\ (IF at >= 0 THEN at ELSE IF s # None THEN 0 ELSE 1) \in Positions
        BY <1>1, <1>6
    <2> QED BY <2>1, <1>4, <1>7 DEF Policy
<1>9. PolicyOf(c, last, s) = IF \E i \in 0 .. last : ~c[i].usable THEN Locked ELSE p
    BY DEF PolicyOf, at, hs
<1> QED BY <1>8, <1>9, FixedPolicies

-----------------------------------------------------------------------------
(* Folding file by file gives the same.                                     *)

\* A policy depends on the files on its way only.
LEMMA PolicyOnTheWay ==
    ASSUME NEW c \in Chain, NEW d \in Chain, NEW last \in Positions,
           NEW s \in Passwords \cup {None},
           \A i \in 0 .. last : c[i] = d[i]
    PROVE  PolicyOf(c, last, s) = PolicyOf(d, last, s)
<1>1. Settings(c, last) = Settings(d, last)
    BY DEF Settings
<1>2. \A what : Nearest(c, last, what) = Nearest(d, last, what)
    BY <1>1 DEF Nearest
<1>3. \A what \in {"password", "scripts"} :
        Nearest(c, last, what) \in {-1} \cup 0 .. last
    BY NearestIs DEF Setters
<1> DEFINE at == Nearest(c, last, "password")
           hs == Nearest(c, last, "scripts")
<1>4. (at >= 0 => c[at] = d[at]) /\ (hs >= 0 => c[hs] = d[hs])
    BY <1>3
<1> HIDE DEF at, hs
<1> DEFINE x == (hs >= 0 => c[hs].scripts = "allow")
           y == (hs >= 0 => d[hs].scripts = "allow")
           u == \E i \in 0 .. last : ~c[i].usable
           v == \E i \in 0 .. last : ~d[i].usable
           pc == IF at >= 0 THEN c[at].password ELSE s
           pd == IF at >= 0 THEN d[at].password ELSE s
           b == IF at >= 0 THEN at ELSE IF s # None THEN 0 ELSE 1
<1>5. (x <=> y) /\ (u <=> v) /\ pc = pd
    BY <1>4
<1>6. PolicyOf(c, last, s) =
        IF u THEN Locked
        ELSE [locked |-> FALSE, password |-> pc, boundary |-> b, scripts |-> x,
              chain |-> Settings(c, last)]
    BY DEF PolicyOf, at, hs
<1>7. /\ at = Nearest(d, last, "password")
      /\ hs = Nearest(d, last, "scripts")
    BY <1>2 DEF at, hs
<1>8. PolicyOf(d, last, s) =
        IF v THEN Locked
        ELSE [locked |-> FALSE, password |-> pd, boundary |-> b, scripts |-> y,
              chain |-> Settings(d, last)]
    BY Zenon, <1>7 DEF PolicyOf
<1>9. x \in BOOLEAN /\ y \in BOOLEAN
    OBVIOUS
<1>10. x = y
    BY <1>5, <1>9
<1> HIDE DEF x, y, u, v, pc, pd, b
<1> QED BY <1>1, <1>5, <1>6, <1>8, <1>10

\* The data root's own file.
LEMMA FoldBegins ==
    ASSUME NEW c \in Chain, c[0].usable
    PROVE  PolicyOf(c, 0, None) = Merge(Unprotected, 0, c[0])
<1>1. 0 \in Positions /\ c[0] \in Entry
    BY FoldedPolicyAssumption DEF Positions, Chain
<1>2. Settings(c, 0) = SettingsOf(0, c[0])
    BY DEF Settings
<1>3. ~ \E i \in 0 .. 0 : ~c[i].usable
    OBVIOUS
<1>4. ASSUME NEW what \in {"password", "scripts"}
      PROVE  Nearest(c, 0, what) = IF Sets(c[0], what) THEN 0 ELSE -1
    <2>1. Setters(c, 0, what) = IF Sets(c[0], what) THEN {0} ELSE {}
        BY DEF Setters
    <2> QED BY <1>1, <2>1, NearestAt
<1>5. Nearest(c, 0, "password") = IF c[0].password # None THEN 0 ELSE -1
    BY <1>4 DEF Sets
<1>6. Nearest(c, 0, "scripts") = IF c[0].scripts # "unset" THEN 0 ELSE -1
    BY <1>4 DEF Sets
<1> DEFINE at == Nearest(c, 0, "password")
           hs == Nearest(c, 0, "scripts")
           x == (hs >= 0 => c[hs].scripts = "allow")
           y == IF c[0].scripts # "unset" THEN c[0].scripts = "allow" ELSE TRUE
<1>7. PolicyOf(c, 0, None) =
        [locked   |-> FALSE,
         password |-> IF at >= 0 THEN c[at].password ELSE None,
         boundary |-> IF at >= 0 THEN at ELSE 1,
         scripts  |-> x,
         chain    |-> SettingsOf(0, c[0])]
    BY <1>2, <1>3 DEF PolicyOf
<1>8. Merge(Unprotected, 0, c[0]) =
        [locked   |-> FALSE,
         password |-> IF c[0].password # None THEN c[0].password ELSE None,
         boundary |-> IF c[0].password # None THEN 0 ELSE 1,
         scripts  |-> y,
         chain    |-> SettingsOf(0, c[0])]
    <2>1. {} \cup SettingsOf(0, c[0]) = SettingsOf(0, c[0])
        OBVIOUS
    <2> QED BY <2>1 DEF Merge, Unprotected
<1>9. x \in BOOLEAN /\ y \in BOOLEAN /\ (x <=> y)
    <2>1. CASE c[0].scripts = "unset"
        <3>1. ~(hs >= 0)
            BY <1>6, <2>1
        <3> QED BY <2>1, <3>1
    <2>2. CASE c[0].scripts # "unset"
        <3>1. hs = 0
            BY <1>6, <2>2
        <3> HIDE DEF hs
        <3> QED BY <2>2, <3>1
    <2> QED BY <2>1, <2>2
<1> DEFINE px == IF at >= 0 THEN c[at].password ELSE None
           bx == IF at >= 0 THEN at ELSE 1
           py == IF c[0].password # None THEN c[0].password ELSE None
           by == IF c[0].password # None THEN 0 ELSE 1
<1>10. px = py /\ bx = by
    BY <1>5
<1>11. x = y
    BY <1>9
<1>12. PolicyOf(c, 0, None) =
        [locked |-> FALSE, password |-> px, boundary |-> bx, scripts |-> x,
         chain |-> SettingsOf(0, c[0])]
    BY <1>7
<1>13. Merge(Unprotected, 0, c[0]) =
        [locked |-> FALSE, password |-> py, boundary |-> by, scripts |-> y,
         chain |-> SettingsOf(0, c[0])]
    BY <1>8
<1> HIDE DEF x, y, px, py, bx, by
<1> QED BY <1>10, <1>11, <1>12, <1>13

\* One file more.
LEMMA FoldGoesOnBy ==
    ASSUME NEW c \in Chain, NEW i \in Positions, i + 1 \in Positions,
           \A j \in 0 .. i + 1 : c[j].usable
    PROVE  PolicyOf(c, i + 1, None) = Merge(PolicyOf(c, i, None), i + 1, c[i + 1])
<1> DEFINE n(what) == Nearest(c, i, what)
           m(what) == Nearest(c, i + 1, what)
           e == c[i + 1]
<1>1. i \in Nat /\ 0 .. i + 1 = (0 .. i) \cup {i + 1} /\ e \in Entry
    BY FoldedPolicyAssumption DEF Positions, Chain
<1>2. Settings(c, i + 1) = Settings(c, i) \cup SettingsOf(i + 1, e)
    BY <1>1 DEF Settings
<1>3. ASSUME NEW what \in {"password", "scripts"}
      PROVE  /\ m(what) = IF Sets(e, what) THEN i + 1 ELSE n(what)
             /\ n(what) \in {-1} \cup 0 .. i
    <2>1. Setters(c, i + 1, what) = Setters(c, i, what) \cup {j \in {i + 1} : Sets(c[j], what)}
        BY <1>1 DEF Setters
    <2>2. /\ n(what) \in {-1} \cup Setters(c, i, what)
          /\ \A j \in Setters(c, i, what) : j <= n(what)
        BY NearestIs
    <2>3. Setters(c, i, what) \subseteq 0 .. i
        BY DEF Setters
    <2>4. CASE Sets(e, what)
        <3>1. i + 1 \in Setters(c, i + 1, what)
            BY <2>1, <2>4
        <3>2. \A j \in Setters(c, i + 1, what) : j <= i + 1
            BY <1>1, <2>1, <2>3
        <3>3. m(what) = i + 1
            BY <3>1, <3>2, NearestAt
        <3> QED BY <3>3, <2>2, <2>3, <2>4
    <2>5. CASE ~Sets(e, what)
        <3>1. Setters(c, i + 1, what) = Setters(c, i, what)
            BY <2>1, <2>5
        <3>2. m(what) = n(what)
            BY <3>1, <2>2, NearestAt
        <3> QED BY <3>2, <2>2, <2>3, <2>5
    <2> QED BY <2>4, <2>5
<1>4. /\ m("password") = IF e.password # None THEN i + 1 ELSE n("password")
      /\ m("scripts") = IF e.scripts # "unset" THEN i + 1 ELSE n("scripts")
      /\ n("password") \in {-1} \cup 0 .. i
      /\ n("scripts") \in {-1} \cup 0 .. i
    BY <1>3 DEF Sets
<1> HIDE DEF n, m
<1> DEFINE at == n("password")
           hs == n("scripts")
<1> DEFINE w == (hs >= 0 => c[hs].scripts = "allow")
           x == (m("scripts") >= 0 => c[m("scripts")].scripts = "allow")
           y == IF e.scripts # "unset" THEN e.scripts = "allow" ELSE w
<1>5. PolicyOf(c, i, None) =
        [locked   |-> FALSE,
         password |-> IF at >= 0 THEN c[at].password ELSE None,
         boundary |-> IF at >= 0 THEN at ELSE 1,
         scripts  |-> w,
         chain    |-> Settings(c, i)]
    BY <1>1 DEF PolicyOf, n
<1>6. PolicyOf(c, i + 1, None) =
        [locked   |-> FALSE,
         password |-> IF m("password") >= 0 THEN c[m("password")].password ELSE None,
         boundary |-> IF m("password") >= 0 THEN m("password") ELSE 1,
         scripts  |-> x,
         chain    |-> Settings(c, i + 1)]
    BY <1>1 DEF PolicyOf, m
<1>7. /\ (IF m("password") >= 0 THEN c[m("password")].password ELSE None)
          = IF e.password # None THEN e.password
            ELSE IF at >= 0 THEN c[at].password ELSE None
      /\ (IF m("password") >= 0 THEN m("password") ELSE 1)
          = IF e.password # None THEN i + 1 ELSE IF at >= 0 THEN at ELSE 1
    BY <1>1, <1>4
<1>8. x = y
    BY <1>1, <1>4
<1> HIDE DEF w, x
<1>9. Merge(PolicyOf(c, i, None), i + 1, e) =
        [locked   |-> FALSE,
         password |-> IF e.password # None THEN e.password
                      ELSE IF at >= 0 THEN c[at].password ELSE None,
         boundary |-> IF e.password # None THEN i + 1 ELSE IF at >= 0 THEN at ELSE 1,
         scripts  |-> y,
         chain    |-> Settings(c, i) \cup SettingsOf(i + 1, e)]
    BY <1>5 DEF Merge
<1> HIDE DEF y, at, hs, e
<1> DEFINE px == IF m("password") >= 0 THEN c[m("password")].password ELSE None
           bx == IF m("password") >= 0 THEN m("password") ELSE 1
           py == IF e.password # None THEN e.password
                 ELSE IF at >= 0 THEN c[at].password ELSE None
           by == IF e.password # None THEN i + 1 ELSE IF at >= 0 THEN at ELSE 1
<1>10. px = py /\ bx = by
    BY <1>7
<1>11. PolicyOf(c, i + 1, None) =
        [locked |-> FALSE, password |-> px, boundary |-> bx, scripts |-> x,
         chain |-> Settings(c, i + 1)]
    BY <1>6
<1>12. Merge(PolicyOf(c, i, None), i + 1, e) =
        [locked |-> FALSE, password |-> py, boundary |-> by, scripts |-> y,
         chain |-> Settings(c, i) \cup SettingsOf(i + 1, e)]
    BY <1>9
<1> HIDE DEF y, px, py, bx, by
<1>13. PolicyOf(c, i + 1, None) = Merge(PolicyOf(c, i, None), i + 1, e)
    BY <1>2, <1>8, <1>10, <1>11, <1>12
<1> QED BY <1>13 DEF e

LEMMA FoldEnds ==
    ASSUME NEW c \in Chain, NEW last \in Positions, NEW s \in Passwords \cup {None},
           \A j \in 0 .. last : c[j].usable
    PROVE  PolicyOf(c, last, s) = WithStartup(PolicyOf(c, last, None), s)
<1> DEFINE at == Nearest(c, last, "password")
<1>1. at \in {-1} \cup Setters(c, last, "password")
    BY NearestIs
<1>2. at >= 0 => c[at].password # None
    BY <1>1 DEF Setters, Sets
<1> HIDE DEF at
<1> QED BY <1>2 DEF PolicyOf, WithStartup, Protected, at

=============================================================================
