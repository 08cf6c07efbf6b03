---------------------------- MODULE ServingProofs ----------------------------
(***************************************************************************)
(* That what a request is shown was open to it, and lay inside the data     *)
(* root unless something on the path itself was replaced, and that the      *)
(* links of the pages lead somewhere, for any names, data, documents,       *)
(* policies and number of changes.                                          *)
(***************************************************************************)
EXTENDS Serving, FiniteSetTheorems, WellFoundedInduction, TLAPS

-----------------------------------------------------------------------------
(* Paths.                                                                   *)

LEMMA PathIs ==
    ASSUME NEW p
    PROVE  p \in Paths <=> p \in Seq(Names) /\ Len(p) \in 0 .. 2
<1>1. ASSUME p \in Paths PROVE p \in Seq(Names) /\ Len(p) \in 0 .. 2
    <2>1. PICK m \in 0 .. 2 : p \in [1 .. m -> Names]
        BY <1>1 DEF Paths, SeqOf
    <2> QED BY <2>1
<1>2. ASSUME p \in Seq(Names), Len(p) \in 0 .. 2 PROVE p \in Paths
    <2>1. p \in [1 .. Len(p) -> Names]
        BY <1>2
    <2> QED BY <1>2, <2>1 DEF Paths, SeqOf
<1> QED BY <1>1, <1>2

LEMMA ShortPaths ==
    /\ <<>> \in Paths
    /\ \A n \in Names : <<n>> \in Paths
    /\ \A n \in Names : <<Sub, n>> \in Paths
<1>1. Sub \in Names
    BY ServingAssumption
<1>2. /\ <<>> \in Seq(Names) /\ Len(<<>>) \in 0 .. 2
      /\ \A n \in Names : /\ <<n>> \in Seq(Names) /\ Len(<<n>>) \in 0 .. 2
                          /\ <<Sub, n>> \in Seq(Names) /\ Len(<<Sub, n>>) \in 0 .. 2
    BY <1>1
<1> QED BY <1>2, PathIs

LEMMA PlacesArePaths ==
    /\ Places \subseteq Paths /\ Dirs \subseteq Places
    /\ <<>> \in Dirs /\ <<Sub>> \in Dirs /\ \A n \in Names : <<n>> \in Places
BY ShortPaths, ServingAssumption DEF Places, Dirs

LEMMA PrefixIs ==
    ASSUME NEW p \in Paths, NEW i \in 0 .. Len(p)
    PROVE  /\ SubSeq(p, 1, i) \in Paths /\ Len(SubSeq(p, 1, i)) = i
           /\ \A j \in 1 .. i : SubSeq(p, 1, i)[j] = p[j]
<1>1. p \in Seq(Names) /\ Len(p) \in 0 .. 2
    BY PathIs
<1> DEFINE q == SubSeq(p, 1, i)
<1>2. q \in Seq(Names) /\ Len(q) = i
    BY <1>1
<1>3. q \in Paths
    <2>1. Len(q) \in 0 .. 2
        BY <1>1, <1>2
    <2> HIDE DEF q
    <2> QED BY <1>2, <2>1, PathIs
<1> QED BY <1>1, <1>2, <1>3

LEMMA FrontIs ==
    ASSUME NEW p \in Paths
    PROVE  Front(p) \in Paths
<1>1. p \in Seq(Names) /\ Len(p) \in 0 .. 2
    BY PathIs
<1>2. CASE Len(p) = 0
    <2>1. Front(p) \in Seq(Names) /\ Len(Front(p)) \in 0 .. 2
        BY <1>1, <1>2 DEF Front
    <2> QED BY <2>1, PathIs
<1>3. CASE Len(p) # 0
    <2>1. Len(p) - 1 \in 0 .. Len(p)
        BY <1>1, <1>3
    <2> QED BY <2>1, PrefixIs DEF Front
<1> QED BY <1>2, <1>3

\* A path of one name.
LEMMA OneName ==
    ASSUME NEW p \in Paths, Len(p) = 1
    PROVE  p \in Places
<1>1. p \in Seq(Names) /\ p = <<p[1]>> /\ p[1] \in Names
    BY PathIs
<1> QED BY <1>1, PlacesArePaths

\* The places a path may end at, and what they hang on.
LEMMA DeepPlaces ==
    ASSUME NEW p \in Paths, Len(p) = 2, p \in Places
    PROVE  SubSeq(p, 1, 1) = <<Sub>>
<1>1. PICK n \in Names : p = <<Sub, n>>
    <2>1. p \in Dirs \/ (\E n \in Names : p = <<n>>) \/ (\E n \in Names : p = <<Sub, n>>)
        BY DEF Places
    <2>2. p # <<>>
        <3>1. Len(<<>>) = 0
            OBVIOUS
        <3> QED BY <3>1
    <2>3. ASSUME NEW n, p = <<n>> PROVE FALSE
        <3>1. Len(<<n>>) = 1
            OBVIOUS
        <3> QED BY <2>3, <3>1
    <2> QED BY <2>1, <2>2, <2>3 DEF Dirs
<1> DEFINE q == SubSeq(p, 1, 1)
<1>2. q \in Paths /\ Len(q) = 1 /\ q[1] = p[1]
    <2>1. 1 \in 0 .. Len(p) /\ 1 \in 1 .. 1
        OBVIOUS
    <2> QED BY <2>1, PrefixIs
<1> HIDE DEF q
<1>3. q = <<q[1]>>
    BY <1>2, PathIs
<1>4. p[1] = Sub
    BY <1>1
<1> QED BY <1>2, <1>3, <1>4 DEF q

-----------------------------------------------------------------------------
(* Relative links.                                                          *)

\* Induction on the members of a set.
LEMMA Upwards ==
    ASSUME NEW m \in Nat, NEW n \in Nat, NEW T, m \in T,
           \A i \in m .. n : i \in T /\ i + 1 \in m .. n => i + 1 \in T
    PROVE  \A i \in m .. n : i \in T
<1> DEFINE R == OpToRel(<, Nat)
           X == {i \in m .. n : i \notin T}
<1> SUFFICES ASSUME X # {} PROVE FALSE
    OBVIOUS
<1>1. X \subseteq Nat
    OBVIOUS
<1>2. IsWellFoundedOn(R, Nat)
    BY Zenon, NatLessThanWellFounded
<1> HIDE DEF R
<1>3. PICK x \in X : \A y \in X : <<y, x>> \notin R
    <2> HIDE DEF X
    <2> QED BY <1>1, <1>2, WFMin
<1>4. \A y \in X : ~(y < x)
    BY <1>1, <1>3 DEF R, OpToRel
<1>5. x # m /\ x - 1 \in m .. n /\ (x - 1) + 1 = x
    BY <1>1
<1>6. x - 1 \in T
    BY <1>4, <1>5
<1> QED BY <1>5, <1>6

\* The loop of safeMarkdownLink, turn by turn.
LEMMA FollowedIs ==
    ASSUME NEW raw \in Seq(Names \cup {Up}), NEW base
    PROVE  \E far : /\ far[0] = base
                    /\ \A i \in 1 .. Len(raw) : far[i] = Turn(far[i - 1], raw[i])
                    /\ Followed(base, raw) = far[Len(raw)]
<1> DEFINE Loop(g, n) == [i \in 0 .. n |-> IF i = 0 THEN base ELSE Turn(g[i - 1], raw[i])]
           T == {n \in Nat : \E g : g = Loop(g, n)}
<1>1. Len(raw) \in Nat
    OBVIOUS
<1>2. 0 \in T
    <2> DEFINE g == [i \in 0 .. 0 |-> base]
    <2>1. g = Loop(g, 0)
        OBVIOUS
    <2> HIDE DEF g
    <2> QED BY <2>1
<1>3. ASSUME NEW n \in 0 .. Len(raw), n \in T, n + 1 \in 0 .. Len(raw)
      PROVE  n + 1 \in T
    <2>1. PICK g : g = Loop(g, n)
        BY <1>3
    <2> DEFINE h == [i \in 0 .. n + 1 |-> IF i = n + 1 THEN Turn(g[n], raw[n + 1]) ELSE g[i]]
    <2>2. \A i \in 0 .. n : h[i] = g[i] /\ g[i] = (IF i = 0 THEN base ELSE Turn(g[i - 1], raw[i]))
        BY <1>3, <2>1
    <2>3. h[n + 1] = Turn(g[n], raw[n + 1]) /\ n + 1 # 0 /\ (n + 1) - 1 = n
        BY <1>3
    <2>4. h = [i \in 0 .. n + 1 |-> h[i]]
        OBVIOUS
    <2> HIDE DEF h
    <2>5. \A i \in 0 .. n + 1 : h[i] = (IF i = 0 THEN base ELSE Turn(h[i - 1], raw[i]))
        <3> SUFFICES ASSUME NEW i \in 0 .. n + 1
                     PROVE  h[i] = (IF i = 0 THEN base ELSE Turn(h[i - 1], raw[i]))
            OBVIOUS
        <3>1. CASE i = n + 1
            BY <2>2, <2>3, <3>1
        <3>2. CASE i = 0
            BY <2>2, <3>2, <1>3
        <3>3. CASE i \in 1 .. n
            <4>1. i \in 0 .. n /\ i - 1 \in 0 .. n /\ i # 0
                BY <1>3, <3>3
            <4>2. h[i] = g[i] /\ h[i - 1] = g[i - 1] /\ g[i] = Turn(g[i - 1], raw[i])
                BY <2>2, <4>1
            <4> QED BY <4>1, <4>2
        <3> QED BY <3>1, <3>2, <3>3, <1>3
    <2>6. h = Loop(h, n + 1)
        BY <2>4, <2>5
    <2> QED BY <2>6, <1>3
<1>4. Len(raw) \in T
    <2> HIDE DEF T
    <2>1. \A i \in 0 .. Len(raw) : i \in T
        BY <1>1, <1>2, <1>3, Upwards
    <2> QED BY <1>1, <2>1
<1> DEFINE far == CHOOSE g : g = Loop(g, Len(raw))
<1>5. far = Loop(far, Len(raw))
    BY <1>4
<1>6. Followed(base, raw) = far[Len(raw)]
    BY DEF Followed
<1> HIDE DEF far
<1>7. far[0] = base /\ \A i \in 1 .. Len(raw) : far[i] = Turn(far[i - 1], raw[i])
    BY <1>1, <1>5
<1> QED BY <1>6, <1>7

\* A turn that may not be taken ends the way.
LEMMA NoWayBack ==
    ASSUME NEW n \in Nat, NEW far, NEW raw,
           \A i \in 1 .. n : far[i] = Turn(far[i - 1], raw[i]), far[n] # NoLink
    PROVE  \A i \in 0 .. n : far[i] # NoLink
<1> SUFFICES ASSUME NEW m \in 0 .. n, far[m] = NoLink PROVE FALSE
    OBVIOUS
<1> DEFINE T == {i \in Nat : far[i] = NoLink}
<1>1. ASSUME NEW i \in m .. n, i \in T, i + 1 \in m .. n PROVE i + 1 \in T
    <2>1. i + 1 \in 1 .. n /\ (i + 1) - 1 = i /\ i + 1 \in Nat
        BY <1>1
    <2> QED BY <1>1, <2>1 DEF Turn
<1>2. m \in Nat /\ m \in T /\ n \in m .. n
    OBVIOUS
<1> HIDE DEF T
<1>3. \A i \in m .. n : i \in T
    BY <1>1, <1>2, Upwards
<1> QED BY <1>2, <1>3 DEF T

LEMMA PartIs ==
    ASSUME NEW S, NEW s \in Seq(S), NEW m \in Nat \ {0}, NEW k \in Int, k <= Len(s)
    PROVE  /\ SubSeq(s, m, k) \in Seq(S)
           /\ Len(SubSeq(s, m, k)) = IF m <= k THEN k - m + 1 ELSE 0
           /\ \A i \in 1 .. Len(SubSeq(s, m, k)) : SubSeq(s, m, k)[i] = s[m + i - 1]
<1>1. CASE m <= k
    <2>1. SubSeq(s, m, k) = [i \in 1 .. k - m + 1 |-> s[m + i - 1]]
        BY <1>1
    <2>2. \A i \in 1 .. k - m + 1 : m + i - 1 \in 1 .. Len(s)
        BY <1>1
    <2>3. \A i \in 1 .. k - m + 1 : s[m + i - 1] \in S
        BY <2>2
    <2> DEFINE t == [i \in 1 .. k - m + 1 |-> s[m + i - 1]]
    <2>4. k - m + 1 \in Nat
        BY <1>1
    <2>5. t \in [1 .. k - m + 1 -> S]
        BY <2>3
    <2>6. t \in Seq(S) /\ Len(t) = k - m + 1
        BY <2>4, <2>5
    <2> QED BY <1>1, <2>1, <2>6
<1>2. CASE ~(m <= k)
    <2>1. SubSeq(s, m, k) = <<>>
        BY <1>2
    <2> QED BY <1>2, <2>1
<1> QED BY <1>1, <1>2

LEMMA RawIs ==
    ASSUME NEW raw \in Raws
    PROVE  /\ raw \in Seq(Names \cup {Up}) /\ DOMAIN raw = 1 .. Len(raw) /\ Len(raw) \in Nat
           /\ Up \notin Names /\ NoLink \notin Paths
<1>1. raw \in Seq(Names \cup {Up}) /\ Up \notin Names /\ NoLink \notin Paths
    BY ServingAssumption
<1> QED BY <1>1

\* In a link that leads from a directory to a path every ".." comes first.
LEMMA UpsFirst ==
    ASSUME NEW dir \in Paths, NEW raw \in Raws, Meant(dir, raw) \in Paths,
           NEW ups, ups = Cardinality({i \in DOMAIN raw : raw[i] = Up})
    PROVE  /\ ups \in 0 .. Len(raw)
           /\ \A i \in 1 .. Len(raw) : raw[i] = Up <=> i <= ups
<1> DEFINE U == {i \in DOMAIN raw : raw[i] = Up}
           first == SubSeq(dir, 1, Len(dir) - ups)
           rest == SubSeq(raw, ups + 1, Len(raw))
<1>1. /\ raw \in Seq(Names \cup {Up}) /\ DOMAIN raw = 1 .. Len(raw) /\ Len(raw) \in Nat
      /\ Up \notin Names
    BY RawIs
<1>2. ups \in Nat /\ ups <= Len(raw)
    <2>1. IsFiniteSet(1 .. Len(raw)) /\ Cardinality(1 .. Len(raw)) = Len(raw)
        BY <1>1, FS_Interval
    <2>2. U \in SUBSET (1 .. Len(raw))
        BY <1>1
    <2>3. IsFiniteSet(U) /\ Cardinality(U) <= Len(raw)
        BY <2>1, <2>2, FS_Subset
    <2> QED BY <2>3, FS_CardinalityType
<1>3. dir \in Seq(Names) /\ Len(dir) \in 0 .. 2
    BY PathIs
<1>4. first \in Seq(Names) /\ rest \in Seq(Names \cup {Up}) /\ Len(rest) = Len(raw) - ups
    <2>1. first \in Seq(Names)
        <3>1. 1 \in Nat \ {0} /\ Len(dir) - ups \in Int /\ Len(dir) - ups <= Len(dir)
            BY <1>2, <1>3
        <3> QED BY <1>3, <3>1, PartIs
    <2>2. ups + 1 \in Nat \ {0} /\ Len(raw) \in Int /\ Len(raw) <= Len(raw)
        BY <1>1, <1>2
    <2>3. rest \in Seq(Names \cup {Up}) /\ Len(rest) = IF ups + 1 <= Len(raw) THEN Len(raw) - (ups + 1) + 1 ELSE 0
        BY <1>1, <2>2, PartIs
    <2>4. Len(rest) = Len(raw) - ups
        BY <1>1, <1>2, <2>3
    <2> QED BY <2>1, <2>3, <2>4
<1>5. \A i \in 1 .. Len(rest) : rest[i] = raw[ups + i]
    BY <1>1, <1>2
<1>6. first \o rest \in Seq(Names)
    BY PathIs DEF Meant
<1> HIDE DEF first, rest
<1>7. \A i \in 1 .. Len(rest) : rest[i] \in Names
    <2> SUFFICES ASSUME NEW i \in 1 .. Len(rest) PROVE rest[i] \in Names
        OBVIOUS
    <2>1. Len(first) + i \in 1 .. Len(first \o rest) /\ (first \o rest)[Len(first) + i] = rest[i]
        BY <1>4
    <2> QED BY <1>6, <2>1
<1>8. \A i \in 1 .. Len(raw) : i > ups => raw[i] # Up
    <2> SUFFICES ASSUME NEW i \in 1 .. Len(raw), i > ups PROVE raw[i] # Up
        OBVIOUS
    <2>1. i - ups \in 1 .. Len(rest) /\ ups + (i - ups) = i
        BY <1>1, <1>2, <1>4
    <2> QED BY <1>1, <1>5, <1>7, <2>1
<1>9. U = 1 .. ups
    <2>1. IsFiniteSet(1 .. ups) /\ Cardinality(1 .. ups) = ups
        BY <1>2, FS_Interval
    <2>2. U \in SUBSET (1 .. ups)
        <3> SUFFICES ASSUME NEW i \in 1 .. Len(raw), raw[i] = Up PROVE i \in 1 .. ups
            BY <1>1
        <3>1. ~(i > ups)
            BY <1>8
        <3> QED BY <1>1, <1>2, <3>1
    <2> QED BY <2>1, <2>2, FS_Subset
<1> QED BY <1>1, <1>2, <1>9

\* Where safeMarkdownLink lets a link lead is where it is meant to.
LEMMA FollowedIsMeant ==
    ASSUME NEW dir \in Paths, ~Private(dir), NEW raw \in Raws,
           Followed(dir, raw) \in Paths, Meant(dir, raw) \in Paths
    PROVE  Followed(dir, raw) = Meant(dir, raw) /\ ~Private(Meant(dir, raw))
<1> DEFINE ups == Cardinality({i \in DOMAIN raw : raw[i] = Up})
           n == Len(raw)
           Way(i) == SubSeq(dir, 1, Len(dir) - ups) \o SubSeq(raw, ups + 1, i)
<1>1. /\ raw \in Seq(Names \cup {Up}) /\ n \in Nat /\ NoLink \notin Paths
      /\ dir \in Seq(Names) /\ Len(dir) \in 0 .. 2
    BY RawIs, PathIs
<1>2. PICK far : /\ far[0] = dir
                 /\ \A i \in 1 .. n : far[i] = Turn(far[i - 1], raw[i])
                 /\ Followed(dir, raw) = far[n]
    BY <1>1, FollowedIs
<1>3. ups \in 0 .. n /\ \A i \in 1 .. n : raw[i] = Up <=> i <= ups
    BY UpsFirst
<1>4. Meant(dir, raw) = Way(n)
    BY DEF Meant
<1> HIDE DEF ups, n
<1>5. \A i \in 0 .. n : far[i] # NoLink
    BY <1>1, <1>2, NoWayBack
<1>6. ups <= Len(dir) /\ far[ups] = SubSeq(dir, 1, Len(dir) - ups)
    <2> DEFINE T == {i \in Nat : i <= Len(dir) /\ far[i] = SubSeq(dir, 1, Len(dir) - i)}
    <2>1. 0 \in T
        BY <1>1, <1>2
    <2>2. ASSUME NEW i \in 0 .. ups, i \in T, i + 1 \in 0 .. ups PROVE i + 1 \in T
        <3>1. i + 1 \in 1 .. n /\ (i + 1) - 1 = i /\ i \in 0 .. n /\ i \in Nat /\ i + 1 <= ups
            BY <1>1, <1>3, <2>2
        <3>2. far[i + 1] = Turn(far[i], Up) /\ far[i] # NoLink /\ far[i + 1] # NoLink
            BY <1>2, <1>3, <1>5, <3>1
        <3>3. far[i] # <<>> /\ far[i + 1] = Front(far[i])
            BY <3>2 DEF Turn
        <3>4. far[i] = SubSeq(dir, 1, Len(dir) - i) /\ i <= Len(dir)
            BY <2>2
        <3>5. Len(dir) - i \in 0 .. Len(dir)
            BY <1>1, <3>1, <3>4
        <3>6. Len(far[i]) = Len(dir) - i /\ Len(far[i]) # 0 /\ far[i] \in Seq(Names)
            BY <1>1, <3>3, <3>4, <3>5
        <3>7. i + 1 <= Len(dir) /\ i + 1 \in Nat
            BY <1>1, <3>1, <3>6
        <3>8. Front(far[i]) = SubSeq(dir, 1, Len(dir) - (i + 1))
            BY <1>1, <3>1, <3>4, <3>5, <3>6, <3>7 DEF Front
        <3> QED BY <3>3, <3>7, <3>8
    <2> HIDE DEF T
    <2>3. \A i \in 0 .. ups : i \in T
        BY <1>3, <2>1, <2>2, Upwards
    <2>4. ups \in T
        BY <1>1, <1>3, <2>3
    <2> QED BY <2>4 DEF T
<1>7. \A i \in ups .. n : far[i] = Way(i) /\ ~Private(Way(i))
    <2> DEFINE T == {i \in Nat : far[i] = Way(i) /\ ~Private(Way(i))}
    <2>1. ups \in Nat /\ far[ups] = Way(ups) /\ ~Private(Way(ups))
        <3>1. Way(ups) = SubSeq(dir, 1, Len(dir) - ups)
            BY <1>1, <1>3, <1>6
        <3>2. \A j \in DOMAIN SubSeq(dir, 1, Len(dir) - ups) :
                  j \in DOMAIN dir /\ SubSeq(dir, 1, Len(dir) - ups)[j] = dir[j]
            BY <1>1, <1>3, <1>6
        <3>3. ~Private(Way(ups))
            BY <3>1, <3>2 DEF Private
        <3> QED BY <1>1, <1>3, <1>6, <3>1, <3>3
    <2>2. ASSUME NEW i \in ups .. n, i \in T, i + 1 \in ups .. n PROVE i + 1 \in T
        <3>1. i + 1 \in 1 .. n /\ (i + 1) - 1 = i /\ i \in Nat /\ ~(i + 1 <= ups)
            BY <1>1, <1>3, <2>2
        <3>2. raw[i + 1] # Up /\ far[i + 1] = Turn(far[i], raw[i + 1])
              /\ far[i + 1] # NoLink /\ far[i] # NoLink
            BY <1>2, <1>3, <1>5, <3>1
        <3>3. raw[i + 1].mark # "." /\ far[i + 1] = Append(far[i], raw[i + 1])
            BY <3>2 DEF Turn
        <3>4. far[i] = Way(i) /\ ~Private(Way(i))
            BY <2>2
        <3> DEFINE first == SubSeq(dir, 1, Len(dir) - ups)
                   rest == SubSeq(raw, ups + 1, i)
                   more == SubSeq(raw, ups + 1, i + 1)
        <3>5. /\ first \in Seq(Names \cup {Up}) /\ rest \in Seq(Names \cup {Up})
              /\ more = Append(rest, raw[i + 1])
            <4>1. first \in Seq(Names)
                BY <1>1, <1>3, <1>6, PartIs
            <4>2. ups + 1 \in Nat \ {0} /\ i \in Int /\ i + 1 \in Int /\ i <= Len(raw)
                  /\ i + 1 <= Len(raw) /\ ups <= i
                BY <1>1, <1>3, <2>2, <3>1 DEF n
            <4>3. rest \in Seq(Names \cup {Up}) /\ Len(rest) = i - ups
                  /\ \A j \in 1 .. Len(rest) : rest[j] = raw[ups + 1 + j - 1]
                <5>1. /\ rest \in Seq(Names \cup {Up})
                      /\ Len(rest) = IF ups + 1 <= i THEN i - (ups + 1) + 1 ELSE 0
                      /\ \A j \in 1 .. Len(rest) : rest[j] = raw[ups + 1 + j - 1]
                    BY <1>1, <4>2, PartIs
                <5> QED BY <1>3, <3>1, <4>2, <5>1
            <4>4. more \in Seq(Names \cup {Up}) /\ Len(more) = i + 1 - ups
                  /\ \A j \in 1 .. Len(more) : more[j] = raw[ups + 1 + j - 1]
                <5>1. /\ more \in Seq(Names \cup {Up})
                      /\ Len(more) = IF ups + 1 <= i + 1 THEN i + 1 - (ups + 1) + 1 ELSE 0
                      /\ \A j \in 1 .. Len(more) : more[j] = raw[ups + 1 + j - 1]
                    BY <1>1, <4>2, PartIs
                <5> QED BY <1>3, <3>1, <4>2, <5>1
            <4> HIDE DEF rest, more, first
            <4>5. raw[i + 1] \in Names \cup {Up}
                BY <1>1, <4>2, <3>1
            <4>6. \A j \in 1 .. Len(more) : more[j] = Append(rest, raw[i + 1])[j]
                BY <1>3, <3>1, <4>2, <4>3, <4>4, <4>5
            <4>7. more = Append(rest, raw[i + 1])
                BY <1>3, <3>1, <4>2, <4>3, <4>4, <4>5, <4>6
            <4> QED BY <4>1, <4>3, <4>7
        <3>6. Way(i) \in Seq(Names \cup {Up}) /\ Way(i + 1) = Append(Way(i), raw[i + 1])
            <4>1. Way(i) = first \o rest /\ Way(i + 1) = first \o more
                OBVIOUS
            <4>2. raw[i + 1] \in Names \cup {Up}
                BY <1>1, <3>1 DEF n
            <4> HIDE DEF first, rest, more, Way
            <4>3. first \o Append(rest, raw[i + 1]) = Append(first \o rest, raw[i + 1])
                BY <3>5, <4>2
            <4> QED BY <3>5, <4>1, <4>3
        <3> HIDE DEF Way
        <3>7. ~Private(Append(Way(i), raw[i + 1]))
            BY <3>3, <3>4, <3>6 DEF Private
        <3>8. i + 1 \in Nat /\ far[i + 1] = Way(i + 1) /\ ~Private(Way(i + 1))
            <4>1. i + 1 \in Nat
                BY <3>1
            <4> QED BY <3>3, <3>4, <3>6, <3>7, <4>1
        <3> QED BY <3>8 DEF T
    <2>3. \A i \in ups .. n : i \in T
        <3>1. ups \in T
            BY <2>1 DEF T
        <3> HIDE DEF T
        <3>2. ups \in Nat /\ n \in Nat
            BY <1>1, <1>3
        <3> QED BY <2>2, <3>1, <3>2, Upwards
    <2> QED BY <2>3 DEF T
<1>8. n \in ups .. n /\ far[n] # NoLink
    BY <1>1, <1>3, <1>5
<1> HIDE DEF Way
<1> QED BY <1>2, <1>4, <1>7, <1>8

-----------------------------------------------------------------------------
(* The data.                                                                *)

LEMMA LstatIs ==
    ASSUME NEW d \in Data, NEW p \in Paths
    PROVE  Lstat(d, p) \in Nodes
<1>1. p \in Seq(Names) /\ Len(p) \in 0 .. 2
    BY PathIs
<1>2. d.node \in [Places -> Nodes]
    BY DEF Data
<1>3. CASE Len(p) < 2
    <2>1. p \in Places
        <3>1. CASE Len(p) = 0
            <4>1. p = <<>>
                BY <1>1, <3>1
            <4> QED BY <4>1, PlacesArePaths
        <3>2. CASE Len(p) = 1
            BY <3>2, OneName
        <3> QED BY <1>1, <1>3, <3>1, <3>2
    <2> QED BY <1>2, <1>3, <2>1 DEF Lstat
<1>4. CASE ~(Len(p) < 2)
    <2>1. "none" \in Nodes /\ "file" \in Nodes
        BY DEF Nodes
    <2> QED BY <1>2, <1>4, <2>1 DEF Lstat
<1> QED BY <1>3, <1>4

LEMMA SmallIndex ==
    ASSUME NEW n \in 0 .. 2, NEW i \in 1 .. n
    PROVE  i \in 0 .. n /\ (i = 1 \/ i = 2)
OBVIOUS

\* What is said of a path depends on what is on it only.
LEMMA OnThePath ==
    ASSUME NEW c, NEW d, NEW p \in Paths, NEW i \in 1 .. Len(p),
           \A j \in 1 .. Len(p) : LET q == SubSeq(p, 1, j) IN
               q \in Places => c.node[q] = d.node[q]
    PROVE  Lstat(c, SubSeq(p, 1, i)) = Lstat(d, SubSeq(p, 1, i))
<1> DEFINE q == SubSeq(p, 1, i)
<1>1. p \in Seq(Names) /\ Len(p) \in 0 .. 2
      /\ i \in 0 .. Len(p) /\ (i = 1 \/ i = 2)
    <2>1. p \in Seq(Names) /\ Len(p) \in 0 .. 2
        BY PathIs
    <2> QED BY <2>1, SmallIndex
<1>2. q \in Paths /\ Len(q) = i
    BY <1>1, PrefixIs
<1>3. q \in Places => c.node[q] = d.node[q]
    OBVIOUS
<1>4. CASE i = 1
    <2>1. q \in Places
        BY <1>2, <1>4, OneName
    <2> HIDE DEF q
    <2>2. Lstat(c, q) = Lstat(d, q)
        BY <1>2, <1>3, <1>4, <2>1 DEF Lstat
    <2> QED BY <2>2 DEF q
<1>5. CASE i = 2
    <2>1. q = p /\ Len(p) = 2
        BY <1>1, <1>5
    <2>2. p \in Places => c.node[<<Sub>>] = d.node[<<Sub>>]
        <3> SUFFICES ASSUME p \in Places PROVE c.node[<<Sub>>] = d.node[<<Sub>>]
            OBVIOUS
        <3>1. SubSeq(p, 1, 1) = <<Sub>>
            BY <2>1, DeepPlaces
        <3>2. <<Sub>> \in Places
            BY PlacesArePaths
        <3>3. 1 \in 1 .. Len(p)
            BY <2>1
        <3> QED BY <3>1, <3>2, <3>3
    <2> HIDE DEF q
    <2>3. Lstat(c, q) = Lstat(d, q)
        BY <1>2, <1>3, <1>5, <2>1, <2>2 DEF Lstat
    <2> QED BY <2>3 DEF q
<1> HIDE DEF q
<1> QED BY <1>1, <1>4, <1>5 DEF q

LEMMA PolicyForIs ==
    ASSUME NEW d \in Data, NEW dir
    PROVE  PolicyFor(d, dir) \in Policy
<1>1. d.policy \in [Dirs -> Policy] /\ <<>> \in Dirs /\ <<Sub>> \in Dirs
    BY PlacesArePaths DEF Data
<1>2. Locked \in Policy
    BY DEF Locked, Policy, Versions
<1> QED BY <1>1, <1>2 DEF PolicyFor

LEMMA SharedIs ==
    ASSUME NEW d \in Data
    PROVE  d.share \in Share /\ d.share.target \in Places /\ d.share.target \in Paths
BY PlacesArePaths DEF Data, Share

-----------------------------------------------------------------------------
(* Links.                                                                   *)

LEMMA LinkType ==
    ASSUME NEW to \in Address, NEW wants \in Paths,
           NEW from \in {"typed", "page", "back", "landing", "status", "error", "document",
                        "shared document"}
    PROVE  [to |-> to, wants |-> wants, from |-> from] \in Link
BY DEF Link

LEMMA AddressType ==
    ASSUME NEW via \in Via, NEW op \in Ops, NEW path \in Paths, NEW slash \in BOOLEAN
    PROVE  To(via, op, path, slash) \in Address
BY DEF To, Address

LEMMA PageLinkType ==
    ASSUME NEW via \in Via, NEW op \in Ops, NEW path \in Paths, NEW slash \in BOOLEAN
    PROVE  PageLink(via, op, path, slash) \in Link
<1>1. To(via, op, path, slash) \in Address
    BY AddressType
<1> QED BY <1>1, LinkType DEF PageLink

LEMMA CrumbsType ==
    ASSUME NEW dir \in Paths
    PROVE  Crumbs(dir) \subseteq Link
<1>1. "app" \in Via /\ "browse" \in Ops
    BY DEF Via, Ops
<1>2. ASSUME NEW i \in {0} \cup 1 .. Len(dir) - 1
      PROVE  SubSeq(dir, 1, i) \in Paths
    <2>1. i \in 0 .. Len(dir)
        BY PathIs
    <2> QED BY <2>1, PrefixIs
<1> QED BY <1>1, <1>2, PageLinkType DEF Crumbs

\* The link to the gate of a share.
LEMMA GateLinkType ==
    ASSUME NEW wants \in Paths, NEW from \in {"status", "error"}
    PROVE  [to |-> To("share", "gate", <<>>, TRUE), wants |-> wants, from |-> from] \in Link
<1>1. To("share", "gate", <<>>, TRUE) \in Address
    BY ShortPaths, AddressType DEF Via, Ops
<1> QED BY <1>1, LinkType

LEMMA ListingLinksType ==
    ASSUME data \in Data, NEW via \in Via, NEW dir \in Paths
    PROVE  ListingLinks(via, dir) \subseteq Link
<1>1. ASSUME NEW path \in Paths, NEW kind
      PROVE  EntryLinks(via, path, kind) \subseteq Link
    <2>1. "browse" \in Ops /\ "preview" \in Ops /\ "html" \in Ops /\ "download" \in Ops
        BY DEF Ops
    <2>2. \A op \in {"browse", "preview", "html", "download"}, slash \in BOOLEAN :
              PageLink(via, op, path, slash) \in Link
        BY <2>1, PageLinkType
    <2> QED BY <2>2 DEF EntryLinks
<1>2. \A n \in Shown(dir) : Append(dir, n) \in Paths
    BY PlacesArePaths DEF Shown
<1>3. Crumbs(dir) \subseteq Link
    BY CrumbsType
<1>4. StatusLinks(dir) \subseteq Link
    BY SharedIs, GateLinkType DEF StatusLinks
<1> QED BY <1>1, <1>2, <1>3, <1>4 DEF ListingLinks

LEMMA HomeType ==
    ASSUME NEW to \in Address
    PROVE  HomeOf(to) \in Paths
BY FrontIs DEF HomeOf, Address

LEMMA BackLinkType ==
    ASSUME req.to \in Address
    PROVE  BackLink \in Link
<1>1. /\ "app" \in Via /\ "browse" \in Ops /\ "preview" \in Ops /\ req.to.via \in Via
      /\ HomeOf(req.to) \in Paths /\ Front(req.to.path) \in Paths
    BY HomeType, FrontIs DEF Via, Ops, Address
<1>2. /\ To("app", "browse", HomeOf(req.to), TRUE) \in Address
      /\ To(req.to.via, "preview", Front(req.to.path), TRUE) \in Address
    BY <1>1, AddressType
<1>3. [to |-> To("share", "gate", <<>>, TRUE), wants |-> HomeOf(req.to), from |-> "error"] \in Link
    BY <1>1, GateLinkType
<1> QED BY <1>1, <1>2, <1>3, LinkType DEF BackLink

LEMMA ShellLinksType ==
    ASSUME NEW via \in {"app", "share"}, NEW path \in Paths
    PROVE  ShellLinks(via, path) \subseteq Link
<1>1. /\ via \in Via /\ "app" \in Via /\ "html-content" \in Ops /\ "preview" \in Ops
      /\ "download" \in Ops /\ "browse" \in Ops /\ "html" \in Ops
    BY DEF Via, Ops
<1>2. /\ PageLink(via, "html-content", path, FALSE) \in Link
      /\ PageLink(via, "preview", path, FALSE) \in Link
      /\ PageLink(via, "download", path, FALSE) \in Link
    BY <1>1, PageLinkType
<1>3. Front(path) \in Paths /\ Front(Front(path)) \in Paths /\ <<>> \in Paths
    BY FrontIs, ShortPaths
<1>4. /\ To("app", "browse", <<>>, TRUE) \in Address
      /\ To("app", "html", Front(Front(path)), TRUE) \in Address
    BY <1>1, <1>3, AddressType
<1>5. [to |-> IF Len(path) = 1 THEN To("app", "browse", <<>>, TRUE)
              ELSE To("app", "html", Front(Front(path)), TRUE),
       wants |-> Front(path), from |-> "back"] \in Link
    BY <1>3, <1>4, LinkType
<1> QED BY <1>2, <1>5 DEF ShellLinks

LEMMA DocumentLinksType ==
    ASSUME NEW segments, NEW path
    PROVE  DocumentLinks(segments, path) \subseteq Link
<1> SUFFICES ASSUME NEW raw \in Raws,
                    Followed(Front(segments), raw) \in Paths \ {<<>>},
                    Meant(Front(path), raw) \in Paths
             PROVE  [to |-> To("app", "browse", Followed(Front(segments), raw), FALSE),
                     wants |-> Meant(Front(path), raw),
                     from |-> IF segments = path THEN "document" ELSE "shared document"]
                        \in Link
    BY DEF DocumentLinks
<1>1. "app" \in Via /\ "browse" \in Ops
    BY DEF Via, Ops
<1>2. To("app", "browse", Followed(Front(segments), raw), FALSE) \in Address
    BY <1>1, AddressType
<1> QED BY <1>2, LinkType

-----------------------------------------------------------------------------
(* The invariant.                                                           *)

Under(q) == q.phase \notin {"idle", "done"}

Walking(q) == q.phase \in {"walk", "found", "again", "list", "open"}

Arrived(q) == q.phase \in {"found", "again", "list", "open"}

Prefix(q, i) == SubSeq(q.to.path, 1, i)

\* Something on the path itself was replaced.
Swapped(q, s) == \E i \in 1 .. Len(q.to.path) : Prefix(q, i) \in s.changed

\* As far as the walk has come there is no link, unless something was replaced.
Clean(q, s, d) ==
    (\A i \in 1 .. q.at : Lstat(d, Prefix(q, i)) # "link") \/ Swapped(q, s)

PublicSeen(s) == \E p \in s.had : p.state = "public"

SessionSeen(q, s) == \E p \in s.had : p.state = "protected" /\ p.version = q.session

\* A policy the directory has had lets the request in; if that was not a public
\* one, the answer is already marked.
LetIn(q, s) ==
    IF q.open THEN PublicSeen(s) ELSE q.store = "no-store" /\ SessionSeen(q, s)

\* What Guarded asks before an answer with that status may be given.
Allowed(q, s, status) ==
    (\A p \in s.had : p.state # "public") =>
        /\ status \in {"200", "405", "413", "423"} => q.store = "no-store"
        /\ status \in {"200", "405", "413", "error page"}
              => q.to.via = "share" \/ SessionSeen(q, s)

\* Guarded and OutsideOnlyBySwap, of an answer.
Proper(q, s) ==
    /\ Allowed(q, s, q.status)
    /\ q.shows = "outside" => Swapped(q, s)

Going(q, s, d) ==
    /\ q.phase \in {"route", "look", "safe"} => q.at = 0
    /\ q.phase = "look" => q.to.via = "app"
    /\ q.phase = "safe" => q.to.via = "share"
    /\ Under(q) => PolicyFor(d, HomeOf(q.to)) \in s.had
    /\ Walking(q) =>
          /\ q.at <= Len(q.to.path)
          /\ q.to.via \in {"app", "share"}
          /\ q.to.via = "app" => LetIn(q, s)
          /\ Clean(q, s, d)
    /\ Arrived(q) => q.at = Len(q.to.path)
    /\ q.phase \in {"list", "open"} /\ q.to.via = "share" => q.store = "no-store"
    /\ q.phase = "again" => q.to.via = "app" /\ q.to.op = "browse" /\ q.to.slash
    /\ q.phase = "done" => Proper(q, s)

IInv == TypeOK /\ Going(req, seen, data)

-----------------------------------------------------------------------------
(* Every step keeps the invariant.                                          *)

LEMMA Parts ==
    ASSUME IInv
    PROVE  /\ data \in Data /\ req \in Request /\ seen \in Seen /\ edits \in 0 .. MaxEdits
           /\ req.to \in Address /\ req.to.path \in Paths /\ req.to.via \in Via
           /\ req.to.op \in Ops /\ req.to.slash \in BOOLEAN
           /\ req.at \in 0 .. 2 /\ Len(req.to.path) \in 0 .. 2
           /\ Going(req, seen, data)
<1>1. /\ data \in Data /\ req \in Request /\ seen \in Seen /\ edits \in 0 .. MaxEdits
      /\ Going(req, seen, data)
    BY DEF IInv, TypeOK
<1>2. req.to \in Address /\ req.at \in 0 .. 2
    BY <1>1 DEF Request
<1>3. /\ req.to.path \in Paths /\ req.to.via \in Via /\ req.to.op \in Ops
      /\ req.to.slash \in BOOLEAN
    BY <1>2 DEF Address
<1> QED BY <1>1, <1>2, <1>3, PathIs

LEMMA IdleIs ==
    Idle \in Request /\ Idle.phase = "idle" /\ Idle.at = 0
<1>1. To("app", "browse", <<>>, TRUE) \in Address
    BY ShortPaths, AddressType DEF Via, Ops
<1>2. /\ "idle" \in {"idle", "route", "look", "again", "safe", "walk", "found",
                      "list", "open", "done"}
      /\ TRUE \in BOOLEAN /\ FALSE \in BOOLEAN /\ 0 \in Versions /\ 0 \in 0 .. 2
      /\ NoLink \in Link \cup {NoLink} /\ "none" \in Nodes
      /\ "" \in {"", "no-cache", "no-store"}
      /\ "" \in {"", "200", "redirect", "404", "405", "413", "423", "error page"}
      /\ "" \in {"", "listing", "file", "outside"}
    BY DEF Versions, Nodes
<1> QED BY <1>1, <1>2 DEF Idle, Request

LEMMA GoKeeps ==
    ASSUME IInv, NEW n \in Request, Go(n), Going(n, seen, data)
    PROVE  IInv'
<1>1. req' = n /\ UNCHANGED <<data, seen, page, edits>>
    BY DEF Go
<1>2. TypeOK'
    BY <1>1 DEF IInv, TypeOK
<1>3. Going(req', seen', data')
    BY <1>1
<1> QED BY <1>2, <1>3 DEF IInv

LEMMA AnswerKeeps ==
    ASSUME IInv, NEW q \in Request,
           NEW status \in {"", "200", "redirect", "404", "405", "413", "423", "error page"},
           NEW shows \in {"", "listing", "file", "outside"}, NEW links \in SUBSET Link,
           Answer(q, status, shows, links),
           Allowed(q, seen, status),
           shows = "outside" => Swapped(q, seen)
    PROVE  IInv'
<1> DEFINE n == [q EXCEPT !.phase = "done", !.status = status, !.shows = shows]
<1>1. /\ n \in Request /\ n.phase = "done" /\ n.shows = shows /\ n.store = q.store
      /\ n.to = q.to /\ n.session = q.session /\ n.status = status
    <2>1. n.phase = "done" /\ n.shows = shows /\ n.store = q.store /\ n.to = q.to
          /\ n.session = q.session /\ n.status = status
        BY DEF Request
    <2>2. n \in Request
        BY DEF Request
    <2> QED BY <2>1, <2>2
<1>2. /\ req' = n /\ page' = (IF seen.steady THEN links ELSE {})
      /\ UNCHANGED <<data, seen, edits>>
    BY DEF Answer
<1> HIDE DEF n
<1>3. page' \subseteq Link
    BY <1>2
<1>4. TypeOK'
    BY <1>1, <1>2, <1>3 DEF IInv, TypeOK
<1>5. Proper(n, seen)
    BY <1>1 DEF Proper, Allowed, SessionSeen, Swapped, Prefix
<1>6. Going(n, seen, data)
    BY <1>1, <1>5 DEF Going, Under, Walking, Arrived
<1> QED BY <1>2, <1>4, <1>6 DEF IInv

\* Whoever is on the walk may be answered, as long as the mark stays where it is.
LEMMA WalkingIsAllowed ==
    ASSUME IInv, Walking(req), NEW q, q.to = req.to, q.session = req.session, NEW status,
           \/ status = "error page"
           \/ q.store = "no-store"
           \/ req.to.via = "app" /\ (q.store = req.store \/ req.open)
    PROVE  Allowed(q, seen, status)
<1>1. req.to.via \in {"app", "share"} /\ (req.to.via = "app" => LetIn(req, seen))
    BY Parts DEF Going
<1>2. CASE req.to.via = "share"
    BY <1>2 DEF Allowed
<1>3. CASE req.to.via = "app" /\ req.open
    BY <1>1, <1>3 DEF LetIn, PublicSeen, Allowed
<1>4. CASE req.to.via = "app" /\ ~req.open
    BY <1>1, <1>4 DEF LetIn, SessionSeen, Allowed
<1> QED BY <1>1, <1>2, <1>3, <1>4

\* Answers that Guarded leaves to everyone.
LEMMA RefusalKeeps ==
    ASSUME IInv, NEW q \in Request, NEW status \in {"redirect", "404"},
           NEW links \in SUBSET Link, Answer(q, status, "", links)
    PROVE  IInv'
<1>1. Allowed(q, seen, status)
    BY DEF Allowed
<1> QED BY <1>1, AnswerKeeps

LEMMA NoLinks == {} \in SUBSET Link
OBVIOUS

LEMMA NotFoundKeeps ==
    ASSUME IInv, NotFound
    PROVE  IInv'
<1>1. req \in Request /\ Answer(req, "404", "", {})
    BY DEF NotFound, IInv, TypeOK
<1> QED BY <1>1, NoLinks, RefusalKeeps

LEMMA RedirectKeeps ==
    ASSUME IInv, NEW to \in Address,
           NEW from \in {"typed", "page", "landing"}, Redirect(req, to, from)
    PROVE  IInv'
<1> DEFINE link == [to |-> to, wants |-> to.path, from |-> from]
<1>1. to.path \in Paths
    BY DEF Address
<1>2. link \in Link
    BY <1>1, LinkType
<1>3. Answer(req, "redirect", "", {link})
    BY DEF Redirect
<1> HIDE DEF link
<1>4. req \in Request /\ {link} \in SUBSET Link
    BY <1>2 DEF IInv, TypeOK
<1> QED BY <1>3, <1>4, RefusalKeeps

LEMMA ErrorPageKeeps ==
    ASSUME IInv, Walking(req), ErrorPage
    PROVE  IInv'
<1> DEFINE q == [req EXCEPT !.store = "no-cache"]
<1>1. q \in Request /\ q.to = req.to /\ q.session = req.session
    BY DEF IInv, TypeOK, Request
<1>2. {BackLink} \in SUBSET Link
    BY Parts, BackLinkType
<1>3. Answer(q, "error page", "", {BackLink})
    BY DEF ErrorPage
<1> HIDE DEF q
<1>4. Allowed(q, seen, "error page")
    BY <1>1, WalkingIsAllowed
<1> QED BY <1>1, <1>2, <1>3, <1>4, AnswerKeeps

LEMMA BeginKeeps ==
    ASSUME IInv, Begin \/ Follow
    PROVE  IInv'
<1>1. \E n \in Request : /\ req' = n /\ seen' = AtFirst(n.to)
                         /\ n.phase = "route" /\ n.at = 0
    <2>1. CASE Begin
        <3>1. PICK to \in [via : Via, op : Ops, path : Targets, slash : BOOLEAN],
                   get \in BOOLEAN, session \in Versions :
                 /\ req' = [Idle EXCEPT !.phase = "route", !.to = to, !.get = get,
                                        !.session = session]
                 /\ seen' = AtFirst(to)
            BY <2>1 DEF Begin
        <3> DEFINE n == [Idle EXCEPT !.phase = "route", !.to = to, !.get = get,
                                     !.session = session]
        <3>2. to \in Address
            BY ServingAssumption DEF Address
        <3>3. n \in Request /\ n.to = to /\ n.phase = "route" /\ n.at = 0
            BY <3>2, IdleIs DEF Request
        <3> HIDE DEF n
        <3> QED BY <3>1, <3>3 DEF n
    <2>2. CASE Follow
        <3>1. PICK link \in page :
                 /\ req' = [Idle EXCEPT !.phase = "route", !.to = link.to, !.link = link,
                                        !.session = req.session]
                 /\ seen' = AtFirst(link.to)
            BY <2>2 DEF Follow
        <3> DEFINE n == [Idle EXCEPT !.phase = "route", !.to = link.to, !.link = link,
                                     !.session = req.session]
        <3>2. link \in Link /\ link.to \in Address /\ req.session \in Versions
            BY Parts DEF IInv, TypeOK, Link, Request
        <3>3. n \in Request /\ n.to = link.to /\ n.phase = "route" /\ n.at = 0
            BY <3>2, IdleIs DEF Request
        <3> HIDE DEF n
        <3> QED BY <3>1, <3>3 DEF n
    <2> QED BY <2>1, <2>2
<1>2. PICK n \in Request : /\ req' = n /\ seen' = AtFirst(n.to)
                           /\ n.phase = "route" /\ n.at = 0
    BY <1>1
<1>3. data' = data /\ edits' = edits /\ page' \subseteq page
    BY DEF Begin, Follow
<1> DEFINE s == AtFirst(n.to)
<1>4. s \in Seen /\ s.had = {PolicyFor(data, HomeOf(n.to))}
    <2>1. PolicyFor(data, HomeOf(n.to)) \in Policy
        BY Parts, PolicyForIs
    <2> QED BY <2>1 DEF AtFirst, Seen
<1> HIDE DEF s
<1>5. TypeOK'
    BY <1>2, <1>3, <1>4 DEF IInv, TypeOK, s
<1>6. Going(n, s, data)
    BY <1>2, <1>4 DEF Going, Under, Walking, Arrived
<1> QED BY <1>2, <1>3, <1>5, <1>6 DEF IInv, s

LEMMA RouteLegacyKeeps ==
    ASSUME IInv, RouteLegacy
    PROVE  IInv'
<1> DEFINE to == req.to
           slash == to.slash \/ to.path = <<>>
<1>1. slash \in BOOLEAN
    OBVIOUS
<1>2. NotFound \/ Redirect(req, To("app", to.op, to.path, slash), "typed")
    BY DEF RouteLegacy
<1> HIDE DEF slash
<1>3. To("app", to.op, to.path, slash) \in Address
    BY <1>1, Parts, AddressType DEF Via
<1> QED BY <1>2, <1>3, NotFoundKeeps, RedirectKeeps

LEMMA RouteAppKeeps ==
    ASSUME IInv, RouteApp
    PROVE  IInv'
<1> DEFINE n == [req EXCEPT !.phase = "look"]
           to == [req.to EXCEPT !.slash = TRUE]
<1>1. req.phase = "route" /\ req.to.via = "app"
    BY DEF RouteApp
<1>2. NotFound \/ Redirect(req, to, "page") \/ Go(n)
    BY DEF RouteApp
<1>3. to \in Address
    BY Parts DEF Address
<1>4. /\ n \in Request /\ n.phase = "look" /\ n.to = req.to /\ n.at = req.at
    BY Parts DEF Request
<1> HIDE DEF n, to
<1>5. Going(n, seen, data)
    BY <1>1, <1>4, Parts DEF Going, Under, Walking, Arrived
<1> QED BY <1>2, <1>3, <1>4, <1>5, NotFoundKeeps, RedirectKeeps, GoKeeps

\* Where nothing has been walked there is nothing to find.
LEMMA StartsClean ==
    ASSUME NEW q, q.at = 0, NEW s, NEW d
    PROVE  Clean(q, s, d)
BY DEF Clean

LEMMA RouteShareKeeps ==
    ASSUME IInv, RouteShare
    PROVE  IInv'
<1> DEFINE next == IF data.share.scope = "file" THEN "walk" ELSE "safe"
           n == [req EXCEPT !.phase = next]
<1>1. req.phase = "route" /\ req.to.via = "share" /\ next \in {"walk", "safe"}
    BY DEF RouteShare
<1>2. NotFound \/ Redirect(req, LandsOn, "landing") \/ Go(n)
    BY DEF RouteShare
<1>3. LandsOn \in Address
    <2>1. /\ data.share.target \in Paths /\ "share" \in Via /\ "browse" \in Ops
          /\ "html" \in Ops /\ "preview" \in Ops
        BY Parts, SharedIs DEF Via, Ops
    <2> QED BY <2>1, AddressType DEF LandsOn
<1> HIDE DEF next
<1>4. /\ n \in Request /\ n.phase = next /\ n.to = req.to /\ n.at = req.at
    BY <1>1, Parts DEF Request
<1> HIDE DEF n
<1>5. n.at = 0 /\ PolicyFor(data, HomeOf(n.to)) \in seen.had /\ Len(n.to.path) >= 0
    BY <1>1, <1>4, Parts DEF Going, Under
<1>6. Going(n, seen, data)
    BY <1>1, <1>4, <1>5, StartsClean DEF Going, Under, Walking, Arrived
<1> QED BY <1>2, <1>3, <1>4, <1>6, NotFoundKeeps, RedirectKeeps, GoKeeps

\* What a look at the policy that is in force makes of a request.
LEMMA AuthorizeKeeps ==
    ASSUME IInv, NEW next \in {"walk", "list"},
           Authorize(req, PolicyFor(data, HomeOf(req.to)), next),
           Under(req), req.to.via = "app", req.at <= Len(req.to.path),
           Clean(req, seen, data), next = "list" => req.at = Len(req.to.path)
    PROVE  IInv'
<1> DEFINE p == PolicyFor(data, HomeOf(req.to))
           kept == [req EXCEPT !.store = "no-store"]
           in == [req EXCEPT !.phase = next, !.open = TRUE]
           with == [kept EXCEPT !.phase = next, !.open = FALSE]
<1>1. p \in seen.had /\ p \in Policy
    BY Parts, PolicyForIs DEF Going
<1>2. kept \in Request /\ kept.store = "no-store" /\ kept.to = req.to
      /\ kept.at = req.at /\ kept.session = req.session
    BY Parts DEF Request
<1>3. \/ p.state = "public" /\ Go(in)
      \/ p.state \notin {"public", "locked"} /\ req.session = p.version /\ Go(with)
      \/ Answer(kept, "423", "", {}) \/ Answer(kept, "redirect", "", {})
    BY DEF Authorize
<1> HIDE DEF p, kept
<1>4. CASE p.state = "public" /\ Go(in)
    <2>1. /\ in \in Request /\ in.phase = next /\ in.open = TRUE /\ in.to = req.to
          /\ in.at = req.at
        BY Parts DEF Request
    <2> HIDE DEF in
    <2>2. LetIn(in, seen)
        BY <1>1, <1>4, <2>1 DEF LetIn, PublicSeen
    <2>3. Clean(in, seen, data)
        BY <2>1 DEF Clean, Swapped, Prefix
    <2>4. Going(in, seen, data)
        BY <1>1, <2>1, <2>2, <2>3 DEF Going, Under, Walking, Arrived, p
    <2> QED BY <1>4, <2>1, <2>4, GoKeeps
<1>5. CASE /\ p.state \notin {"public", "locked"} /\ req.session = p.version
           /\ Go(with)
    <2>1. /\ with \in Request /\ with.phase = next /\ with.open = FALSE /\ with.to = req.to
          /\ with.at = req.at /\ with.store = "no-store" /\ with.session = req.session
        BY <1>2 DEF Request
    <2>2. p.state = "protected"
        BY <1>1, <1>5 DEF Policy
    <2> HIDE DEF with
    <2>3. LetIn(with, seen)
        BY <1>1, <1>5, <2>1, <2>2 DEF LetIn, SessionSeen
    <2>4. Clean(with, seen, data)
        BY <2>1 DEF Clean, Swapped, Prefix
    <2>5. Going(with, seen, data)
        BY <1>1, <2>1, <2>3, <2>4 DEF Going, Under, Walking, Arrived, p
    <2> QED BY <1>5, <2>1, <2>5, GoKeeps
<1>6. CASE Answer(kept, "423", "", {}) \/ Answer(kept, "redirect", "", {})
    <2>1. Allowed(kept, seen, "423")
        BY <1>2 DEF Allowed
    <2> QED BY <1>2, <1>6, <2>1, NoLinks, RefusalKeeps, AnswerKeeps
<1> QED BY <1>3, <1>4, <1>5, <1>6

LEMMA LookKeeps ==
    ASSUME IInv, Look
    PROVE  IInv'
<1>1. req.phase = "look" /\ LookDir(req.to) = HomeOf(req.to)
    BY DEF Look, LookDir, HomeOf
<1>2. req.at = 0 /\ req.to.via = "app" /\ Under(req) /\ Len(req.to.path) >= 0
    BY <1>1, Parts DEF Going, Under
<1>3. Authorize(req, PolicyFor(data, HomeOf(req.to)), "walk")
    BY <1>1 DEF Look
<1>4. Clean(req, seen, data)
    BY <1>2, StartsClean
<1> QED BY <1>2, <1>3, <1>4, AuthorizeKeeps

LEMMA LookAgainKeeps ==
    ASSUME IInv, LookAgain
    PROVE  IInv'
<1>1. req.phase = "again"
    BY DEF LookAgain
<1>2. /\ req.to.via = "app" /\ HomeOf(req.to) = req.to.path /\ Under(req)
      /\ req.at = Len(req.to.path) /\ req.at <= Len(req.to.path)
      /\ Clean(req, seen, data)
    BY <1>1, Parts DEF Going, Under, HomeOf, Walking, Arrived
<1>3. Authorize(req, PolicyFor(data, HomeOf(req.to)), "list")
    BY <1>2 DEF LookAgain
<1> QED BY <1>2, <1>3, AuthorizeKeeps

LEMMA LookAtShareKeeps ==
    ASSUME IInv, LookAtShare
    PROVE  IInv'
<1> DEFINE n == [req EXCEPT !.phase = "walk"]
<1>1. req.phase = "safe" /\ (NotFound \/ Go(n))
    BY DEF LookAtShare
<1>2. n \in Request /\ n.phase = "walk" /\ n.to = req.to /\ n.at = req.at
    BY Parts DEF Request
<1> HIDE DEF n
<1>3. /\ n.at = 0 /\ n.to.via = "share" /\ PolicyFor(data, HomeOf(n.to)) \in seen.had
      /\ Len(n.to.path) >= 0
    BY <1>1, <1>2, Parts DEF Going, Under
<1>4. Going(n, seen, data)
    BY <1>2, <1>3, StartsClean DEF Going, Under, Walking, Arrived
<1> QED BY <1>1, <1>2, <1>4, NotFoundKeeps, GoKeeps

\* A request that is past the walk goes on; its answer may be marked on the way.
LEMMA ForwardKeeps ==
    ASSUME IInv, Walking(req), NEW n \in Request, Go(n),
           n.to = req.to, n.at = req.at, n.at = Len(n.to.path), n.session = req.session,
           n.open = req.open, n.store = req.store \/ n.store = "no-store", Arrived(n),
           n.phase = "again" => n.to.via = "app" /\ n.to.op = "browse" /\ n.to.slash,
           n.phase \in {"list", "open"} /\ n.to.via = "share" => n.store = "no-store"
    PROVE  IInv'
<1>1. /\ PolicyFor(data, HomeOf(n.to)) \in seen.had /\ n.at <= Len(n.to.path)
      /\ n.to.via \in {"app", "share"} /\ Clean(req, seen, data)
      /\ n.to.via = "app" => LetIn(req, seen)
    BY Parts DEF Going, Under, Walking
<1>2. n.to.via = "app" => LetIn(n, seen)
    BY <1>1 DEF LetIn, SessionSeen
<1>3. Clean(n, seen, data)
    BY <1>1 DEF Clean, Swapped, Prefix
<1>4. Going(n, seen, data)
    BY <1>1, <1>2, <1>3 DEF Going, Under, Walking, Arrived
<1> QED BY <1>4, GoKeeps

LEMMA OneFurther ==
    ASSUME NEW n \in 0 .. 2, NEW at \in 0 .. 2, at <= n, at # n
    PROVE  at + 1 \in 1 .. n /\ at + 1 \in 0 .. n /\ at + 1 \in 0 .. 2 /\ at + 1 <= n
OBVIOUS

LEMMA WalkKeeps ==
    ASSUME IInv, Walk
    PROVE  IInv'
<1> DEFINE path == req.to.path
           i == req.at + 1
           there == [req EXCEPT !.phase = "found",
                                !.kind = IF path = <<>> THEN "dir" ELSE req.kind]
           on == [req EXCEPT !.at = i, !.kind = At(SubSeq(path, 1, i))]
<1>1. req.phase = "walk" /\ Walking(req)
    BY DEF Walk, Walking
<1>2. \/ req.to.via = "app" /\ Answer(req, "405", "", {})
      \/ NotFound
      \/ req.at = Len(path) /\ Go(there)
      \/ /\ req.at # Len(path) /\ Go(on)
         /\ ~(i \in Steps(path) /\ At(SubSeq(path, 1, i)) \in {"none", "link", "device"})
    BY DEF Walk
<1>3. CASE req.to.via = "app" /\ Answer(req, "405", "", {})
    <2>1. Allowed(req, seen, "405")
        BY <1>1, <1>3, WalkingIsAllowed
    <2> QED BY <1>3, <2>1, Parts, NoLinks, AnswerKeeps
<1>4. CASE NotFound
    BY <1>4, NotFoundKeeps
<1>5. CASE req.at = Len(path) /\ Go(there)
    <2>1. "dir" \in Nodes /\ req.kind \in Nodes
        BY Parts DEF Nodes, Request
    <2>2. /\ there \in Request /\ there.to = req.to /\ there.at = req.at
          /\ there.session = req.session /\ there.open = req.open
          /\ there.store = req.store /\ there.phase = "found"
        BY <2>1, Parts DEF Request
    <2> HIDE DEF there
    <2> QED BY <1>1, <1>5, <2>2, ForwardKeeps DEF Arrived
<1>6. CASE /\ req.at # Len(path) /\ Go(on)
           /\ ~(i \in Steps(path) /\ At(SubSeq(path, 1, i)) \in {"none", "link", "device"})
    <2>1. /\ PolicyFor(data, HomeOf(req.to)) \in seen.had /\ req.at <= Len(path)
          /\ req.to.via \in {"app", "share"} /\ Clean(req, seen, data)
          /\ req.to.via = "app" => LetIn(req, seen)
        BY <1>1, Parts DEF Going, Under
    <2>2. i \in 1 .. Len(path) /\ i \in 0 .. Len(path) /\ i \in 0 .. 2 /\ i <= Len(path)
        BY <1>6, <2>1, Parts, OneFurther
    <2>3. At(SubSeq(path, 1, i)) \in Nodes /\ At(SubSeq(path, 1, i)) # "link"
        <3>1. SubSeq(path, 1, i) \in Paths
            BY <2>2, Parts, PrefixIs
        <3> QED BY <1>6, <2>2, <3>1, Parts, LstatIs DEF At, Steps
    <2>4. /\ on \in Request /\ on.to = req.to /\ on.at = i /\ on.session = req.session
          /\ on.open = req.open /\ on.store = req.store /\ on.phase = "walk"
        BY <1>1, <2>2, <2>3, Parts DEF Request
    <2> HIDE DEF on
    <2>5. Clean(on, seen, data)
        <3> SUFFICES ASSUME ~Swapped(req, seen), NEW j \in 1 .. i
                     PROVE  Lstat(data, SubSeq(path, 1, j)) # "link"
            BY <2>4 DEF Clean, Swapped, Prefix
        <3>1. j \in 1 .. req.at \/ j = i
            BY <2>2, Parts
        <3> QED BY <2>1, <2>3, <3>1 DEF Clean, Prefix, At
    <2>6. on.to.via = "app" => LetIn(on, seen)
        BY <2>1, <2>4 DEF LetIn, SessionSeen
    <2> HIDE DEF i, path
    <2>7. Going(on, seen, data)
        BY <2>1, <2>2, <2>4, <2>5, <2>6 DEF Going, Under, Walking, Arrived, path
    <2> QED BY <1>6, <2>4, <2>7, GoKeeps
<1> QED BY <1>2, <1>3, <1>4, <1>5, <1>6

\* The handlers of the routes.
LEMMA HandlersKeep ==
    ASSUME IInv, Browse \/ Preview \/ Download \/ Shell \/ Content
    PROVE  IInv'
<1> DEFINE to == req.to
           open == [req EXCEPT !.phase = "open"]
           again == [req EXCEPT !.phase = "again"]
           keptList == [Kept EXCEPT !.phase = "list"]
           keptOpen == [Kept EXCEPT !.phase = "open"]
<1>1. req.phase = "found" /\ Walking(req)
    BY DEF Browse, Preview, Download, Shell, Content, Found, Walking
<1>2. req.at = Len(to.path) /\ to.via \in {"app", "share"}
    BY <1>1, Parts DEF Going, Arrived
<1>3. \/ NotFound
      \/ Redirect(req, To("app", "html", to.path, FALSE), "page")
      \/ Redirect(req, [to EXCEPT !.slash = TRUE], "page")
      \/ to.via # "share" /\ Go(open)
      \/ to.via = "app" /\ to.op = "browse" /\ to.slash /\ Go(again)
      \/ Go(keptList) \/ Go(keptOpen)
      \/ Answer(Kept, "413", "", {}) \/ Answer(Kept, "200", "", ShellLinks(to.via, to.path))
    <2>1. CASE Browse
        BY <2>1, Parts DEF Browse, Found
    <2>2. CASE Preview
        BY <2>2 DEF Preview
    <2>3. CASE Download
        BY <2>3 DEF Download
    <2>4. CASE Shell
        BY <2>4 DEF Shell
    <2>5. CASE Content
        BY <2>5 DEF Content
    <2> QED BY <2>1, <2>2, <2>3, <2>4, <2>5
<1>4. /\ Kept \in Request /\ Kept.to = req.to /\ Kept.at = req.at /\ Kept.open = req.open
      /\ Kept.session = req.session /\ Kept.store = "no-store"
    BY Parts DEF Kept, Request
<1>5. CASE NotFound
    BY <1>5, NotFoundKeeps
<1>6. CASE Redirect(req, To("app", "html", to.path, FALSE), "page")
    <2>1. To("app", "html", to.path, FALSE) \in Address
        BY Parts, AddressType DEF Via, Ops
    <2> QED BY <1>6, <2>1, RedirectKeeps
<1>7. CASE Redirect(req, [to EXCEPT !.slash = TRUE], "page")
    <2>1. [to EXCEPT !.slash = TRUE] \in Address
        BY Parts DEF Address
    <2> QED BY <1>7, <2>1, RedirectKeeps
<1>8. CASE to.via # "share" /\ Go(open)
    <2>1. /\ open \in Request /\ open.to = req.to /\ open.at = req.at /\ open.open = req.open
          /\ open.session = req.session /\ open.store = req.store /\ open.phase = "open"
        BY Parts DEF Request
    <2> HIDE DEF open
    <2> QED BY <1>1, <1>2, <1>8, <2>1, ForwardKeeps DEF Arrived
<1>9. CASE to.via = "app" /\ to.op = "browse" /\ to.slash /\ Go(again)
    <2>1. /\ again \in Request /\ again.to = req.to /\ again.at = req.at
          /\ again.open = req.open /\ again.session = req.session
          /\ again.store = req.store /\ again.phase = "again"
        BY Parts DEF Request
    <2> HIDE DEF again
    <2> QED BY <1>1, <1>2, <1>9, <2>1, ForwardKeeps DEF Arrived
<1>10. CASE Go(keptList)
    <2>1. /\ keptList \in Request /\ keptList.to = req.to /\ keptList.at = req.at
          /\ keptList.open = req.open /\ keptList.session = req.session
          /\ keptList.store = "no-store" /\ keptList.phase = "list"
        BY <1>4 DEF Request
    <2> HIDE DEF keptList
    <2> QED BY <1>1, <1>2, <1>10, <2>1, ForwardKeeps DEF Arrived
<1>11. CASE Go(keptOpen)
    <2>1. /\ keptOpen \in Request /\ keptOpen.to = req.to /\ keptOpen.at = req.at
          /\ keptOpen.open = req.open /\ keptOpen.session = req.session
          /\ keptOpen.store = "no-store" /\ keptOpen.phase = "open"
        BY <1>4 DEF Request
    <2> HIDE DEF keptOpen
    <2> QED BY <1>1, <1>2, <1>11, <2>1, ForwardKeeps DEF Arrived
<1>12. CASE Answer(Kept, "413", "", {})
    <2>1. Allowed(Kept, seen, "413")
        BY <1>1, <1>4, WalkingIsAllowed
    <2> QED BY <1>4, <1>12, <2>1, NoLinks, AnswerKeeps
<1>13. CASE Answer(Kept, "200", "", ShellLinks(to.via, to.path))
    <2> DEFINE links == ShellLinks(to.via, to.path)
    <2>1. links \in SUBSET Link
        BY <1>2, Parts, ShellLinksType
    <2> HIDE DEF links
    <2>2. Answer(Kept, "200", "", links)
        BY <1>13 DEF links
    <2>3. Allowed(Kept, seen, "200")
        BY <1>1, <1>4, WalkingIsAllowed
    <2> QED BY <1>4, <2>1, <2>2, <2>3, AnswerKeeps
<1> QED BY <1>3, <1>5, <1>6, <1>7, <1>8, <1>9, <1>10, <1>11, <1>12, <1>13

\* What is shown is shown to somebody who was let in, and marked.
LEMMA ShowsKeeps ==
    ASSUME IInv, req.phase \in {"list", "open"}, NEW q \in Request,
           q.to = req.to, q.session = req.session,
           q.store = req.store \/ (req.to.via = "app" /\ req.open),
           NEW shows \in {"listing", "file", "outside"}, NEW links \in SUBSET Link,
           Answer(q, "200", shows, links),
           shows = "outside" => Outside(req.to.path)
    PROVE  IInv'
<1>1. /\ req.at = Len(req.to.path) /\ req.to.via \in {"app", "share"}
      /\ req.to.via = "app" => LetIn(req, seen)
      /\ req.to.via = "share" => req.store = "no-store"
      /\ Clean(req, seen, data)
    BY Parts DEF Going, Walking, Arrived
<1>2. Allowed(q, seen, "200")
    <2>1. Walking(req) /\ (q.store = "no-store" \/ req.to.via = "app")
        BY <1>1 DEF Walking
    <2> QED BY <2>1, WalkingIsAllowed
<1>3. shows = "outside" => Swapped(q, seen)
    BY <1>1 DEF Outside, At, Clean, Swapped, Prefix
<1>4. /\ "200" \in {"", "200", "redirect", "404", "405", "413", "423", "error page"}
      /\ shows \in {"", "listing", "file", "outside"}
    OBVIOUS
<1> QED BY <1>2, <1>3, <1>4, AnswerKeeps

LEMMA ListKeeps ==
    ASSUME IInv, List
    PROVE  IInv'
<1> DEFINE path == req.to.path
           final == IF req.to.via = "app" /\ req.open THEN [req EXCEPT !.store = "no-cache"]
                    ELSE req
           links == ListingLinks(req.to.via, path)
<1>1. req.phase = "list" /\ Walking(req)
    BY DEF List, Walking
<1>2. \/ Outside(path) /\ Answer(final, "200", "outside", {})
      \/ ErrorPage \/ NotFound \/ Answer(final, "200", "listing", links)
    BY DEF List
<1>3. /\ final \in Request /\ final.to = req.to /\ final.session = req.session
      /\ final.store = req.store \/ (req.to.via = "app" /\ req.open)
    <2>1. CASE req.to.via = "app" /\ req.open
        BY <2>1, Parts DEF Request
    <2>2. CASE ~(req.to.via = "app" /\ req.open)
        BY <2>2, Parts
    <2> QED BY <2>1, <2>2
<1>4. links \in SUBSET Link
    BY Parts, ListingLinksType
<1> HIDE DEF final, links
<1>5. CASE Outside(path) /\ Answer(final, "200", "outside", {})
    BY <1>1, <1>3, <1>5, NoLinks, ShowsKeeps
<1>6. CASE Answer(final, "200", "listing", links)
    BY <1>1, <1>3, <1>4, <1>6, ShowsKeeps
<1> QED BY <1>1, <1>2, <1>5, <1>6, ErrorPageKeeps, NotFoundKeeps

LEMMA OpenKeeps ==
    ASSUME IInv, Open
    PROVE  IInv'
<1> DEFINE path == req.to.path
           links == DocumentLinks(Segments(req.to), path)
<1>1. req.phase = "open" /\ Walking(req)
    BY DEF Open, Walking
<1>2. \/ Outside(path) /\ Answer(req, "200", "outside", {})
      \/ ErrorPage \/ NotFound \/ Answer(req, "413", "", {})
      \/ Answer(req, "200", "file", links) \/ Answer(req, "200", "file", {})
    BY DEF Open
<1>3. links \in SUBSET Link
    BY DocumentLinksType
<1> HIDE DEF links
<1>4. CASE Outside(path) /\ Answer(req, "200", "outside", {})
    BY <1>1, <1>4, Parts, NoLinks, ShowsKeeps
<1>5. CASE Answer(req, "200", "file", links)
    BY <1>1, <1>3, <1>5, Parts, ShowsKeeps
<1>6. CASE Answer(req, "200", "file", {})
    BY <1>1, <1>6, Parts, NoLinks, ShowsKeeps
<1>7. CASE Answer(req, "413", "", {})
    <2>1. req.store = "no-store" \/ req.to.via = "app"
        BY <1>1, Parts DEF Going
    <2>2. Allowed(req, seen, "413")
        BY <1>1, <2>1, WalkingIsAllowed
    <2> QED BY <1>7, <2>2, Parts, NoLinks, AnswerKeeps
<1> QED BY <1>1, <1>2, <1>4, <1>5, <1>6, <1>7, ErrorPageKeeps, NotFoundKeeps

LEMMA OneEdit ==
    /\ 0 \in 0 .. MaxEdits
    /\ \A e \in 0 .. MaxEdits : e < MaxEdits => e + 1 \in 0 .. MaxEdits
<1>1. MaxEdits \in Nat
    BY ServingAssumption
<1>2. ASSUME NEW e \in 0 .. MaxEdits, e < MaxEdits PROVE e + 1 \in 0 .. MaxEdits
    BY <1>1, <1>2
<1> QED BY <1>1, <1>2

\* The administrator's changes: either something on the path is replaced, or the
\* path is as it was.
LEMMA ChangeKeeps ==
    ASSUME IInv, NEW d \in Data, NEW places \in SUBSET Places, Change(d, places),
           \A q \in Places \ places : d.node[q] = data.node[q]
    PROVE  IInv'
<1> DEFINE n == [req EXCEPT !.link = NoLink]
<1>1. /\ n \in Request /\ n.to = req.to /\ n.at = req.at /\ n.phase = req.phase
      /\ n.open = req.open /\ n.store = req.store /\ n.session = req.session
      /\ n.shows = req.shows /\ n.status = req.status
    BY Parts DEF Request
<1>2. /\ data' = d /\ req' = n /\ page' = {} /\ edits' = edits + 1 /\ edits < MaxEdits
    BY DEF Change
<1>3. edits' \in 0 .. MaxEdits /\ page' \subseteq Link
    BY <1>2, Parts, OneEdit
<1> HIDE DEF n
<1>4. CASE ~Under(req)
    <2>1. seen' = seen /\ req.phase \in {"idle", "done"}
        BY <1>4 DEF Change, Under
    <2>2. Proper(req, seen) => Proper(n, seen)
        BY <1>1 DEF Proper, Allowed, SessionSeen, Swapped, Prefix
    <2>3. Going(n, seen, d)
        BY <1>1, <2>1, <2>2, Parts DEF Going, Under, Walking, Arrived
    <2>4. TypeOK'
        BY <1>1, <1>2, <1>3, <2>1, Parts DEF TypeOK
    <2> QED BY <1>2, <2>1, <2>3, <2>4 DEF IInv
<1>5. CASE Under(req)
    <2> DEFINE s == [had |-> seen.had \cup {PolicyFor(d, HomeOf(req.to))},
                     changed |-> seen.changed \cup places, steady |-> FALSE]
    <2>1. seen' = s
        BY <1>5 DEF Change, Under
    <2>2. s \in Seen
        <3>1. PolicyFor(d, HomeOf(req.to)) \in Policy
            BY PolicyForIs
        <3> QED BY <3>1, Parts DEF Seen
    <2>3. /\ seen.had \subseteq s.had /\ seen.changed \subseteq s.changed
          /\ PolicyFor(d, HomeOf(n.to)) \in s.had /\ places \subseteq s.changed
        BY <1>1
    <2> HIDE DEF s
    <2>4. LetIn(req, seen) => LetIn(n, s)
        BY <1>1, <2>3 DEF LetIn, PublicSeen, SessionSeen
    <2>5. ASSUME Walking(req) PROVE Clean(n, s, d)
        <3>1. req.at <= Len(req.to.path) /\ Clean(req, seen, data)
            BY <2>5, Parts DEF Going
        <3>2. CASE Swapped(req, seen)
            BY <1>1, <2>3, <3>2 DEF Clean, Swapped, Prefix
        <3>3. CASE \E j \in 1 .. Len(req.to.path) : Prefix(req, j) \in places
            BY <1>1, <2>3, <3>3 DEF Clean, Swapped, Prefix
        <3>4. CASE /\ ~Swapped(req, seen)
                   /\ ~\E j \in 1 .. Len(req.to.path) : Prefix(req, j) \in places
            <4>1. \A j \in 1 .. Len(req.to.path) : LET q == SubSeq(req.to.path, 1, j) IN
                      q \in Places => data.node[q] = d.node[q]
                BY <3>4 DEF Prefix
            <4> SUFFICES ASSUME NEW i \in 1 .. req.at
                         PROVE  Lstat(d, SubSeq(req.to.path, 1, i)) # "link"
                BY <1>1 DEF Clean, Prefix
            <4>2. i \in 1 .. Len(req.to.path)
                BY <3>1, Parts
            <4>3. Lstat(data, SubSeq(req.to.path, 1, i)) = Lstat(d, SubSeq(req.to.path, 1, i))
                BY <4>1, <4>2, Parts, OnThePath
            <4>4. Lstat(data, SubSeq(req.to.path, 1, i)) # "link"
                BY <3>1, <3>4 DEF Clean, Prefix
            <4> QED BY <4>3, <4>4
        <3> QED BY <3>2, <3>3, <3>4
    <2>6. Going(n, s, d)
        BY <1>1, <1>5, <2>3, <2>4, <2>5, Parts DEF Going, Under, Walking, Arrived
    <2>7. TypeOK'
        BY <1>1, <1>2, <1>3, <2>1, <2>2 DEF TypeOK
    <2> QED BY <1>2, <2>1, <2>6, <2>7 DEF IInv
<1> QED BY <1>4, <1>5

LEMMA PlaceKeeps ==
    ASSUME IInv, NEW at \in Places, NEW kind \in Placed, Place(at, kind)
    PROVE  IInv'
<1> DEFINE d == [data EXCEPT !.node[at] = kind]
<1>1. d \in Data /\ \A q \in Places \ {at} : d.node[q] = data.node[q]
    <2>1. kind \in Nodes
        BY ServingAssumption
    <2> QED BY <2>1, Parts DEF Data
<1>2. Change(d, {at})
    BY DEF Place
<1> HIDE DEF d
<1> QED BY <1>1, <1>2, ChangeKeeps

LEMMA ProtectKeeps ==
    ASSUME IInv, NEW policy \in Policies, Protect(policy)
    PROVE  IInv'
<1> DEFINE d == [data EXCEPT !.policy = policy]
<1>1. d \in Data /\ d.node = data.node
    <2>1. policy \in [Dirs -> Policy]
        BY ServingAssumption
    <2> QED BY <2>1, Parts DEF Data
<1>2. Change(d, {})
    BY DEF Protect
<1> HIDE DEF d
<1> QED BY <1>1, <1>2, ChangeKeeps

-----------------------------------------------------------------------------
(* Links that have to answer.                                               *)

\* What findShare and the route of shared directories ask of a target, and of an
\* address below it.
SafeIn(d) ==
    /\ IsDir(Lstat(d, d.share.target))
    /\ d.policy[<<Sub>>].state = "protected"
    /\ d.policy[<<Sub>>] = d.policy[<<>>]

NoLinkOn(d, path) == \A i \in 1 .. Len(path) : Lstat(d, SubSeq(path, 1, i)) # "link"

SharedIn(d) ==
    IF d.share.scope = "directory" THEN SafeIn(d)
    ELSE NoLinkOn(d, d.share.target) /\ Regular(Lstat(d, d.share.target))

Admits(d, to) ==
    /\ to.op # "gate"
    /\ SharedIn(d)
    /\ IF d.share.scope = "file" THEN to.path = d.share.target /\ ~to.slash /\ to.op # "browse"
       ELSE IsPrefix(d.share.target, to.path) /\ ~Private(to.path)

\* The same of the application's own addresses.
Routes(to) ==
    IF to.op = "browse" THEN to.path = <<>> \/ to.path[1].mark # "_"
    ELSE to.op # "gate" /\ to.path # <<>> /\ ~to.slash

There(d, path) == Lstat(d, path) \in {"file", "big", "dir"} /\ NoLinkOn(d, path)

\* What the handler of the route needs of it.
Serves(d, to) ==
    LET kind == Lstat(d, to.path) IN
    IF to.op = "browse" THEN to.via = "share" => kind = "dir"
    ELSE /\ kind \in {"file", "big"}
         /\ to.op = "preview" => PreviewFor(Last(to.path), kind) # "none"
         /\ to.op = "download" /\ to.via = "share" => d.share.download
         /\ to.op \in {"html", "html-content"} => Last(to.path).look = "html"

\* A file or a directory that is answered as long as nothing changes.
Stands(d, to) ==
    /\ There(d, to.path) /\ ~Private(to.path)
    /\ to.via \in {"app", "share"}
    /\ to.via = "app" => Routes(to)
    /\ to.via = "share" => Admits(d, to)
    /\ Serves(d, to)

\* The same of any address: the gate sends on whoever comes.
Live(d, to) == (to.via = "share" /\ to.op = "gate" /\ SharedIn(d)) \/ Stands(d, to)

\* The links LinksAnswer says nothing of.
Dead(d, link) ==
    \/ link.from = "typed"
    \/ link.from = "error" /\ link.to.op = "preview"
    \/ link.from = "status" /\ d.share.scope = "directory"
    \/ link.to.via = "app" /\ link.to.op = "browse" /\ link.to.path # <<>>
       /\ link.to.path[1].mark = "_"
    \/ link.from = "back" /\ link.wants # <<>>
    \/ link.to.op = "preview" /\ Last(link.to.path).look = "html"
       /\ Lstat(d, link.to.path) = "big"
    \/ link.from = "landing" /\ PreviewFor(Last(link.to.path), Lstat(d, link.to.path)) = "none"
    \/ link.from = "shared document"
    \/ ~There(d, link.wants)

Good(d, link) == Dead(d, link) \/ Live(d, link.to)

Offers(d, links) == \A link \in links : Good(d, link)

\* A request that follows a link: nothing has changed since the page with it was
\* asked for.
Following(q, s, d) ==
    q.link # NoLink =>
        /\ q.link \in Link /\ q.to = q.link.to /\ q.get /\ s.steady
        /\ Good(d, q.link)
        /\ q.phase = "done" /\ q.status = "404" => ~Live(d, q.to)

KindOf(d, path) == IF path = <<>> THEN "dir" ELSE Lstat(d, path)

\* What a request knows of the data as long as they stay as they are.
Knows(q, s, d) ==
    s.steady =>
        /\ q.phase = "safe" => d.share.scope = "directory"
        /\ (q.phase = "safe" \/ Walking(q)) /\ q.to.via = "share" => Admits(d, q.to)
        /\ (q.phase = "look" \/ Walking(q)) /\ q.to.via = "app" => Routes(q.to)
        /\ Walking(q) /\ q.at > 0 => q.kind = Lstat(d, Prefix(q, q.at))
        /\ Arrived(q) => ~Private(q.to.path) /\ q.kind = KindOf(d, q.to.path)
        /\ q.phase = "list" => q.to.op = "browse" /\ q.to.slash
        /\ q.phase = "open" => ~IsDir(q.kind)

LinkInv == Following(req, seen, data) /\ Knows(req, seen, data) /\ Offers(data, page)

\* The model's own words for it.
LEMMA InTheData ==
    /\ DirectoryShareSafe <=> SafeIn(data)
    /\ \A path : Outside(path) <=> ~NoLinkOn(data, path)
    /\ ShareThere <=> SharedIn(data)
<1>1. DirectoryShareSafe <=> SafeIn(data)
    BY DEF DirectoryShareSafe, SafeIn, At
<1>2. \A path : Outside(path) <=> ~NoLinkOn(data, path)
    BY DEF Outside, NoLinkOn, At
<1> QED BY <1>1, <1>2 DEF ShareThere, SharedIn, At

LEMMA AdmittedIs ==
    ASSUME NEW to, NEW get
    PROVE  /\ to.op # "gate" /\ ~ShareRefuses(to, get) => Admits(data, to)
           /\ Admits(data, to) /\ get => ~ShareRefuses(to, get)
           /\ to.op = "gate" /\ SharedIn(data) /\ get => ~ShareRefuses(to, get)
BY InTheData DEF ShareRefuses, Admits

LEMMA DeadIs ==
    ASSUME NEW link, Dead(data, link)
    PROVE  \/ link.from = "typed" \/ KnownDead(link) \/ Outside(link.wants)
           \/ At(link.wants) \notin {"file", "big", "dir"}
BY InTheData DEF Dead, KnownDead, There, At

LEMMA WholePath ==
    ASSUME NEW p \in Paths
    PROVE  SubSeq(p, 1, Len(p)) = p
<1>1. p \in Seq(Names)
    BY PathIs
<1> QED BY <1>1

\* What is on the way to something that is there.
LEMMA OnTheWay ==
    ASSUME NEW d \in Data, NEW p \in Paths, There(d, p), NEW i \in 1 .. Len(p)
    PROVE  /\ Lstat(d, SubSeq(p, 1, i)) \notin {"none", "link", "device"}
           /\ i < Len(p) => IsDir(Lstat(d, SubSeq(p, 1, i)))
<1>1. p \in Seq(Names) /\ Len(p) \in 0 .. 2 /\ (i = 1 \/ i = 2)
    <2>1. p \in Seq(Names) /\ Len(p) \in 0 .. 2
        BY PathIs
    <2> QED BY <2>1, SmallIndex
<1>2. CASE i = Len(p)
    <2>1. Lstat(d, SubSeq(p, 1, i)) = Lstat(d, p)
        BY <1>2, WholePath
    <2> QED BY <1>1, <1>2, <2>1 DEF There
<1>3. CASE i = 1 /\ Len(p) = 2
    <2>1. p \in Places /\ d.node[<<Sub>>] # "link" => IsDir(d.node[<<Sub>>])
        BY <1>3 DEF There, Lstat
    <2>2. p \in Places
        BY <1>3 DEF There, Lstat
    <2>3. SubSeq(p, 1, i) = <<Sub>>
        BY <1>3, <2>2, DeepPlaces
    <2>4. Lstat(d, <<Sub>>) = d.node[<<Sub>>]
        <3>1. Len(<<Sub>>) < 2
            OBVIOUS
        <3> QED BY <3>1 DEF Lstat
    <2>5. Lstat(d, SubSeq(p, 1, i)) # "link"
        BY DEF There, NoLinkOn
    <2>6. IsDir(Lstat(d, SubSeq(p, 1, i)))
        BY <2>1, <2>2, <2>3, <2>4, <2>5
    <2> QED BY <2>6 DEF IsDir
<1>4. i = Len(p) \/ (i = 1 /\ Len(p) = 2)
    <2>1. \A n \in 0 .. 2 : \A j \in 1 .. n : j = n \/ (j = 1 /\ n = 2)
        OBVIOUS
    <2> QED BY <1>1, <2>1
<1> QED BY <1>2, <1>3, <1>4

\* A share's addresses lie below the application.
LEMMA BelowTheRoot ==
    ASSUME NEW d \in Data, NEW to, to.path \in Paths, Admits(d, to)
    PROVE  to.path # <<>>
<1>1. d.share.target # <<>> /\ d.share.target \in Paths
    BY SharedIs DEF Share
<1>2. d.share.target \in Seq(Names)
    BY <1>1, PathIs
<1>3. CASE d.share.scope = "file"
    BY <1>1, <1>3 DEF Admits
<1>4. CASE d.share.scope # "file"
    <2>1. Len(d.share.target) <= Len(to.path) /\ Len(d.share.target) > 0
        BY <1>1, <1>2, <1>4 DEF Admits, IsPrefix
    <2> QED BY <2>1
<1> QED BY <1>3, <1>4

\* What holds a live address of a share is a directory, all the way down.
LEMMA RootsAreDirs ==
    ASSUME data \in Data, NEW to, to.path \in Paths, Stands(data, to),
           NEW i \in 1 .. Len(to.path), i <= Len(Root(to))
    PROVE  IsDir(At(SubSeq(to.path, 1, i)))
<1> DEFINE target == data.share.target
<1>1. target \in Paths /\ target \in Seq(Names) /\ to.path \in Seq(Names)
      /\ target # <<>> /\ Len(target) \in Nat /\ There(data, to.path)
    <2>1. data.share \in Share /\ target \in Paths
        BY SharedIs
    <2>2. target \in Seq(Names) /\ to.path \in Seq(Names)
        BY <2>1, PathIs
    <2> QED BY <2>1, <2>2 DEF Share, Stands
<1>2. to.via = "share"
    <2>1. CASE to.via # "share"
        <3>1. Len(Root(to)) = 0
            BY <2>1 DEF Root
        <3> QED BY <3>1
    <2> QED BY <2>1
<1>3. Admits(data, to)
    BY <1>2 DEF Stands
<1>4. CASE data.share.scope = "directory"
    <2>1. Root(to) = target /\ SafeIn(data) /\ IsPrefix(target, to.path)
        BY <1>2, <1>3, <1>4 DEF Root, Admits, SharedIn
    <2>2. Len(target) <= Len(to.path) /\ target = SubSeq(to.path, 1, Len(target))
        BY <1>1, <2>1, WholePath DEF IsPrefix
    <2>3. CASE i = Len(target)
        BY <2>1, <2>2, <2>3 DEF SafeIn, At
    <2>4. CASE i < Len(to.path)
        BY <1>1, <2>4, OnTheWay DEF At
    <2>5. i = Len(target) \/ i < Len(to.path)
        BY <1>1, <2>1, <2>2
    <2> QED BY <2>3, <2>4, <2>5
<1>5. CASE data.share.scope = "file"
    <2>1. Root(to) = Front(target) /\ to.path = target
        BY <1>2, <1>3, <1>5 DEF Root, Admits
    <2>2. Len(Front(target)) < Len(target)
        BY <1>1 DEF Front
    <2>3. i < Len(to.path)
        BY <1>1, <2>1, <2>2
    <2> QED BY <1>1, <2>3, OnTheWay DEF At
<1>6. data.share.scope \in {"file", "directory"}
    BY SharedIs DEF Share
<1> QED BY <1>4, <1>5, <1>6

LEMMA GoLinks ==
    ASSUME LinkInv, NEW n, Go(n), n.link = req.link, n.to = req.to, n.get = req.get,
           n.phase # "done", Knows(n, seen, data)
    PROVE  LinkInv'
<1>1. req' = n /\ UNCHANGED <<data, seen, page>>
    BY DEF Go
<1>2. Following(n, seen, data)
    BY DEF LinkInv, Following
<1>3. Offers(data, page)
    BY DEF LinkInv
<1>4. Following(req', seen', data') /\ Knows(req', seen', data') /\ Offers(data', page')
    BY <1>1, <1>2, <1>3
<1> QED BY <1>4 DEF LinkInv

LEMMA AnswerLinks ==
    ASSUME LinkInv, NEW q \in Request, NEW status, NEW shows, NEW links,
           Answer(q, status, shows, links),
           q.link = req.link, q.to = req.to, q.get = req.get,
           status = "404" /\ req.link # NoLink => ~Live(data, req.to),
           seen.steady => Offers(data, links)
    PROVE  LinkInv'
<1> DEFINE n == [q EXCEPT !.phase = "done", !.status = status, !.shows = shows]
           given == IF seen.steady THEN links ELSE {}
<1>1. req' = n /\ page' = given /\ UNCHANGED <<data, seen>>
    BY DEF Answer
<1>2. /\ n.link = req.link /\ n.to = req.to /\ n.get = req.get /\ n.phase = "done"
      /\ n.status = status
    BY DEF Request
<1>3. Offers(data, given)
    BY DEF Offers
<1> HIDE DEF n, given
<1>4. Following(n, seen, data)
    BY <1>2 DEF LinkInv, Following
<1>5. Knows(n, seen, data)
    BY <1>2 DEF Knows, Walking, Arrived
<1>6. Following(req', seen', data') /\ Knows(req', seen', data') /\ Offers(data', page')
    BY <1>1, <1>3, <1>4, <1>5
<1> QED BY <1>6 DEF LinkInv

LEMMA NoOffers == \A d : Offers(d, {})
BY DEF Offers

\* Answers that are no refusals of a link, and give none.
LEMMA PlainLinks ==
    ASSUME IInv, LinkInv, NEW q \in Request, NEW status, status # "404", NEW shows,
           Answer(q, status, shows, {}), q.link = req.link, q.to = req.to, q.get = req.get
    PROVE  LinkInv'
BY AnswerLinks, NoOffers

LEMMA NotFoundLinks ==
    ASSUME IInv, LinkInv, NotFound, req.link # NoLink => ~Live(data, req.to)
    PROVE  LinkInv'
<1>1. Answer(req, "404", "", {}) /\ req \in Request
    BY Parts DEF NotFound
<1> QED BY <1>1, AnswerLinks, NoOffers

LEMMA RedirectLinks ==
    ASSUME IInv, LinkInv, NEW to, NEW from, Redirect(req, to, from),
           seen.steady => Good(data, [to |-> to, wants |-> to.path, from |-> from])
    PROVE  LinkInv'
<1> DEFINE link == [to |-> to, wants |-> to.path, from |-> from]
<1>1. Answer(req, "redirect", "", {link}) /\ req \in Request
    BY Parts DEF Redirect
<1>2. seen.steady => Offers(data, {link})
    BY DEF Offers
<1> HIDE DEF link
<1> QED BY <1>1, <1>2, AnswerLinks

\* A request that follows a link knows what there was when the page was made.
LEMMA FollowsALink ==
    ASSUME LinkInv, req.link # NoLink
    PROVE  /\ req.get /\ seen.steady /\ req.to = req.link.to /\ Good(data, req.link)
           /\ req.phase = "done" /\ req.status = "404" => ~Live(data, req.to)
BY DEF LinkInv, Following

LEMMA BeginLinks ==
    ASSUME IInv, LinkInv, Begin
    PROVE  LinkInv'
<1>1. PICK to \in [via : Via, op : Ops, path : Targets, slash : BOOLEAN],
           get \in BOOLEAN, session \in Versions :
         /\ req' = [Idle EXCEPT !.phase = "route", !.to = to, !.get = get,
                                !.session = session]
         /\ seen' = AtFirst(to)
    BY DEF Begin
<1> DEFINE n == [Idle EXCEPT !.phase = "route", !.to = to, !.get = get, !.session = session]
           s == AtFirst(to)
<1>2. n.phase = "route" /\ n.link = NoLink
    BY DEF Idle
<1>3. req' = n /\ seen' = s /\ UNCHANGED <<data, page>>
    BY <1>1 DEF Begin
<1> HIDE DEF n, s
<1>4. Following(n, s, data) /\ Knows(n, s, data) /\ Offers(data, page)
    BY <1>2 DEF Following, Knows, Walking, Arrived, LinkInv
<1>5. Following(req', seen', data') /\ Knows(req', seen', data') /\ Offers(data', page')
    BY <1>3, <1>4
<1> QED BY <1>5 DEF LinkInv

LEMMA FollowLinks ==
    ASSUME IInv, LinkInv, Follow
    PROVE  LinkInv'
<1>1. PICK link \in page :
         /\ req' = [Idle EXCEPT !.phase = "route", !.to = link.to, !.link = link,
                                !.session = req.session]
         /\ seen' = AtFirst(link.to)
    BY DEF Follow
<1> DEFINE n == [Idle EXCEPT !.phase = "route", !.to = link.to, !.link = link,
                             !.session = req.session]
           s == AtFirst(link.to)
<1>2. n.phase = "route" /\ n.link = link /\ n.to = link.to /\ n.get
    BY DEF Idle
<1>3. s.steady
    BY DEF AtFirst
<1>4. req' = n /\ seen' = s /\ page' = {} /\ UNCHANGED data
    BY <1>1 DEF Follow
<1>5. link \in Link /\ Good(data, link)
    BY DEF IInv, TypeOK, LinkInv, Offers
<1> HIDE DEF n, s
<1>6. Following(n, s, data) /\ Knows(n, s, data) /\ Offers(data, {})
    BY <1>2, <1>3, <1>5, NoOffers DEF Following, Knows, Walking, Arrived
<1>7. Following(req', seen', data') /\ Knows(req', seen', data') /\ Offers(data', page')
    BY <1>4, <1>6
<1> QED BY <1>7 DEF LinkInv

\* Whatever changes, nobody follows a link any more, and no page is left.
LEMMA ChangeLinks ==
    ASSUME IInv, LinkInv, NEW d, NEW places, Change(d, places)
    PROVE  LinkInv'
<1> DEFINE n == [req EXCEPT !.link = NoLink]
<1>1. n.link = NoLink /\ n.phase = req.phase
    BY Parts DEF Request
<1>2. req' = n /\ page' = {} /\ data' = d
    BY DEF Change
<1>3. (~seen'.steady) \/ n.phase \in {"idle", "done"}
    BY <1>1 DEF Change
<1> HIDE DEF n
<1>4. Following(n, seen', d)
    BY <1>1 DEF Following
<1>5. Knows(n, seen', d)
    BY <1>1, <1>3 DEF Knows, Walking, Arrived
<1>6. Following(req', seen', data') /\ Knows(req', seen', data') /\ Offers(data', page')
    BY <1>2, <1>4, <1>5, NoOffers
<1> QED BY <1>6 DEF LinkInv

-----------------------------------------------------------------------------
(* Routes.                                                                  *)

LEMMA RouteLegacyLinks ==
    ASSUME IInv, LinkInv, RouteLegacy
    PROVE  LinkInv'
<1> DEFINE to == To("app", req.to.op, req.to.path, req.to.slash \/ req.to.path = <<>>)
<1>1. req.to.via = "legacy" /\ (NotFound \/ Redirect(req, to, "typed"))
    BY DEF RouteLegacy
<1>2. ~Live(data, req.to)
    BY <1>1 DEF Live, Stands
<1>3. Good(data, [to |-> to, wants |-> to.path, from |-> "typed"])
    BY DEF Good, Dead
<1> HIDE DEF to
<1> QED BY <1>1, <1>2, <1>3, NotFoundLinks, RedirectLinks

LEMMA RouteAppLinks ==
    ASSUME IInv, LinkInv, RouteApp
    PROVE  LinkInv'
<1> DEFINE n == [req EXCEPT !.phase = "look"]
           to == [req.to EXCEPT !.slash = TRUE]
<1>1. req.phase = "route" /\ req.to.via = "app" /\ req.at = 0
    BY Parts DEF RouteApp, Going
<1>2. \/ AppRefuses(req.to, req.get) /\ NotFound
      \/ /\ ~AppRefuses(req.to, req.get) /\ req.to.path = <<>> /\ ~req.to.slash
         /\ Redirect(req, to, "page")
      \/ ~AppRefuses(req.to, req.get) /\ Go(n)
    BY DEF RouteApp
<1>3. CASE AppRefuses(req.to, req.get) /\ NotFound
    <2>1. ASSUME req.link # NoLink, Live(data, req.to) PROVE FALSE
        BY <1>1, <1>3, <2>1, FollowsALink DEF AppRefuses, Live, Stands, Routes
    <2> QED BY <1>3, <2>1, NotFoundLinks
<1>4. CASE /\ ~AppRefuses(req.to, req.get) /\ req.to.path = <<>> /\ ~req.to.slash
           /\ Redirect(req, to, "page")
    <2>1. to.via = "app" /\ to.op = "browse" /\ to.path = <<>>
        BY <1>1, <1>4, Parts DEF AppRefuses, Address
    <2>2. ~Private(<<>>)
        BY DEF Private
    <2> DEFINE link == [to |-> to, wants |-> to.path, from |-> "page"]
    <2>3. link.to = to /\ link.wants = <<>> /\ link.from = "page"
        BY <2>1
    <2> HIDE DEF to, link
    <2>4. Good(data, link)
        BY <2>1, <2>2, <2>3 DEF Good, Dead, Live, Stands, Routes, Serves
    <2> QED BY <1>4, <2>4, RedirectLinks DEF link
<1>5. CASE ~AppRefuses(req.to, req.get) /\ Go(n)
    <2>1. Routes(req.to)
        BY <1>5 DEF AppRefuses, Routes
    <2>2. n.phase = "look" /\ n.to = req.to /\ n.link = req.link /\ n.get = req.get
        BY Parts DEF Request
    <2> HIDE DEF n
    <2>3. Knows(n, seen, data)
        BY <1>1, <2>1, <2>2 DEF Knows, Walking, Arrived
    <2> QED BY <1>5, <2>2, <2>3, GoLinks
<1> QED BY <1>2, <1>3, <1>4, <1>5

\* Where the gate of a share leads is admitted.
LEMMA LandsOnIs ==
    ASSUME IInv, ShareThere
    PROVE  Good(data, [to |-> LandsOn, wants |-> LandsOn.path, from |-> "landing"])
<1> DEFINE target == data.share.target
           kind == Lstat(data, target)
           link == [to |-> LandsOn, wants |-> LandsOn.path, from |-> "landing"]
<1>1. /\ data.share.scope \in {"file", "directory"} /\ target # <<>> /\ ~Private(target)
      /\ target \in Paths
    BY Parts, SharedIs DEF Share
<1>2. target \in Seq(Names)
    BY <1>1, PathIs
<1>3. IsPrefix(target, target)
    BY <1>2 DEF IsPrefix
<1>4. SharedIn(data)
    BY InTheData
<1>5. LandsOn.via = "share" /\ LandsOn.path = target
    BY DEF LandsOn, To
<1>6. link.to = LandsOn /\ link.wants = target /\ link.from = "landing"
    BY <1>5
<1> HIDE DEF link, target
<1> SUFFICES ASSUME ~Dead(data, link) PROVE Stands(data, LandsOn)
    BY <1>6 DEF Good, Live, link
<1>7. There(data, target) /\ PreviewFor(Last(target), kind) # "none"
    BY <1>5, <1>6 DEF Dead
<1>8. CASE data.share.scope = "directory"
    <2>1. LandsOn.op = "browse"
        BY <1>8 DEF LandsOn, To
    <2>2. kind = "dir"
        BY <1>4, <1>7, <1>8 DEF SharedIn, SafeIn, There, IsDir, target
    <2>3. Admits(data, LandsOn)
        BY <1>1, <1>3, <1>4, <1>5, <1>8, <2>1 DEF Admits, target
    <2> QED BY <1>1, <1>5, <1>7, <2>1, <2>2, <2>3 DEF Stands, Serves
<1>9. CASE data.share.scope = "file"
    <2>1. /\ LandsOn.op = (IF Last(target).look = "html" THEN "html" ELSE "preview")
          /\ ~LandsOn.slash
        BY <1>9 DEF LandsOn, To, target
    <2>2. kind \in {"file", "big"}
        BY <1>4, <1>7, <1>9 DEF SharedIn, There, Regular, target
    <2>3. Admits(data, LandsOn)
        BY <1>4, <1>5, <1>9, <2>1 DEF Admits, target
    <2>4. Serves(data, LandsOn)
        BY <1>5, <1>7, <2>1, <2>2 DEF Serves
    <2> QED BY <1>1, <1>5, <1>7, <2>3, <2>4 DEF Stands
<1> QED BY <1>1, <1>8, <1>9

LEMMA RouteShareLinks ==
    ASSUME IInv, LinkInv, RouteShare
    PROVE  LinkInv'
<1> DEFINE next == IF data.share.scope = "file" THEN "walk" ELSE "safe"
           n == [req EXCEPT !.phase = next]
<1>1. req.phase = "route" /\ req.to.via = "share" /\ req.at = 0
    BY Parts DEF RouteShare, Going
<1>2. \/ ShareRefuses(req.to, req.get) /\ NotFound
      \/ ~ShareRefuses(req.to, req.get) /\ Redirect(req, LandsOn, "landing")
      \/ ~ShareRefuses(req.to, req.get) /\ req.to.op # "gate" /\ Go(n)
    BY DEF RouteShare
<1>3. CASE ShareRefuses(req.to, req.get) /\ NotFound
    <2>1. ASSUME req.link # NoLink, Live(data, req.to) PROVE FALSE
        BY <1>1, <1>3, <2>1, FollowsALink, AdmittedIs DEF Live, Stands
    <2> QED BY <1>3, <2>1, NotFoundLinks
<1>4. CASE ~ShareRefuses(req.to, req.get) /\ Redirect(req, LandsOn, "landing")
    <2>1. ShareThere
        BY <1>4 DEF ShareRefuses
    <2> QED BY <1>4, <2>1, LandsOnIs, RedirectLinks
<1>5. CASE ~ShareRefuses(req.to, req.get) /\ req.to.op # "gate" /\ Go(n)
    <2>1. Admits(data, req.to)
        BY <1>5, AdmittedIs
    <2>2. next = "safe" => data.share.scope = "directory"
        BY Parts, SharedIs DEF Share
    <2>3. n.phase = next /\ n.to = req.to /\ n.link = req.link /\ n.get = req.get /\ n.at = 0
          /\ next \in {"walk", "safe"}
        BY <1>1, Parts DEF Request
    <2> HIDE DEF n, next
    <2>4. Knows(n, seen, data)
        BY <1>1, <2>1, <2>2, <2>3 DEF Knows, Walking, Arrived
    <2> QED BY <1>5, <2>3, <2>4, GoLinks
<1> QED BY <1>2, <1>3, <1>4, <1>5

\* What a look at a policy makes of a request says nothing of its links.
LEMMA AuthorizeLinks ==
    ASSUME IInv, LinkInv, NEW p, NEW next, next # "done", Authorize(req, p, next),
           \A n : /\ n.phase = next /\ n.to = req.to /\ n.at = req.at /\ n.kind = req.kind
                  => Knows(n, seen, data)
    PROVE  LinkInv'
<1> DEFINE kept == [req EXCEPT !.store = "no-store"]
           in == [req EXCEPT !.phase = next, !.open = TRUE]
           with == [kept EXCEPT !.phase = next, !.open = FALSE]
<1>1. Go(in) \/ Go(with) \/ Answer(kept, "423", "", {}) \/ Answer(kept, "redirect", "", {})
    BY DEF Authorize
<1>2. kept \in Request /\ kept.link = req.link /\ kept.to = req.to /\ kept.get = req.get
    BY Parts DEF Request
<1>3. CASE Go(in)
    <2>1. /\ in.phase = next /\ in.to = req.to /\ in.at = req.at /\ in.kind = req.kind
          /\ in.link = req.link /\ in.get = req.get
        BY Parts DEF Request
    <2> HIDE DEF in
    <2> QED BY <1>3, <2>1, GoLinks
<1>4. CASE Go(with)
    <2>1. /\ with.phase = next /\ with.to = req.to /\ with.at = req.at
          /\ with.kind = req.kind /\ with.link = req.link /\ with.get = req.get
        BY Parts DEF Request
    <2> HIDE DEF with
    <2> QED BY <1>4, <2>1, GoLinks
<1>5. CASE Answer(kept, "423", "", {}) \/ Answer(kept, "redirect", "", {})
    <2> HIDE DEF kept
    <2> QED BY <1>2, <1>5, PlainLinks
<1> QED BY <1>1, <1>3, <1>4, <1>5

LEMMA LookLinks ==
    ASSUME IInv, LinkInv, Look
    PROVE  LinkInv'
<1>1. req.phase = "look" /\ req.at = 0 /\ req.to.via = "app"
      /\ Authorize(req, PolicyFor(data, LookDir(req.to)), "walk")
    BY Parts DEF Look, Going
<1>2. seen.steady => Routes(req.to)
    BY <1>1 DEF LinkInv, Knows
<1>3. ASSUME NEW n, n.phase = "walk", n.to = req.to, n.at = req.at
      PROVE  Knows(n, seen, data)
    BY <1>1, <1>2, <1>3 DEF Knows, Walking, Arrived
<1> QED BY <1>1, <1>3, AuthorizeLinks

LEMMA LookAgainLinks ==
    ASSUME IInv, LinkInv, LookAgain
    PROVE  LinkInv'
<1>1. /\ req.phase = "again" /\ req.to.via = "app" /\ req.to.op = "browse" /\ req.to.slash
      /\ Authorize(req, PolicyFor(data, req.to.path), "list")
    BY Parts DEF LookAgain, Going
<1>2. ASSUME NEW n, n.phase = "list", n.to = req.to, n.at = req.at, n.kind = req.kind
      PROVE  Knows(n, seen, data)
    BY <1>1, <1>2 DEF Knows, Walking, Arrived, LinkInv, Prefix
<1> QED BY <1>1, <1>2, AuthorizeLinks

LEMMA LookAtShareLinks ==
    ASSUME IInv, LinkInv, LookAtShare
    PROVE  LinkInv'
<1> DEFINE n == [req EXCEPT !.phase = "walk"]
<1>1. /\ req.phase = "safe" /\ req.at = 0 /\ req.to.via = "share"
      /\ (~DirectoryShareSafe /\ NotFound) \/ Go(n)
    BY Parts DEF LookAtShare, Going
<1>2. CASE ~DirectoryShareSafe /\ NotFound
    <2>1. ASSUME req.link # NoLink, Live(data, req.to) PROVE FALSE
        <3>1. data.share.scope = "directory" /\ Admits(data, req.to)
            BY <1>1, <2>1, FollowsALink DEF LinkInv, Knows
        <3> QED BY <1>2, <3>1, InTheData DEF Admits, SharedIn
    <2> QED BY <1>2, <2>1, NotFoundLinks
<1>3. CASE Go(n)
    <2>1. n.phase = "walk" /\ n.to = req.to /\ n.link = req.link /\ n.get = req.get /\ n.at = 0
        BY <1>1, Parts DEF Request
    <2> HIDE DEF n
    <2>2. Knows(n, seen, data)
        BY <1>1, <2>1 DEF LinkInv, Knows, Walking, Arrived
    <2> QED BY <1>3, <2>1, <2>2, GoLinks
<1> QED BY <1>1, <1>2, <1>3

-----------------------------------------------------------------------------
(* The walk, the handlers and the answers.                                  *)

\* What the walk to a live address ends with is what is there.
LEMMA KindIs ==
    ASSUME IInv, LinkInv, Arrived(req), seen.steady
    PROVE  /\ ~Private(req.to.path) /\ req.kind = KindOf(data, req.to.path)
           /\ req.to.via \in {"app", "share"}
           /\ req.to.via = "app" => Routes(req.to)
           /\ req.to.via = "share" => Admits(data, req.to) /\ req.to.path # <<>>
           /\ req.to.op # "gate"
           /\ req.to.op # "browse" => req.to.path # <<>>
<1>1. Walking(req) /\ req.to.via \in {"app", "share"} /\ data \in Data /\ req.to.path \in Paths
    BY Parts DEF Arrived, Walking, Going
<1>2. /\ ~Private(req.to.path) /\ req.kind = KindOf(data, req.to.path)
      /\ req.to.via = "app" => Routes(req.to)
      /\ req.to.via = "share" => Admits(data, req.to)
    BY <1>1 DEF LinkInv, Knows
<1>3. req.to.via = "share" => req.to.path # <<>>
    BY <1>1, <1>2, BelowTheRoot
<1>4. req.to.op # "gate" /\ (req.to.op # "browse" => req.to.path # <<>>)
    BY <1>1, <1>2, <1>3 DEF Routes, Admits
<1> QED BY <1>1, <1>2, <1>3, <1>4

\* What is above something that is not private is not private either.
LEMMA PrefixIsPublic ==
    ASSUME NEW p \in Paths, ~Private(p), NEW i \in 0 .. Len(p)
    PROVE  ~Private(SubSeq(p, 1, i))
<1>1. p \in Seq(Names)
    BY PathIs
<1>2. \A j \in DOMAIN SubSeq(p, 1, i) : j \in DOMAIN p /\ SubSeq(p, 1, i)[j] = p[j]
    BY <1>1
<1> QED BY <1>2 DEF Private

LEMMA FrontIsPublic ==
    ASSUME NEW p \in Paths, ~Private(p)
    PROVE  ~Private(Front(p))
<1>1. p \in Seq(Names)
    BY PathIs
<1>2. \A j \in DOMAIN Front(p) : j \in DOMAIN p /\ Front(p)[j] = p[j]
    BY <1>1 DEF Front
<1> QED BY <1>2 DEF Private

\* A directory of the application is answered whoever gives the link.
LEMMA BrowseIsGood ==
    ASSUME NEW p \in Paths, ~Private(p), NEW link,
           link.to = To("app", "browse", p, TRUE), link.wants = p
    PROVE  Good(data, link)
<1>1. link.to.via = "app" /\ link.to.op = "browse" /\ link.to.path = p
    BY DEF To
<1> SUFFICES ASSUME ~Dead(data, link) PROVE Stands(data, link.to)
    BY DEF Good, Live
<1>2. There(data, p) /\ Routes(link.to)
    BY <1>1 DEF Dead, Routes
<1> QED BY <1>1, <1>2 DEF Stands, Serves

\* The way back from the error page.
LEMMA BackIsGood ==
    ASSUME IInv, LinkInv, Arrived(req), seen.steady, req.to.op \in {"browse", "preview"}
    PROVE  Good(data, BackLink)
<1> DEFINE to == req.to
           home == HomeOf(to)
<1>1. to.path \in Paths /\ ~Private(to.path) /\ to.via \in {"app", "share"}
      /\ (to.via = "share" => Admits(data, to))
    BY Parts, KindIs
<1>2. home \in Paths /\ ~Private(home)
    BY <1>1, Parts, HomeType, FrontIsPublic DEF HomeOf
<1>3. BackLink.wants = home /\ BackLink.from = "error"
    BY DEF BackLink
<1>4. CASE to.op = "browse"
    <2>1. BackLink.to = To("app", "browse", home, TRUE)
        BY <1>4 DEF BackLink
    <2> QED BY <1>2, <1>3, <2>1, BrowseIsGood
<1>5. CASE to.op # "browse" /\ to.via = "share" /\ data.share.scope = "file"
    <2>1. BackLink.to = To("share", "gate", <<>>, TRUE)
        BY <1>5 DEF BackLink
    <2>2. BackLink.to.via = "share" /\ BackLink.to.op = "gate" /\ SharedIn(data)
        BY <1>1, <1>5, <2>1 DEF To, Admits
    <2> QED BY <2>2 DEF Good, Live
<1>6. CASE to.op # "browse" /\ ~(to.via = "share" /\ data.share.scope = "file")
    <2>1. BackLink.to = To(to.via, "preview", Front(to.path), TRUE)
        BY <1>6 DEF BackLink
    <2>2. BackLink.to.op = "preview"
        BY <2>1 DEF To
    <2> QED BY <1>3, <2>2 DEF Good, Dead
<1> QED BY <1>4, <1>5, <1>6

LEMMA ErrorPageLinks ==
    ASSUME IInv, LinkInv, ErrorPage, Arrived(req),
           seen.steady => req.to.op \in {"browse", "preview"}
    PROVE  LinkInv'
<1> DEFINE q == [req EXCEPT !.store = "no-cache"]
<1>1. q \in Request /\ q.link = req.link /\ q.to = req.to /\ q.get = req.get
    BY Parts DEF Request
<1>2. Answer(q, "error page", "", {BackLink})
    BY DEF ErrorPage
<1>3. seen.steady => Offers(data, {BackLink})
    BY BackIsGood DEF Offers
<1> HIDE DEF q
<1> QED BY <1>1, <1>2, <1>3, AnswerLinks

LEMMA WalkLinks ==
    ASSUME IInv, LinkInv, Walk
    PROVE  LinkInv'
<1> DEFINE path == req.to.path
           i == req.at + 1
           there == [req EXCEPT !.phase = "found",
                                !.kind = IF path = <<>> THEN "dir" ELSE req.kind]
           on == [req EXCEPT !.at = i, !.kind = At(SubSeq(path, 1, i))]
<1>1. /\ req.phase = "walk" /\ Walking(req) /\ req.at <= Len(path)
      /\ req.to.via \in {"app", "share"}
    BY Parts DEF Walk, Walking, Going
<1>2. \/ ~req.get /\ Answer(req, "405", "", {})
      \/ NotFound /\ (\/ Private(path)
                      \/ /\ req.at # Len(path)
                         /\ \/ At(SubSeq(path, 1, i)) \in {"none", "link", "device"}
                            \/ i <= Len(Root(req.to)) /\ ~IsDir(At(SubSeq(path, 1, i))))
      \/ req.at = Len(path) /\ ~Private(path) /\ Go(there)
      \/ req.at # Len(path) /\ Go(on)
    BY DEF Walk
<1>3. seen.steady => /\ req.to.via = "share" => Admits(data, req.to)
                     /\ req.to.via = "app" => Routes(req.to)
                     /\ req.at > 0 => req.kind = Lstat(data, Prefix(req, req.at))
    BY <1>1 DEF LinkInv, Knows
<1>4. CASE Answer(req, "405", "", {})
    BY <1>4, Parts, PlainLinks
<1>5. CASE NotFound /\ (\/ Private(path)
                        \/ /\ req.at # Len(path)
                           /\ \/ At(SubSeq(path, 1, i)) \in {"none", "link", "device"}
                              \/ i <= Len(Root(req.to)) /\ ~IsDir(At(SubSeq(path, 1, i))))
    <2>1. ASSUME req.link # NoLink, Live(data, req.to) PROVE FALSE
        <3>0. Stands(data, req.to)
            BY <1>3, <2>1, FollowsALink DEF Live, Admits
        <3>1. ~Private(path) /\ There(data, path)
            BY <3>0 DEF Stands
        <3>2. req.at # Len(path)
            BY <1>5, <3>1
        <3>3. i \in 1 .. Len(path)
            BY <1>1, <3>2, Parts, OneFurther
        <3>4. At(SubSeq(path, 1, i)) \notin {"none", "link", "device"}
            BY <3>1, <3>3, Parts, OnTheWay DEF At
        <3>5. i <= Len(Root(req.to)) => IsDir(At(SubSeq(path, 1, i)))
            BY <3>0, <3>3, Parts, RootsAreDirs
        <3> QED BY <1>5, <3>1, <3>4, <3>5
    <2> QED BY <1>5, <2>1, NotFoundLinks
<1>6. CASE req.at = Len(path) /\ ~Private(path) /\ Go(there)
    <2>1. /\ there.phase = "found" /\ there.to = req.to /\ there.link = req.link
          /\ there.get = req.get /\ there.at = req.at
          /\ there.kind = IF path = <<>> THEN "dir" ELSE req.kind
        BY Parts DEF Request
    <2> HIDE DEF there
    <2>2. seen.steady => there.kind = KindOf(data, path)
        <3> SUFFICES ASSUME seen.steady, path # <<>> PROVE req.kind = Lstat(data, path)
            BY <2>1 DEF KindOf
        <3>1. Prefix(req, req.at) = path
            BY <1>6, Parts, WholePath DEF Prefix
        <3>2. Len(path) > 0
            <4>1. path \in Seq(Names)
                BY Parts, PathIs
            <4> QED BY <4>1
        <3> QED BY <1>3, <1>6, <3>1, <3>2
    <2>3. seen.steady /\ there.at > 0 => there.kind = Lstat(data, Prefix(there, there.at))
        <3>1. path = <<>> => Len(path) = 0
            OBVIOUS
        <3> QED BY <1>3, <1>6, <2>1, <3>1 DEF Prefix
    <2>4. Knows(there, seen, data)
        BY <1>3, <1>6, <2>1, <2>2, <2>3 DEF Knows, Walking, Arrived
    <2> QED BY <1>6, <2>1, <2>4, GoLinks
<1>7. CASE req.at # Len(path) /\ Go(on)
    <2>1. /\ on.phase = "walk" /\ on.to = req.to /\ on.link = req.link /\ on.get = req.get
          /\ on.at = i /\ on.kind = Lstat(data, SubSeq(path, 1, i))
        BY <1>1, Parts DEF Request, At
    <2> HIDE DEF on
    <2>2. Knows(on, seen, data)
        BY <1>3, <2>1 DEF Knows, Walking, Arrived, Prefix
    <2> QED BY <1>7, <2>1, <2>2, GoLinks
<1> QED BY <1>2, <1>4, <1>5, <1>6, <1>7

\* A handler passes a request on.
LEMMA ForwardLinks ==
    ASSUME IInv, LinkInv, Arrived(req), NEW n, Go(n),
           n.to = req.to, n.link = req.link, n.get = req.get, n.at = req.at, n.kind = req.kind,
           n.phase \in {"again", "list", "open"},
           n.phase = "list" => n.to.op = "browse" /\ n.to.slash,
           n.phase = "open" => ~IsDir(n.kind)
    PROVE  LinkInv'
<1>1. Walking(req)
    BY DEF Arrived, Walking
<1>2. Knows(n, seen, data)
    BY <1>1 DEF LinkInv, Knows, Walking, Arrived, Prefix
<1> QED BY <1>2, GoLinks

\* What a handler refuses of a live address.
LEMMA HandlersAnswer ==
    ASSUME IInv, LinkInv, Arrived(req), req.link # NoLink, Live(data, req.to)
    PROVE  /\ req.to.op = "browse" /\ req.to.via = "share" => IsDir(req.kind)
           /\ req.to.op # "browse" => Regular(req.kind)
           /\ req.to.op = "preview" => PreviewFor(Last(req.to.path), req.kind) # "none"
           /\ req.to.op = "download" /\ req.to.via = "share" => data.share.download
           /\ req.to.op \in {"html", "html-content"} => Looks("html")
<1>1. seen.steady
    BY FollowsALink
<1>2. req.kind = KindOf(data, req.to.path) /\ (req.to.op # "browse" => req.to.path # <<>>)
      /\ (req.to.via = "share" => req.to.path # <<>>) /\ req.to.op # "gate"
    BY <1>1, KindIs
<1> QED BY <1>2 DEF Live, Stands, Serves, KindOf, IsDir, Regular, Looks

\* Where Browse redirects is live.
LEMMA BrowseOffers ==
    ASSUME IInv, LinkInv, Arrived(req), seen.steady, req.to.op = "browse"
    PROVE  /\ ~IsDir(req.kind) /\ req.to.via # "share" /\ Looks("html")
                => Good(data, PageLink("app", "html", req.to.path, FALSE))
           /\ IsDir(req.kind)
                => Good(data, [to |-> [req.to EXCEPT !.slash = TRUE], wants |-> req.to.path,
                               from |-> "page"])
<1> DEFINE path == req.to.path
           kind == Lstat(data, path)
<1>1. /\ ~Private(path) /\ req.kind = KindOf(data, path) /\ req.to.via \in {"app", "share"}
      /\ req.to.via = "app" => Routes(req.to)
      /\ req.to.via = "share" => Admits(data, req.to) /\ path # <<>>
    BY KindIs
<1>2. ASSUME ~IsDir(req.kind), req.to.via # "share", Looks("html")
      PROVE  Good(data, PageLink("app", "html", path, FALSE))
    <2> DEFINE link == PageLink("app", "html", path, FALSE)
    <2>1. /\ link.to.via = "app" /\ link.to.op = "html" /\ link.to.path = path
          /\ ~link.to.slash /\ link.wants = path
        BY DEF PageLink, To
    <2>2. path # <<>> /\ ~IsDir(kind)
        BY <1>1, <1>2 DEF KindOf, IsDir
    <2> HIDE DEF link
    <2> SUFFICES ASSUME ~Dead(data, link) PROVE Live(data, link.to)
        BY DEF Good, link
    <2>3. There(data, path)
        BY <2>1 DEF Dead
    <2>4. Routes(link.to) /\ Serves(data, link.to)
        BY <1>2, <2>1, <2>2, <2>3 DEF Routes, Serves, There, IsDir, Looks
    <2> QED BY <1>1, <2>1, <2>3, <2>4 DEF Live, Stands
<1>3. ASSUME IsDir(req.kind)
      PROVE  Good(data, [to |-> [req.to EXCEPT !.slash = TRUE], wants |-> path, from |-> "page"])
    <2> DEFINE to == [req.to EXCEPT !.slash = TRUE]
               link == [to |-> to, wants |-> path, from |-> "page"]
    <2>1. to.via = req.to.via /\ to.op = "browse" /\ to.path = path
        BY Parts DEF Address
    <2>2. link.to = to /\ link.wants = path
        OBVIOUS
    <2> HIDE DEF to, link
    <2> SUFFICES ASSUME ~Dead(data, link) PROVE Live(data, to)
        BY <2>2 DEF Good, link, to
    <2>3. There(data, path)
        BY <2>2 DEF Dead
    <2>4. to.via = "share" => Admits(data, to) /\ kind = "dir"
        BY <1>1, <1>3, <2>1, <2>3 DEF Admits, There, KindOf, IsDir
    <2>5. to.via = "app" => Routes(to)
        BY <1>1, <2>1 DEF Routes
    <2> QED BY <1>1, <2>1, <2>3, <2>4, <2>5 DEF Live, Stands, Serves
<1> QED BY <1>2, <1>3

\* The links of the page around an HTML file.
LEMMA ShellOffers ==
    ASSUME IInv, LinkInv, Arrived(req), seen.steady, req.to.op = "html",
           Regular(req.kind), Looks("html")
    PROVE  Offers(data, ShellLinks(req.to.via, req.to.path))
<1> DEFINE path == req.to.path
           via == req.to.via
           kind == Lstat(data, path)
<1>1. /\ ~Private(path) /\ kind = req.kind /\ via \in {"app", "share"} /\ path # <<>>
      /\ via = "app" => Routes(req.to)
      /\ via = "share" => Admits(data, req.to)
    BY KindIs DEF KindOf
<1>2. ASSUME NEW op \in {"html-content", "preview", "download"}, op = "download" => via = "app"
      PROVE  Good(data, PageLink(via, op, path, FALSE))
    <2> DEFINE link == PageLink(via, op, path, FALSE)
    <2>1. /\ link.to.via = via /\ link.to.op = op /\ link.to.path = path
          /\ ~link.to.slash /\ link.wants = path
        BY DEF PageLink, To
    <2> HIDE DEF link
    <2> SUFFICES ASSUME ~Dead(data, link) PROVE Live(data, link.to)
        BY DEF Good, link
    <2>2. There(data, path) /\ kind \in {"file", "big"}
        BY <1>1, <2>1 DEF Dead, There, Regular
    <2>3. op = "preview" => PreviewFor(Last(path), kind) # "none"
        <3>1. op = "preview" => kind = "file"
            BY <2>1, <2>2 DEF Dead, Looks
        <3>2. PreviewFor(Last(path), "file") = "text"
            BY DEF PreviewFor, Looks
        <3> QED BY <3>1, <3>2
    <2>4. Serves(data, link.to)
        BY <1>2, <2>1, <2>2, <2>3 DEF Serves, Looks
    <2>5. via = "app" => Routes(link.to)
        BY <1>1, <1>2, <2>1 DEF Routes
    <2>6. via = "share" => Admits(data, link.to)
        BY <1>1, <1>2, <2>1 DEF Admits
    <2> QED BY <1>1, <2>1, <2>2, <2>4, <2>5, <2>6 DEF Live, Stands
<1>3. ASSUME NEW link, link.from = "back", link.wants = Front(path),
             link.to = (IF Len(path) = 1 THEN To("app", "browse", <<>>, TRUE)
                        ELSE To("app", "html", Front(Front(path)), TRUE))
      PROVE  Good(data, link)
    <2> SUFFICES ASSUME ~Dead(data, link) PROVE Live(data, link.to)
        BY DEF Good
    <2>1. Front(path) = <<>> /\ There(data, <<>>)
        BY <1>3 DEF Dead
    <2>2. Len(path) = 1
        <3>1. path \in Seq(Names) /\ Len(path) \in 0 .. 2
            BY Parts, PathIs
        <3>2. Len(Front(path)) = Len(path) - 1
            BY <1>1, <3>1 DEF Front
        <3>3. Len(<<>>) = 0
            OBVIOUS
        <3> QED BY <2>1, <3>1, <3>2, <3>3
    <2>3. link.to.via = "app" /\ link.to.op = "browse" /\ link.to.path = <<>>
        BY <1>3, <2>2 DEF To
    <2> QED BY <2>1, <2>3 DEF Live, Stands, Routes, Serves, Private
<1>4. ASSUME NEW link \in ShellLinks(via, path) PROVE Good(data, link)
    <2> DEFINE back == [to |-> IF Len(path) = 1 THEN To("app", "browse", <<>>, TRUE)
                               ELSE To("app", "html", Front(Front(path)), TRUE),
                        wants |-> Front(path), from |-> "back"]
    <2>1. \/ link = PageLink(via, "html-content", path, FALSE)
          \/ link = PageLink(via, "preview", path, FALSE)
          \/ via # "share" /\ link \in {PageLink(via, "download", path, FALSE), back}
        BY <1>1 DEF ShellLinks
    <2>2. /\ back.from = "back" /\ back.wants = Front(path)
          /\ back.to = (IF Len(path) = 1 THEN To("app", "browse", <<>>, TRUE)
                        ELSE To("app", "html", Front(Front(path)), TRUE))
        OBVIOUS
    <2> HIDE DEF back
    <2>3. CASE link = back
        BY <1>3, <2>2, <2>3
    <2>4. CASE link # back
        BY <1>1, <1>2, <2>1, <2>4
    <2> QED BY <2>3, <2>4
<1> QED BY <1>4 DEF Offers

LEMMA KeptIs ==
    ASSUME IInv
    PROVE  /\ Kept \in Request /\ Kept.to = req.to /\ Kept.link = req.link
           /\ Kept.get = req.get /\ Kept.at = req.at /\ Kept.kind = req.kind
           /\ \A phase \in {"list", "open"} :
                 LET n == [Kept EXCEPT !.phase = phase] IN
                 /\ n.to = req.to /\ n.link = req.link /\ n.get = req.get
                 /\ n.at = req.at /\ n.kind = req.kind /\ n.phase = phase
BY Parts DEF Kept, Request

LEMMA BrowseLinks ==
    ASSUME IInv, LinkInv, Browse
    PROVE  LinkInv'
<1> DEFINE to == req.to
           open == [req EXCEPT !.phase = "open"]
           again == [req EXCEPT !.phase = "again"]
           list == [Kept EXCEPT !.phase = "list"]
           html == To("app", "html", to.path, FALSE)
           slashed == [to EXCEPT !.slash = TRUE]
<1>1. Arrived(req) /\ to.op = "browse"
    BY DEF Browse, Found, Arrived
<1>2. \/ ~IsDir(req.kind) /\ to.via = "share" /\ NotFound
      \/ ~IsDir(req.kind) /\ to.via # "share" /\ Looks("html") /\ Redirect(req, html, "page")
      \/ ~IsDir(req.kind) /\ Go(open)
      \/ IsDir(req.kind) /\ Redirect(req, slashed, "page")
      \/ to.slash /\ (Go(again) \/ Go(list))
    BY DEF Browse
<1>3. CASE ~IsDir(req.kind) /\ to.via = "share" /\ NotFound
    BY <1>1, <1>3, HandlersAnswer, NotFoundLinks
<1>4. CASE /\ ~IsDir(req.kind) /\ to.via # "share" /\ Looks("html")
           /\ Redirect(req, html, "page")
    <2>1. PageLink("app", "html", to.path, FALSE) = [to |-> html, wants |-> html.path, from |-> "page"]
        BY DEF PageLink, To
    <2> HIDE DEF html
    <2> QED BY <1>1, <1>4, <2>1, BrowseOffers, RedirectLinks
<1>5. CASE ~IsDir(req.kind) /\ Go(open)
    <2>1. /\ open.to = req.to /\ open.link = req.link /\ open.get = req.get
          /\ open.at = req.at /\ open.kind = req.kind /\ open.phase = "open"
        BY Parts DEF Request
    <2> HIDE DEF open
    <2> QED BY <1>1, <1>5, <2>1, ForwardLinks
<1>6. CASE IsDir(req.kind) /\ Redirect(req, slashed, "page")
    <2>1. slashed.path = to.path
        BY Parts DEF Address
    <2>2. seen.steady => Good(data, [to |-> slashed, wants |-> to.path, from |-> "page"])
        BY <1>1, <1>6, BrowseOffers
    <2> HIDE DEF slashed
    <2> QED BY <1>6, <2>1, <2>2, RedirectLinks
<1>7. CASE to.slash /\ Go(again)
    <2>1. /\ again.to = req.to /\ again.link = req.link /\ again.get = req.get
          /\ again.at = req.at /\ again.kind = req.kind /\ again.phase = "again"
        BY Parts DEF Request
    <2> HIDE DEF again
    <2> QED BY <1>1, <1>7, <2>1, ForwardLinks
<1>8. CASE to.slash /\ Go(list)
    <2>1. /\ list.to = req.to /\ list.link = req.link /\ list.get = req.get
          /\ list.at = req.at /\ list.kind = req.kind /\ list.phase = "list"
        BY KeptIs
    <2> HIDE DEF list
    <2> QED BY <1>1, <1>8, <2>1, ForwardLinks
<1> QED BY <1>2, <1>3, <1>4, <1>5, <1>6, <1>7, <1>8

LEMMA ResourcesLinks ==
    ASSUME IInv, LinkInv, Preview \/ Download \/ Shell \/ Content
    PROVE  LinkInv'
<1> DEFINE to == req.to
           open == [Kept EXCEPT !.phase = "open"]
<1>1. Arrived(req) /\ to.op \in {"preview", "download", "html", "html-content"}
    BY DEF Preview, Download, Shell, Content, Found, Arrived
<1>2. \/ /\ NotFound
         /\ \/ ~Regular(req.kind)
            \/ to.op = "preview" /\ PreviewFor(Last(to.path), req.kind) = "none"
            \/ to.op = "download" /\ to.via = "share" /\ ~data.share.download
            \/ to.op \in {"html", "html-content"} /\ ~Looks("html")
      \/ Answer(Kept, "413", "", {})
      \/ Regular(req.kind) /\ Go(open)
      \/ /\ to.op = "html" /\ Regular(req.kind) /\ Looks("html")
         /\ Answer(Kept, "200", "", ShellLinks(to.via, to.path))
    <2>1. CASE Preview
        BY <2>1 DEF Preview, Found
    <2>2. CASE Download
        BY <2>2 DEF Download, Found
    <2>3. CASE Shell
        BY <2>3 DEF Shell, Found
    <2>4. CASE Content
        BY <2>4 DEF Content, Found
    <2> QED BY <2>1, <2>2, <2>3, <2>4
<1>3. CASE /\ NotFound
           /\ \/ ~Regular(req.kind)
              \/ to.op = "preview" /\ PreviewFor(Last(to.path), req.kind) = "none"
              \/ to.op = "download" /\ to.via = "share" /\ ~data.share.download
              \/ to.op \in {"html", "html-content"} /\ ~Looks("html")
    <2>1. ASSUME req.link # NoLink, Live(data, req.to) PROVE FALSE
        BY <1>1, <1>3, <2>1, HandlersAnswer
    <2> QED BY <1>3, <2>1, NotFoundLinks
<1>4. CASE Answer(Kept, "413", "", {})
    BY <1>4, KeptIs, PlainLinks
<1>5. CASE Regular(req.kind) /\ Go(open)
    <2>1. /\ open.to = req.to /\ open.link = req.link /\ open.get = req.get
          /\ open.at = req.at /\ open.kind = req.kind /\ open.phase = "open"
        BY KeptIs
    <2>2. ~IsDir(req.kind)
        BY <1>5 DEF Regular, IsDir
    <2> HIDE DEF open
    <2> QED BY <1>1, <1>5, <2>1, <2>2, ForwardLinks
<1>6. CASE /\ to.op = "html" /\ Regular(req.kind) /\ Looks("html")
           /\ Answer(Kept, "200", "", ShellLinks(to.via, to.path))
    <2>1. seen.steady => Offers(data, ShellLinks(to.via, to.path))
        BY <1>1, <1>6, ShellOffers
    <2> QED BY <1>6, <2>1, KeptIs, AnswerLinks
<1> QED BY <1>2, <1>3, <1>4, <1>5, <1>6

\* The links of an entry.
LEMMA EntryOffers ==
    ASSUME IInv, LinkInv, Arrived(req), seen.steady, req.to.op = "browse",
           NEW n \in Names, n.mark # ".", NEW path, path = Append(req.to.path, n),
           NEW kind, kind = At(path), Regular(kind) \/ IsDir(kind)
    PROVE  Offers(data, EntryLinks(req.to.via, path, kind))
<1> DEFINE via == req.to.via
           dir == req.to.path
           target == data.share.target
<1>1. /\ ~Private(dir) /\ via \in {"app", "share"} /\ dir \in Seq(Names)
      /\ via = "share" => Admits(data, req.to) /\ target \in Seq(Names)
    BY KindIs, Parts, PathIs, SharedIs
<1>2. ~Private(path) /\ path # <<>> /\ kind = Lstat(data, path)
    BY <1>1 DEF Private, At
<1>3. via = "share" => /\ SharedIn(data) /\ data.share.scope # "file"
                       /\ IsPrefix(target, path)
    <2> SUFFICES ASSUME via = "share" PROVE IsPrefix(target, path)
        BY <1>1 DEF Admits
    <2>1. IsPrefix(target, dir)
        BY <1>1 DEF Admits
    <2> HIDE DEF target, dir
    <2> QED BY <1>1, <2>1 DEF IsPrefix, dir
<1>4. ASSUME NEW op \in {"browse", "preview", "html", "download"}, NEW slash \in BOOLEAN,
             op # "browse" => Regular(kind) /\ ~slash,
             op = "browse" => IsDir(kind) \/ via = "app",
             op = "preview" => PreviewFor(Last(path), kind) # "none",
             op = "download" => via = "app" \/ data.share.download,
             op = "html" => Last(path).look = "html"
      PROVE  Good(data, PageLink(via, op, path, slash))
    <2> DEFINE link == PageLink(via, op, path, slash)
    <2>1. /\ link.to.via = via /\ link.to.op = op /\ link.to.path = path
          /\ link.to.slash = slash /\ link.wants = path
        BY DEF PageLink, To
    <2> HIDE DEF link
    <2> SUFFICES ASSUME ~Dead(data, link) PROVE Live(data, link.to)
        BY DEF Good, link
    <2>2. There(data, path) /\ (IsDir(kind) => kind = "dir")
          /\ (Regular(kind) => kind \in {"file", "big"})
        BY <1>2, <2>1 DEF Dead, There, IsDir, Regular
    <2>3. via = "app" => Routes(link.to)
        BY <1>2, <1>4, <2>1 DEF Dead, Routes
    <2>4. via = "share" => Admits(data, link.to)
        BY <1>2, <1>3, <1>4, <2>1 DEF Admits
    <2>5. Serves(data, link.to)
        BY <1>2, <1>4, <2>1, <2>2 DEF Serves
    <2> QED BY <1>1, <1>2, <2>1, <2>2, <2>3, <2>4, <2>5 DEF Live, Stands
<1>5. ASSUME NEW link \in EntryLinks(via, path, kind) PROVE Good(data, link)
    <2>1. CASE IsDir(kind)
        <3>1. link = PageLink(via, "browse", path, TRUE)
            BY <1>5, <2>1 DEF EntryLinks
        <3> QED BY <1>4, <2>1, <3>1
    <2>2. CASE ~IsDir(kind)
        <3>1. \/ via = "app" /\ link = PageLink(via, "browse", path, FALSE)
              \/ PreviewFor(Last(path), kind) # "none" /\ link = PageLink(via, "preview", path, FALSE)
              \/ Last(path).look = "html" /\ link = PageLink(via, "html", path, FALSE)
              \/ (via = "app" \/ data.share.download) /\ link = PageLink(via, "download", path, FALSE)
            BY <1>5, <2>2 DEF EntryLinks
        <3> QED BY <1>4, <2>2, <3>1
    <2> QED BY <2>1, <2>2
<1> QED BY <1>5 DEF Offers

LEMMA CrumbsOffered ==
    ASSUME NEW dir \in Paths, ~Private(dir)
    PROVE  Offers(data, Crumbs(dir))
<1> SUFFICES ASSUME NEW i \in {0} \cup 1 .. Len(dir) - 1
             PROVE  Good(data, PageLink("app", "browse", SubSeq(dir, 1, i), TRUE))
    BY DEF Offers, Crumbs
<1>1. i \in 0 .. Len(dir)
    BY PathIs
<1>2. SubSeq(dir, 1, i) \in Paths /\ ~Private(SubSeq(dir, 1, i))
    BY <1>1, PrefixIs, PrefixIsPublic
<1> DEFINE link == PageLink("app", "browse", SubSeq(dir, 1, i), TRUE)
<1>3. link.to = To("app", "browse", SubSeq(dir, 1, i), TRUE) /\ link.wants = SubSeq(dir, 1, i)
    BY DEF PageLink
<1> HIDE DEF link
<1> QED BY <1>2, <1>3, BrowseIsGood DEF link

LEMMA StatusOffered ==
    ASSUME NEW dir
    PROVE  Offers(data, StatusLinks(dir))
<1> SUFFICES ASSUME NEW link \in StatusLinks(dir), ~Dead(data, link)
             PROVE  Live(data, link.to)
    BY DEF Offers, Good
<1>1. /\ link = [to |-> To("share", "gate", <<>>, TRUE), wants |-> data.share.target,
                 from |-> "status"]
      /\ Regular(At(data.share.target))
    BY DEF StatusLinks
<1>2. link.to.via = "share" /\ link.to.op = "gate"
    BY <1>1 DEF To
<1>3. data.share.scope # "directory" /\ There(data, data.share.target)
    BY <1>1 DEF Dead
<1>4. SharedIn(data)
    BY <1>1, <1>3 DEF SharedIn, There, At
<1> QED BY <1>2, <1>4 DEF Live

LEMMA ListLinks ==
    ASSUME IInv, LinkInv, List
    PROVE  LinkInv'
<1> DEFINE path == req.to.path
           via == req.to.via
           final == IF via = "app" /\ req.open THEN [req EXCEPT !.store = "no-cache"] ELSE req
           links == ListingLinks(via, path)
<1>1. req.phase = "list" /\ Arrived(req)
    BY DEF List, Arrived
<1>2. \/ Answer(final, "200", "outside", {})
      \/ ErrorPage
      \/ ~Outside(path) /\ At(path) # "dir" /\ via # "app" /\ NotFound
      \/ Answer(final, "200", "listing", links)
    BY DEF List
<1>3. final \in Request /\ final.to = req.to /\ final.link = req.link /\ final.get = req.get
    <2>1. CASE via = "app" /\ req.open
        BY <2>1, Parts DEF Request
    <2>2. CASE ~(via = "app" /\ req.open)
        BY <2>2, Parts
    <2> QED BY <2>1, <2>2
<1>4. seen.steady => req.to.op = "browse"
    BY <1>1 DEF LinkInv, Knows
<1>5. ASSUME seen.steady PROVE Offers(data, links)
    <2>1. ASSUME NEW n \in Shown(path)
          PROVE  Offers(data, EntryLinks(via, Append(path, n), At(Append(path, n))))
        <3>1. /\ n \in Names /\ n.mark # "."
              /\ Regular(At(Append(path, n))) \/ IsDir(At(Append(path, n)))
            BY DEF Shown
        <3> QED BY <1>1, <1>4, <1>5, <3>1, EntryOffers
    <2>2. Offers(data, Crumbs(path)) /\ Offers(data, StatusLinks(path))
        BY <1>1, <1>5, KindIs, Parts, CrumbsOffered, StatusOffered
    <2> QED BY <2>1, <2>2 DEF ListingLinks, Offers
<1>6. ASSUME req.link # NoLink, Live(data, req.to), At(path) # "dir", via # "app"
      PROVE  FALSE
    BY <1>4, <1>6, FollowsALink DEF Live, Stands, Serves, At
<1> HIDE DEF final, links
<1>7. CASE Answer(final, "200", "outside", {})
    BY <1>3, <1>7, PlainLinks
<1>8. CASE Answer(final, "200", "listing", links)
    BY <1>3, <1>5, <1>8, AnswerLinks
<1>9. CASE ~Outside(path) /\ At(path) # "dir" /\ via # "app" /\ NotFound
    BY <1>6, <1>9, NotFoundLinks
<1> QED BY <1>1, <1>2, <1>4, <1>7, <1>8, <1>9, ErrorPageLinks

\* The links of a document that lead where they are meant to.
LEMMA DocumentOffers ==
    ASSUME NEW path \in Paths, ~Private(path), NEW segments
    PROVE  Offers(data, DocumentLinks(segments, path))
<1> SUFFICES ASSUME NEW link \in DocumentLinks(segments, path), ~Dead(data, link)
             PROVE  Live(data, link.to)
    BY DEF Offers, Good
<1> DEFINE base == Front(segments)
           dir == Front(path)
<1>1. PICK raw \in Raws :
        /\ Followed(base, raw) \in Paths \ {<<>>} /\ Meant(dir, raw) \in Paths
        /\ link = [to |-> To("app", "browse", Followed(base, raw), FALSE),
                   wants |-> Meant(dir, raw),
                   from |-> IF segments = path THEN "document" ELSE "shared document"]
    BY DEF DocumentLinks
<1>2. segments = path
    BY <1>1 DEF Dead
<1>3. dir \in Paths /\ ~Private(dir)
    BY FrontIs, FrontIsPublic
<1>4. Followed(dir, raw) = Meant(dir, raw) /\ ~Private(Meant(dir, raw))
    BY <1>1, <1>2, <1>3, FollowedIsMeant
<1>5. /\ link.to.via = "app" /\ link.to.op = "browse" /\ link.to.path = link.wants
      /\ ~Private(link.wants)
    BY <1>1, <1>2, <1>4 DEF To
<1>6. There(data, link.wants) /\ Routes(link.to)
    BY <1>5 DEF Dead, Routes
<1> QED BY <1>5, <1>6 DEF Live, Stands, Serves

LEMMA OpenLinks ==
    ASSUME IInv, LinkInv, Open
    PROVE  LinkInv'
<1> DEFINE to == req.to
           links == DocumentLinks(Segments(to), to.path)
<1>1. req.phase = "open" /\ Arrived(req) /\ to.path \in Paths /\ to.via \in {"app", "share"}
    BY Parts DEF Open, Arrived, Going, Walking
<1>2. \/ Answer(req, "200", "outside", {})
      \/ ErrorPage /\ to.op \in {"browse", "preview"}
      \/ Answer(req, "413", "", {}) \/ Answer(req, "200", "file", {})
      \/ /\ NotFound
         /\ At(to.path) \notin {"file", "big"}
      \/ Answer(req, "200", "file", links)
    BY DEF Open, Regular
<1>3. ASSUME req.link # NoLink, Live(data, to) PROVE At(to.path) \in {"file", "big"}
    <2>1. seen.steady
        BY <1>3, FollowsALink
    <2>2. ~IsDir(req.kind) /\ req.kind = KindOf(data, to.path) /\ to.op # "gate"
        BY <1>1, <2>1, KindIs DEF LinkInv, Knows
    <2> QED BY <1>3, <2>2 DEF Live, Stands, There, KindOf, IsDir, At
<1>4. ASSUME seen.steady PROVE Offers(data, links)
    BY <1>1, <1>4, KindIs, DocumentOffers
<1> HIDE DEF links
<1>5. CASE \/ Answer(req, "200", "outside", {}) \/ Answer(req, "413", "", {})
           \/ Answer(req, "200", "file", {})
    BY <1>5, Parts, PlainLinks
<1>6. CASE NotFound /\ At(to.path) \notin {"file", "big"}
    BY <1>3, <1>6, NotFoundLinks
<1>7. CASE Answer(req, "200", "file", links)
    BY <1>4, <1>7, Parts, AnswerLinks
<1> QED BY <1>1, <1>2, <1>5, <1>6, <1>7, ErrorPageLinks

LEMMA LinkInvInit ==
    Init => LinkInv
<1> SUFFICES ASSUME Init PROVE LinkInv
    OBVIOUS
<1>1. req.link = NoLink /\ req.phase = "idle" /\ page = {}
    BY DEF Init, Idle
<1> QED BY <1>1, NoOffers DEF LinkInv, Following, Knows, Walking, Arrived

LEMMA LinkInvNext ==
    IInv /\ LinkInv /\ [Next]_vars => LinkInv'
<1> SUFFICES ASSUME IInv, LinkInv, [Next]_vars PROVE LinkInv'
    OBVIOUS
<1>1. CASE Begin \/ Follow
    BY <1>1, BeginLinks, FollowLinks
<1>2. CASE RouteLegacy \/ RouteApp \/ RouteShare
    BY <1>2, RouteLegacyLinks, RouteAppLinks, RouteShareLinks
<1>3. CASE Look \/ LookAtShare \/ LookAgain
    BY <1>3, LookLinks, LookAtShareLinks, LookAgainLinks
<1>4. CASE Walk
    BY <1>4, WalkLinks
<1>5. CASE Browse \/ Preview \/ Download \/ Shell \/ Content
    BY <1>5, BrowseLinks, ResourcesLinks
<1>6. CASE List \/ Open
    BY <1>6, ListLinks, OpenLinks
<1>7. ASSUME NEW at \in Places \ {<<>>}, NEW kind \in Placed, Place(at, kind) PROVE LinkInv'
    <2>1. Change([data EXCEPT !.node[at] = kind], {at})
        BY <1>7 DEF Place
    <2> QED BY <2>1, ChangeLinks
<1>8. ASSUME NEW policy \in Policies, Protect(policy) PROVE LinkInv'
    <2>1. Change([data EXCEPT !.policy = policy], {})
        BY <1>8 DEF Protect
    <2> QED BY <2>1, ChangeLinks
<1>9. CASE UNCHANGED vars
    <2>1. LinkInv' = LinkInv
        BY <1>9 DEF vars, LinkInv
    <2> QED BY <2>1
<1> QED BY <1>1, <1>2, <1>3, <1>4, <1>5, <1>6, <1>7, <1>8, <1>9 DEF Next

-----------------------------------------------------------------------------
(* The theorems.                                                            *)

LEMMA IInvInit ==
    Init => IInv
<1> SUFFICES ASSUME Init PROVE IInv
    OBVIOUS
<1>1. data \in Data /\ req = Idle /\ page = {} /\ edits = 0
      /\ seen = [had |-> {}, changed |-> {}, steady |-> TRUE]
    BY ServingAssumption DEF Init
<1>2. TypeOK
    <2>1. data \in Data /\ req \in Request
        BY <1>1, IdleIs
    <2>2. seen \in Seen
        BY <1>1 DEF Seen
    <2>3. page \subseteq Link /\ edits \in 0 .. MaxEdits
        BY <1>1, OneEdit
    <2> QED BY <2>1, <2>2, <2>3 DEF TypeOK
<1>3. Going(req, seen, data)
    BY <1>1, IdleIs DEF Going, Under, Walking, Arrived
<1> QED BY <1>2, <1>3 DEF IInv

LEMMA IInvNext ==
    IInv /\ [Next]_vars => IInv'
<1> SUFFICES ASSUME IInv, [Next]_vars PROVE IInv'
    OBVIOUS
<1>1. CASE Begin \/ Follow
    BY <1>1, BeginKeeps
<1>2. CASE RouteLegacy \/ RouteApp \/ RouteShare
    BY <1>2, RouteLegacyKeeps, RouteAppKeeps, RouteShareKeeps
<1>3. CASE Look \/ LookAtShare \/ LookAgain
    BY <1>3, LookKeeps, LookAtShareKeeps, LookAgainKeeps
<1>4. CASE Walk
    BY <1>4, WalkKeeps
<1>5. CASE Browse \/ Preview \/ Download \/ Shell \/ Content
    BY <1>5, HandlersKeep
<1>6. CASE List \/ Open
    BY <1>6, ListKeeps, OpenKeeps
<1>7. ASSUME NEW at \in Places \ {<<>>}, NEW kind \in Placed, Place(at, kind) PROVE IInv'
    BY <1>7, PlaceKeeps
<1>8. ASSUME NEW policy \in Policies, Protect(policy) PROVE IInv'
    BY <1>8, ProtectKeeps
<1>9. CASE UNCHANGED vars
    <2>1. IInv' = IInv
        BY <1>9 DEF vars, IInv, TypeOK
    <2> QED BY <2>1
<1> QED BY <1>1, <1>2, <1>3, <1>4, <1>5, <1>6, <1>7, <1>8, <1>9 DEF Next

\* The invariant holds of every behaviour, whatever the administrator puts where
\* and however often.
THEOREM Inductive == Spec => []IInv
BY IInvInit, IInvNext, PTL DEF Spec

\* Every variable keeps its type.
THEOREM TypeCorrect == Spec => []TypeOK
<1>1. IInv => TypeOK
    BY DEF IInv
<1> QED BY <1>1, Inductive, PTL

\* What authorizePolicy and the second look of a listing come to: of a protected
\* directory pages, contents, refusals and the error page go to sessions of one of
\* its policies only, and all of them but the error page are kept out of caches.
THEOREM ProtectedIsGuarded == Spec => []Guarded
<1>1. IInv => Guarded
    <2> SUFFICES ASSUME IInv, req.phase = "done" PROVE Guarded
        BY DEF Guarded
    <2>1. Proper(req, seen)
        BY Parts DEF Going
    <2> QED BY <2>1 DEF Guarded, Proper, Allowed, SessionSeen
<1> QED BY <1>1, Inductive, PTL

\* What the walk of resolveSafePath comes to although the file is opened by its
\* name afterwards: only a replacement on the path itself leads out.
THEOREM NothingElseLeadsOut == Spec => []OutsideOnlyBySwap
<1>1. IInv => OutsideOnlyBySwap
    <2> SUFFICES ASSUME IInv, req.phase = "done" PROVE OutsideOnlyBySwap
        BY DEF OutsideOnlyBySwap
    <2>1. Proper(req, seen)
        BY Parts DEF Going
    <2> QED BY <2>1 DEF OutsideOnlyBySwap, Proper, Swapped, Prefix
<1> QED BY <1>1, Inductive, PTL

\* What a page promises when it is made still holds when a link of it is
\* followed, as long as nothing changes.
THEOREM LinksInductive == Spec => []LinkInv
<1>1. Spec => []IInv
    BY Inductive
<1> QED BY <1>1, LinkInvInit, LinkInvNext, PTL DEF Spec

\* Every link and redirection of a page leads to something, but for those that
\* are known to be dead: for any names, documents, shares and policies.
THEOREM LinksAreAnswered == Spec => []LinksAnswer
<1>1. LinkInv => LinksAnswer
    <2> SUFFICES ASSUME LinkInv, req.phase = "done", req.status = "404", req.link # NoLink
                 PROVE  \/ req.link.from = "typed" \/ KnownDead(req.link)
                        \/ Outside(req.link.wants)
                        \/ At(req.link.wants) \notin {"file", "big", "dir"}
        BY DEF LinksAnswer
    <2>1. Dead(data, req.link)
        BY FollowsALink DEF Good
    <2> QED BY <2>1, DeadIs
<1> QED BY <1>1, LinksInductive, PTL

=============================================================================
