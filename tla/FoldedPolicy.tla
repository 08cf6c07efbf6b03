---------------------------- MODULE FoldedPolicy ----------------------------
(***************************************************************************)
(* The policy of a directory: what `resolveDirectoryPolicy` folds out of the *)
(* `.env` files on the way from the data root (position 0) over the          *)
(* application (position 1) to the directory itself, and the version that    *)
(* binds a session to it.  An entry is what one file says about security;   *)
(* titles, descriptions and share lines play no part here.  A password       *)
(* stands for its stored hash, and SHA-256 of the chain for the chain.       *)
(***************************************************************************)
EXTENDS Integers, FiniteSets, FiniteSetsExt

CONSTANTS
    Depth,      \* directories below the application on the way
    Passwords,  \* stored passwords
    None        \* no password

ASSUME FoldedPolicyAssumption ==
    /\ Depth \in Nat
    /\ None \notin Passwords

Positions == 0 .. Depth + 1

\* The position of the directory `names` names below the application.
Last(names) == names + 1

\* A file that is not there sets nothing; one that cannot be read or parsed, or
\* says something unknown, is not usable.
Entry == [usable : BOOLEAN, password : Passwords \cup {None},
          scripts : {"unset", "allow", "deny"}]

Chain == [Positions -> Entry]

\* What the chain hash is fed with: each setting with its position.
Setting == (Positions \X {"password"} \X Passwords)
             \cup (Positions \X {"scripts"} \X {"allow", "deny"})

SettingsOf(i, e) ==
    {s \in {<<i, "password", e.password>>} : e.password # None}
      \cup {s \in {<<i, "scripts", e.scripts>>} : e.scripts # "unset"}

\* `boundary` is the position whose password protects; an unprotected policy
\* has the empty string, which is also the boundary of the application.
Policy == [locked : BOOLEAN, password : Passwords \cup {None},
           boundary : Positions, scripts : BOOLEAN, chain : SUBSET Setting]

Unprotected == [locked |-> FALSE, password |-> None, boundary |-> 1,
                scripts |-> TRUE, chain |-> {}]

\* Nothing of a locked policy is looked at but that it is locked.
Locked == [locked |-> TRUE, password |-> None, boundary |-> 1,
           scripts |-> TRUE, chain |-> {}]

Protected(p) == p.locked \/ p.password # None

\* Mutants of Merge: an inherited password is lost, ...
MergeLosing(p, i, e) ==
    [locked |-> FALSE, password |-> e.password, boundary |-> i,
     scripts |-> IF e.scripts # "unset" THEN e.scripts = "allow" ELSE p.scripts,
     chain |-> p.chain \cup SettingsOf(i, e)]

\* ... the farthest password wins, ...
MergeFarthest(p, i, e) ==
    [locked |-> FALSE,
     password |-> IF p.password # None THEN p.password ELSE e.password,
     boundary |-> IF p.password # None THEN p.boundary
                  ELSE IF e.password # None THEN i ELSE p.boundary,
     scripts |-> IF e.scripts # "unset" THEN e.scripts = "allow" ELSE p.scripts,
     chain |-> p.chain \cup SettingsOf(i, e)]

\* ... or the directory itself, not the one with the password, is the boundary.
MergeHere(p, i, e) ==
    [locked |-> FALSE,
     password |-> IF e.password # None THEN e.password ELSE p.password,
     boundary |-> i,
     scripts |-> IF e.scripts # "unset" THEN e.scripts = "allow" ELSE p.scripts,
     chain |-> p.chain \cup SettingsOf(i, e)]

\* One turn of the loop: the nearer setting replaces the farther one.
Merge(p, i, e) ==
    [locked   |-> FALSE,
     password |-> IF e.password # None THEN e.password ELSE p.password,
     boundary |-> IF e.password # None THEN i ELSE p.boundary,
     scripts  |-> IF e.scripts # "unset" THEN e.scripts = "allow" ELSE p.scripts,
     chain    |-> p.chain \cup SettingsOf(i, e)]

\* Mutant: the start-up password is forgotten.
StartupForgotten(p, startup) == p

\* The password given at start-up is a root boundary of last resort.
WithStartup(p, startup) ==
    IF ~Protected(p) /\ startup # None
    THEN [p EXCEPT !.password = startup, !.boundary = 0]
    ELSE p

\* Mutants: the version covers the last boundary only, or only passwords.
VersionOfBoundary(p) == <<{}, p.boundary, p.password>>

VersionOfPasswords(p) ==
    <<{s \in p.chain : s[2] = "password"}, p.boundary, p.password>>

Version(p) == <<p.chain, p.boundary, p.password>>

-----------------------------------------------------------------------------
(* The same policy, said of a whole chain at once.                          *)

Settings(c, last) == UNION {SettingsOf(i, c[i]) : i \in 0 .. last}

\* The nearest position that sets `what`, or -1.
Nearest(c, last, what) ==
    Max({-1} \cup {s[1] : s \in {t \in Settings(c, last) : t[2] = what}})

PolicyOf(c, last, startup) ==
    LET at == Nearest(c, last, "password")
        hs == Nearest(c, last, "scripts")
    IN  IF \E i \in 0 .. last : ~c[i].usable
        THEN Locked
        ELSE [locked   |-> FALSE,
              password |-> IF at >= 0 THEN c[at].password ELSE startup,
              boundary |-> IF at >= 0 THEN at
                           ELSE IF startup # None THEN 0 ELSE 1,
              scripts  |-> hs >= 0 => c[hs].scripts = "allow",
              chain    |-> Settings(c, last)]

=============================================================================
