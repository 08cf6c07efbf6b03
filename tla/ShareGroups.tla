---------------------------- MODULE ShareGroups ----------------------------
(***************************************************************************)
(* The SHARE_* lines of `.env` files and their three readers: the lookup of *)
(* a link (`sharesFromEnv`, `findShare`), the management list               *)
(* (`listManagedShares`) and the capabilities a directory page publishes    *)
(* (`loadShareStatuses`).  Each has checks of its own for the same lines.   *)
(***************************************************************************)
EXTENDS FoldedPolicy

CONSTANTS
    Ids,        \* <ID> of SHARE_<ID>_*
    Tokens,     \* share tokens
    Secrets,    \* share passwords
    NoGroup,    \* an id without lines
    MaxTime,    \* bound: what the clock shows
    MaxAhead,   \* how far ahead a share may expire (30 days)
    MaxEdits    \* bound: changes of the data

ASSUME ShareGroupsAssumption ==
    /\ {MaxTime, MaxAhead, MaxEdits} \subseteq Nat
    /\ None \notin Ids
    /\ Tokens # {}

\* The application root and the directories below it may hold shares.
Owners == 1 .. Depth + 1

Times == 0 .. MaxTime + MaxAhead + 1

\* One group of lines.  "incomplete": a field is missing or there twice;
\* "bad": a field no reader accepts; "loose": a token that decodes, but is not
\* what encoding gives.  The target is a file of the directory, its
\* subdirectory on the way, or "." for the directory itself.
Group == [enabled : {"true", "false"}, form : {"good", "loose", "bad", "incomplete"},
          scope : {"file", "tree", "here"}, token : Tokens, password : Secrets,
          expires : Times]

Lines == [switch : {"unset", "true", "false"}, groups : [Ids -> Group \cup {NoGroup}]]

\* The data: what the `.env` files say about security and about shares, the
\* stamps (size and time) of the file (0: none) and of each directory, and the
\* directories whose names can be listed.
Disk == [env : Chain, lines : [Owners -> Lines], file : [Owners -> 0 .. MaxEdits + 1],
         stamp : [Owners -> 0 .. MaxEdits], listable : SUBSET Owners]

PolicyAt(d, i) == PolicyOf(d.env, i, None)

GroupsAt(d, i) == {id \in Ids : d.lines[i].groups[id] # NoGroup}

GroupAt(d, i, id) == d.lines[i].groups[id]

-----------------------------------------------------------------------------
(* Targets.                                                                 *)

TargetDir(i, g) == IF g.scope = "tree" THEN i + 1 ELSE i

\* resolveShareTarget, and that what is there is of the kind the scope says.
TargetThere(d, i, g) ==
    /\ g.scope = "file" => d.file[i] # 0
    /\ TargetDir(i, g) \in Owners

\* filepath.WalkDir from i: a directory that cannot be listed is visited, but
\* none below it.
Walked(d, i) == {j \in i .. Depth + 1 : i .. j - 1 \subseteq d.listable}

\* directoryShareSafe: no directory of the tree has another boundary than p.
TreeSafe(d, i, p) ==
    \A j \in Walked(d, i) :
        LET q == PolicyAt(d, j) IN ~q.locked /\ Protected(q) /\ q.boundary = p.boundary

WithinBoundary(d, i, g, p) ==
    g.scope # "file" => TreeSafe(d, TargetDir(i, g), p)

\* Mutant: what the target holds does not matter.
ShareVersionOfPath(d, i, g, p) ==
    <<TargetDir(i, g), IF g.scope = "file" THEN "file" ELSE "directory", Version(p)>>

\* What a share session is bound to: the path, size and time of the target and
\* the version of the owner's policy.
ShareVersion(d, i, g, p) ==
    <<TargetDir(i, g), IF g.scope = "file" THEN "file" ELSE "directory",
      IF g.scope = "file" THEN d.file[i] ELSE d.stamp[TargetDir(i, g)], Version(p)>>

TooFar(g, t) == g.expires > t + MaxAhead

-----------------------------------------------------------------------------
(* sharesFromEnv and findShare.                                             *)

\* Mutant: a share may last for ever.
SpoilsAnyTime(d, t, i, g, p) ==
    \/ g.form = "incomplete"
    \/ /\ g.enabled = "true"
       /\ g.form = "bad" \/ ~TargetThere(d, i, g) \/ ~WithinBoundary(d, i, g, p)

\* A group that makes the lookup give up on the whole directory.
Spoils(d, t, i, g, p) ==
    \/ g.form = "incomplete"
    \/ /\ g.enabled = "true"
       /\ \/ g.form = "bad"
          \/ TooFar(g, t)
          \/ ~TargetThere(d, i, g)
          \/ ~WithinBoundary(d, i, g, p)

Spoiled(d, t, i, p) == \E id \in GroupsAt(d, i) : Spoils(d, t, i, GroupAt(d, i, id), p)

\* The shares of a directory that a lookup compares with the token.
Offers(d, t, i, p, token) ==
    {id \in GroupsAt(d, i) :
        /\ ~Spoiled(d, t, i, p)
        /\ GroupAt(d, i, id).enabled = "true"
        /\ GroupAt(d, i, id).token = token}

\* The walk goes below i.
Passes(d, t, i) == ~PolicyAt(d, i).locked /\ ~Spoiled(d, t, i, PolicyAt(d, i))

\* What findShare may return while nothing changes.
Finds(d, t, token) ==
    LET here(i) == IF Passes(d, t, i) THEN Offers(d, t, i, PolicyAt(d, i), token) ELSE {} IN
    {f \in Walked(d, 1) \X Ids :
        /\ f[2] \in here(f[1])
        /\ \A j \in 1 .. f[1] - 1 : Passes(d, t, j) /\ here(j) = {}}

-----------------------------------------------------------------------------
(* listManagedShares.                                                       *)

ListState(d, t, i, g, p) ==
    IF g.enabled = "false" THEN "disabled"
    ELSE IF \/ g.form # "good" \/ TooFar(g, t)
            \/ ~TargetThere(d, i, g) \/ ~WithinBoundary(d, i, g, p)
    THEN "invalid"
    ELSE IF g.expires > t THEN "available" ELSE "expired"

\* The shares the list of directory i gives with their links.
Listed(d, t, i) ==
    {id \in GroupsAt(d, i) :
        /\ ~PolicyAt(d, i).locked
        /\ d.lines[i].switch = "true"
        /\ ListState(d, t, i, GroupAt(d, i, id), PolicyAt(d, i)) = "available"}

-----------------------------------------------------------------------------
(* loadShareStatuses.                                                       *)

\* A group that ends the reading.
Unpublishable(g, t) == g.form # "good" \/ g.enabled # "true" \/ TooFar(g, t)

\* What the map may hold when the reading ends: the groups are taken in map
\* order, each takes the place of one with the same path, and the first that is
\* not accepted returns what there is so far.
Published(d, t, i) ==
    LET good == {id \in GroupsAt(d, i) : ~Unpublishable(GroupAt(d, i, id), t)}
        kept(S) == {K \in SUBSET S :
                       \A id \in S : \E k \in K : \A l \in K :
                           (GroupAt(d, i, l).scope = GroupAt(d, i, id).scope) <=> (l = k)}
    IN  IF d.lines[i].switch # "true" THEN {{}}
        ELSE IF good = GroupsAt(d, i) THEN kept(good)
        ELSE UNION {kept(S) : S \in SUBSET good}

\* The links a page of directory i may show, of one reading.
Links(d, t, i, K) == {id \in K : GroupAt(d, i, id).expires > t}

=============================================================================
