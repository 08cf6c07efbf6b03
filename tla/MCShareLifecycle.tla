-------------------------- MODULE MCShareLifecycle --------------------------
(* Constants of ShareLifecycle for TLC.                                     *)
EXTENDS ShareLifecycle, TLC

CONSTANTS p1, p2, s1, s2, t1, t2, w1, w2

Nothing == [usable |-> TRUE, password |-> None, scripts |-> "unset"]
With(p) == [Nothing EXCEPT !.password = p]

MCEntries == {Nothing, With(p1), [Nothing EXCEPT !.usable = FALSE]}

Shared(scope, token, expires) ==
    [enabled |-> "true", form |-> "good", scope |-> scope, token |-> token,
     password |-> w1, expires |-> expires]

Lined(switch, g, h) == [switch |-> switch, groups |-> (s1 :> g @@ s2 :> h)]
NoLines == Lined("unset", NoGroup, NoGroup)

FileShare == Shared("file", t1, 1)
HereShare == Shared("here", t1, 1)
TreeShare == Shared("tree", t1, 1)

MCLineSets ==
    {NoLines,
     Lined("true", Shared("tree", t1, 2), [Shared("file", t2, 0) EXCEPT
         !.enabled = "false", !.form = "incomplete"])}

MCNewGroups == {Shared("file", t2, 1), Shared("here", t2, 2)}

Data(env2, lines1, lines2, listable) ==
    [env |-> (0 :> Nothing @@ 1 :> With(p1) @@ 2 :> env2),
     lines |-> <<lines1, lines2>>, file |-> <<1, 1>>, stamp |-> <<0, 0>>,
     listable |-> listable]

MCSeeds ==
    {Data(Nothing, Lined("true", TreeShare, NoGroup), NoLines, {1, 2}),
     Data(Nothing, Lined("true", HereShare, NoGroup),
          Lined("true", FileShare, [Shared("file", t2, 1) EXCEPT !.form = "bad"]), {2}),
     Data(With(p2), Lined("true", Shared("file", t2, 0), NoGroup),
          Lined("false", FileShare, [FileShare EXCEPT !.form = "loose"]), {1, 2})}

=============================================================================
