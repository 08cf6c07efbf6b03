----------------------------- MODULE MCServing -----------------------------
(* Constants of Serving for TLC.                                            *)
EXTENDS Serving

Named(look, mark) == [look |-> look, mark |-> mark]
Html == Named("html", "")
Notes == Named("markdown", "")
Text == Named("text", "_")
Hidden == Named("text", ".")
Folder == Named("other", "")

MCNames == {Html, Notes, Text, Folder, Hidden}

MCRaws == {<<Text>>, <<Up, Notes>>, <<Hidden>>}

MCTargets == {<<>>, <<Folder>>, <<Html>>, <<Folder, Notes>>, <<Folder, Html>>, <<Hidden>>}

SharedAs(scope, target) == [scope |-> scope, target |-> target, download |-> TRUE]

AllFiles == [p \in Places |-> IF p \in Dirs THEN "dir" ELSE "file"]

Pair(p, q) == [d \in Dirs |-> IF d = <<>> THEN p ELSE q]
Public == [state |-> "public", version |-> 0]
Behind(v) == [state |-> "protected", version |-> v]

MCSeeds ==
    {[node |-> [AllFiles EXCEPT ![<<Folder, Text>>] = "shut"],
      policy |-> Pair(Behind(1), Behind(1)),
      share |-> SharedAs("directory", <<Folder>>)],
     [node |-> [AllFiles EXCEPT ![<<Folder, Html>>] = "big", ![<<Text>>] = "big"],
      policy |-> Pair(Public, Behind(1)), share |-> SharedAs("file", <<Folder, Notes>>)],
     [node |-> [AllFiles EXCEPT ![<<Folder>>] = "big", ![<<Text>>] = "device"],
      policy |-> Pair(Public, Public), share |-> SharedAs("file", <<Folder>>)],
     [node |-> [AllFiles EXCEPT ![<<Html>>] = "shut", ![<<Notes>>] = "shut", ![<<Folder, Notes>>] = "big"],
      policy |-> Pair(Public, Behind(1)), share |-> SharedAs("file", <<Html>>)],
     [node |-> AllFiles, policy |-> Pair(Public, Public),
      share |-> SharedAs("directory", <<Notes>>)]}

MCPlaced == {"none", "file", "dir", "closed", "link"}

MCPolicies == {Pair(Public, Public), Pair(Behind(1), Behind(2)), Pair(Behind(1), Locked)}

=============================================================================
