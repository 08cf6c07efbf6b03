------------------------- MODULE MCDirectoryPolicy -------------------------
(* Constants of DirectoryPolicy for TLC.                                    *)
EXTENDS DirectoryPolicy, TLC

CONSTANTS p1, p2

Nothing == [usable |-> TRUE, password |-> None, scripts |-> "unset"]

MCEntries == {Nothing,
              [Nothing EXCEPT !.password = p1],
              [Nothing EXCEPT !.scripts = "deny"],
              [Nothing EXCEPT !.usable = FALSE]}

MCMoreEntries == MCEntries \cup {[Nothing EXCEPT !.password = p2],
                                 [Nothing EXCEPT !.password = p1, !.scripts = "allow"]}

NoStartup == {None}
MCStartups == {None, p1}

=============================================================================
