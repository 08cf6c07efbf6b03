----------------------------- MODULE MCEnvFile ------------------------------
(* Model values for checking EnvFile: requests may be exchanged.            *)
EXTENDS EnvFile, TLC

Symmetry == Permutations(Requests)

\* Where there is a file and nobody removes it, every write of the server goes
\* through replaceFileIfUnchanged.
RewritesSpec == Init /\ file.live /\ [][Next]_vars

=============================================================================
