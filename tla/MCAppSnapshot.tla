--------------------------- MODULE MCAppSnapshot ----------------------------
(* Model values for checking AppSnapshot: requests, and names, are alike.   *)
EXTENDS AppSnapshot, TLC

Symmetry == Permutations(Requests) \cup Permutations(Slugs)

=============================================================================
