\* Requests only, on a file that exists: every write is a compare-before-rename.
CONSTANTS
    r1 = r1
    r2 = r2
    Requests = {r1, r2}
    s1 = s1
    Seeds = {s1}
    k1 = k1
    Secrets = {k1}
    None = None
    MaxSize = 2
    MaxEdits = 0
SYMMETRY Symmetry
SPECIFICATION RewritesSpec
INVARIANT NoUpdateLost
CHECK_DEADLOCK FALSE
