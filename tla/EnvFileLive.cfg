CONSTANTS
    r1 = r1
    r2 = r2
    Requests = {r1, r2}
    s1 = s1
    Seeds = {s1}
    k1 = k1
    Secrets = {k1}
    None = None
    MaxSize = 2
    MaxEdits = 0
SPECIFICATION FairSpec
PROPERTY EveryRequestEnds
CHECK_DEADLOCK FALSE
