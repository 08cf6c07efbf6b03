\* A link on two levels of directories, two changes of the data.
SPECIFICATION Spec
CONSTANTS
    p1 = p1
    p2 = p2
    s1 = s1
    s2 = s2
    t1 = t1
    t2 = t2
    w1 = w1
    w2 = w2
    r1 = r1
    None = None
    NoGroup = NoGroup
    NoSession = NoSession
    Depth = 1
    Passwords = {p1, p2}
    Ids = {s1, s2}
    Tokens = {t1, t2}
    Secrets = {w1, w2}
    Requests = {r1}
    Entries <- MCEntries
    LineSets <- MCLineSets
    NewGroups <- MCNewGroups
    Seeds <- MCSeeds
    MaxTime = 1
    MaxAhead = 1
    MaxEdits = 2
    MaxSessions = 1
    Lifetime = 0
INVARIANTS
    TypeOK
    ReadersAgree
PROPERTIES
    ServedWasOpen
    SessionForTarget
    LoginOpens
    BoundaryKept
    CreatedIsReadable
CHECK_DEADLOCK FALSE
