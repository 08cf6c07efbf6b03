CONSTANTS
    r1 = r1
    r2 = r2
    Requests = {r1, r2}
    k1 = k1
    k2 = k2
    Keys = {k1, k2}
    None = None
    Limit = 2
    Window = 2
    Capacity = 1
    MaxTime = 3
SPECIFICATION FairSpec
INVARIANTS
    TypeOK
    Bounded
    LoginsLimited
    LookupsLimited
    GateInOrder
PROPERTIES
    WindowKept
    EveryAttemptAnswered
