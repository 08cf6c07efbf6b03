CONSTANTS
    r1 = r1
    r2 = r2
    Requests = {r1, r2}
    k1 = k1
    Keys = {k1}
    None = None
    Limit = 2
    Window = 2
    Capacity = 1
    MaxTime = 2
SPECIFICATION Spec
INVARIANT UnknownLookupsLimited
