CONSTANTS
    r1 = r1
    r2 = r2
    Requests = {r1, r2}
    s1 = s1
    Seeds = {s1}
    k1 = k1
    Secrets = {k1}
    None = None
    MaxSize = 2
    MaxEdits = 1
SYMMETRY Symmetry
SPECIFICATION Spec
INVARIANTS
    LostOnlyByRace
    RefusedLeavesNothing
    HalfWrittenOnlyBriefly
    IInv
PROPERTIES
    StoreSpec
    ReadableKept
    WorkShrinks
CHECK_DEADLOCK FALSE
