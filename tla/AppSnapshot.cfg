CONSTANTS
    r1 = r1
    r2 = r2
    r3 = r3
    Requests = {r1, r2, r3}
    a = a
    b = b
    Slugs = {a, b}
    MaxChanges = 3
SYMMETRY Symmetry
SPECIFICATION Spec
INVARIANTS
    TypeOK
    NoOlderThanOverlap
    AnswersWereTrue
    UnreadableRefused
CHECK_DEADLOCK FALSE
