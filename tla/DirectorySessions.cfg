\* Sessions across a restart, clocks that are set, and a start-up password.
SPECIFICATION Spec
CONSTANTS
    p1 = p1
    p2 = p2
    None = None
    NoSession = NoSession
    Depth = 0
    Passwords = {p1, p2}
    Requests = {r1}
    Entries <- MCMoreEntries
    Startups <- MCStartups
    MaxEdits = 1
    MaxRuns = 1
    MaxSessions = 1
    MaxTime = 1
    Lifetime = 0
    Ahead = 0
PROPERTIES
    ClosedStaysClosed
    SessionInForce
    LoginSuffices
