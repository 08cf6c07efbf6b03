\* The form of the login page and a directory with a setting of its own.
SPECIFICATION Spec
CONSTANTS
    p1 = p1
    p2 = p2
    None = None
    NoSession = NoSession
    Depth = 1
    Passwords = {p1, p2}
    Requests = {r1}
    Entries <- MCEntries
    Startups <- NoStartup
    MaxEdits = 0
    MaxRuns = 0
    MaxSessions = 1
    MaxTime = 0
    Lifetime = 0
    Ahead = 0
PROPERTY FormReturns
