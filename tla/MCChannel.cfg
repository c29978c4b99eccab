SPECIFICATION Spec
CONSTANTS
    w1 = w1
    w2 = w2
    p1 = p1
    p2 = p2
    Workspaces = {s1, s2}
    Wabas = {w1, w2}
    Phones = {p1, p2}
    ListedOn <- Listed
    Requests = {r1, r2, r3}
    None = None
    NumberQuota = 1
    MaxRequests = 3
SYMMETRY Symmetry
INVARIANTS
    ConnectedIsHeard
    NoTokenNoChannel
    ConnectedIsProven
CHECK_DEADLOCK FALSE
