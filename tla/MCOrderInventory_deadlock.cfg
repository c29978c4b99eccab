SPECIFICATION Spec
CONSTANTS
    o1 = o1
    o2 = o2
    o3 = o3
    p1 = p1
    p2 = p2
    c1 = c1
    Products = {p1, p2}
    Tracked = {p1, p2}
    Orders = {o1, o2, o3}
    Lines <- Crossed
    Contacts = {c1}
    Buyer <- MCBuyer
    Requests = {r1, r2}
    NoOrder = NoOrder
    NoRequest = NoRequest
    Asked = {}
    MaxUnits = 2
    MaxCounts = 1
    MaxAborts = 0
SYMMETRY Symmetry
INVARIANTS
    DeadlocksAreCrossed
CHECK_DEADLOCK FALSE
