SPECIFICATION Spec
CONSTANTS
    f = f
    u1 = u1
    u2 = u2
    c1 = c1
    c2 = c2
    Users = {f, u1, u2}
    Founder = f
    Requests = {c1, c2}
    Offered = {"ADMIN"}
    Seats = 2
    MaxRequests = 6
SYMMETRY Symmetry
INVARIANTS
    OneOwner
    SeatsAreKept
CHECK_DEADLOCK FALSE
