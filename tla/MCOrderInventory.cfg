SPECIFICATION Spec
CONSTANTS
    o1 = o1
    o2 = o2
    o3 = o3
    p1 = p1
    p2 = p2
    c1 = c1
    Products = {p1}
    Tracked = {p1}
    Orders = {o1, o2}
    Lines <- OneShelf
    Contacts = {c1}
    Buyer <- MCBuyer
    Requests = {r1, r2}
    NoOrder = NoOrder
    NoRequest = NoRequest
    Asked = {"CONFIRMED", "PROCESSING", "SHIPPED", "DELIVERED", "CANCELLED", "RETURNED"}
    MaxUnits = 3
    MaxCounts = 0
    MaxAborts = 1
SYMMETRY Symmetry
INVARIANTS
    UnitsConserved
    OrderNumbersSequential
    ShelfMatchesOrders
CHECK_DEADLOCK FALSE
