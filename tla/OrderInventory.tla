--------------------------- MODULE OrderInventory ---------------------------
(***************************************************************************)
(* Orders and the shelf: concurrent requests that place orders, move them  *)
(* through their statuses and cancel them, and the inventory_items rows    *)
(* they reserve, release and sell (server/services/order/order.service.ts, *)
(* server/repositories/inventory.repository.ts and order.repository.ts).   *)
(* A request is one READ COMMITTED transaction and an action one of its    *)
(* statements: a read sees committed rows and the request's own writes, a  *)
(* write locks its row until the transaction ends.  `stock` is the newest  *)
(* version of a row, `visible` the committed one.                          *)
(***************************************************************************)
EXTENDS Integers, Sequences, FiniteSets, FiniteSetsExt, OrderLifecycle

CONSTANTS
    Products,     \* inventory_items rows
    Tracked,      \* products with trackInventory
    Orders,       \* order identities; each is placed at most once
    Lines,        \* [Orders -> sequence of [product, quantity]], the order's items
    Contacts, Buyer,  \* [Orders -> Contacts]
    Requests,     \* concurrent server requests
    NoOrder, NoRequest,
    Asked,        \* bound: the statuses people ask updateOrderStatus for
    MaxUnits,     \* bound: units a person counts, or moves, at once
    MaxCounts,    \* bound: stocktakes and movements
    MaxAborts     \* bound: transactions lost to a crash or a timeout

ASSUME Parameters ==
    /\ Tracked \subseteq Products
    /\ IsFiniteSet(Orders)
    /\ Lines \in [Orders -> Seq([product : Products, quantity : Nat \ {0}])]
    /\ \A o \in Orders : Lines[o] # <<>>
    /\ Buyer \in [Orders -> Contacts]
    /\ NoOrder \notin Orders
    /\ NoRequest \notin Requests
    /\ Asked \subseteq OrderStatuses
    /\ MaxUnits \in Nat
    /\ MaxCounts \in Nat
    /\ MaxAborts \in Nat

VARIABLES
    stock, visible,  \* newest and committed version of each inventory_items row
    writer,          \* the open transaction that holds the row's lock
    status, number,  \* committed columns of an orders row
    totalOrders,     \* column of a contacts row
    req,             \* where each request has got to
    fate,            \* history: what became of an order's units
    short,           \* history: <<o, p>> when order o reserved nothing for a line of p
    counted,         \* history: units people put on the shelf, less those taken off
    counts, aborts

shelf == <<stock, visible, writer>>
order == <<status, number, totalOrders>>
history == <<fate, short, counted>>
vars == <<shelf, order, req, history, counts, aborts>>

-----------------------------------------------------------------------------
Placed == {o \in Orders : status[o] # "absent"}
PlacedBy(c) == {o \in Placed : Buyer[o] = c}
LastNumber == IF Placed = {} THEN 0 ELSE Max({number[o] : o \in Placed})

RequestStates ==
    [at : {"idle", "check", "number", "insert", "move", "close"},
     op : {"none", "reserve", "release", "sell"},
     order : Orders \cup {NoOrder}, to : OrderStatuses \cup {"absent"},
     line : Nat, number : Nat, missed : SUBSET Products]

Resting == [at |-> "idle", op |-> "none", order |-> NoOrder, to |-> "absent",
            line |-> 0, number |-> 0, missed |-> {}]

Started(at, op, o, to) == [at |-> at, op |-> op, order |-> o, to |-> to,
                           line |-> 1, number |-> 0, missed |-> {}]

Init ==
    /\ stock \in [Products -> [available : 0 .. MaxUnits, reserved : {0}, sold : {0}]]
    /\ visible = stock
    /\ writer = [p \in Products |-> NoRequest]
    /\ status = [o \in Orders |-> "absent"]
    /\ number = [o \in Orders |-> 0]
    /\ totalOrders = [c \in Contacts |-> 0]
    /\ req = [r \in Requests |-> Resting]
    /\ fate = [o \in Orders |-> "none"]
    /\ short = {}
    /\ counted = [p \in Products |-> stock[p].available]
    /\ counts = 0
    /\ aborts = 0

-----------------------------------------------------------------------------
(* A transaction's end.                                                    *)

Rest(r) == req' = [req EXCEPT ![r] = Resting]

\* Mutant: the movements go through prisma, not tx, so a failure keeps them.
RollBackMutant(r) ==
    /\ Rest(r)
    /\ visible' = [p \in Products |-> IF writer[p] = r THEN stock[p] ELSE visible[p]]
    /\ writer' = [p \in Products |-> IF writer[p] = r THEN NoRequest ELSE writer[p]]
    /\ UNCHANGED <<stock, order, history, counts>>

RollBack(r) ==
    /\ Rest(r)
    /\ stock' = [p \in Products |-> IF writer[p] = r THEN visible[p] ELSE stock[p]]
    /\ writer' = [p \in Products |-> IF writer[p] = r THEN NoRequest ELSE writer[p]]
    /\ UNCHANGED <<visible, order, history, counts>>

Commit(r) ==
    /\ Rest(r)
    /\ visible' = [p \in Products |-> IF writer[p] = r THEN stock[p] ELSE visible[p]]
    /\ writer' = [p \in Products |-> IF writer[p] = r THEN NoRequest ELSE writer[p]]
    /\ UNCHANGED <<stock, counted, counts, aborts>>

-----------------------------------------------------------------------------
(* createOrder.                                                            *)

BeginCreate(r) ==
    /\ req[r].at = "idle"
    /\ \E o \in Orders :
        /\ status[o] = "absent"
        /\ \A q \in Requests : req[q].order # o
        /\ req' = [req EXCEPT ![r] = Started("check", "reserve", o, "PENDING")]
    /\ UNCHANGED <<shelf, order, history, counts, aborts>>

\* Mutant: a release walks the order's lines from the last to the first.
LineMutant(r) ==
    LET lines == Lines[req[r].order] IN
    lines[IF req[r].op = "release" THEN Len(lines) + 1 - req[r].line ELSE req[r].line]

\* The lines are taken one by one, in the same order by every request.
Line(r) == Lines[req[r].order][req[r].line]

\* The request goes on to the order's next line, or past the last one to step s.
NextLine(r, s) ==
    IF req[r].line < Len(Lines[req[r].order])
      THEN [req[r] EXCEPT !.line = @ + 1]
      ELSE [req[r] EXCEPT !.at = s, !.line = 1]

\* `Insufficient stock` throws; every line is checked against the shelf by itself.
CheckLine(r) ==
    /\ req[r].at = "check"
    /\ IF /\ Line(r).product \in Tracked
          /\ visible[Line(r).product].available < Line(r).quantity
         THEN Rest(r)
         ELSE req' = [req EXCEPT ![r] = NextLine(r, "number")]
    /\ UNCHANGED <<shelf, order, history, counts, aborts>>

\* The newest row by createdAt has the highest number while the clocks that
\* stamp the rows agree, which is assumed here.
generateOrderNumber(r) ==
    /\ req[r].at = "number"
    /\ req' = [req EXCEPT ![r].at = "insert", ![r].number = LastNumber + 1]
    /\ UNCHANGED <<shelf, order, history, counts, aborts>>

\* Mutant: the number is taken without the unique index that refuses a second one.
NumberTakenMutant(r) == FALSE

\* @@unique([workspaceId, orderNumber])
NumberTaken(r) == \E o \in Placed : number[o] = req[r].number

\* The unique index makes an insert wait for an uncommitted row of that number.
InsertWaitsFor(r, q) ==
    /\ q # r /\ req[q].op = "reserve" /\ req[q].at \in {"move", "close"}
    /\ req[q].number = req[r].number

InsertOrder(r) ==
    /\ req[r].at = "insert"
    /\ IF NumberTaken(r)
         THEN Rest(r)
         ELSE /\ \A q \in Requests : ~InsertWaitsFor(r, q)
              /\ req' = [req EXCEPT ![r].at = "move"]
    /\ UNCHANGED <<shelf, order, history, counts, aborts>>

-----------------------------------------------------------------------------
(* reserveStock, releaseStock, markSold: one guarded UPDATE per line, whose *)
(* row count the service ignores.  A row that does not match as the        *)
(* statement's snapshot sees it is skipped without waiting for its lock.   *)

Sees(r, p) == IF writer[p] = r THEN stock[p] ELSE visible[p]

Matches(op, s, q) == IF op = "reserve" THEN s.available >= q ELSE s.reserved >= q

\* Mutant: a release that forgets to take the units out of reserved.
MovedMutant(op, s, q) ==
    [available |-> s.available + (CASE op = "reserve" -> -q [] op = "release" -> q [] OTHER -> 0),
     reserved  |-> s.reserved + (IF op = "reserve" THEN q ELSE IF op = "sell" THEN -q ELSE 0),
     sold      |-> s.sold + (IF op = "sell" THEN q ELSE 0)]

Moved(op, s, q) ==
    [available |-> s.available + (CASE op = "reserve" -> -q [] op = "release" -> q [] OTHER -> 0),
     reserved  |-> s.reserved + (IF op = "reserve" THEN q ELSE -q),
     sold      |-> s.sold + (IF op = "sell" THEN q ELSE 0)]

MoveLine(r) ==
    LET p == Line(r).product
        q == Line(r).quantity
    IN  /\ req[r].at = "move"
        /\ IF Matches(req[r].op, Sees(r, p), q)
             THEN /\ writer[p] \in {r, NoRequest}
                  /\ writer' = [writer EXCEPT ![p] = r]
                  /\ stock' = [stock EXCEPT ![p] = Moved(req[r].op, @, q)]
                  /\ req' = [req EXCEPT ![r] = NextLine(r, "close")]
             ELSE /\ req' = [req EXCEPT ![r] =
                               [NextLine(r, "close") EXCEPT !.missed = @ \cup {p}]]
                  /\ UNCHANGED <<stock, writer>>
        /\ UNCHANGED <<visible, order, history, counts, aborts>>

CountedOrders(c) == totalOrders[c] + 1

\* The contact is updated with an increment and the new order commits.
CommitCreate(r) ==
    LET o == req[r].order IN
    /\ req[r].at = "close" /\ req[r].op = "reserve"
    /\ status' = [status EXCEPT ![o] = "PENDING"]
    /\ number' = [number EXCEPT ![o] = req[r].number]
    /\ totalOrders' = [totalOrders EXCEPT ![Buyer[o]] = CountedOrders(Buyer[o])]
    /\ short' = short \cup ({o} \X req[r].missed)
    /\ UNCHANGED fate
    /\ Commit(r)

-----------------------------------------------------------------------------
(* updateOrderStatus and cancelOrder read the order, move every line, then *)
(* write the status whatever the row holds by then.                        *)

Movement(to) == CASE to = "CANCELLED" -> "release" [] to = "DELIVERED" -> "sell" [] OTHER -> "none"

BeginTransition(r, o, to) ==
    /\ req' = [req EXCEPT ![r] =
                 Started(IF Movement(to) = "none" THEN "close" ELSE "move", Movement(to), o, to)]
    /\ UNCHANGED <<shelf, order, history, counts, aborts>>

updateOrderStatus(r, o, to) ==
    /\ req[r].at = "idle" /\ status[o] # "absent"
    /\ isLegalStatusTransition(status[o], to)
    /\ BeginTransition(r, o, to)

cancelOrder(r, o) ==
    /\ req[r].at = "idle"
    /\ status[o] \notin {"absent", "CANCELLED", "DELIVERED", "REFUNDED"}
    /\ BeginTransition(r, o, "CANCELLED")

CommitTransition(r) ==
    LET o == req[r].order IN
    /\ req[r].at = "close" /\ req[r].op # "reserve"
    /\ status' = [status EXCEPT ![o] = req[r].to]
    /\ fate' = [fate EXCEPT ![o] = IF req[r].op = "none" THEN @
                                   ELSE IF @ = "none" THEN req[r].op ELSE "again"]
    /\ UNCHANGED <<number, totalOrders, short>>
    /\ Commit(r)

-----------------------------------------------------------------------------
(* The shelf by hand: setStock and adjustStock, single statements.         *)

setAvailable(p, n) ==
    /\ counts < MaxCounts /\ writer[p] = NoRequest
    /\ stock' = [stock EXCEPT ![p].available = n]
    /\ visible' = [visible EXCEPT ![p].available = n]
    /\ counted' = [counted EXCEPT ![p] = @ + n - stock[p].available]
    /\ counts' = counts + 1
    /\ UNCHANGED <<writer, order, req, fate, short, aborts>>

AdjustMatches(s, delta) == delta < 0 => s.available >= -delta

adjustAvailable(p, delta) ==
    /\ counts < MaxCounts /\ writer[p] = NoRequest
    /\ AdjustMatches(visible[p], delta)
    /\ stock' = [stock EXCEPT ![p].available = @ + delta]
    /\ visible' = [visible EXCEPT ![p].available = @ + delta]
    /\ counted' = [counted EXCEPT ![p] = @ + delta]
    /\ counts' = counts + 1
    /\ UNCHANGED <<writer, order, req, fate, short, aborts>>

-----------------------------------------------------------------------------
(* What the database does to an open transaction.                          *)

\* The server dies, the connection drops or Prisma's transaction timeout passes.
Abort(r) ==
    /\ req[r].at # "idle" /\ aborts < MaxAborts
    /\ aborts' = aborts + 1
    /\ RollBack(r)

WaitsFor(r, q) ==
    \/ req[r].at = "insert" /\ ~NumberTaken(r) /\ InsertWaitsFor(r, q)
    \/ /\ req[r].at = "move" /\ q # r
       /\ writer[Line(r).product] = q
       /\ Matches(req[r].op, Sees(r, Line(r).product), Line(r).quantity)

Cycle(S) == S # {} /\ \A q \in S : \E t \in S : WaitsFor(q, t)
InCycle(r) == \E S \in SUBSET Requests : r \in S /\ Cycle(S)

\* PostgreSQL aborts a transaction of a lock cycle; nothing retries it.
DeadlockVictim(r) ==
    /\ InCycle(r)
    /\ RollBack(r)
    /\ UNCHANGED aborts

-----------------------------------------------------------------------------
CreateStep(r) ==
    BeginCreate(r) \/ CheckLine(r) \/ generateOrderNumber(r) \/ InsertOrder(r) \/ CommitCreate(r)
TransitionStep(r) ==
    \/ \E o \in Orders, to \in Asked : updateOrderStatus(r, o, to)
    \/ \E o \in Orders : cancelOrder(r, o)
    \/ CommitTransition(r)

Next ==
    \/ \E r \in Requests : CreateStep(r) \/ MoveLine(r) \/ TransitionStep(r)
                             \/ Abort(r) \/ DeadlockVictim(r)
    \/ \E p \in Products : \/ \E n \in 0 .. MaxUnits : setAvailable(p, n)
                           \/ \E d \in -MaxUnits .. MaxUnits : adjustAvailable(p, d)

Spec == Init /\ [][Next]_vars

-----------------------------------------------------------------------------
(* Types: no count of units on the shelf is ever negative.                 *)
TypeOK ==
    /\ stock \in [Products -> [available : Nat, reserved : Nat, sold : Nat]]
    /\ visible \in [Products -> [available : Nat, reserved : Nat, sold : Nat]]
    /\ writer \in [Products -> Requests \cup {NoRequest}]
    /\ status \in [Orders -> OrderStatuses \cup {"absent"}]
    /\ number \in [Orders -> Nat]
    /\ totalOrders \in [Contacts -> Nat]
    /\ req \in [Requests -> RequestStates]
    /\ fate \in [Orders -> {"none", "release", "sell", "again"}]
    /\ short \subseteq Orders \X Products
    /\ counted \in [Products -> Int]
    /\ counts \in 0 .. MaxCounts
    /\ aborts \in 0 .. MaxAborts

(* However requests interleave, repeat or abort, the units of a product    *)
(* are those people put on the shelf: orders move them between available,  *)
(* reserved and sold, and never make or lose one.                          *)
UnitsConserved ==
    \A p \in Products :
        visible[p].available + visible[p].reserved + visible[p].sold = counted[p]

(* A contact's totalOrders is the number of orders placed for it, under    *)
(* concurrent and aborted creations: the aggregates never drift.           *)
ContactAggregatesAgree ==
    \A c \in Contacts : totalOrders[c] = Cardinality(PlacedBy(c))

(* Order numbers are sequential: the placed orders carry 1, 2, ... with no *)
(* number twice and no gap, although the number is read before the insert. *)
OrderNumbersSequential ==
    /\ {number[o] : o \in Placed} = 1 .. Cardinality(Placed)
    /\ \A o, u \in Placed : number[o] = number[u] => o = u

\* The lines of the orders in S that are for product p, as <<order, index>>,
\* and the units they ask for.
OrderLines == UNION {{o} \X DOMAIN Lines[o] : o \in Orders}
LinesOf(S, p) == {l \in OrderLines : l[1] \in S /\ Lines[l[1]][l[2]].product = p}
UnitsOf(l) == {l} \X (1 .. Lines[l[1]][l[2]].quantity)
Units(S, p) == Cardinality(UNION {UnitsOf(l) : l \in LinesOf(S, p)})

\* The orders that still hold their units, and those whose units are sold.
Holding == {o \in Placed : fate[o] = "none"}
Delivered == {o \in Placed : fate[o] = "sell"}

\* No order missed a reservation of p, and none had its units of p moved twice.
Regular(p) ==
    \A l \in LinesOf(Orders, p) : <<l[1], p>> \notin short /\ fate[l[1]] # "again"

(* As long as no order missed a reservation of a product and none had its  *)
(* units of it moved twice, the shelf is exact for it: reserved counts the *)
(* units of the orders that still hold theirs, sold those of the orders    *)
(* delivered, across every interleaving of lines, requests and aborts.     *)
ShelfMatchesOrders ==
    \A p \in Products : Regular(p) =>
        visible[p].reserved = Units(Holding, p) /\ visible[p].sold = Units(Delivered, p)

\* Among any products there is one that every order in O takes after the others.
LinesAgree(O) ==
    \A P \in (SUBSET Products) \ {{}} :
        \E p \in P : \A o \in O : \A i, j \in DOMAIN Lines[o] :
            Lines[o][i].product = p /\ Lines[o][j].product \in P \ {p} => j < i

(* Requests deadlock over nothing but orders that take the same products   *)
(* in different orders: requests whose orders' lines agree never wait in a *)
(* cycle, be they placements, deliveries or cancellations, two of them on  *)
(* one order or some of them waiting for an order number.                  *)
DeadlocksAreCrossed ==
    \A S \in SUBSET Requests : Cycle(S) => ~LinesAgree({req[r].order : r \in S})
=============================================================================
