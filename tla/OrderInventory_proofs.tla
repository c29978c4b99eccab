------------------------ MODULE OrderInventory_proofs ------------------------
(***************************************************************************)
(* Theorems about OrderInventory, for every set of products, orders,       *)
(* contacts and requests, all order lines and every bound.                 *)
(***************************************************************************)
EXTENDS OrderInventory, FiniteSetTheorems, SequenceTheorems, TLAPS

(***************************************************************************)
(* The inductive invariant.                                                *)
(***************************************************************************)
\* What a request that is under way has established about its order.
Working(r) ==
    /\ req[r].order \in Orders
    /\ req[r].line \in 1 .. Len(Lines[req[r].order])
    /\ req[r].to \in OrderStatuses
    /\ req[r].at \in {"check", "number", "insert"} => req[r].op = "reserve"
    /\ req[r].at = "move" => req[r].op # "none"
    /\ IF req[r].op = "reserve" THEN status[req[r].order] = "absent"
                                ELSE status[req[r].order] # "absent"

RequestsWork == \A r \in Requests : req[r].at # "idle" => Working(r)

\* A row differs from its committed version only under a lock, whose holder is moving units.
LocksHeld ==
    /\ \A p \in Products : writer[p] = NoRequest => stock[p] = visible[p]
    /\ \A p \in Products : writer[p] # NoRequest => req[writer[p]].at \in {"move", "close"}

Total(s) == s.available + s.reserved + s.sold

BothConserved ==
    \A p \in Products : Total(visible[p]) = counted[p] /\ Total(stock[p]) = counted[p]

\* A request past its insert holds the next number, alone.
NumbersHeld ==
    /\ \A r \in Requests : req[r].at = "insert" =>
          req[r].number \in 1 .. Cardinality(Placed) + 1
    /\ \A r \in Requests : req[r].op = "reserve" /\ req[r].at \in {"move", "close"} =>
          /\ req[r].number = Cardinality(Placed) + 1
          /\ \A q \in Requests \ {r} :
               ~(req[q].op = "reserve" /\ req[q].at \in {"move", "close"})

\* An order that is being placed is known to one request only.
SoleCreator ==
    \A r, q \in Requests :
        /\ req[r].at # "idle" /\ req[r].op = "reserve"
        /\ req[q].at # "idle" /\ req[q].order = req[r].order
        => q = r

Sound ==
    TypeOK /\ RequestsWork /\ LocksHeld /\ SoleCreator /\ OrderNumbersSequential /\ NumbersHeld

-----------------------------------------------------------------------------
USE DEF shelf, order, history

LEMMA SoundInit == Init => Sound
<1> SUFFICES ASSUME Init PROVE Sound
  OBVIOUS
<1>1. TypeOK /\ RequestsWork /\ LocksHeld /\ SoleCreator
  BY Parameters DEF Init, TypeOK, RequestsWork, SoleCreator, LocksHeld, Resting, RequestStates, OrderStatuses
<1>2. Placed = {}
  BY DEF Init, Placed
<1>3. OrderNumbersSequential /\ NumbersHeld
  BY <1>2, FS_EmptySet DEF Init, OrderNumbersSequential, NumbersHeld, Resting
<1> QED
  BY <1>1, <1>3 DEF Sound

LEMMA LinesTyped ==
    ASSUME NEW o \in Orders, NEW i \in 1 .. Len(Lines[o])
    PROVE  /\ Lines[o][i].product \in Products
           /\ Lines[o][i].quantity \in Nat \ {0}
<1>1. Lines[o] \in Seq([product : Products, quantity : Nat \ {0}])
  BY Parameters
<1>2. Lines[o][i] \in [product : Products, quantity : Nat \ {0}]
  BY <1>1, ElementOfSeq
<1> QED
  BY <1>2

LEMMA LinesNonEmpty == \A o \in Orders : Len(Lines[o]) \in Nat \ {0}
<1> SUFFICES ASSUME NEW o \in Orders PROVE Len(Lines[o]) \in Nat \ {0}
  OBVIOUS
<1>1. Lines[o] \in Seq([product : Products, quantity : Nat \ {0}]) /\ Lines[o] # <<>>
  BY Parameters
<1> QED
  BY <1>1

LEMMA PlacedFinite == IsFiniteSet(Placed) /\ Cardinality(Placed) \in Nat
BY Parameters, FS_Subset, FS_CardinalityType DEF Placed

LEMMA LastNumberIsCount == OrderNumbersSequential => LastNumber = Cardinality(Placed)
<1> SUFFICES ASSUME OrderNumbersSequential PROVE LastNumber = Cardinality(Placed)
  OBVIOUS
<1>1. CASE Placed = {}
  BY <1>1, FS_EmptySet DEF LastNumber
<1>2. CASE Placed # {}
  <2> DEFINE N == {number[o] : o \in Placed}
  <2>1. N = 1 .. Cardinality(Placed) /\ Cardinality(Placed) \in Nat \ {0}
    BY <1>2, PlacedFinite, FS_EmptySet DEF OrderNumbersSequential
  <2>2. Max(N) \in N /\ \A n \in N : Max(N) >= n
    BY <2>1 DEF Max
  <2> QED
    BY <1>2, <2>1, <2>2 DEF LastNumber
<1> QED
  BY <1>1, <1>2

LEMMA RestingTyped == Resting \in RequestStates /\ Resting.at = "idle"
BY DEF Resting, RequestStates

LEMMA NextLineTyped ==
    ASSUME TypeOK, NEW r \in Requests, Working(r), NEW s \in {"number", "close"}
    PROVE  /\ NextLine(r, s) \in RequestStates
           /\ NextLine(r, s).line \in 1 .. Len(Lines[req[r].order])
           /\ NextLine(r, s).at \in {req[r].at, s}
           /\ NextLine(r, s).order = req[r].order
           /\ NextLine(r, s).op = req[r].op
           /\ NextLine(r, s).to = req[r].to
           /\ NextLine(r, s).number = req[r].number
<1>1. req[r] \in RequestStates /\ req[r].order \in Orders
  BY DEF TypeOK, Working
<1>2. Len(Lines[req[r].order]) \in Nat \ {0}
  BY <1>1, LinesNonEmpty
<1>3. CASE req[r].line < Len(Lines[req[r].order])
  BY <1>1, <1>2, <1>3 DEF NextLine, RequestStates, Working
<1>4. CASE ~(req[r].line < Len(Lines[req[r].order]))
  <2>1. NextLine(r, s) = [req[r] EXCEPT !.at = s, !.line = 1]
    BY <1>4 DEF NextLine
  <2>2. PICK x \in RequestStates : x = req[r]
    BY <1>1
  <2>3. [x EXCEPT !.at = s, !.line = 1] \in RequestStates
    BY DEF RequestStates
  <2> QED
    BY <1>2, <2>1, <2>2, <2>3 DEF RequestStates
<1> QED
  BY <1>3, <1>4

\* Only what a request does to its own state can disturb RequestsWork, if orders stay placed.
LEMMA OthersWork ==
    ASSUME TypeOK, RequestsWork, NEW r \in Requests,
           \A q \in Requests \ {r} : req'[q] = req[q],
           \A q \in Requests \ {r} : req[q].at # "idle" =>
               (status'[req[q].order] = "absent" <=> status[req[q].order] = "absent"),
           req'[r].at # "idle" => Working(r)'
    PROVE  RequestsWork'
BY DEF RequestsWork, Working

LEMMA StillNumbersHeld ==
    ASSUME NumbersHeld, Placed' = Placed,
           \A q \in Requests :
              /\ req'[q].at = "insert" => req[q].at = "insert" /\ req'[q].number = req[q].number
              /\ req'[q].op = "reserve" /\ req'[q].at \in {"move", "close"} =>
                   /\ req[q].op = "reserve" /\ req[q].at \in {"move", "close"}
                   /\ req'[q].number = req[q].number
    PROVE  NumbersHeld'
BY DEF NumbersHeld

LEMMA StillSoleCreator ==
    ASSUME TypeOK, SoleCreator, RequestsWork, NEW r \in Requests,
           \A q \in Requests \ {r} : req'[q] = req[q],
           \/ req'[r].at = "idle"
           \/ /\ req[r].at # "idle"
              /\ req'[r].order = req[r].order /\ req'[r].op = req[r].op
           \/ \A q \in Requests : req[q].order # req'[r].order
           \/ req'[r].op # "reserve" /\ status[req'[r].order] # "absent"
    PROVE  SoleCreator'
BY DEF SoleCreator, RequestsWork, Working

(***************************************************************************)
(* Sound is inductive, one lemma for each kind of step.                    *)
(***************************************************************************)
LEMMA SoundUnmoved ==
    ASSUME Sound, NEW r \in Requests, NEW s \in RequestStates,
           req' = [req EXCEPT ![r] = s],
           UNCHANGED <<shelf, order, history, counts, aborts>>,
           s.at # "idle" => Working(r)',
           req[r].at \notin {"move", "close"},
           \/ s.at = "idle"
           \/ req[r].at # "idle" /\ s.order = req[r].order /\ s.op = req[r].op
           \/ \A q \in Requests : req[q].order # s.order
           \/ s.op # "reserve" /\ status[s.order] # "absent",
           NumbersHeld'
    PROVE  Sound'
<1>1. TypeOK'
  BY DEF Sound, TypeOK
<1>2. RequestsWork'
  BY OthersWork DEF Sound, TypeOK
<1>3. LocksHeld'
  BY DEF Sound, TypeOK, LocksHeld
<1>4. OrderNumbersSequential'
  BY DEF Sound, OrderNumbersSequential, Placed
<1>5. SoleCreator'
  BY StillSoleCreator DEF Sound, TypeOK
<1> QED
  BY <1>1, <1>2, <1>3, <1>4, <1>5 DEF Sound

LEMMA SoundCreate ==
    ASSUME Sound, NEW r \in Requests,
           BeginCreate(r) \/ CheckLine(r) \/ generateOrderNumber(r) \/ InsertOrder(r)
    PROVE  Sound'
<1> USE DEF Sound
<1>1. req[r] \in RequestStates
  BY DEF TypeOK
<1> Placed' = Placed /\ UNCHANGED number
  BY DEF BeginCreate, CheckLine, generateOrderNumber, InsertOrder, Placed
<1>2. CASE BeginCreate(r)
  <2>1. PICK o \in Orders :
           /\ status[o] = "absent"
           /\ \A q \in Requests : req[q].order # o
           /\ req' = [req EXCEPT ![r] = Started("check", "reserve", o, "PENDING")]
    BY <1>2 DEF BeginCreate
  <2> DEFINE s == Started("check", "reserve", o, "PENDING")
  <2>2. s \in RequestStates
    BY DEF Started, RequestStates, OrderStatuses
  <2>3. Len(Lines[o]) \in Nat \ {0}
    BY LinesNonEmpty
  <2>4. Working(r)'
    <3>1. req'[r] = s /\ status' = status
      BY <1>2, <2>1 DEF BeginCreate, TypeOK
    <3>2. 1 \in 1 .. Len(Lines[o]) /\ "PENDING" \in OrderStatuses
      BY <2>3 DEF OrderStatuses
    <3> QED
      BY <2>1, <3>1, <3>2 DEF Working, Started
  <2>5. NumbersHeld'
    BY <2>1 DEF NumbersHeld, Started, TypeOK
  <2> QED
    BY <1>2, <2>1, <2>2, <2>4, <2>5, SoundUnmoved DEF BeginCreate, Started
<1>3. CASE CheckLine(r)
  <2>1. req[r].at = "check" /\ Working(r)
    BY <1>3 DEF CheckLine, RequestsWork
  <2>2. CASE Rest(r)
    <3>1. NumbersHeld'
      BY <2>2 DEF Rest, NumbersHeld, Resting, TypeOK
    <3> QED
      BY <1>3, <2>1, <2>2, <3>1, RestingTyped, SoundUnmoved DEF CheckLine, Rest
  <2>3. CASE req' = [req EXCEPT ![r] = NextLine(r, "number")]
    <3>1. Working(r)'
      BY <1>3, <2>1, <2>3, NextLineTyped DEF CheckLine, Working, TypeOK
    <3>2. NumbersHeld'
      <4>1. NextLine(r, "number").at \in {"check", "number"}
        BY <2>1, NextLineTyped
      <4>2. req'[r] = NextLine(r, "number") /\ \A q \in Requests \ {r} : req'[q] = req[q]
        BY <2>3 DEF TypeOK
      <4>3. req'[r].at \notin {"insert", "move", "close"}
        BY <4>1, <4>2
      <4> QED
        BY <4>2, <4>3, StillNumbersHeld
    <3>3. PICK n \in RequestStates : n = NextLine(r, "number") /\ n.order = req[r].order /\ n.op = req[r].op
      BY <2>1, NextLineTyped
    <3>4. UNCHANGED <<shelf, order, history, counts, aborts>> /\ req' = [req EXCEPT ![r] = n]
      BY <1>3, <2>3, <3>3 DEF CheckLine
    <3> QED
      BY <2>1, <3>1, <3>2, <3>3, <3>4, SoundUnmoved
  <2> QED
    BY <1>3, <2>2, <2>3 DEF CheckLine
<1>4. CASE generateOrderNumber(r)
  <2> DEFINE s == [req[r] EXCEPT !.at = "insert", !.number = LastNumber + 1]
  <2>1. req[r].at = "number" /\ Working(r) /\ req' = [req EXCEPT ![r] = s]
    BY <1>4 DEF generateOrderNumber, RequestsWork
  <2>2. LastNumber \in Nat
    BY LastNumberIsCount, PlacedFinite
  <2>3. s \in RequestStates
    <3>1. PICK x \in RequestStates : x = req[r]
      BY <1>1
    <3>2. PICK n \in Nat : n = LastNumber + 1
      BY <2>2
    <3>3. [x EXCEPT !.at = "insert", !.number = n] \in RequestStates
      BY DEF RequestStates
    <3> QED
      BY <3>1, <3>2, <3>3
  <2>4. Working(r)'
    BY <1>1, <1>4, <2>1 DEF generateOrderNumber, Working, RequestStates, TypeOK
  <2>5. NumbersHeld'
    BY <1>1, <2>1, LastNumberIsCount, PlacedFinite DEF NumbersHeld, TypeOK, RequestStates
  <2>6. s.order = req[r].order /\ s.op = req[r].op
    BY <1>1 DEF RequestStates
  <2>7. UNCHANGED <<shelf, order, history, counts, aborts>>
    BY <1>4 DEF generateOrderNumber
  <2> HIDE DEF s
  <2> QED
    BY <2>1, <2>3, <2>4, <2>5, <2>6, <2>7, SoundUnmoved
<1>5. CASE InsertOrder(r)
  <2>1. req[r].at = "insert" /\ Working(r)
    BY <1>5 DEF InsertOrder, RequestsWork
  <2>2. CASE Rest(r)
    <3>1. NumbersHeld'
      BY <2>2 DEF Rest, NumbersHeld, Resting, TypeOK
    <3> QED
      BY <1>5, <2>1, <2>2, <3>1, RestingTyped, SoundUnmoved DEF InsertOrder, Rest
  <2>3. CASE ~NumberTaken(r)
    <3> DEFINE s == [req[r] EXCEPT !.at = "move"]
    <3>1. s \in RequestStates /\ req' = [req EXCEPT ![r] = s]
      BY <1>1, <1>5, <2>3 DEF RequestStates, InsertOrder
    <3>2. Working(r)'
      BY <1>1, <1>5, <2>1, <3>1 DEF InsertOrder, Working, RequestStates, TypeOK
    <3>3. req[r].number = Cardinality(Placed) + 1
      BY <2>1, <2>3, PlacedFinite DEF NumbersHeld, NumberTaken, OrderNumbersSequential
    <3>4. \A q \in Requests \ {r} : ~(req[q].op = "reserve" /\ req[q].at \in {"move", "close"})
      BY <1>5, <2>3, <3>3 DEF InsertOrder, InsertWaitsFor, NumbersHeld
    <3>5. NumbersHeld'
      BY <1>1, <3>1, <3>3, <3>4 DEF NumbersHeld, TypeOK, RequestStates
    <3>6. s.order = req[r].order /\ s.op = req[r].op
      BY <1>1 DEF RequestStates
    <3>7. UNCHANGED <<shelf, order, history, counts, aborts>>
      BY <1>5 DEF InsertOrder
    <3> HIDE DEF s
    <3> QED
      BY <2>1, <3>1, <3>2, <3>5, <3>6, <3>7, SoundUnmoved
  <2> QED
    BY <1>5, <2>2, <2>3 DEF InsertOrder
<1> QED
  BY <1>2, <1>3, <1>4, <1>5

LEMMA SoundTransition ==
    ASSUME Sound, NEW r \in Requests, NEW o \in Orders, NEW to \in OrderStatuses,
           req[r].at = "idle", status[o] # "absent", BeginTransition(r, o, to)
    PROVE  Sound'
<1> USE DEF Sound
<1> DEFINE s == Started(IF Movement(to) = "none" THEN "close" ELSE "move", Movement(to), o, to)
<1>1. /\ BeginTransition(r, o, to)
      /\ req[r].at = "idle" /\ status[o] # "absent"
  OBVIOUS
<1>2. /\ req' = [req EXCEPT ![r] = s]
      /\ UNCHANGED <<shelf, order, history, counts, aborts>>
  BY <1>1 DEF BeginTransition
<1>3. s \in RequestStates /\ s.op # "reserve" /\ s.order = o
  BY DEF Started, Movement, RequestStates
<1>4. Len(Lines[o]) \in Nat \ {0}
  BY LinesNonEmpty
<1>5. Working(r)'
  <2>1. req'[r] = s /\ status' = status
    BY <1>2 DEF TypeOK
  <2> QED
    BY <1>1, <1>4, <2>1 DEF Working, Started, Movement
<1>6. NumbersHeld'
  <2>1. Placed' = Placed
    BY <1>2 DEF Placed
  <2>2. req'[r] = s /\ s.at # "insert" /\ \A q \in Requests \ {r} : req'[q] = req[q]
    BY <1>2 DEF TypeOK, Started
  <2> HIDE DEF s
  <2> QED
    BY <1>3, <2>1, <2>2, StillNumbersHeld
<1> QED
  BY <1>1, <1>2, <1>3, <1>5, <1>6, SoundUnmoved

LEMMA SoundRollBack ==
    ASSUME Sound, NEW r \in Requests, RollBack(r), aborts' \in 0 .. MaxAborts
    PROVE  Sound'
<1> USE DEF Sound
<1>1. req' = [req EXCEPT ![r] = Resting] /\ Resting \in RequestStates /\ Resting.at = "idle"
  BY RestingTyped DEF RollBack, Rest
<1>2. TypeOK'
  BY <1>1 DEF TypeOK, RollBack
<1>3. RequestsWork' /\ SoleCreator'
  BY <1>1, OthersWork, StillSoleCreator DEF RollBack, TypeOK
<1>4. LocksHeld'
  BY <1>1, Parameters DEF LocksHeld, RollBack, TypeOK
<1>5. Placed' = Placed /\ OrderNumbersSequential'
  BY DEF RollBack, Placed, OrderNumbersSequential
<1>6. NumbersHeld'
  BY <1>1, <1>5 DEF NumbersHeld, TypeOK
<1> QED
  BY <1>2, <1>3, <1>4, <1>5, <1>6

LEMMA SoundMove ==
    ASSUME Sound, NEW r \in Requests, MoveLine(r)
    PROVE  Sound'
<1> USE DEF Sound
<1> DEFINE p == Line(r).product
           q == Line(r).quantity
           op == req[r].op
<1>1. req[r].at = "move" /\ Working(r) /\ req[r] \in RequestStates
  BY DEF MoveLine, RequestsWork, TypeOK
<1>2. p \in Products /\ q \in Nat \ {0}
  BY <1>1, LinesTyped DEF Working, Line
<1>3. /\ UNCHANGED <<visible, order, history, counts, aborts>>
      /\ \A u \in Requests \ {r} : req'[u] = req[u]
      /\ req' \in [Requests -> RequestStates]
      /\ req'[r].at \in {"move", "close"}
      /\ req'[r].line \in 1 .. Len(Lines[req[r].order])
      /\ req'[r].order = req[r].order /\ req'[r].op = op
      /\ req'[r].to = req[r].to /\ req'[r].number = req[r].number
  <2> DEFINE n == NextLine(r, "close")
  <2>1. /\ n \in RequestStates /\ n.at \in {"move", "close"}
        /\ n.line \in 1 .. Len(Lines[req[r].order])
        /\ n.order = req[r].order /\ n.op = op
        /\ n.to = req[r].to /\ n.number = req[r].number
    BY <1>1, NextLineTyped
  <2>2. PICK x \in RequestStates : x = n
    BY <2>1
  <2>3. PICK b \in SUBSET Products : b = x.missed \cup {p}
    BY <1>2, <2>2 DEF RequestStates
  <2>4. [x EXCEPT !.missed = b] \in RequestStates
    BY DEF RequestStates
  <2>5. \/ req' = [req EXCEPT ![r] = x]
        \/ req' = [req EXCEPT ![r] = [x EXCEPT !.missed = b]]
    BY <2>2, <2>3 DEF MoveLine
  <2> HIDE DEF n
  <2>6. /\ req' \in [Requests -> RequestStates]
        /\ \A u \in Requests \ {r} : req'[u] = req[u]
        /\ req'[r] = x \/ req'[r] = [x EXCEPT !.missed = b]
    BY <2>4, <2>5 DEF TypeOK
  <2>7. UNCHANGED <<visible, order, history, counts, aborts>>
    BY DEF MoveLine
  <2> QED
    BY <2>1, <2>2, <2>4, <2>6, <2>7 DEF RequestStates
<1>4. \/ UNCHANGED <<stock, writer>>
      \/ /\ writer[p] \in {r, NoRequest}
         /\ Matches(op, stock[p], q)
         /\ writer' = [writer EXCEPT ![p] = r]
         /\ stock' = [stock EXCEPT ![p] = Moved(op, @, q)]
  BY <1>2 DEF MoveLine, Sees, LocksHeld
<1>5. op \in {"reserve", "release", "sell"}
  BY <1>1 DEF Working, RequestStates
<1>6. Matches(op, stock[p], q) =>
        Moved(op, stock[p], q) \in [available : Nat, reserved : Nat, sold : Nat]
  BY <1>2, <1>5 DEF TypeOK, Matches, Moved
<1>7. TypeOK'
  <2>1. /\ stock' \in [Products -> [available : Nat, reserved : Nat, sold : Nat]]
        /\ writer' \in [Products -> Requests \cup {NoRequest}]
    <3>1. CASE UNCHANGED <<stock, writer>>
      BY <3>1 DEF TypeOK
    <3>2. CASE /\ Matches(op, stock[p], q)
               /\ writer' = [writer EXCEPT ![p] = r]
               /\ stock' = [stock EXCEPT ![p] = Moved(op, @, q)]
      <4>1. PICK x \in [available : Nat, reserved : Nat, sold : Nat] : x = Moved(op, stock[p], q)
        BY <1>6, <3>2
      <4>2. stock' = [stock EXCEPT ![p] = x]
        BY <3>2, <4>1
      <4>3. stock \in [Products -> [available : Nat, reserved : Nat, sold : Nat]]
        BY DEF TypeOK
      <4>4. stock' \in [Products -> [available : Nat, reserved : Nat, sold : Nat]]
        BY <4>1, <4>2, <4>3
      <4>5. writer' \in [Products -> Requests \cup {NoRequest}]
        BY <3>2 DEF TypeOK
      <4> QED
        BY <4>4, <4>5
    <3> QED
      BY <1>4, <3>1, <3>2
  <2> QED
    BY <1>3, <2>1 DEF TypeOK
<1>8. RequestsWork'
  <2>1. Working(r)'
    BY <1>1, <1>3, <1>5 DEF Working
  <2> QED
    BY <1>3, <2>1, OthersWork
<1>9. LocksHeld'
  <2> DEFINE AtTheirLines == {u \in Requests : req[u].at \in {"move", "close"}}
  <2>3. r \in AtTheirLines /\ \A u \in AtTheirLines : req'[u].at \in {"move", "close"}
    BY <1>1, <1>3
  <2>4. \A u \in Products : writer[u] # NoRequest => writer[u] \in AtTheirLines
    BY DEF LocksHeld, TypeOK
  <2> HIDE DEF AtTheirLines
  <2>1. CASE UNCHANGED <<stock, writer>>
    BY <1>3, <2>1, <2>3, <2>4 DEF LocksHeld
  <2>2. CASE /\ writer[p] \in {r, NoRequest}
             /\ writer' = [writer EXCEPT ![p] = r]
             /\ stock' = [stock EXCEPT ![p] = Moved(op, @, q)]
    <3>1. ASSUME NEW u \in Products, writer'[u] = NoRequest PROVE stock'[u] = visible'[u]
      BY <1>2, <1>3, <2>2, <3>1, Parameters DEF LocksHeld, TypeOK
    <3>2. ASSUME NEW u \in Products, writer'[u] # NoRequest
          PROVE  req'[writer'[u]].at \in {"move", "close"}
      BY <1>2, <2>2, <2>3, <2>4, <3>2 DEF TypeOK
    <3> QED
      BY <3>1, <3>2 DEF LocksHeld
  <2> QED
    BY <1>4, <2>1, <2>2
<1>10. SoleCreator' /\ OrderNumbersSequential'
  <2>1. SoleCreator'
    BY <1>1, <1>3, StillSoleCreator
  <2>2. OrderNumbersSequential'
    BY <1>3 DEF OrderNumbersSequential, Placed
  <2> QED
    BY <2>1, <2>2
<1>11. NumbersHeld'
  <2>1. Placed' = Placed
    BY <1>3 DEF Placed
  <2> QED
    BY <1>1, <1>3, <2>1, StillNumbersHeld
<1> QED
  BY <1>7, <1>8, <1>9, <1>10, <1>11

LEMMA SoundCommit ==
    ASSUME Sound, NEW r \in Requests, CommitCreate(r) \/ CommitTransition(r)
    PROVE  Sound'
<1> USE DEF Sound
<1> DEFINE o == req[r].order
<1>1. /\ req[r].at = "close" /\ Working(r) /\ req[r] \in RequestStates /\ o \in Orders
      /\ Commit(r)
  BY DEF CommitCreate, CommitTransition, RequestsWork, Working, TypeOK
<1>2. req' = [req EXCEPT ![r] = Resting] /\ Resting \in RequestStates /\ Resting.at = "idle"
  BY <1>1, RestingTyped DEF Commit, Rest
<1>3. /\ visible' \in [Products -> [available : Nat, reserved : Nat, sold : Nat]]
      /\ writer' \in [Products -> Requests \cup {NoRequest}]
      /\ UNCHANGED <<stock, counted, counts, aborts>>
  BY <1>1 DEF Commit, TypeOK
<1>4. LocksHeld'
  <2>1. ASSUME NEW p \in Products, writer'[p] = NoRequest PROVE stock'[p] = visible'[p]
    BY <1>1, <2>1 DEF LocksHeld, Commit, TypeOK
  <2>2. ASSUME NEW p \in Products, writer'[p] # NoRequest
        PROVE  req'[writer'[p]].at \in {"move", "close"}
    <3>1. writer'[p] = writer[p] /\ writer[p] \in Requests \ {r}
      BY <1>1, <2>2 DEF Commit, TypeOK
    <3>2. req'[writer'[p]] = req[writer[p]]
      BY <1>2, <3>1 DEF TypeOK
    <3> QED
      BY <3>1, <3>2, Parameters DEF LocksHeld
  <2> QED
    BY <2>1, <2>2 DEF LocksHeld
<1>5. SoleCreator'
  BY <1>2, StillSoleCreator DEF TypeOK
<1>6. CASE CommitTransition(r)
  <2>1. Placed' = Placed /\ UNCHANGED number
    BY <1>1, <1>6 DEF CommitTransition, Placed, Working, OrderStatuses, TypeOK
  <2>2. TypeOK'
    BY <1>1, <1>2, <1>3, <1>6 DEF CommitTransition, TypeOK, Working, RequestStates
  <2>3. RequestsWork'
    <3>1. \A u \in Orders : status'[u] = "absent" <=> status[u] = "absent"
      BY <2>1 DEF Placed
    <3>2. \A q \in Requests \ {r} : req[q].at # "idle" => req[q].order \in Orders
      BY DEF RequestsWork, Working
    <3>3. req'[r].at = "idle" /\ \A q \in Requests \ {r} : req'[q] = req[q]
      BY <1>2 DEF TypeOK
    <3> QED
      BY <3>1, <3>2, <3>3, OthersWork
  <2>4. OrderNumbersSequential' /\ NumbersHeld'
    BY <1>2, <2>1 DEF OrderNumbersSequential, NumbersHeld, TypeOK
  <2> QED
    BY <1>4, <1>5, <2>2, <2>3, <2>4
<1>7. CASE CommitCreate(r)
  <2>1. /\ req[r].op = "reserve" /\ o \notin Placed
        /\ req[r].number = Cardinality(Placed) + 1 /\ req[r].number \in Nat
    BY <1>1, <1>7 DEF CommitCreate, Working, Placed, NumbersHeld, RequestStates
  <2>2. /\ Placed' = Placed \cup {o}
        /\ number' = [number EXCEPT ![o] = Cardinality(Placed) + 1]
    BY <1>1, <1>7, <2>1 DEF CommitCreate, Placed, TypeOK
  <2>3. Cardinality(Placed') = Cardinality(Placed) + 1 /\ Cardinality(Placed) \in Nat
    BY <2>1, <2>2, PlacedFinite, FS_AddElement
  <2>4. TypeOK'
    <3>1. totalOrders' \in [Contacts -> Nat]
      <4>1. PICK c \in Contacts : c = Buyer[o]
        BY <1>1, Parameters
      <4>2. totalOrders' = [totalOrders EXCEPT ![c] = totalOrders[c] + 1]
        BY <1>7, <4>1 DEF CommitCreate, CountedOrders
      <4> QED
        BY <4>2 DEF TypeOK
    <3>2. short' \subseteq Orders \X Products
      <4>1. req[r].missed \subseteq Products
        BY <1>1 DEF RequestStates
      <4>2. short' = short \cup ({o} \X req[r].missed)
        BY <1>7 DEF CommitCreate
      <4> QED
        BY <1>1, <4>1, <4>2 DEF TypeOK
    <3>3. number' \in [Orders -> Nat] /\ status' \in [Orders -> OrderStatuses \cup {"absent"}]
      <4>1. PICK n \in Nat : n = Cardinality(Placed) + 1
        BY PlacedFinite
      <4>2. number' = [number EXCEPT ![o] = n] /\ status' = [status EXCEPT ![o] = "PENDING"]
        BY <1>7, <2>2, <4>1 DEF CommitCreate
      <4> QED
        BY <4>2 DEF TypeOK, OrderStatuses
    <3>4. req' \in [Requests -> RequestStates] /\ UNCHANGED fate
      BY <1>2, <1>7 DEF CommitCreate, TypeOK
    <3> QED
      BY <1>3, <3>1, <3>2, <3>3, <3>4 DEF TypeOK
  <2>5. RequestsWork'
    <3>1. \A q \in Requests \ {r} : req[q].at # "idle" => req[q].order # o
      BY <1>1, <2>1 DEF SoleCreator
    <3>2. \A u \in Orders \ {o} : status'[u] = status[u]
      BY <1>7 DEF CommitCreate, TypeOK
    <3>3. \A q \in Requests \ {r} : req[q].at # "idle" => status'[req[q].order] = status[req[q].order]
      BY <3>1, <3>2 DEF RequestsWork, Working
    <3>4. req'[r].at = "idle" /\ \A q \in Requests \ {r} : req'[q] = req[q]
      BY <1>2 DEF TypeOK
    <3> QED
      BY <3>3, <3>4, OthersWork
  <2>6. OrderNumbersSequential'
    <3>1. {number'[u] : u \in Placed'} = {number[u] : u \in Placed} \cup {Cardinality(Placed) + 1}
      <4>1. number'[o] = Cardinality(Placed) + 1
        BY <1>1, <2>2 DEF TypeOK
      <4>2. \A u \in Placed : number'[u] = number[u]
        BY <2>1, <2>2 DEF Placed, TypeOK
      <4> QED
        BY <2>2, <4>1, <4>2
    <3>2. 1 .. (Cardinality(Placed) + 1) = 1 .. Cardinality(Placed) \cup {Cardinality(Placed) + 1}
      BY <2>3
    <3>3. \A u \in Placed : number[u] # Cardinality(Placed) + 1
      <4>1. {number[u] : u \in Placed} = 1 .. Cardinality(Placed)
        BY DEF OrderNumbersSequential
      <4>2. \A u \in Placed : number[u] \in 1 .. Cardinality(Placed)
        BY <4>1
      <4> QED
        BY <2>3, <4>2
    <3>4. \A u, v \in Placed' : number'[u] = number'[v] => u = v
      <4>1. number'[o] = Cardinality(Placed) + 1
        BY <1>1, <2>2 DEF TypeOK
      <4>2. \A u \in Placed : number'[u] = number[u]
        BY <2>1, <2>2 DEF Placed, TypeOK
      <4> QED
        BY <2>2, <3>3, <4>1, <4>2 DEF OrderNumbersSequential
    <3> QED
      BY <2>3, <3>1, <3>2, <3>4 DEF OrderNumbersSequential
  <2>7. NumbersHeld'
    BY <1>1, <1>2, <1>7, <2>1, <2>3 DEF NumbersHeld, TypeOK, CommitCreate
  <2> QED
    BY <1>4, <1>5, <2>4, <2>5, <2>6, <2>7
<1> QED
  BY <1>6, <1>7

\* What Sound says of requests and order numbers rests on three variables.
LEMMA OthersUnchanged ==
    ASSUME Sound, UNCHANGED <<req, status, number>>
    PROVE  RequestsWork' /\ SoleCreator' /\ OrderNumbersSequential' /\ NumbersHeld'
<1> USE DEF Sound
<1>1. RequestsWork'
  BY DEF RequestsWork, Working
<1>2. SoleCreator'
  BY DEF SoleCreator
<1>3. Placed' = Placed
  BY DEF Placed
<1>4. OrderNumbersSequential'
  BY <1>3 DEF OrderNumbersSequential
<1>5. NumbersHeld'
  BY <1>3 DEF NumbersHeld
<1> QED
  BY <1>1, <1>2, <1>4, <1>5

LEMMA SoundByHand ==
    ASSUME Sound, NEW p \in Products,
           \/ \E n \in 0 .. MaxUnits : setAvailable(p, n)
           \/ \E d \in -MaxUnits .. MaxUnits : adjustAvailable(p, d)
    PROVE  Sound'
<1> USE DEF Sound
<1>1. /\ UNCHANGED <<writer, order, req, fate, short, aborts>>
      /\ writer[p] = NoRequest /\ stock[p] = visible[p]
      /\ counts' \in 0 .. MaxCounts
  <2>1. /\ UNCHANGED <<writer, order, req, fate, short, aborts>>
        /\ writer[p] = NoRequest /\ counts < MaxCounts /\ counts' = counts + 1
    BY DEF setAvailable, adjustAvailable
  <2>2. stock[p] = visible[p]
    BY <2>1 DEF LocksHeld
  <2> QED
    BY <2>1, <2>2, Parameters DEF TypeOK
<1>2. PICK n \in Nat : /\ stock' = [stock EXCEPT ![p].available = n]
                       /\ visible' = [visible EXCEPT ![p].available = n]
                       /\ counted' = [counted EXCEPT ![p] = @ + n - stock[p].available]
  <2>1. CASE \E n \in 0 .. MaxUnits : setAvailable(p, n)
    <3>1. PICK n \in 0 .. MaxUnits : setAvailable(p, n)
      BY <2>1
    <3>2. n \in Nat
      BY Parameters
    <3> QED
      BY <3>1, <3>2 DEF setAvailable
  <2>2. CASE \E d \in -MaxUnits .. MaxUnits : adjustAvailable(p, d)
    <3>1. PICK d \in -MaxUnits .. MaxUnits : adjustAvailable(p, d)
      BY <2>2
    <3>2. stock[p].available \in Nat /\ d \in Int
      BY <3>1, Parameters DEF TypeOK
    <3>3. stock[p].available + d \in Nat
      BY <1>1, <3>1, <3>2 DEF adjustAvailable, AdjustMatches
    <3>4. PICK n \in Nat : n = stock[p].available + d
      BY <3>3
    <3>5. counted' = [counted EXCEPT ![p] = @ + n - stock[p].available]
      <4>1. counted[p] + d = counted[p] + n - stock[p].available
        BY <3>2, <3>4 DEF TypeOK
      <4> QED
        BY <3>1, <4>1 DEF adjustAvailable
    <3>6. /\ stock' = [stock EXCEPT ![p].available = n]
          /\ visible' = [visible EXCEPT ![p].available = n]
      BY <1>1, <3>1, <3>4 DEF adjustAvailable
    <3> QED
      BY <3>5, <3>6
  <2> QED
    BY <2>1, <2>2
<1>3. TypeOK'
  <2>1. /\ stock' \in [Products -> [available : Nat, reserved : Nat, sold : Nat]]
        /\ visible' \in [Products -> [available : Nat, reserved : Nat, sold : Nat]]
    <3> DEFINE Row == [available : Nat, reserved : Nat, sold : Nat]
    <3>1. stock \in [Products -> Row] /\ visible \in [Products -> Row]
      BY DEF TypeOK
    <3>2. PICK x \in Row, y \in Row : /\ x = [stock[p] EXCEPT !.available = n]
                                     /\ y = [visible[p] EXCEPT !.available = n]
      BY <3>1
    <3>3. stock' = [stock EXCEPT ![p] = x] /\ visible' = [visible EXCEPT ![p] = y]
      BY <1>2, <3>2
    <3> HIDE DEF Row
    <3> QED
      BY <3>1, <3>2, <3>3 DEF Row
  <2>2. counted' \in [Products -> Int]
    BY <1>2 DEF TypeOK
  <2> QED
    BY <1>1, <2>1, <2>2 DEF TypeOK
<1>4. LocksHeld'
  BY <1>1, <1>2 DEF TypeOK, LocksHeld
<1>5. UNCHANGED <<req, status, number>>
  BY <1>1
<1> QED
  BY <1>3, <1>4, <1>5, OthersUnchanged

LEMMA SoundStutter == Sound /\ UNCHANGED vars => Sound'
<1> SUFFICES ASSUME Sound, UNCHANGED vars PROVE Sound'
  OBVIOUS
<1>1. TypeOK'
  BY DEF Sound, TypeOK, vars
<1>2. LocksHeld'
  BY DEF Sound, LocksHeld, vars
<1>3. UNCHANGED <<req, status, number>>
  BY DEF vars
<1> QED
  BY <1>1, <1>2, <1>3, OthersUnchanged DEF Sound

LEMMA SoundStep == Sound /\ [Next]_vars => Sound'
<1> SUFFICES ASSUME Sound, [Next]_vars PROVE Sound'
  OBVIOUS
<1>1. ASSUME NEW r \in Requests, CreateStep(r) PROVE Sound'
  BY <1>1, SoundCreate, SoundCommit DEF CreateStep
<1>2. ASSUME NEW r \in Requests, TransitionStep(r) PROVE Sound'
  <2>1. "CANCELLED" \in OrderStatuses /\ Asked \subseteq OrderStatuses
    BY Parameters DEF OrderStatuses
  <2>2. CASE \E o \in Orders, to \in Asked : updateOrderStatus(r, o, to)
    <3>1. PICK o \in Orders, to \in OrderStatuses : updateOrderStatus(r, o, to)
      BY <2>1, <2>2
    <3> QED
      BY <3>1, SoundTransition DEF updateOrderStatus
  <2>3. CASE \E o \in Orders : cancelOrder(r, o)
    BY <2>1, <2>3, SoundTransition DEF cancelOrder
  <2> QED
    BY <1>2, <2>2, <2>3, SoundCommit DEF TransitionStep
<1>3. ASSUME NEW r \in Requests, Abort(r) \/ DeadlockVictim(r) PROVE Sound'
  <2>1. RollBack(r)
    BY <1>3 DEF Abort, DeadlockVictim
  <2>2. aborts' \in 0 .. MaxAborts
    BY <1>3, Parameters DEF Abort, DeadlockVictim, Sound, TypeOK
  <2> QED
    BY <2>1, <2>2, SoundRollBack
<1>4. ASSUME NEW p \in Products,
             \/ \E n \in 0 .. MaxUnits : setAvailable(p, n)
             \/ \E d \in -MaxUnits .. MaxUnits : adjustAvailable(p, d)
      PROVE  Sound'
  BY <1>4, SoundByHand
<1>5. ASSUME NEW r \in Requests, MoveLine(r) PROVE Sound'
  BY <1>5, SoundMove
<1>6. CASE UNCHANGED vars
  BY <1>6, SoundStutter
<1> QED
  BY <1>1, <1>2, <1>3, <1>4, <1>5, <1>6 DEF Next

-----------------------------------------------------------------------------
(* Types, with every count of units a natural number: the gte filters keep *)
(* the shelf from going negative under every interleaving.                 *)
THEOREM TypeCorrect == Spec => []TypeOK
<1>1. Sound => TypeOK
  BY DEF Sound
<1> QED
  BY <1>1, SoundInit, SoundStep, PTL DEF Spec

(* Order numbers are 1, 2, ... without a repetition or a gap.              *)
THEOREM OrderNumbersSequentialHolds == Spec => []OrderNumbersSequential
<1>1. Sound => OrderNumbersSequential
  BY DEF Sound
<1> QED
  BY <1>1, SoundInit, SoundStep, PTL DEF Spec

-----------------------------------------------------------------------------
(***************************************************************************)
(* Units are conserved in the newest and in the committed version of every *)
(* row; the committed one alone is not inductive, since a commit publishes *)
(* the newest.                                                             *)
(***************************************************************************)
LEMMA ConservedMove ==
    ASSUME Sound, BothConserved, NEW r \in Requests, MoveLine(r)
    PROVE  BothConserved'
<1> USE DEF Sound
<1> DEFINE p == Line(r).product
           q == Line(r).quantity
           op == req[r].op
<1>1. Working(r) /\ op \in {"reserve", "release", "sell"}
  BY DEF MoveLine, RequestsWork, Working, TypeOK, RequestStates
<1>2. p \in Products /\ q \in Nat
  BY <1>1, LinesTyped DEF Working, Line
<1>3. UNCHANGED <<visible, counted>>
  BY DEF MoveLine
<1>4. UNCHANGED stock \/ stock' = [stock EXCEPT ![p] = Moved(op, @, q)]
  BY DEF MoveLine
<1>5. Total(Moved(op, stock[p], q)) = Total(stock[p])
  BY <1>1, <1>2 DEF Total, Moved, TypeOK
<1> QED
  BY <1>2, <1>3, <1>4, <1>5 DEF BothConserved, TypeOK

LEMMA ConservedByHand ==
    ASSUME Sound, BothConserved, NEW p \in Products, NEW n \in Int,
           writer[p] = NoRequest,
           stock' = [stock EXCEPT ![p].available = n],
           visible' = [visible EXCEPT ![p].available = n],
           counted' = [counted EXCEPT ![p] = @ + n - stock[p].available]
    PROVE  BothConserved'
<1>1. stock[p] = visible[p] /\ counted[p] \in Int
  BY DEF Sound, LocksHeld, TypeOK
<1>2. counted'[p] = n + stock[p].reserved + stock[p].sold
  BY <1>1 DEF BothConserved, Total, Sound, TypeOK
<1>3. Total(stock'[p]) = counted'[p] /\ Total(visible'[p]) = counted'[p]
  BY <1>1, <1>2 DEF Total, Sound, TypeOK
<1> QED
  BY <1>3 DEF BothConserved, Sound, TypeOK

LEMMA ConservedStep == Sound /\ BothConserved /\ [Next]_vars => BothConserved'
<1> SUFFICES ASSUME Sound, BothConserved, [Next]_vars PROVE BothConserved'
  OBVIOUS
<1>1. CASE UNCHANGED <<stock, visible, counted>>
  BY <1>1 DEF BothConserved
<1>2. ASSUME NEW r \in Requests, RollBack(r) PROVE BothConserved'
  BY <1>2 DEF RollBack, BothConserved, Sound, TypeOK
<1>3. ASSUME NEW r \in Requests, Commit(r) PROVE BothConserved'
  BY <1>3 DEF Commit, BothConserved, Sound, TypeOK
<1>4. ASSUME NEW p \in Products, NEW n \in 0 .. MaxUnits, setAvailable(p, n) PROVE BothConserved'
  <2>1. n \in Int
    BY Parameters
  <2>2. /\ writer[p] = NoRequest
        /\ stock' = [stock EXCEPT ![p].available = n]
        /\ visible' = [visible EXCEPT ![p].available = n]
        /\ counted' = [counted EXCEPT ![p] = @ + n - stock[p].available]
    BY <1>4 DEF setAvailable
  <2> QED
    BY <2>1, <2>2, ConservedByHand
<1>5. ASSUME NEW p \in Products, NEW d \in -MaxUnits .. MaxUnits, adjustAvailable(p, d)
      PROVE  BothConserved'
  <2>1. /\ d \in Int /\ stock[p] = visible[p] /\ writer[p] = NoRequest
        /\ stock[p].available \in Int /\ counted[p] \in Int
    BY <1>5, Parameters DEF adjustAvailable, Sound, LocksHeld, TypeOK
  <2>2. PICK n \in Int : n = stock[p].available + d
    BY <2>1
  <2>3. counted[p] + d = counted[p] + n - stock[p].available
    BY <2>1, <2>2
  <2>4. /\ stock' = [stock EXCEPT ![p].available = n]
        /\ visible' = [visible EXCEPT ![p].available = n]
        /\ counted' = [counted EXCEPT ![p] = @ + n - stock[p].available]
    BY <1>5, <2>1, <2>2, <2>3 DEF adjustAvailable
  <2> QED
    BY <2>1, <2>4, ConservedByHand
<1>6. ASSUME NEW r \in Requests, CreateStep(r) \/ TransitionStep(r) PROVE BothConserved'
  <2>1. CASE CommitCreate(r) \/ CommitTransition(r)
    BY <1>3, <2>1 DEF CommitCreate, CommitTransition
  <2>2. CASE ~(CommitCreate(r) \/ CommitTransition(r))
    BY <1>1, <1>6, <2>2 DEF CreateStep, TransitionStep, BeginCreate, CheckLine,
      generateOrderNumber, InsertOrder, updateOrderStatus, cancelOrder, BeginTransition
  <2> QED
    BY <2>1, <2>2
<1>7. ASSUME NEW r \in Requests, Abort(r) \/ DeadlockVictim(r) PROVE BothConserved'
  BY <1>2, <1>7 DEF Abort, DeadlockVictim
<1>8. ASSUME NEW r \in Requests, MoveLine(r) PROVE BothConserved'
  BY <1>8, ConservedMove
<1>9. CASE UNCHANGED vars
  BY <1>1, <1>9 DEF vars
<1> QED
  BY <1>4, <1>5, <1>6, <1>7, <1>8, <1>9 DEF Next

(* Units are neither made nor lost, however transactions interleave,       *)
(* repeat or abort.                                                        *)
THEOREM UnitsConservedHolds == Spec => []UnitsConserved
<1>1. Init => BothConserved
  BY DEF Init, BothConserved, Total
<1>2. BothConserved => UnitsConserved
  BY DEF BothConserved, UnitsConserved, Total
<1> QED
  BY <1>1, <1>2, SoundInit, SoundStep, ConservedStep, PTL DEF Spec

-----------------------------------------------------------------------------
LEMMA AggregatesStep ==
    Sound /\ ContactAggregatesAgree /\ [Next]_vars => ContactAggregatesAgree'
<1> SUFFICES ASSUME Sound, ContactAggregatesAgree, [Next]_vars PROVE ContactAggregatesAgree'
  OBVIOUS
<1> USE DEF Sound
<1>1. CASE Placed' = Placed /\ UNCHANGED totalOrders
  BY <1>1 DEF ContactAggregatesAgree, PlacedBy
<1>2. CASE UNCHANGED <<status, totalOrders>>
  BY <1>1, <1>2 DEF Placed
<1>3. ASSUME NEW r \in Requests, CommitCreate(r) PROVE ContactAggregatesAgree'
  <2> DEFINE o == req[r].order
  <2>1. o \in Orders \ Placed
    BY <1>3 DEF CommitCreate, RequestsWork, Working, Placed
  <2>2. Placed' = Placed \cup {o}
    BY <1>3, <2>1 DEF CommitCreate, Placed, TypeOK
  <2>3. PICK b \in Contacts : b = Buyer[o]
    BY <2>1, Parameters
  <2>4. totalOrders' = [totalOrders EXCEPT ![b] = totalOrders[b] + 1]
    BY <1>3, <2>3 DEF CommitCreate, CountedOrders
  <2>5. ASSUME NEW c \in Contacts PROVE totalOrders'[c] = Cardinality(PlacedBy(c)')
    <3>1. CASE c = b
      <4>1. PlacedBy(c)' = PlacedBy(c) \cup {o} /\ o \notin PlacedBy(c)
        BY <2>1, <2>2, <2>3, <3>1 DEF PlacedBy
      <4>2. IsFiniteSet(PlacedBy(c))
        BY PlacedFinite, FS_Subset DEF PlacedBy
      <4>3. Cardinality(PlacedBy(c)') = Cardinality(PlacedBy(c)) + 1
        BY <4>1, <4>2, FS_AddElement
      <4> QED
        BY <2>4, <3>1, <4>3 DEF ContactAggregatesAgree, TypeOK
    <3>2. CASE c # b
      <4>1. PlacedBy(c)' = PlacedBy(c)
        BY <2>2, <2>3, <3>2 DEF PlacedBy
      <4> QED
        BY <2>4, <3>2, <4>1 DEF ContactAggregatesAgree, TypeOK
    <3> QED
      BY <3>1, <3>2
  <2> QED
    BY <2>5 DEF ContactAggregatesAgree
<1>4. ASSUME NEW r \in Requests, CommitTransition(r) PROVE ContactAggregatesAgree'
  <2>1. Placed' = Placed
    BY <1>4 DEF CommitTransition, RequestsWork, Working, Placed, OrderStatuses, TypeOK
  <2> QED
    BY <1>1, <1>4, <2>1 DEF CommitTransition
<1>5. ASSUME NEW r \in Requests, CreateStep(r) \/ TransitionStep(r) PROVE ContactAggregatesAgree'
  <2>1. CASE CommitCreate(r) \/ CommitTransition(r)
    BY <1>3, <1>4, <2>1
  <2>2. CASE ~(CommitCreate(r) \/ CommitTransition(r))
    BY <1>2, <1>5, <2>2 DEF CreateStep, TransitionStep, BeginCreate, CheckLine,
      generateOrderNumber, InsertOrder, updateOrderStatus, cancelOrder, BeginTransition
  <2> QED
    BY <2>1, <2>2
<1>6. ASSUME NEW r \in Requests, Abort(r) \/ DeadlockVictim(r) \/ MoveLine(r)
      PROVE  ContactAggregatesAgree'
  BY <1>2, <1>6 DEF Abort, DeadlockVictim, RollBack, MoveLine
<1>7. ASSUME NEW p \in Products,
             \/ \E n \in 0 .. MaxUnits : setAvailable(p, n)
             \/ \E d \in -MaxUnits .. MaxUnits : adjustAvailable(p, d)
      PROVE  ContactAggregatesAgree'
  BY <1>2, <1>7 DEF setAvailable, adjustAvailable
<1>8. CASE UNCHANGED vars
  BY <1>2, <1>8 DEF vars
<1> QED
  BY <1>5, <1>6, <1>7, <1>8 DEF Next

(* A contact's totalOrders counts the orders placed for it.                *)
THEOREM ContactAggregatesAgreeHolds == Spec => []ContactAggregatesAgree
<1>1. Init => ContactAggregatesAgree
  <2>1. Init => \A c \in Contacts : PlacedBy(c) = {}
    BY DEF Init, PlacedBy, Placed
  <2> QED
    BY <2>1, FS_EmptySet DEF Init, ContactAggregatesAgree
<1> QED
  BY <1>1, SoundInit, SoundStep, AggregatesStep, PTL DEF Spec

-----------------------------------------------------------------------------
(***************************************************************************)
(* The shelf and the orders.  Units are counted as a set, line by line.    *)
(***************************************************************************)
CountOf(L) == Cardinality(UNION {UnitsOf(l) : l \in L})
QuantityOf(l) == Lines[l[1]][l[2]].quantity

LEMMA OrderLinesTyped ==
    ASSUME NEW l \in OrderLines
    PROVE  /\ l[1] \in Orders /\ l[2] \in 1 .. Len(Lines[l[1]]) /\ l = <<l[1], l[2]>>
           /\ Lines[l[1]][l[2]].product \in Products /\ QuantityOf(l) \in Nat \ {0}
<1>1. PICK o \in Orders : l \in {o} \X DOMAIN Lines[o]
  BY DEF OrderLines
<1>2. Lines[o] \in Seq([product : Products, quantity : Nat \ {0}])
  BY Parameters
<1>3. DOMAIN Lines[o] = 1 .. Len(Lines[o])
  BY <1>2
<1>4. l[1] = o /\ l[2] \in 1 .. Len(Lines[o]) /\ l = <<l[1], l[2]>>
  BY <1>1, <1>3
<1> QED
  BY <1>4, LinesTyped DEF QuantityOf

LEMMA LineOfOrder ==
    ASSUME NEW o \in Orders, NEW i \in 1 .. Len(Lines[o])
    PROVE  <<o, i>> \in OrderLines
<1>1. Lines[o] \in Seq([product : Products, quantity : Nat \ {0}])
  BY Parameters
<1>2. i \in DOMAIN Lines[o]
  BY <1>1
<1> QED
  BY <1>2 DEF OrderLines

LEMMA OrderLinesFinite == IsFiniteSet(OrderLines)
<1> DEFINE f == [o \in Orders |-> {o} \X DOMAIN Lines[o]]
           T == {{o} \X DOMAIN Lines[o] : o \in Orders}
<1>1. f \in Surjection(Orders, T)
  BY DEF Surjection
<1>2. IsFiniteSet(T)
  BY <1>1, Parameters, FS_Surjection
<1>3. ASSUME NEW o \in Orders PROVE IsFiniteSet({o} \X DOMAIN Lines[o])
  <2>1. Lines[o] \in Seq([product : Products, quantity : Nat \ {0}])
    BY Parameters
  <2>2. DOMAIN Lines[o] = 1 .. Len(Lines[o]) /\ Len(Lines[o]) \in Int
    BY <2>1
  <2>3. PICK n \in Int : n = Len(Lines[o])
    BY <2>2
  <2>4. IsFiniteSet(1 .. n)
    BY FS_Interval
  <2>5. IsFiniteSet({o})
    BY FS_Singleton
  <2>6. IsFiniteSet({o} \X (1 .. n))
    BY <2>4, <2>5, FS_Product
  <2> QED
    BY <2>2, <2>3, <2>6
<1>4. \A S \in T : IsFiniteSet(S)
  BY <1>3
<1> QED
  BY <1>2, <1>4, FS_UNION DEF OrderLines

LEMMA UnitsOfLine ==
    ASSUME NEW l \in OrderLines
    PROVE  IsFiniteSet(UnitsOf(l)) /\ Cardinality(UnitsOf(l)) = QuantityOf(l)
<1>1. PICK q \in Nat \ {0} : q = QuantityOf(l)
  BY OrderLinesTyped
<1>2. IsFiniteSet(1 .. q) /\ Cardinality(1 .. q) = q
  BY <1>1, FS_Interval
<1>3. IsFiniteSet({l}) /\ Cardinality({l}) = 1
  BY FS_Singleton
<1>4. /\ IsFiniteSet({l} \X (1 .. q))
      /\ Cardinality({l} \X (1 .. q)) = Cardinality({l}) * Cardinality(1 .. q)
  BY <1>2, <1>3, FS_Product
<1>5. 1 * q = q
  OBVIOUS
<1> QED
  BY <1>1, <1>2, <1>3, <1>4, <1>5 DEF UnitsOf, QuantityOf

LEMMA CountTyped ==
    ASSUME NEW L \in SUBSET OrderLines
    PROVE  IsFiniteSet(UNION {UnitsOf(l) : l \in L}) /\ CountOf(L) \in Nat
<1> DEFINE f == [l \in L |-> UnitsOf(l)]
           T == {UnitsOf(l) : l \in L}
<1>1. f \in Surjection(L, T)
  BY DEF Surjection
<1>2. IsFiniteSet(L)
  BY OrderLinesFinite, FS_Subset
<1>3. IsFiniteSet(T)
  BY <1>1, <1>2, FS_Surjection
<1>4. \A S \in T : IsFiniteSet(S)
  BY UnitsOfLine
<1> QED
  BY <1>3, <1>4, FS_UNION, FS_CardinalityType DEF CountOf

LEMMA CountNone == CountOf({}) = 0
<1>1. UNION {UnitsOf(l) : l \in {}} = {}
  OBVIOUS
<1> QED
  BY <1>1, FS_EmptySet DEF CountOf

LEMMA CountLine ==
    ASSUME NEW l \in OrderLines
    PROVE  CountOf({l}) = QuantityOf(l)
<1>1. UNION {UnitsOf(k) : k \in {l}} = UnitsOf(l)
  OBVIOUS
<1> QED
  BY <1>1, UnitsOfLine DEF CountOf

\* The units of different lines are different.
LEMMA CountDisjoint ==
    ASSUME NEW A \in SUBSET OrderLines, NEW B \in SUBSET OrderLines, A \cap B = {}
    PROVE  CountOf(A \cup B) = CountOf(A) + CountOf(B)
<1> DEFINE U == UNION {UnitsOf(l) : l \in A}
           V == UNION {UnitsOf(l) : l \in B}
<1>1. UNION {UnitsOf(l) : l \in A \cup B} = U \cup V
  OBVIOUS
<1>2. U \cap V = {}
  BY DEF UnitsOf
<1>3. IsFiniteSet(U) /\ IsFiniteSet(V) /\ Cardinality(U) \in Nat /\ Cardinality(V) \in Nat
  BY CountTyped, FS_CardinalityType
<1> HIDE DEF U, V
<1>4. Cardinality(U \cup V) = Cardinality(U) + Cardinality(V) - Cardinality(U \cap V)
  BY <1>3, FS_Union
<1>5. Cardinality(U \cap V) = 0
  BY <1>2, FS_EmptySet
<1>6. Cardinality(U \cup V) = Cardinality(U) + Cardinality(V)
  BY <1>3, <1>4, <1>5
<1> QED
  BY <1>1, <1>6 DEF CountOf, U, V

LEMMA CountWithin ==
    ASSUME NEW A \in SUBSET OrderLines, NEW B \in SUBSET A
    PROVE  CountOf(B) <= CountOf(A)
<1>1. A = B \cup (A \ B) /\ B \cap (A \ B) = {}
  OBVIOUS
<1>2. CountOf(A) = CountOf(B) + CountOf(A \ B)
  BY <1>1, CountDisjoint
<1>3. CountOf(B) \in Nat /\ CountOf(A \ B) \in Nat
  <2>1. B \in SUBSET OrderLines /\ A \ B \in SUBSET OrderLines
    OBVIOUS
  <2> QED
    BY <2>1, CountTyped
<1> QED
  BY <1>2, <1>3

LEMMA LinesOfTyped == \A S, p : LinesOf(S, p) \in SUBSET OrderLines
BY DEF LinesOf

\* The lines for p that a request has come past in its movements.
Done(r, p) ==
    {l \in LinesOf({req[r].order}, p) :
        req[r].at = "close" \/ (req[r].at = "move" /\ l[2] < req[r].line)}

Moving(r) == req[r].at \in {"move", "close"} /\ req[r].op # "none"

\* The requests that have moved every line for p they came past, or will be known not to have.
Exact(r, p) ==
    IF req[r].op = "reserve" THEN p \notin req[r].missed ELSE fate[req[r].order] = "none"

\* What the shelf looks like with n units moved from s.
Shifted(op, s, t, n) ==
    /\ t.reserved = IF op = "reserve" THEN s.reserved + n ELSE s.reserved - n
    /\ t.sold = IF op = "sell" THEN s.sold + n ELSE s.sold

Unfated == \A o \in Orders : status[o] = "absent" => fate[o] = "none"

FirstLine == \A r \in Requests : req[r].at \in {"number", "insert"} => req[r].line = 1

WritersMove ==
    \A p \in Products : writer[p] # NoRequest => Moving(writer[p]) /\ Done(writer[p], p) # {}

\* What an open transaction has done to a row is what its lines say.
MovesAgree ==
    \A r \in Requests, p \in Products :
        Regular(p) /\ Moving(r) /\ Exact(r, p) =>
            IF writer[p] = r
              THEN Shifted(req[r].op, visible[p], stock[p], CountOf(Done(r, p)))
              ELSE Done(r, p) = {}

ShelfSound == Unfated /\ FirstLine /\ WritersMove /\ MovesAgree /\ ShelfMatchesOrders

LEMMA LinesOfOne ==
    ASSUME NEW S, NEW o \in Orders \ S, NEW p
    PROVE  /\ LinesOf(S \cup {o}, p) = LinesOf(S, p) \cup LinesOf({o}, p)
           /\ LinesOf(S, p) \cap LinesOf({o}, p) = {}
BY DEF LinesOf

\* One more order: its lines are counted on top.
LEMMA UnitsWithOne ==
    ASSUME NEW S, NEW o \in Orders \ S, NEW p
    PROVE  Units(S \cup {o}, p) = Units(S, p) + CountOf(LinesOf({o}, p))
<1>1. Units(S \cup {o}, p) = CountOf(LinesOf(S \cup {o}, p)) /\ Units(S, p) = CountOf(LinesOf(S, p))
  BY DEF Units, CountOf
<1> QED
  BY <1>1, LinesOfOne, LinesOfTyped, CountDisjoint

LEMMA UnitsWithin ==
    ASSUME NEW S, NEW o \in S, NEW p
    PROVE  CountOf(LinesOf({o}, p)) <= Units(S, p)
<1>1. Units(S, p) = CountOf(LinesOf(S, p))
  BY DEF Units, CountOf
<1>2. LinesOf({o}, p) \in SUBSET LinesOf(S, p)
  BY DEF LinesOf
<1> QED
  BY <1>1, <1>2, LinesOfTyped, CountWithin

LEMMA UnitsTyped == \A S, p : Units(S, p) \in Nat
<1> SUFFICES ASSUME NEW S, NEW p PROVE Units(S, p) \in Nat
  OBVIOUS
<1>1. Units(S, p) = CountOf(LinesOf(S, p))
  BY DEF Units, CountOf
<1> QED
  BY <1>1, LinesOfTyped, CountTyped

\* Requests in R, to which a step did nothing, still agree with the shelf.
LEMMA OthersAgree ==
    ASSUME Sound, MovesAgree, NEW R \in SUBSET Requests,
           \A q \in R : req'[q] = req[q],
           \A p \in Products : Regular(p)' => Regular(p),
           \A o \in Orders : fate'[o] = "none" => fate[o] = "none",
           \A p \in Products, q \in R :
              /\ writer'[p] = q <=> writer[p] = q
              /\ writer[p] = q =>
                   /\ stock'[p].reserved = stock[p].reserved /\ stock'[p].sold = stock[p].sold
                   /\ visible'[p].reserved = visible[p].reserved /\ visible'[p].sold = visible[p].sold,
           NEW q \in R, NEW p \in Products,
           Regular(p)', Moving(q)', Exact(q, p)'
    PROVE  IF writer'[p] = q
             THEN Shifted(req[q].op, visible[p], stock[p], CountOf(Done(q, p)))'
             ELSE Done(q, p)' = {}
<1>1. Done(q, p)' = Done(q, p)
  BY DEF Done
<1>2. Moving(q) /\ req[q].order \in Orders
  BY DEF Moving, Sound, RequestsWork, Working
<1>3. Exact(q, p)
  BY <1>2 DEF Exact
<1>4. IF writer[p] = q THEN Shifted(req[q].op, visible[p], stock[p], CountOf(Done(q, p)))
                       ELSE Done(q, p) = {}
  BY <1>2, <1>3 DEF MovesAgree
<1>5. CASE writer[p] = q
  BY <1>1, <1>4, <1>5 DEF Shifted
<1>6. CASE writer[p] # q
  BY <1>1, <1>4, <1>6
<1> QED
  BY <1>5, <1>6

LEMMA StillMatches ==
    ASSUME ShelfMatchesOrders, UNCHANGED <<status, fate, short>>,
           \A p \in Products : visible'[p].reserved = visible[p].reserved
                             /\ visible'[p].sold = visible[p].sold
    PROVE  ShelfMatchesOrders'
<1>1. Holding' = Holding /\ Delivered' = Delivered
  BY DEF Placed, Holding, Delivered
<1>2. \A p : Units(Holding, p)' = Units(Holding, p) /\ Units(Delivered, p)' = Units(Delivered, p)
  BY <1>1 DEF Units, LinesOf, UnitsOf, OrderLines
<1>3. \A p \in Products : Regular(p)' <=> Regular(p)
  BY DEF Regular
<1> QED
  BY <1>2, <1>3 DEF ShelfMatchesOrders

LEMMA NotWriting ==
    ASSUME Sound, NEW r \in Requests, req[r].at \notin {"move", "close"}
    PROVE  \A p \in Products : writer[p] # r
BY Parameters DEF Sound, LocksHeld

LEMMA ShelfInit == Init => ShelfSound
<1> SUFFICES ASSUME Init PROVE ShelfSound
  OBVIOUS
<1>1. Unfated /\ FirstLine
  BY DEF Init, Unfated, FirstLine, Resting
<1>2. WritersMove /\ MovesAgree
  BY DEF Init, WritersMove, MovesAgree, Moving, Resting
<1>3. ShelfMatchesOrders
  <2>1. \A p : LinesOf({}, p) = {}
    BY DEF LinesOf
  <2>2. \A p : Units({}, p) = CountOf({})
    BY <2>1 DEF Units, CountOf
  <2>3. Holding = {} /\ Delivered = {}
    BY DEF Init, Placed, Holding, Delivered
  <2>4. \A p \in Products : visible[p].reserved = 0 /\ visible[p].sold = 0
    BY DEF Init
  <2> QED
    BY <2>2, <2>3, <2>4, CountNone DEF ShelfMatchesOrders
<1> QED
  BY <1>1, <1>2, <1>3 DEF ShelfSound

\* A request that has moved nothing yet goes on, or begins.
LEMMA ShelfUnmoved ==
    ASSUME Sound, ShelfSound, NEW r \in Requests,
           UNCHANGED <<shelf, order, history>>,
           \A q \in Requests \ {r} : req'[q] = req[q],
           req[r].at \notin {"move", "close"},
           req'[r].at \in {"number", "insert"} => req'[r].line = 1,
           \/ req'[r].at \notin {"move", "close"}
           \/ req'[r].at = "close" /\ req'[r].op = "none"
           \/ req'[r].at = "move" /\ req'[r].line = 1
    PROVE  ShelfSound'
<1> USE DEF ShelfSound
<1>1. Unfated' /\ FirstLine'
  BY DEF Unfated, FirstLine
<1>2. \A p \in Products : writer[p] # r
  BY NotWriting
<1>3. WritersMove'
  <2> SUFFICES ASSUME NEW p \in Products, writer[p] # NoRequest
               PROVE  Moving(writer[p])' /\ Done(writer[p], p)' # {}
    BY DEF WritersMove
  <2>1. PICK q \in Requests \ {r} : q = writer[p]
    BY <1>2 DEF Sound, TypeOK
  <2>2. Moving(q)' /\ Done(q, p)' # {}
    BY <2>1 DEF WritersMove, Moving, Done
  <2> QED
    BY <2>1, <2>2
<1>4. MovesAgree'
  <2> SUFFICES ASSUME NEW q \in Requests, NEW p \in Products,
                      Regular(p)', Moving(q)', Exact(q, p)'
               PROVE  IF writer'[p] = q
                        THEN Shifted(req[q].op, visible[p], stock[p], CountOf(Done(q, p)))'
                        ELSE Done(q, p)' = {}
    BY DEF MovesAgree
  <2>1. CASE q = r
    <3>1. req'[r].at = "move" /\ req'[r].line = 1
      BY <2>1 DEF Moving
    <3>2. Done(r, p)' = {}
      BY <3>1, OrderLinesTyped DEF Done, LinesOf
    <3> QED
      BY <1>2, <2>1, <3>2
  <2>2. CASE q # r
    <3>1. \A u \in Products : Regular(u)' => Regular(u)
      BY DEF Regular
    <3> QED
      BY <2>2, <3>1, OthersAgree
  <2> QED
    BY <2>1, <2>2
<1>5. ShelfMatchesOrders'
  BY StillMatches
<1> QED
  BY <1>1, <1>3, <1>4, <1>5

LEMMA ShelfCreate ==
    ASSUME Sound, ShelfSound, NEW r \in Requests,
           BeginCreate(r) \/ CheckLine(r) \/ generateOrderNumber(r) \/ InsertOrder(r)
    PROVE  ShelfSound'
<1>1. /\ UNCHANGED <<shelf, order, history>>
      /\ req[r].at \notin {"move", "close"}
      /\ req[r] \in RequestStates
  BY DEF BeginCreate, CheckLine, generateOrderNumber, InsertOrder, Sound, TypeOK
<1>2. \A q \in Requests \ {r} : req'[q] = req[q]
  BY DEF BeginCreate, CheckLine, generateOrderNumber, InsertOrder, Rest, Sound, TypeOK
<1>3. /\ req'[r].at \in {"number", "insert"} => req'[r].line = 1
      /\ req'[r].at # "close"
      /\ req'[r].at = "move" => req'[r].line = 1
  <2>1. CASE Rest(r)
    BY <2>1 DEF Rest, Resting, Sound, TypeOK
  <2>2. CASE BeginCreate(r)
    BY <2>2 DEF BeginCreate, Started, Sound, TypeOK
  <2>3. CASE CheckLine(r) /\ ~Rest(r)
    <3>1. req[r].at = "check" /\ req'[r] = NextLine(r, "number")
      BY <2>3 DEF CheckLine, Sound, TypeOK
    <3> QED
      BY <1>1, <3>1 DEF NextLine, RequestStates
  <2>4. CASE generateOrderNumber(r)
    BY <1>1, <2>4 DEF generateOrderNumber, Sound, TypeOK, ShelfSound, FirstLine, RequestStates
  <2>5. CASE InsertOrder(r) /\ ~Rest(r)
    BY <1>1, <2>5 DEF InsertOrder, Sound, TypeOK, ShelfSound, FirstLine, RequestStates
  <2> QED
    BY <2>1, <2>2, <2>3, <2>4, <2>5
<1> QED
  BY <1>1, <1>2, <1>3, ShelfUnmoved

LEMMA ShelfTransition ==
    ASSUME Sound, ShelfSound, NEW r \in Requests, NEW o, NEW to,
           req[r].at = "idle", BeginTransition(r, o, to)
    PROVE  ShelfSound'
<1>1. /\ \A q \in Requests \ {r} : req'[q] = req[q]
      /\ req'[r] = Started(IF Movement(to) = "none" THEN "close" ELSE "move", Movement(to), o, to)
  BY DEF BeginTransition, Sound, TypeOK
<1>2. /\ req'[r].line = 1
      /\ req'[r].at = IF req'[r].op = "none" THEN "close" ELSE "move"
  BY <1>1 DEF Started
<1> QED
  BY <1>1, <1>2, ShelfUnmoved DEF BeginTransition

\* What a movement does to the request that makes it.
LEMMA MoveLineShape ==
    ASSUME Sound, NEW r \in Requests, MoveLine(r)
    PROVE  /\ \A q \in Requests \ {r} : req'[q] = req[q]
           /\ req'[r].order = req[r].order /\ req'[r].op = req[r].op
           /\ IF req[r].line < Len(Lines[req[r].order])
                THEN req'[r].at = "move" /\ req'[r].line = req[r].line + 1
                ELSE req'[r].at = "close" /\ req'[r].line = 1
           /\ IF Matches(req[r].op, Sees(r, Line(r).product), Line(r).quantity)
                THEN req'[r].missed = req[r].missed
                ELSE req'[r].missed = req[r].missed \cup {Line(r).product}
<1>1. req[r].at = "move" /\ req[r] \in RequestStates
  BY DEF MoveLine, Sound, TypeOK
<1>2. PICK n : n = NextLine(r, "close")
  OBVIOUS
<1>3. /\ n \in RequestStates
      /\ n.order = req[r].order /\ n.op = req[r].op /\ n.missed = req[r].missed
      /\ IF req[r].line < Len(Lines[req[r].order])
           THEN n.at = "move" /\ n.line = req[r].line + 1
           ELSE n.at = "close" /\ n.line = 1
  <2>1. PICK x \in RequestStates : x = req[r]
    BY <1>1
  <2>2. CASE x.line < Len(Lines[x.order])
    <3>1. n = [x EXCEPT !.line = x.line + 1]
      BY <1>2, <2>1, <2>2 DEF NextLine
    <3>2. n \in RequestStates
      BY <3>1 DEF RequestStates
    <3> QED
      BY <1>1, <2>1, <2>2, <3>1, <3>2 DEF RequestStates
  <2>3. CASE ~(x.line < Len(Lines[x.order]))
    <3>1. n = [x EXCEPT !.at = "close", !.line = 1]
      BY <1>2, <2>1, <2>3 DEF NextLine
    <3>2. n \in RequestStates
      BY <3>1 DEF RequestStates
    <3> QED
      BY <1>1, <2>1, <2>3, <3>1, <3>2 DEF RequestStates
  <2> QED
    BY <2>2, <2>3
<1>4. CASE Matches(req[r].op, Sees(r, Line(r).product), Line(r).quantity)
  <2>1. req' = [req EXCEPT ![r] = n]
    BY <1>2, <1>4 DEF MoveLine
  <2> QED
    BY <1>3, <1>4, <2>1 DEF Sound, TypeOK
<1>5. CASE ~Matches(req[r].op, Sees(r, Line(r).product), Line(r).quantity)
  <2>1. req' = [req EXCEPT ![r] = [n EXCEPT !.missed = @ \cup {Line(r).product}]]
    BY <1>2, <1>5 DEF MoveLine
  <2>2. /\ req'[r] = [n EXCEPT !.missed = n.missed \cup {Line(r).product}]
        /\ \A q \in Requests \ {r} : req'[q] = req[q]
    BY <2>1 DEF Sound, TypeOK
  <2> QED
    BY <1>3, <1>5, <2>2 DEF RequestStates
<1> QED
  BY <1>4, <1>5

\* Coming past a line adds that line to what is done for its product, and nothing else.
LEMMA MoveLineDone ==
    ASSUME Sound, NEW r \in Requests, MoveLine(r),
           NEW o, o = req[r].order,
           NEW l, l = <<req[r].order, req[r].line>>,
           NEW p, p = Line(r).product,
           NEW q, q = Line(r).quantity
    PROVE  /\ p \in Products /\ o \in Orders /\ l \in OrderLines
           /\ QuantityOf(l) = q /\ q \in Nat /\ l \in LinesOf({o}, p)
           /\ Done(r, p)' = Done(r, p) \cup {l}
           /\ CountOf(Done(r, p)') = CountOf(Done(r, p)) + q
           /\ \A u \in Products \ {p} : Done(r, u)' = Done(r, u)
<1>1. req[r].at = "move" /\ Working(r)
  BY DEF MoveLine, Sound, RequestsWork
<1>2. o \in Orders /\ req[r].line \in 1 .. Len(Lines[o])
  BY <1>1 DEF Working
<1>3. l \in OrderLines /\ QuantityOf(l) = q /\ q \in Nat /\ p \in Products
  BY <1>2, LineOfOrder, LinesTyped, OrderLinesTyped DEF QuantityOf, Line
<1>4. l \in LinesOf({o}, p) /\ l \notin Done(r, p)
  BY <1>1, <1>2, <1>3 DEF LinesOf, Line, Done
<1>5. ASSUME NEW u \in Products
      PROVE  Done(r, u)' = Done(r, u) \cup (IF u = p THEN {l} ELSE {})
  <2>1. Done(r, u) \in SUBSET LinesOf({o}, u) /\ Done(r, u)' \in SUBSET LinesOf({o}, u)
    BY MoveLineShape DEF Done
  <2>2. u = p => l \in LinesOf({o}, u)
    BY <1>4
  <2>3. ASSUME NEW k \in LinesOf({o}, u)
        PROVE  k \in Done(r, u)' <=> k \in Done(r, u) \/ (u = p /\ k = l)
    <3>1. k \in OrderLines /\ k[1] = o /\ Lines[o][k[2]].product = u
      BY DEF LinesOf
    <3>2. k = <<o, k[2]>> /\ k[2] \in 1 .. Len(Lines[o]) /\ Len(Lines[o]) \in Nat
      BY <1>2, <3>1, OrderLinesTyped, LinesNonEmpty
    <3>3. PICK n \in 1 .. Len(Lines[o]) : n = k[2]
      BY <3>2
    <3>4. k \in Done(r, u) <=> n < req[r].line
      BY <1>1, <3>3 DEF Done
    <3>5. k = l <=> n = req[r].line
      BY <3>2, <3>3
    <3>6. n = req[r].line => u = p
      BY <3>1, <3>3 DEF Line
    <3>7. k \in Done(r, u)' <=> n <= req[r].line
      <4>1. CASE req[r].line < Len(Lines[o])
        <5>1. req'[r].at = "move" /\ req'[r].line = req[r].line + 1 /\ req'[r].order = o
          BY <4>1, MoveLineShape
        <5>2. k \in Done(r, u)' <=> n < req[r].line + 1
          BY <3>3, <5>1 DEF Done
        <5> QED
          BY <1>2, <3>2, <5>2
      <4>2. CASE ~(req[r].line < Len(Lines[o]))
        <5>1. req'[r].at = "close" /\ req'[r].order = o
          BY <4>2, MoveLineShape
        <5>2. k \in Done(r, u)'
          BY <5>1 DEF Done
        <5> QED
          BY <1>2, <3>2, <4>2, <5>2
      <4> QED
        BY <4>1, <4>2
    <3> QED
      BY <1>2, <3>2, <3>4, <3>5, <3>6, <3>7
  <2> QED
    BY <2>1, <2>2, <2>3
<1>6. Done(r, p)' = Done(r, p) \cup {l}
  BY <1>3, <1>5
<1>7. CountOf(Done(r, p) \cup {l}) = CountOf(Done(r, p)) + CountOf({l})
  <2>1. Done(r, p) \in SUBSET OrderLines /\ {l} \in SUBSET OrderLines /\ Done(r, p) \cap {l} = {}
    BY <1>3, <1>4 DEF Done, LinesOf
  <2> QED
    BY <2>1, CountDisjoint
<1>8. CountOf(Done(r, p)') = CountOf(Done(r, p)) + q
  BY <1>3, <1>6, <1>7, CountLine
<1> QED
  BY <1>2, <1>3, <1>4, <1>5, <1>6, <1>8

\* As long as a row is regular, a release or a sale finds its units reserved.
LEMMA ReservedCovers ==
    ASSUME Sound, ShelfSound, NEW r \in Requests, MoveLine(r),
           Regular(Line(r).product), Exact(r, Line(r).product), req[r].op # "reserve"
    PROVE  Matches(req[r].op, Sees(r, Line(r).product), Line(r).quantity)
<1>0. PICK o, l, p, q :
        /\ o = req[r].order /\ l = <<req[r].order, req[r].line>>
        /\ p = Line(r).product /\ q = Line(r).quantity
  OBVIOUS
<1>1. req[r].at = "move" /\ Working(r) /\ req[r].op \in {"release", "sell"}
  BY DEF MoveLine, Sound, RequestsWork, Working, TypeOK, RequestStates
<1>2. o \in Holding
  BY <1>0, <1>1 DEF Working, Exact, Placed, Holding
<1>3. p \in Products /\ visible[p].reserved = Units(Holding, p)
  BY <1>0, MoveLineDone DEF ShelfSound, ShelfMatchesOrders
<1>4. CountOf(LinesOf({o}, p)) <= Units(Holding, p)
  BY <1>2, UnitsWithin
<1>5. CountOf(Done(r, p)) + q <= CountOf(LinesOf({o}, p))
  <2>1. Done(r, p) \cup {l} \in SUBSET LinesOf({o}, p)
    BY <1>0, MoveLineDone DEF Done
  <2>2. CountOf(Done(r, p) \cup {l}) = CountOf(Done(r, p)) + q
    BY <1>0, MoveLineDone
  <2> QED
    BY <2>1, <2>2, LinesOfTyped, CountWithin
<1>6. /\ CountOf(Done(r, p)) \in Nat /\ CountOf(LinesOf({o}, p)) \in Nat /\ Units(Holding, p) \in Nat
      /\ q \in Nat
  <2>1. Done(r, p) \in SUBSET OrderLines
    BY DEF Done, LinesOf
  <2> QED
    BY <2>1, LinesOfTyped, CountTyped, UnitsTyped, <1>0, MoveLineDone
<1>7. CASE writer[p] = r
  <2>1. stock[p].reserved = visible[p].reserved - CountOf(Done(r, p))
    BY <1>0, <1>1, <1>3, <1>7 DEF ShelfSound, MovesAgree, Moving, Shifted
  <2> QED
    BY <1>1, <1>3, <1>4, <1>5, <1>6, <1>7, <1>0, <2>1 DEF Matches, Sees
<1>8. CASE writer[p] # r
  BY <1>1, <1>3, <1>4, <1>5, <1>6, <1>8, <1>0 DEF Matches, Sees
<1> QED
  BY <1>7, <1>8

LEMMA ShelfMove ==
    ASSUME Sound, ShelfSound, NEW r \in Requests, MoveLine(r)
    PROVE  ShelfSound'
<1>0. PICK o, l, p, q, op :
        /\ o = req[r].order /\ l = <<req[r].order, req[r].line>>
        /\ p = Line(r).product /\ q = Line(r).quantity /\ op = req[r].op
  OBVIOUS
<1>1. /\ req[r].at = "move" /\ op \in {"reserve", "release", "sell"}
      /\ UNCHANGED <<visible, status, number, fate, short>>
  BY <1>0 DEF MoveLine, Sound, RequestsWork, Working, TypeOK, RequestStates
<1>2. p \in Products /\ q \in Nat /\ req[r].order \in Orders
  BY <1>0, MoveLineDone
<1>3. Moving(r) /\ Moving(r)'
  BY <1>0, <1>1, MoveLineShape DEF Moving
<1>4. \/ UNCHANGED <<stock, writer>> /\ ~Matches(op, Sees(r, p), q)
      \/ /\ writer[p] \in {r, NoRequest} /\ Matches(op, Sees(r, p), q)
         /\ writer' = [writer EXCEPT ![p] = r]
         /\ stock' = [stock EXCEPT ![p] = Moved(op, @, q)]
  BY <1>0 DEF MoveLine
<1>5. Unfated' /\ FirstLine'
  BY <1>1, MoveLineShape DEF ShelfSound, Unfated, FirstLine
<1>6. ShelfMatchesOrders'
  BY <1>1, StillMatches DEF ShelfSound
<1>7. \A u \in Products : Regular(u)' <=> Regular(u)
  BY <1>1 DEF Regular
<1>8. \A u \in Products, k \in Requests \ {r} :
        /\ writer'[u] = k <=> writer[u] = k
        /\ writer[u] = k => stock'[u] = stock[u]
  BY <1>2, <1>4, Parameters DEF Sound, TypeOK
<1>9. WritersMove'
  <2> SUFFICES ASSUME NEW u \in Products, writer'[u] # NoRequest
               PROVE  (Moving(writer[u]) /\ Done(writer[u], u) # {})'
    BY DEF WritersMove
  <2>1. CASE writer'[u] = r
    <3>1. CASE u = p
      <4>0. Done(r, p)' = Done(r, p) \cup {l}
        BY <1>0, MoveLineDone
      <4>1. PICK D : D = Done(r, u)' /\ D # {}
        BY <3>1, <4>0 DEF Done
      <4>2. Done(writer[u], u)' = D
        BY <2>1, <4>1 DEF Done
      <4> QED
        BY <1>3, <2>1, <4>1, <4>2
    <3>2. CASE u # p
      <4>1. writer[u] = r
        BY <1>2, <1>4, <2>1, <3>2 DEF Sound, TypeOK
      <4>2. Done(r, u) # {} /\ Done(r, u)' = Done(r, u)
        BY <3>2, <4>1, Parameters, <1>0, MoveLineDone DEF ShelfSound, WritersMove
      <4> QED
        BY <1>3, <2>1, <4>2
    <3> QED
      BY <3>1, <3>2
  <2>2. CASE writer'[u] # r
    <3>1. PICK k \in Requests \ {r} : k = writer'[u] /\ k = writer[u]
      <4>1. writer'[u] = writer[u]
        BY <1>2, <1>4, <2>2 DEF Sound, TypeOK
      <4> QED
        BY <2>2, <4>1 DEF Sound, TypeOK
    <3>2. Moving(k) /\ Done(k, u) # {} /\ req'[k] = req[k]
      BY <3>1, Parameters, MoveLineShape DEF ShelfSound, WritersMove
    <3>3. Moving(k)' /\ Done(k, u)' # {}
      BY <3>2 DEF Moving, Done
    <3> QED
      BY <3>1, <3>3
  <2> QED
    BY <2>1, <2>2
<1>10. MovesAgree'
  <2> SUFFICES ASSUME NEW k \in Requests, NEW u \in Products,
                      Regular(u)', Moving(k)', Exact(k, u)'
               PROVE  IF writer'[u] = k
                        THEN Shifted(req[k].op, visible[u], stock[u], CountOf(Done(k, u)))'
                        ELSE Done(k, u)' = {}
    BY DEF MovesAgree
  <2>1. CASE k # r
    <3>1. PICK R \in SUBSET Requests : R = Requests \ {r}
      OBVIOUS
    <3>2. \A i \in R : req'[i] = req[i]
      BY <3>1, MoveLineShape
    <3>3. \A i \in Orders : fate'[i] = "none" => fate[i] = "none"
      BY <1>1
    <3>4. \A i \in Products : Regular(i)' => Regular(i)
      BY <1>7
    <3>5. \A i \in Products, j \in R :
            /\ writer'[i] = j <=> writer[i] = j
            /\ writer[i] = j =>
                 /\ stock'[i].reserved = stock[i].reserved /\ stock'[i].sold = stock[i].sold
                 /\ visible'[i].reserved = visible[i].reserved /\ visible'[i].sold = visible[i].sold
      BY <1>1, <1>8, <3>1
    <3>6. k \in R /\ MovesAgree
      BY <2>1, <3>1 DEF ShelfSound
    <3> QED
      BY <3>2, <3>3, <3>4, <3>5, <3>6, OthersAgree
  <2>2. CASE k = r
    <3>1. Regular(u) /\ Exact(r, u) /\ req'[r].op = op
      BY <1>0, <1>1, <1>7, <2>2, MoveLineShape DEF Exact
    <3>2. IF writer[u] = r THEN Shifted(op, visible[u], stock[u], CountOf(Done(r, u)))
                           ELSE Done(r, u) = {}
      BY <1>0, <1>3, <3>1 DEF ShelfSound, MovesAgree
    <3>3. CASE u # p
      <4>1. stock'[u] = stock[u] /\ (writer'[u] = r <=> writer[u] = r) /\ Done(r, u)' = Done(r, u)
        BY <1>4, <3>3, <1>0, MoveLineDone DEF Sound, TypeOK
      <4> QED
        BY <1>1, <2>2, <3>1, <3>2, <4>1 DEF Shifted
    <3>4. CASE u = p
      <4>0. op = "reserve" => Matches(op, Sees(r, p), q)
        BY <1>0, <2>2, <3>4, MoveLineShape DEF Exact
      <4>1. Matches(op, Sees(r, p), q)
        BY <1>0, <3>1, <3>4, ReservedCovers, <4>0
      <4>2. /\ writer[p] \in {r, NoRequest} /\ writer'[p] = r
            /\ stock'[p] = Moved(op, stock[p], q)
        BY <1>2, <1>4, <4>1 DEF Sound, TypeOK
      <4>3. Shifted(op, visible[p], stock[p], CountOf(Done(r, p)))
        <5>1. CASE writer[p] = r
          BY <3>2, <3>4, <5>1
        <5>2. CASE writer[p] = NoRequest
          <6>1. stock[p] = visible[p] /\ Done(r, p) = {}
            BY <1>2, <3>2, <3>4, <5>2, Parameters DEF Sound, LocksHeld
          <6>2. visible[p].reserved \in Nat /\ visible[p].sold \in Nat
            BY <1>2 DEF Sound, TypeOK
          <6> QED
            BY <6>1, <6>2, CountNone DEF Shifted
        <5> QED
          BY <4>2, <5>1, <5>2
      <4>4. CountOf(Done(r, p)') = CountOf(Done(r, p)) + q
        BY <1>0, MoveLineDone
      <4>5. /\ stock[p].reserved \in Nat /\ stock[p].sold \in Nat
            /\ visible[p].reserved \in Nat /\ visible[p].sold \in Nat
        BY <1>2 DEF Sound, TypeOK
      <4>6. CountOf(Done(r, p)) \in Nat
        <5>1. Done(r, p) \in SUBSET OrderLines
          BY DEF Done, LinesOf
        <5> QED
          BY <5>1, CountTyped
      <4>7. Shifted(op, visible[p], Moved(op, stock[p], q), CountOf(Done(r, p)) + q)
        BY <1>1, <1>2, <4>3, <4>5, <4>6 DEF Shifted, Moved
      <4>8. CountOf(Done(r, p))' = CountOf(Done(r, p)) + q
        BY <4>4
      <4>9. Shifted(op, visible[p], stock'[p], CountOf(Done(r, p))')
        BY <4>2, <4>7, <4>8
      <4>10. Shifted(req[r].op, visible[p], stock[p], CountOf(Done(r, p)))'
        BY <1>1, <3>1, <4>9 DEF Shifted
      <4> QED
        BY <2>2, <3>4, <4>2, <4>10
    <3> QED
      BY <3>3, <3>4
  <2> QED
    BY <2>1, <2>2
<1> QED
  BY <1>5, <1>6, <1>9, <1>10 DEF ShelfSound

\* A request that ends lets go of its rows; the others' moves are untouched.
LEMMA ShelfEnds ==
    ASSUME Sound, ShelfSound, NEW r \in Requests, Rest(r),
           writer' = [p \in Products |-> IF writer[p] = r THEN NoRequest ELSE writer[p]],
           \A p \in Products : writer[p] # r => stock'[p] = stock[p] /\ visible'[p] = visible[p],
           \A p \in Products : Regular(p)' => Regular(p),
           \A o \in Orders : fate'[o] = "none" => fate[o] = "none"
    PROVE  FirstLine' /\ WritersMove' /\ MovesAgree'
<1>1. req'[r] = Resting /\ \A k \in Requests \ {r} : req'[k] = req[k]
  BY DEF Rest, Sound, TypeOK
<1>2. FirstLine'
  BY <1>1 DEF ShelfSound, FirstLine, Resting
<1>3. WritersMove'
  <2> SUFFICES ASSUME NEW u \in Products, writer'[u] # NoRequest
               PROVE  (Moving(writer[u]) /\ Done(writer[u], u) # {})'
    BY DEF WritersMove
  <2>1. PICK k \in Requests \ {r} : k = writer'[u] /\ k = writer[u]
    BY DEF Sound, TypeOK
  <2>2. Moving(k) /\ Done(k, u) # {} /\ req'[k] = req[k]
    BY <1>1, <2>1, Parameters DEF ShelfSound, WritersMove
  <2>3. Moving(k)' /\ Done(k, u)' # {}
    BY <2>2 DEF Moving, Done
  <2> QED
    BY <2>1, <2>3
<1>4. MovesAgree'
  <2> SUFFICES ASSUME NEW k \in Requests, NEW u \in Products,
                      Regular(u)', Moving(k)', Exact(k, u)'
               PROVE  IF writer'[u] = k
                        THEN Shifted(req[k].op, visible[u], stock[u], CountOf(Done(k, u)))'
                        ELSE Done(k, u)' = {}
    BY DEF MovesAgree
  <2>1. k # r
    BY <1>1 DEF Moving, Resting
  <2>2. PICK R \in SUBSET Requests : R = Requests \ {r}
    OBVIOUS
  <2>3. \A i \in R : req'[i] = req[i]
    BY <1>1, <2>2
  <2>4. \A i \in Products, j \in R :
          /\ writer'[i] = j <=> writer[i] = j
          /\ writer[i] = j =>
               /\ stock'[i].reserved = stock[i].reserved /\ stock'[i].sold = stock[i].sold
               /\ visible'[i].reserved = visible[i].reserved /\ visible'[i].sold = visible[i].sold
    BY <2>2, Parameters DEF Sound, TypeOK
  <2>5. k \in R /\ MovesAgree
    BY <2>1, <2>2 DEF ShelfSound
  <2> QED
    BY <2>3, <2>4, <2>5, OthersAgree
<1> QED
  BY <1>2, <1>3, <1>4

LEMMA ShelfRollBack ==
    ASSUME Sound, ShelfSound, NEW r \in Requests, RollBack(r)
    PROVE  ShelfSound'
<1>1. /\ Rest(r) /\ UNCHANGED <<visible, status, fate, short>>
      /\ writer' = [p \in Products |-> IF writer[p] = r THEN NoRequest ELSE writer[p]]
      /\ \A p \in Products : writer[p] # r => stock'[p] = stock[p]
  BY DEF RollBack, Sound, TypeOK
<1>2. \A p \in Products : Regular(p)' => Regular(p)
  BY <1>1 DEF Regular
<1>3. FirstLine' /\ WritersMove' /\ MovesAgree'
  BY <1>1, <1>2, ShelfEnds
<1>4. Unfated'
  BY <1>1 DEF ShelfSound, Unfated
<1>5. ShelfMatchesOrders'
  BY <1>1, StillMatches DEF ShelfSound
<1> QED
  BY <1>3, <1>4, <1>5 DEF ShelfSound

\* The commit of a transaction whose movements are known makes them visible, all of them.
LEMMA CommitShifts ==
    ASSUME Sound, ShelfSound, NEW r \in Requests, Commit(r),
           req[r].at = "close", req[r].op # "none", NEW o, o = req[r].order,
           NEW p \in Products, Regular(p), LinesOf({o}, p) # {} => Exact(r, p)
    PROVE  Shifted(req[r].op, visible[p], visible'[p], CountOf(LinesOf({o}, p)))
<1>1. Done(r, p) = LinesOf({o}, p) /\ Moving(r)
  BY DEF Done, Moving
<1>2. visible'[p] = IF writer[p] = r THEN stock[p] ELSE visible[p]
  BY DEF Commit
<1>3. visible[p].reserved \in Nat /\ visible[p].sold \in Nat
  BY DEF Sound, TypeOK
<1>4. CASE LinesOf({o}, p) = {}
  <2>1. writer[p] # r
    BY <1>1, <1>4, Parameters DEF ShelfSound, WritersMove
  <2>2. CountOf(LinesOf({o}, p)) = 0
    BY <1>4, CountNone
  <2>3. visible'[p] = visible[p]
    BY <1>2, <2>1
  <2> QED
    BY <1>3, <2>2, <2>3 DEF Shifted
<1>5. CASE LinesOf({o}, p) # {}
  <2>1. writer[p] = r /\ Shifted(req[r].op, visible[p], stock[p], CountOf(Done(r, p)))
    BY <1>1, <1>5 DEF ShelfSound, MovesAgree
  <2> QED
    BY <1>1, <1>2, <2>1
<1> QED
  BY <1>4, <1>5

LEMMA CommitEnds ==
    ASSUME Sound, NEW r \in Requests, Commit(r)
    PROVE  /\ Rest(r)
           /\ writer' = [p \in Products |-> IF writer[p] = r THEN NoRequest ELSE writer[p]]
           /\ \A p \in Products : writer[p] # r => stock'[p] = stock[p] /\ visible'[p] = visible[p]
BY DEF Commit, Sound, TypeOK

LEMMA ShelfCommitCreate ==
    ASSUME Sound, ShelfSound, NEW r \in Requests, CommitCreate(r)
    PROVE  ShelfSound'
<1>1. PICK o : o = req[r].order
  OBVIOUS
<1>2. /\ req[r].at = "close" /\ req[r].op = "reserve" /\ Commit(r)
      /\ status' = [status EXCEPT ![o] = "PENDING"]
      /\ short' = short \cup ({o} \X req[r].missed)
      /\ fate' = fate
  BY <1>1 DEF CommitCreate
<1>3. o \in Orders /\ status[o] = "absent" /\ fate[o] = "none"
  BY <1>1, <1>2 DEF Sound, RequestsWork, Working, ShelfSound, Unfated
<1>4. Placed' = Placed \cup {o} /\ o \notin Placed
  BY <1>2, <1>3 DEF Placed, Sound, TypeOK
<1>5. \A p \in Products : Regular(p)' => Regular(p)
  BY <1>2 DEF Regular
<1>6. FirstLine' /\ WritersMove' /\ MovesAgree'
  BY <1>2, <1>5, CommitEnds, ShelfEnds
<1>7. Unfated'
  BY <1>2, <1>3 DEF ShelfSound, Unfated, Sound, TypeOK
<1>8. ShelfMatchesOrders'
  <2>1. Holding' = Holding \cup {o} /\ o \notin Holding /\ Delivered' = Delivered
    BY <1>2, <1>3, <1>4 DEF Holding, Delivered
  <2> SUFFICES ASSUME NEW p \in Products, Regular(p)'
               PROVE  (visible[p].reserved = Units(Holding, p) /\ visible[p].sold = Units(Delivered, p))'
    BY DEF ShelfMatchesOrders
  <2>2. visible[p].reserved = Units(Holding, p) /\ visible[p].sold = Units(Delivered, p)
    BY <1>5 DEF ShelfSound, ShelfMatchesOrders
  <2>3. LinesOf({o}, p) # {} => Exact(r, p)
    <3> SUFFICES ASSUME LinesOf({o}, p) # {} PROVE p \notin req[r].missed
      BY <1>2 DEF Exact
    <3>1. PICK l \in LinesOf({o}, p) : TRUE
      OBVIOUS
    <3>2. l \in LinesOf(Orders, p) /\ l[1] = o
      BY <1>3, <3>1 DEF LinesOf
    <3>3. <<o, p>> \notin short'
      BY <3>2 DEF Regular
    <3> QED
      BY <1>2, <3>3
  <2>4. Shifted("reserve", visible[p], visible'[p], CountOf(LinesOf({o}, p)))
    BY <1>1, <1>2, <1>5, <2>3, CommitShifts
  <2>5. Units(Holding \cup {o}, p) = Units(Holding, p) + CountOf(LinesOf({o}, p))
    BY <1>3, <2>1, UnitsWithOne
  <2>6. Units(Holding, p)' = Units(Holding \cup {o}, p) /\ Units(Delivered, p)' = Units(Delivered, p)
    BY <2>1 DEF Units, LinesOf, UnitsOf, OrderLines
  <2> QED
    BY <2>2, <2>4, <2>5, <2>6 DEF Shifted
<1> QED
  BY <1>6, <1>7, <1>8 DEF ShelfSound

LEMMA ShelfCommitTransition ==
    ASSUME Sound, ShelfSound, NEW r \in Requests, CommitTransition(r)
    PROVE  ShelfSound'
<1>1. PICK o, op : o = req[r].order /\ op = req[r].op
  OBVIOUS
<1>2. /\ req[r].at = "close" /\ op \in {"none", "release", "sell"} /\ Commit(r)
      /\ status' = [status EXCEPT ![o] = req[r].to]
      /\ fate' = [fate EXCEPT ![o] = IF op = "none" THEN @
                                     ELSE IF @ = "none" THEN op ELSE "again"]
      /\ short' = short
  BY <1>1 DEF CommitTransition, Sound, TypeOK, RequestStates
<1>3. o \in Placed /\ req[r].to # "absent"
  BY <1>1, <1>2 DEF Sound, RequestsWork, Working, Placed, OrderStatuses
<1>4. /\ Placed' = Placed
      /\ \A u \in Orders \ {o} : fate'[u] = fate[u]
      /\ fate'[o] = IF op = "none" THEN fate[o] ELSE IF fate[o] = "none" THEN op ELSE "again"
  BY <1>2, <1>3 DEF Placed, Sound, TypeOK
<1>5. \A p \in Products : Regular(p)' => Regular(p)
  <2> SUFFICES ASSUME NEW p \in Products, Regular(p)', NEW l \in LinesOf(Orders, p)
               PROVE  <<l[1], p>> \notin short /\ fate[l[1]] # "again"
    BY DEF Regular
  <2>1. <<l[1], p>> \notin short' /\ fate'[l[1]] # "again" /\ l[1] \in Orders
    BY DEF Regular, LinesOf
  <2> QED
    BY <1>2, <1>4, <2>1
<1>6. \A u \in Orders : fate'[u] = "none" => fate[u] = "none"
  BY <1>2, <1>4
<1>7. FirstLine' /\ WritersMove' /\ MovesAgree'
  BY <1>2, <1>5, <1>6, CommitEnds, ShelfEnds
<1>8. Unfated'
  BY <1>3, <1>4 DEF ShelfSound, Unfated, Placed
<1>9. ShelfMatchesOrders'
  <2> SUFFICES ASSUME NEW p \in Products, Regular(p)'
               PROVE  (visible[p].reserved = Units(Holding, p) /\ visible[p].sold = Units(Delivered, p))'
    BY DEF ShelfMatchesOrders
  <2>1. visible[p].reserved = Units(Holding, p) /\ visible[p].sold = Units(Delivered, p)
    BY <1>5 DEF ShelfSound, ShelfMatchesOrders
  <2>0. PICK H, D : H = Holding' /\ D = Delivered'
    OBVIOUS
  <2>2. Units(Holding, p)' = Units(H, p) /\ Units(Delivered, p)' = Units(D, p)
    BY <2>0 DEF Units, LinesOf, UnitsOf, OrderLines
  <2>3. CASE op = "none"
    <3>1. H = Holding /\ D = Delivered
      BY <2>0, <1>4, <2>3 DEF Holding, Delivered, Placed
    <3>2. writer[p] # r
      BY <1>1, <2>3, Parameters DEF ShelfSound, WritersMove, Moving
    <3>3. visible'[p] = visible[p]
      BY <1>2, <3>2, CommitEnds
    <3> QED
      BY <2>1, <2>2, <3>1, <3>3
  <2>4. CASE op # "none" /\ LinesOf({o}, p) = {}
    <3>1. H \ {o} = Holding \ {o} /\ D \ {o} = Delivered \ {o}
      BY <2>0, <1>4 DEF Holding, Delivered, Placed
    <3>2. Units(H, p) = Units(Holding, p) /\ Units(D, p) = Units(Delivered, p)
      <4>1. LinesOf(H, p) = LinesOf(Holding, p) /\ LinesOf(D, p) = LinesOf(Delivered, p)
        BY <2>4, <3>1 DEF LinesOf
      <4> QED
        BY <4>1 DEF Units
    <3>3. Shifted(op, visible[p], visible'[p], CountOf(LinesOf({o}, p)))
      BY <1>1, <1>2, <1>5, <2>4, CommitShifts
    <3>4. CountOf(LinesOf({o}, p)) = 0
      BY <2>4, CountNone
    <3>5. Units(Holding, p) \in Nat /\ Units(Delivered, p) \in Nat
      BY UnitsTyped
    <3> QED
      BY <1>2, <2>1, <2>2, <2>4, <3>2, <3>3, <3>4, <3>5 DEF Shifted
  <2>5. CASE op # "none" /\ LinesOf({o}, p) # {}
    <3>1. fate[o] = "none"
      <4>1. PICK l \in LinesOf({o}, p) : TRUE
        BY <2>5
      <4>2. l \in LinesOf(Orders, p) /\ l[1] = o
        BY <1>3, <4>1 DEF LinesOf, Placed
      <4>3. fate'[o] # "again"
        BY <4>2 DEF Regular
      <4> QED
        BY <1>4, <2>5, <4>3
    <3>2. Shifted(op, visible[p], visible'[p], CountOf(LinesOf({o}, p)))
      BY <1>1, <1>2, <1>5, <2>5, <3>1, CommitShifts DEF Exact
    <3>3. Holding = H \cup {o} /\ o \notin H
      BY <2>0, <1>2, <1>3, <1>4, <2>5, <3>1 DEF Holding
    <3>4. Units(Holding, p) = Units(H, p) + CountOf(LinesOf({o}, p))
      BY <1>3, <3>3, UnitsWithOne DEF Placed
    <3>5. /\ o \notin Delivered
          /\ D = IF op = "sell" THEN Delivered \cup {o} ELSE Delivered
      BY <2>0, <1>2, <1>3, <1>4, <2>5, <3>1 DEF Delivered, Placed
    <3>6. Units(Delivered \cup {o}, p) = Units(Delivered, p) + CountOf(LinesOf({o}, p))
      BY <1>3, <3>5, UnitsWithOne DEF Placed
    <3>7. Units(H, p) \in Nat /\ CountOf(LinesOf({o}, p)) \in Nat
      BY UnitsTyped, CountTyped, LinesOfTyped
    <3> QED
      BY <1>2, <2>1, <2>2, <2>5, <3>2, <3>4, <3>5, <3>6, <3>7 DEF Shifted
  <2> QED
    BY <2>3, <2>4, <2>5
<1> QED
  BY <1>7, <1>8, <1>9 DEF ShelfSound

\* Nothing but available counts changes.
LEMMA ShelfKept ==
    ASSUME Sound, ShelfSound, UNCHANGED <<status, fate, short, writer, req>>,
           \A p \in Products :
              /\ stock'[p].reserved = stock[p].reserved /\ stock'[p].sold = stock[p].sold
              /\ visible'[p].reserved = visible[p].reserved /\ visible'[p].sold = visible[p].sold
    PROVE  ShelfSound'
<1>1. Unfated' /\ FirstLine'
  BY DEF ShelfSound, Unfated, FirstLine
<1>2. ShelfMatchesOrders'
  BY StillMatches DEF ShelfSound
<1>3. WritersMove'
  BY DEF ShelfSound, WritersMove, Moving, Done
<1>4. MovesAgree'
  <2> SUFFICES ASSUME NEW k \in Requests, NEW u \in Products,
                      Regular(u)', Moving(k)', Exact(k, u)'
               PROVE  IF writer'[u] = k
                        THEN Shifted(req[k].op, visible[u], stock[u], CountOf(Done(k, u)))'
                        ELSE Done(k, u)' = {}
    BY DEF MovesAgree
  <2>1. \A p \in Products : Regular(p)' => Regular(p)
    BY DEF Regular
  <2>2. PICK R \in SUBSET Requests : R = Requests
    OBVIOUS
  <2> QED
    BY <2>1, <2>2, OthersAgree DEF ShelfSound
<1> QED
  BY <1>1, <1>2, <1>3, <1>4 DEF ShelfSound

LEMMA ShelfStep == Sound /\ ShelfSound /\ [Next]_vars => ShelfSound'
<1> SUFFICES ASSUME Sound, ShelfSound, [Next]_vars PROVE ShelfSound'
  OBVIOUS
<1>1. ASSUME NEW r \in Requests, CreateStep(r) PROVE ShelfSound'
  BY <1>1, ShelfCreate, ShelfCommitCreate DEF CreateStep
<1>2. ASSUME NEW r \in Requests, MoveLine(r) PROVE ShelfSound'
  BY <1>2, ShelfMove
<1>3. ASSUME NEW r \in Requests, TransitionStep(r) PROVE ShelfSound'
  BY <1>3, ShelfTransition, ShelfCommitTransition DEF TransitionStep, updateOrderStatus, cancelOrder
<1>4. ASSUME NEW r \in Requests, Abort(r) \/ DeadlockVictim(r) PROVE ShelfSound'
  BY <1>4, ShelfRollBack DEF Abort, DeadlockVictim
<1>5. ASSUME NEW p \in Products, NEW n \in 0 .. MaxUnits, setAvailable(p, n) PROVE ShelfSound'
  <2>1. \A u \in Products :
          /\ stock'[u].reserved = stock[u].reserved /\ stock'[u].sold = stock[u].sold
          /\ visible'[u].reserved = visible[u].reserved /\ visible'[u].sold = visible[u].sold
    BY <1>5 DEF setAvailable, Sound, TypeOK
  <2> QED
    BY <1>5, <2>1, ShelfKept DEF setAvailable
<1>6. ASSUME NEW p \in Products, NEW d \in -MaxUnits .. MaxUnits, adjustAvailable(p, d)
      PROVE  ShelfSound'
  <2>1. \A u \in Products :
          /\ stock'[u].reserved = stock[u].reserved /\ stock'[u].sold = stock[u].sold
          /\ visible'[u].reserved = visible[u].reserved /\ visible'[u].sold = visible[u].sold
    BY <1>6 DEF adjustAvailable, Sound, TypeOK
  <2> QED
    BY <1>6, <2>1, ShelfKept DEF adjustAvailable
<1>7. CASE UNCHANGED vars
  BY <1>7, ShelfKept DEF vars
<1> QED
  BY <1>1, <1>2, <1>3, <1>4, <1>5, <1>6, <1>7 DEF Next

(* The shelf is exact for every product no order missed a reservation of   *)
(* and none had its units of moved twice: reserved and sold count the      *)
(* orders' units, whatever the lines, requests, aborts and stocktakes.     *)
THEOREM ShelfMatchesOrdersHolds == Spec => []ShelfMatchesOrders
<1>1. ShelfSound => ShelfMatchesOrders
  BY DEF ShelfSound
<1> QED
  BY <1>1, SoundInit, SoundStep, ShelfInit, ShelfStep, PTL DEF Spec

-----------------------------------------------------------------------------
(***************************************************************************)
(* Deadlocks.  Rows are locked in the order of the lines, so who waits for *)
(* a row in a cycle is waited for, for a row of an earlier line of his.    *)
(***************************************************************************)

\* A request that is moving its lines holds rows of the lines behind it only.
HeldBehind ==
    \A r \in Requests, p \in Products :
        writer[p] = r /\ req[r].at = "move" =>
            \E i \in 1 .. req[r].line - 1 : Lines[req[r].order][i].product = p

\* The steps of r but its moves: it holds nothing yet, or nothing any more.
LEMMA HeldKept ==
    ASSUME HeldBehind, NEW r \in Requests,
           \A q \in Requests \ {r} : req'[q] = req[q],
           \A q \in Requests \ {r}, p \in Products : writer'[p] = q => writer[p] = q,
           req'[r].at # "move" \/ \A p \in Products : writer'[p] # r
    PROVE  HeldBehind'
BY DEF HeldBehind

LEMMA HeldMove ==
    ASSUME Sound, HeldBehind, NEW r \in Requests, MoveLine(r)
    PROVE  HeldBehind'
<1> USE DEF Sound
<1>1. Working(r) /\ req[r].at = "move" /\ req[r] \in RequestStates
  BY DEF MoveLine, RequestsWork, TypeOK
<1>2. PICK n : /\ n.at \in {"move", "close"} /\ n.order = req[r].order
               /\ n.at = "move" => n.line = req[r].line + 1
               /\ req' = [req EXCEPT ![r] = n]
  <2>1. PICK x \in RequestStates : x = req[r]
    BY <1>1
  <2>2. x.line \in Nat
    BY DEF RequestStates
  <2>3. /\ NextLine(r, "close") \in {[x EXCEPT !.line = @ + 1], [x EXCEPT !.at = "close", !.line = 1]}
        /\ x.at = "move"
    BY <1>1, <2>1 DEF NextLine
  <2>4. PICK n : n = NextLine(r, "close")
    OBVIOUS
  <2>5. /\ n.at \in {"move", "close"} /\ n.order = x.order
        /\ n.at = "move" => n.line = x.line + 1
    BY <2>3, <2>4 DEF RequestStates
  <2>6. \/ req' = [req EXCEPT ![r] = n]
        \/ req' = [req EXCEPT ![r] = [n EXCEPT !.missed = @ \cup {Line(r).product}]]
    BY <2>4 DEF MoveLine
  <2>7. n \in RequestStates
    BY <1>1, <2>4, NextLineTyped
  <2>8. PICK y : y = [n EXCEPT !.missed = @ \cup {Line(r).product}]
    OBVIOUS
  <2>9. y.at = n.at /\ y.order = n.order /\ y.line = n.line
    BY <2>7, <2>8 DEF RequestStates
  <2> QED
    BY <2>1, <2>5, <2>6, <2>8, <2>9
<1>3. /\ req'[r] = n /\ \A q \in Requests \ {r} : req'[q] = req[q]
      /\ req[r].line \in Nat \ {0}
  BY <1>1, <1>2, LinesNonEmpty DEF TypeOK, Working
<1>4. \A p \in Products : /\ writer'[p] \in {writer[p], r}
                          /\ writer'[p] = r => writer[p] = r \/ p = Line(r).product
  BY DEF MoveLine, TypeOK
<1>5. ASSUME NEW p \in Products, writer'[p] = r, n.at = "move"
      PROVE  \E i \in 1 .. req[r].line : Lines[req[r].order][i].product = p
  <2>1. CASE writer[p] = r
    <3>1. PICK i \in 1 .. req[r].line - 1 : Lines[req[r].order][i].product = p
      BY <1>1, <2>1 DEF HeldBehind
    <3>2. i \in 1 .. req[r].line
      BY <1>3
    <3> QED
      BY <3>1, <3>2
  <2>2. CASE p = Line(r).product
    <3>1. req[r].line \in 1 .. req[r].line
      BY <1>3
    <3> QED
      BY <2>2, <3>1 DEF Line
  <2> QED
    BY <1>4, <1>5, <2>1, <2>2
<1>6. ASSUME NEW q \in Requests, NEW p \in Products, writer'[p] = q, req'[q].at = "move"
      PROVE  \E i \in 1 .. req'[q].line - 1 : Lines[req'[q].order][i].product = p
  <2>1. CASE q = r
    <3>1. n.at = "move" /\ n.line = req[r].line + 1 /\ n.order = req[r].order
      BY <1>2, <1>3, <1>6, <2>1
    <3>2. PICK i \in 1 .. req[r].line : Lines[req[r].order][i].product = p
      BY <1>5, <1>6, <2>1, <3>1
    <3>3. i \in 1 .. n.line - 1
      BY <1>3, <3>1
    <3> QED
      BY <1>3, <2>1, <3>1, <3>2, <3>3
  <2>2. CASE q # r
    <3>1. req'[q] = req[q] /\ writer[p] = q
      BY <1>3, <1>4, <1>6, <2>2
    <3> QED
      BY <1>6, <3>1 DEF HeldBehind
  <2> QED
    BY <2>1, <2>2
<1> QED
  BY <1>6 DEF HeldBehind

LEMMA HeldStep == Sound /\ HeldBehind /\ [Next]_vars => HeldBehind'
<1> SUFFICES ASSUME Sound, HeldBehind, [Next]_vars PROVE HeldBehind'
  OBVIOUS
<1> USE DEF Sound
<1>0. \A r \in Requests : req[r].at \notin {"move", "close"} => \A p \in Products : writer[p] # r
  BY Parameters DEF LocksHeld
<1>1. ASSUME NEW r \in Requests,
             BeginCreate(r) \/ CheckLine(r) \/ generateOrderNumber(r) \/ InsertOrder(r)
      PROVE  HeldBehind'
  <2>1. /\ UNCHANGED writer /\ \A q \in Requests \ {r} : req'[q] = req[q]
        /\ req[r].at \notin {"move", "close"}
    BY <1>1 DEF BeginCreate, CheckLine, generateOrderNumber, InsertOrder, Rest, TypeOK
  <2> QED
    BY <1>0, <2>1, HeldKept
<1>2. ASSUME NEW r \in Requests, NEW o, NEW to, updateOrderStatus(r, o, to) \/ cancelOrder(r, o)
      PROVE  HeldBehind'
  <2>1. /\ UNCHANGED writer /\ \A q \in Requests \ {r} : req'[q] = req[q]
        /\ req[r].at \notin {"move", "close"}
    BY <1>2 DEF updateOrderStatus, cancelOrder, BeginTransition, TypeOK
  <2> QED
    BY <1>0, <2>1, HeldKept
<1>3. ASSUME NEW r \in Requests, CommitCreate(r) \/ CommitTransition(r) \/ RollBack(r)
      PROVE  HeldBehind'
  <2>1. Rest(r) /\ writer' = [p \in Products |-> IF writer[p] = r THEN NoRequest ELSE writer[p]]
    BY <1>3 DEF CommitCreate, CommitTransition, Commit, RollBack
  <2>2. req'[r].at # "move" /\ \A q \in Requests \ {r} : req'[q] = req[q]
    BY <2>1 DEF Rest, Resting, TypeOK
  <2>3. \A q \in Requests \ {r}, p \in Products : writer'[p] = q => writer[p] = q
    BY <2>1, Parameters DEF TypeOK
  <2> QED
    BY <2>2, <2>3, HeldKept
<1>4. CASE UNCHANGED <<writer, req>>
  BY <1>4 DEF HeldBehind
<1>5. ASSUME NEW p \in Products,
             \/ \E n \in 0 .. MaxUnits : setAvailable(p, n)
             \/ \E d \in -MaxUnits .. MaxUnits : adjustAvailable(p, d)
      PROVE  HeldBehind'
  BY <1>4, <1>5 DEF setAvailable, adjustAvailable
<1> QED
  BY <1>1, <1>2, <1>3, <1>4, <1>5, HeldMove
  DEF Next, CreateStep, TransitionStep, Abort, DeadlockVictim, vars

\* Whom a request waits for is moving its lines, if it waits in turn.
LEMMA WaitedForMoves ==
    ASSUME Sound, NEW r \in Requests, NEW q \in Requests, NEW t \in Requests,
           WaitsFor(r, q), WaitsFor(q, t)
    PROVE  /\ req[q].at = "move" /\ Line(q).product \in Products
           /\ t # q /\ writer[Line(q).product] = t
<1> USE DEF Sound
<1>1. req[q].at \in {"move", "close"}
  <2>1. CASE InsertWaitsFor(r, q)
    BY <2>1 DEF InsertWaitsFor
  <2>2. CASE req[r].at = "move" /\ writer[Line(r).product] = q
    <3>1. Line(r).product \in Products
      BY <2>2, LinesTyped DEF Line, RequestsWork, Working
    <3> QED
      BY <2>2, <3>1, Parameters DEF LocksHeld
  <2> QED
    BY <2>1, <2>2 DEF WaitsFor
<1>2. req[q].at = "move" /\ t # q /\ writer[Line(q).product] = t
  BY <1>1 DEF WaitsFor
<1>3. Line(q).product \in Products
  BY <1>2, LinesTyped DEF Line, RequestsWork, Working
<1> QED
  BY <1>2, <1>3

(* Whatever the orders, lines and requests: requests whose orders' lines   *)
(* agree never wait in a cycle.  Of the rows the cycle waits for, take the *)
(* one that every order takes last: its holder is at a later line of its   *)
(* own, and waits there for a row of the same cycle.                       *)
THEOREM DeadlocksAreCrossedHolds == Spec => []DeadlocksAreCrossed
<1>1. Init => HeldBehind
  BY Parameters DEF Init, HeldBehind
<1>2. Sound /\ HeldBehind => DeadlocksAreCrossed
  <2> SUFFICES ASSUME Sound, HeldBehind, NEW S \in SUBSET Requests, Cycle(S),
                      LinesAgree({req[r].order : r \in S})
               PROVE  FALSE
    BY DEF DeadlocksAreCrossed
  <2> DEFINE M == {q \in S : \E r \in S : WaitsFor(r, q)}
             P == {Line(q).product : q \in M}
  <2>1. \A q \in M : /\ req[q].at = "move" /\ Line(q).product \in Products
                     /\ \E t \in M : t # q /\ writer[Line(q).product] = t
    <3> SUFFICES ASSUME NEW q \in M
                 PROVE  /\ req[q].at = "move" /\ Line(q).product \in Products
                        /\ \E t \in M : t # q /\ writer[Line(q).product] = t
      OBVIOUS
    <3>1. PICK r \in S, t \in S : WaitsFor(r, q) /\ WaitsFor(q, t)
      BY DEF Cycle
    <3>2. /\ req[q].at = "move" /\ Line(q).product \in Products
          /\ t # q /\ writer[Line(q).product] = t
      BY <3>1, WaitedForMoves
    <3>3. t \in {u \in S : \E v \in S : WaitsFor(v, u)}
      BY <3>1
    <3> QED
      BY <3>2, <3>3
  <2>2. P \in (SUBSET Products) \ {{}}
    <3>1. PICK r \in S, q \in S : WaitsFor(r, q)
      BY DEF Cycle
    <3>2. q \in M
      BY <3>1
    <3>3. Line(q).product \in P
      BY <3>2
    <3>4. P \subseteq Products
      BY <2>1
    <3> QED
      BY <3>3, <3>4
  <2>3. PICK p \in P : \A o \in {req[r].order : r \in S} : \A i, j \in DOMAIN Lines[o] :
            Lines[o][i].product = p /\ Lines[o][j].product \in P \ {p} => j < i
    BY <2>2 DEF LinesAgree
  <2>4. PICK q \in M, t \in M : p = Line(q).product /\ writer[p] = t /\ t # q
    BY <2>1, <2>3
  <2>5. /\ t \in S /\ t \in Requests /\ req[t].at = "move" /\ p \in Products
        /\ \E u \in M : u # t /\ writer[Line(t).product] = u
    BY <2>1, <2>2, <2>4
  <2>6. Line(t).product \in P \ {p}
    BY <2>4, <2>5
  <2>7. PICK i \in 1 .. req[t].line - 1 : Lines[req[t].order][i].product = p
    BY <2>4, <2>5 DEF HeldBehind
  <2>8. PICK o : o = req[t].order
    OBVIOUS
  <2>9. o \in Orders /\ req[t].line \in 1 .. Len(Lines[o]) /\ Len(Lines[o]) \in Nat
        /\ DOMAIN Lines[o] = 1 .. Len(Lines[o])
    BY <2>5, <2>8, LinesNonEmpty, Parameters DEF Sound, RequestsWork, Working
  <2>10. i \in DOMAIN Lines[o] /\ req[t].line \in DOMAIN Lines[o] /\ i < req[t].line
    BY <2>7, <2>9
  <2>11. Lines[o][req[t].line].product \in P \ {p} /\ Lines[o][i].product = p
    BY <2>6, <2>7, <2>8 DEF Line
  <2>12. o \in {req[r].order : r \in S}
    BY <2>5, <2>8
  <2>13. req[t].line < i
    BY <2>3, <2>10, <2>11, <2>12
  <2> QED
    BY <2>9, <2>10, <2>13
<1> QED
  BY <1>1, <1>2, SoundInit, SoundStep, HeldStep, PTL DEF Spec
=============================================================================
