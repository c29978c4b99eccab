------------------------- MODULE MCOrderInventory -------------------------
(* Model-checking instances of OrderInventory.                             *)
EXTENDS OrderInventory, TLC

CONSTANTS o1, o2, o3, p1, p2, c1

\* Two orders that take the same two products in one order, and one that
\* takes them in the other.
Crossed ==
    (o1 :> <<[product |-> p1, quantity |-> 1], [product |-> p2, quantity |-> 1]>>) @@
    (o2 :> <<[product |-> p1, quantity |-> 1], [product |-> p2, quantity |-> 1]>>) @@
    (o3 :> <<[product |-> p2, quantity |-> 1], [product |-> p1, quantity |-> 1]>>)

\* Two orders for one product, the first with the product on two lines.
OneShelf ==
    (o1 :> <<[product |-> p1, quantity |-> 1], [product |-> p1, quantity |-> 1]>>) @@
    (o2 :> <<[product |-> p1, quantity |-> 1]>>)

MCBuyer == [o \in Orders |-> c1]

Symmetry == Permutations(Requests)
=============================================================================
