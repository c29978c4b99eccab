------------------------------ MODULE MCChannel ------------------------------
(* Model-checking instance of Channel: two workspaces, two accounts, one     *)
(* number that has been listed on both of them and one on the first only.    *)
EXTENDS Channel, TLC

CONSTANTS w1, w2, p1, p2

Listed == p1 :> {w1, w2} @@ p2 :> {w1}

Symmetry == Permutations(Requests) \cup Permutations(Workspaces)
=============================================================================
