----------------------------- MODULE MCApproval -----------------------------
(* Model-checking instance of Approval: one request is to cancel the order *)
(* and the other to edit it, or for something that people carry out.       *)
EXTENDS Approval, TLC

CONSTANTS r1, r2

Mix == r1 :> {"ORDER_CANCEL"} @@ r2 :> {"ORDER_MODIFY", "MANUAL"}
=============================================================================
