--------------------------- MODULE OrderLifecycle ---------------------------
(* The statuses of an order and the transitions a person may ask for       *)
(* (validation/order.ts).                                                  *)

OrderStatuses == {"DRAFT", "PENDING", "CONFIRMED", "PROCESSING", "SHIPPED",
                  "DELIVERED", "CANCELLED", "RETURNED", "REFUNDED"}

LEGAL_STATUS_TRANSITIONS ==
    [DRAFT |-> {"PENDING", "CANCELLED"},     PENDING |-> {"CONFIRMED", "CANCELLED"},
     CONFIRMED |-> {"PROCESSING", "CANCELLED"}, PROCESSING |-> {"SHIPPED", "CANCELLED"},
     SHIPPED |-> {"DELIVERED", "RETURNED"},  DELIVERED |-> {"RETURNED", "REFUNDED"},
     CANCELLED |-> {}, RETURNED |-> {"REFUNDED"}, REFUNDED |-> {}]

isLegalStatusTransition(from, to) == from = to \/ to \in LEGAL_STATUS_TRANSITIONS[from]
=============================================================================
