------------------------------ MODULE MCBilling ------------------------------
(* Model-checking instance of Billing: two plans that have a price, two     *)
(* subscriptions bought one after the other, two deliveries in flight.      *)
EXTENDS Billing
=============================================================================
