--------------------------- MODULE MCOutboundSend ---------------------------
(* Model-checking instances of OutboundSend.  Executions are not made      *)
(* symmetric: the safety run also checks liveness.                         *)
EXTENDS OutboundSend, TLC
=============================================================================
