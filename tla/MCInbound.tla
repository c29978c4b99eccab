----------------------------- MODULE MCInbound -----------------------------
(* Model-checking instance of Inbound and AiTurn.                          *)
EXTENDS Inbound
=============================================================================
