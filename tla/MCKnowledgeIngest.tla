-------------------------- MODULE MCKnowledgeIngest -------------------------
(* Model-checking instances of KnowledgeIngest.                            *)
EXTENDS KnowledgeIngest, TLC
=============================================================================
