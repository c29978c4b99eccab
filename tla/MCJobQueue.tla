---------------------------- MODULE MCJobQueue ----------------------------
(* Model-checking instances of JobQueue.                                   *)
EXTENDS JobQueue, TLC

CONSTANTS j1, j2

\* A budget of one next to a budget of two; j1 outranks j2.
MCMaxAttempts == (j1 :> 2) @@ (j2 :> 1)
MCPriority == (j1 :> 100) @@ (j2 :> -10)
=============================================================================
