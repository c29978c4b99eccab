-------------------------- MODULE PublishedCorpus ---------------------------
(***************************************************************************)
(* What the knowledge component promises of one document, whoever          *)
(* processes it and however often: the assistant answers from one text the *)
(* owner once saved, a text replaces another as a whole and only while it  *)
(* is the current one, and after a deletion nothing is answered from.      *)
(***************************************************************************)
CONSTANTS Texts, NoText

VARIABLES
    current,  \* the text last saved
    served,   \* the text the assistant answers from
    fresh,    \* the document claims to be answered from as saved (READY)
    gone      \* the document was deleted

vars == <<current, served, fresh, gone>>

Init ==
    /\ current = NoText /\ served = NoText
    /\ ~fresh /\ ~gone

Save(t) ==
    /\ ~gone
    /\ current' = t /\ fresh' = FALSE
    /\ UNCHANGED <<served, gone>>

\* A retry, or a failure: the claim is withdrawn, the answers stay.
Doubt ==
    /\ fresh' = FALSE
    /\ UNCHANGED <<current, served, gone>>

Publish ==
    /\ current # NoText
    /\ served' = current /\ fresh' = TRUE
    /\ UNCHANGED <<current, gone>>

Remove ==
    /\ current # NoText
    /\ current' = NoText /\ served' = NoText
    /\ fresh' = FALSE /\ gone' = TRUE

Next == (\E t \in Texts : Save(t)) \/ Doubt \/ Publish \/ Remove

Spec == Init /\ [][Next]_vars
=============================================================================
