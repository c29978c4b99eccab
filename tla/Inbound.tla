------------------------------ MODULE Inbound ------------------------------
(***************************************************************************)
(* A customer's messages on their way in: the webhook stores an event and  *)
(* its job in one transaction (services/whatsapp/webhook.parser.ts), the   *)
(* job turns the event into a message and enqueues ai.respond for it       *)
(* (webhook-processor and inbound.service.ts), and AiTurn takes over.      *)
(* Every statement of the job is a step of its own.                        *)
(***************************************************************************)
EXTENDS AiTurn

CONSTANTS
    HookSlots,      \* executions of process_webhook at once
    HookAttempts    \* 8, the maxAttempts persistLogicalEvent asks for

Hooks == 1 .. HookSlots

ASSUME HookParameters == HookSlots \in Nat /\ HookAttempts \in Nat

VARIABLES
    event,              \* WebhookEvent.status of each message's event
    hookJob, hookTries, \* its process_webhook job
    contact,            \* whether the customer has a contact row
    made,               \* conversations created for it, numbered as they are
    hookAt, hookOn,     \* where each execution is, and with which event
    found,              \* the conversation an execution has settled on
    repeated            \* executions that found the message stored

hookVars == <<event, hookJob, hookTries, contact, made, hookAt, hookOn, found, repeated>>
vars == <<aiVars, hookVars>>

-----------------------------------------------------------------------------
EventStates == {"none", "RECEIVED", "PROCESSING", "PROCESSED"}
HookSteps == {"open", "dedupe", "contact", "createContact", "conversation",
              "createConversation", "store", "processed", "enqueue", "complete"}

Init ==
    /\ AiInit
    /\ event = [m \in Messages |-> "none"]
    /\ hookJob = [m \in Messages |-> "none"] /\ hookTries = [m \in Messages |-> 0]
    /\ contact \in BOOLEAN /\ made = 0
    /\ hookAt = [h \in Hooks |-> "idle"] /\ hookOn = [h \in Hooks |-> None]
    /\ found = [h \in Hooks |-> None] /\ repeated = {}

HookGoTo(h, step) == hookAt' = [hookAt EXCEPT ![h] = step] /\ UNCHANGED hookOn

HookLeave(h) ==
    /\ hookAt' = [hookAt EXCEPT ![h] = "idle"] /\ hookOn' = [hookOn EXCEPT ![h] = None]
    /\ found' = [found EXCEPT ![h] = None] /\ repeated' = repeated \ {h}

HookThrow(h) ==
    /\ hookJob' = [hookJob EXCEPT ![hookOn[h]] =
                     IF hookTries[hookOn[h]] < HookAttempts THEN "queued" ELSE "dead"]
    /\ HookLeave(h)

Stored(m) == convOf[m] # None

\* Everything of AiTurn but what Inbound's steps write there.
AiRest == <<ai, tries, rows, at, on, run, reclaims, unrecorded, exposed, warned, toggles>>

-----------------------------------------------------------------------------
(* The route: the event and its job, or neither and Meta delivers again;   *)
(* of a second delivery nothing is kept.                                   *)
persistLogicalEvent(m) ==
    /\ event[m] = "none"
    /\ event' = [event EXCEPT ![m] = "RECEIVED"]
    /\ hookJob' = [hookJob EXCEPT ![m] = "queued"]
    /\ UNCHANGED <<aiVars, hookTries, contact, made, hookAt, hookOn, found, repeated>>

HookClaim(h, m) ==
    /\ hookAt[h] = "idle" /\ \A s \in 1 .. h - 1 : hookAt[s] # "idle"
    /\ hookJob[m] = "queued"
    /\ hookJob' = [hookJob EXCEPT ![m] = "running"]
    /\ hookTries' = [hookTries EXCEPT ![m] = @ + 1]
    /\ hookAt' = [hookAt EXCEPT ![h] = "open"] /\ hookOn' = [hookOn EXCEPT ![h] = m]
    /\ UNCHANGED <<aiVars, event, contact, made, found, repeated>>

\* An event that was processed once is left alone.
OpenEvent(h) ==
    /\ hookAt[h] = "open"
    /\ IF event[hookOn[h]] = "PROCESSED"
       THEN HookGoTo(h, "complete") /\ UNCHANGED event
       ELSE HookGoTo(h, "dedupe") /\ event' = [event EXCEPT ![hookOn[h]] = "PROCESSING"]
    /\ UNCHANGED <<aiVars, hookJob, hookTries, contact, made, found, repeated>>

findMessageByProviderId(h) ==
    /\ hookAt[h] = "dedupe"
    /\ IF Stored(hookOn[h])
       THEN HookGoTo(h, "processed") /\ repeated' = repeated \cup {h}
       ELSE HookGoTo(h, "contact") /\ UNCHANGED repeated
    /\ UNCHANGED <<aiVars, event, hookJob, hookTries, contact, made, found>>

findContactByPhone(h) ==
    /\ hookAt[h] = "contact"
    /\ HookGoTo(h, IF contact THEN "conversation" ELSE "createContact")
    /\ UNCHANGED <<aiVars, event, hookJob, hookTries, contact, made, found, repeated>>

\* The phone is unique in a workspace: who comes second throws, and is retried.
createContact(h) ==
    /\ hookAt[h] = "createContact"
    /\ contact' = TRUE
    /\ IF contact THEN HookThrow(h)
                  ELSE HookGoTo(h, "conversation") /\ UNCHANGED <<hookJob, found, repeated>>
    /\ UNCHANGED <<aiVars, event, hookTries, made>>

findLatestConversation(h) ==
    /\ hookAt[h] = "conversation"
    /\ IF made = 0
       THEN HookGoTo(h, "createConversation") /\ UNCHANGED found
       ELSE HookGoTo(h, "store") /\ found' = [found EXCEPT ![h] = made]
    /\ UNCHANGED <<aiVars, event, hookJob, hookTries, contact, made, repeated>>

\* Nothing makes a customer's conversation the only one.
createConversation(h) ==
    /\ hookAt[h] = "createConversation"
    /\ made < MaxConversations
    /\ made' = made + 1 /\ found' = [found EXCEPT ![h] = made + 1]
    /\ HookGoTo(h, "store")
    /\ UNCHANGED <<aiVars, event, hookJob, hookTries, contact, repeated>>

storeMessage(h) ==
    /\ hookAt[h] = "store"
    /\ IF Stored(hookOn[h])
       THEN HookThrow(h) /\ UNCHANGED convOf
       ELSE /\ convOf' = [convOf EXCEPT ![hookOn[h]] = found[h]]
            /\ HookGoTo(h, "processed") /\ UNCHANGED <<hookJob, found, repeated>>
    /\ shown' = IF ai[found[h]] THEN shown ELSE shown \cup {hookOn[h]}
    /\ UNCHANGED <<AiRest, job, unanswered, mishaps, event, hookTries, contact, made>>

\* A step that a refused statement turns into a failure of the attempt.  The
\* message is stored by then, and the next attempt takes it for a repetition.
Breaks(h) ==
    /\ Mishap /\ HookThrow(h)
    /\ unanswered' = IF h \in repeated THEN unanswered ELSE unanswered \cup {hookOn[h]}

\* The conversation's activity is noted first, which may fail to the same end.
MarkProcessed(h) ==
    /\ hookAt[h] = "processed"
    /\ \/ /\ event' = [event EXCEPT ![hookOn[h]] = "PROCESSED"]
          /\ HookGoTo(h, "enqueue") /\ UNCHANGED <<unanswered, hookJob, found, repeated, mishaps>>
       \/ Breaks(h) /\ UNCHANGED event
    /\ UNCHANGED <<AiRest, shown, convOf, job, hookTries, contact, made>>

\* Keyed by the message: enqueued while its job is there, it is that job.
EnqueueAiRespond(h) ==
    /\ hookAt[h] = "enqueue"
    /\ \/ /\ HookGoTo(h, "complete") /\ UNCHANGED <<unanswered, hookJob, found, repeated, mishaps>>
          /\ job' = IF h \notin repeated /\ job[hookOn[h]] = "none"
                    THEN [job EXCEPT ![hookOn[h]] = "queued"] ELSE job
       \/ Breaks(h) /\ UNCHANGED job
    /\ UNCHANGED <<AiRest, shown, convOf, event, hookTries, contact, made>>

HookComplete(h) ==
    /\ hookAt[h] = "complete"
    /\ hookJob' = [hookJob EXCEPT ![hookOn[h]] = "done"]
    /\ HookLeave(h)
    /\ UNCHANGED <<aiVars, event, hookTries, contact, made>>

HookCrash(h) ==
    /\ hookAt[h] # "idle"
    /\ Mishap /\ HookLeave(h)
    /\ unanswered' = IF hookAt[h] \in {"processed", "enqueue"} /\ h \notin repeated
                     THEN unanswered \cup {hookOn[h]} ELSE unanswered
    /\ UNCHANGED <<AiRest, shown, convOf, job, event, hookJob, hookTries, contact, made>>

HookAlive(m) == \E h \in Hooks : hookOn[h] = m

HookRequeue(m) ==
    /\ hookJob[m] = "running"
    /\ hookJob' = [hookJob EXCEPT ![m] = "queued"]
    /\ UNCHANGED <<AiRest, shown, convOf, job, unanswered, event, hookTries, contact, made>>
    /\ UNCHANGED <<hookAt, hookOn, found, repeated>>

HookReclaimStalled(m) == ~HookAlive(m) /\ HookRequeue(m) /\ Smooth
HookReclaimSlow(m) == HookAlive(m) /\ HookRequeue(m) /\ Mishap

-----------------------------------------------------------------------------
processInboundMessage(h) ==
    \/ findMessageByProviderId(h) \/ findContactByPhone(h) \/ createContact(h)
    \/ findLatestConversation(h) \/ createConversation(h) \/ storeMessage(h)

processWebhookEvent(h) ==
    \/ OpenEvent(h) \/ processInboundMessage(h) \/ MarkProcessed(h)
    \/ EnqueueAiRespond(h) \/ HookComplete(h)

HookNext ==
    \/ \E m \in Messages : persistLogicalEvent(m) \/ HookReclaimStalled(m) \/ HookReclaimSlow(m)
    \/ \E h \in Hooks, m \in Messages : HookClaim(h, m)
    \/ \E h \in Hooks : processWebhookEvent(h) \/ HookCrash(h)

Next == HookNext \/ (AiNext /\ UNCHANGED hookVars)

Spec == Init /\ [][Next]_vars

FairSpec ==
    /\ Spec /\ AiFairness
    /\ \A h \in Hooks : WF_vars(processWebhookEvent(h))
    /\ \A m \in Messages :
        WF_vars(\E h \in Hooks : HookClaim(h, m)) /\ WF_vars(HookReclaimStalled(m))

-----------------------------------------------------------------------------
(* Properties.                                                             *)

TypeOK ==
    /\ convOf \in [Messages -> Conversations \cup {None}]
    /\ ai \in [Conversations -> BOOLEAN]
    /\ job \in [Messages -> JobStates] /\ tries \in [Messages -> Nat]
    /\ turn \in [Messages -> TurnRows]
    /\ replies \in [Messages -> Nat] /\ sent \subseteq Messages
    /\ orders \in [Messages -> Nat]
    /\ at \in [Runs -> Steps \cup {"idle"}] /\ on \in [Runs -> Messages \cup {None}]
    /\ \A r \in Runs : at[r] = "idle" <=> on[r] = None
    /\ decided \in [Runs -> Decisions] /\ ordered \subseteq Runs /\ recorded \subseteq Runs
    /\ slow \subseteq Runs /\ late \in [Messages -> Nat]
    /\ unanswered \subseteq Messages /\ shown \subseteq Messages
    /\ reclaims \in [Messages -> Nat] /\ unrecorded \in [Messages -> Nat]
    /\ exposed \in [Messages -> Nat] /\ warned \subseteq Runs
    /\ toggles \in 0 .. MaxToggles /\ mishaps \in 0 .. MaxMishaps
    /\ event \in [Messages -> EventStates]
    /\ hookJob \in [Messages -> JobStates] /\ hookTries \in [Messages -> Nat]
    /\ contact \in BOOLEAN /\ made \in 0 .. MaxConversations
    /\ hookAt \in [Hooks -> HookSteps \cup {"idle"}] /\ hookOn \in [Hooks -> Messages \cup {None}]
    /\ \A h \in Hooks : hookAt[h] = "idle" <=> hookOn[h] = None
    /\ found \in [Hooks -> Conversations \cup {None}] /\ repeated \subseteq Hooks

(* Nothing is said to a customer that the turn of the message does not     *)
(* record as said: not for a turn that was handed off, nor by a run whose  *)
(* own record was refused in favour of another's.                          *)
RepliesAreRecorded == \A m \in Messages : replies[m] > 0 => turn[m] = "reply"

(* However often its delivery is retried, a message gets one reply, and    *)
(* one more at most for each time two runs of its job were let overlap.    *)
OneReplyPerMessage == \A m \in Messages : replies[m] <= 1 + reclaims[m]

(* A message gets one order.  Calls of create_order that timed out and are *)
(* tried again, or that commit when their turn is over, change nothing in  *)
(* that; what costs a further order is only a run whose turn was refused   *)
(* by the store, or two runs of the job that were let overlap.             *)
OneOrderPerTurn == \A m \in Messages : orders[m] <= 1 + reclaims[m] + unrecorded[m]

(* While people have the conversation the AI does not reply in it, but for *)
(* runs that had looked just before they took it over.                     *)
TakeoverIsHeard ==
    [][\A m \in Messages :
         replies'[m] > replies[m] => ai[convOf[m]] \/ \E r \in warned : on[r] = m]_vars

(* Nor does it begin to order: while people have the conversation, no more *)
(* orders are there than were placed or under way when they took it over.  *)
TakeoverStopsOrders ==
    \A m \in Messages : Stored(m) /\ ~ai[convOf[m]] => orders[m] <= exposed[m]

(* A stored message is answered, or people have its conversation for a     *)
(* time, or it was given up in one of the ways the code lets pass: the     *)
(* provider failed, the workspace was over its rate or without an agent,   *)
(* the attempt that stored it broke before it enqueued the turn, or the    *)
(* handoff its turn records was refused.                                   *)
GivenUp(m) == m \in unanswered \/ turn[m] = "silent" \/ job[m] = "dead"
EveryMessageIsAttended ==
    \A m \in Messages : Stored(m) ~> (m \in sent \/ m \in shown \/ GivenUp(m))

(* What the comment in executeAgentTurn promises: a turn that is recorded  *)
(* as handed off is handed off.                                            *)
HandoffCommits ==
    \A m \in Messages : (turn[m] = "handoff") ~> m \in shown
=============================================================================
