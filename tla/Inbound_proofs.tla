---------------------------- MODULE Inbound_proofs ----------------------------
(***************************************************************************)
(* Theorems about Inbound and AiTurn, for any messages, conversations,     *)
(* executions at once, attempts, takeovers and mishaps.                    *)
(***************************************************************************)
EXTENDS Inbound, FiniteSetTheorems, TLAPS

USE DEF jobs, rows, run, history

(***************************************************************************)
(* What the invariant adds to the properties.                              *)
(***************************************************************************)

\* The runs that hold a message, and those of them about to write its reply.
On(m) == {r \in Runs : on[r] = m}
Writers(m) == {r \in On(m) : at[r] = "write"}

RunSound(r) ==
    at[r] # "idle" =>
        /\ Stored(on[r]) /\ job[on[r]] # "none"
        /\ at[r] \in {"check", "write", "enqueueSend"} => turn[on[r]] = "reply"
        /\ at[r] \in {"recheck", "record"} => decided[r] # "none"
        /\ at[r] = "write" => Enabled(r) \/ r \in warned

RunsSound == \A r \in Runs : RunSound(r)

HooksSound ==
    \A h \in Hooks :
        /\ hookAt[h] = "store" => found[h] \in Conversations
        /\ hookAt[h] \in {"processed", "enqueue"} => Stored(hookOn[h])

JobsSound == \A m \in Messages : job[m] # "none" => Stored(m)

\* The runs of a message and its queued job are one, and one more for each
\* time its lock was taken to have expired.
Queued(m) == IF job[m] = "queued" THEN 1 ELSE 0
RunsBounded == \A m \in Messages : Cardinality(On(m)) + Queued(m) <= 1 + reclaims[m]

\* Whoever is about to write counts as having written.
WritersBounded == \A m \in Messages : replies[m] + Cardinality(Writers(m)) <= 1 + reclaims[m]

Sound == RunsSound /\ HooksSound /\ JobsSound /\ RepliesAreRecorded /\ RunsBounded /\ WritersBounded

\* An execution starts with no call of create_order behind it, and leaves none.
Fresh == \A r \in Runs : at[r] \in {"idle", "lookup", "begin"} => r \notin ordered \cup slow

\* The runs of a message that may yet place an order, or have one under way.
Bears(r) ==
    /\ at[r] # "idle" /\ r \notin ordered
    /\ \/ at[r] \in {"begin", "think", "create_order"} \/ r \in slow
       \/ at[r] = "lookup" /\ turn[on[r]] = "none"
Bearers(m) == {r \in On(m) : Bears(r)}

\* Those whose failure would have the whole turn run again, its row being missing.
Retries(r) == at[r] = "handOff" /\ turn[on[r]] = "none"
Retriers(m) == {r \in On(m) : Retries(r)}

\* A job that is to run, and will find no turn, is good for an order.
Credit(m) == IF turn[m] = "none" /\ job[m] \in {"none", "queued"} THEN 1 ELSE 0

OrdersCounted ==
    \A m \in Messages :
        orders[m] + Cardinality(Bearers(m)) + Cardinality(Retriers(m)) + late[m] + Credit(m)
            <= 1 + reclaims[m] + unrecorded[m]

\* While people have a conversation, no call of create_order begins in it.
OrdersExposed ==
    \A m \in Messages :
        /\ Stored(m) /\ ~ai[convOf[m]] =>
             orders[m] + Cardinality(UnderWay(m)) + late[m] <= exposed[m]
        /\ ~Stored(m) => orders[m] = 0 /\ late[m] = 0

OrdersSound == Fresh /\ OrdersCounted /\ OrdersExposed
Inv == TypeOK /\ Sound /\ OrdersSound

-----------------------------------------------------------------------------
(***************************************************************************)
(* Counting runs.                                                          *)
(***************************************************************************)
LEMMA RunsCounted ==
    ASSUME NEW S \in SUBSET Runs
    PROVE  IsFiniteSet(S) /\ Cardinality(S) \in Nat
<1>1. IsFiniteSet(Runs)
  BY AiParameters, FS_Interval DEF Runs
<1> QED
  BY <1>1, FS_Subset, FS_CardinalityType

LEMMA FewerRuns ==
    ASSUME NEW S \in SUBSET Runs, NEW T \in SUBSET S
    PROVE  Cardinality(T) <= Cardinality(S)
BY RunsCounted, FS_Subset

LEMMA RunGone ==
    ASSUME NEW S \in SUBSET Runs, NEW r \in S
    PROVE  Cardinality(S \ {r}) = Cardinality(S) - 1
BY RunsCounted, FS_RemoveElement

-----------------------------------------------------------------------------
(***************************************************************************)
(* Types.                                                                  *)
(***************************************************************************)

\* What the handlers' steps share: the next step, an end, a failure.
LEMMA GoToTyped ==
    ASSUME TypeOK, NEW r \in Runs, at[r] # "idle", NEW s \in Steps, GoTo(r, s)
    PROVE  /\ at' \in [Runs -> Steps \cup {"idle"}] /\ on' = on
           /\ \A q \in Runs : at'[q] = "idle" <=> on'[q] = None
BY DEF TypeOK, GoTo, Steps

LEMMA LeaveTyped ==
    ASSUME TypeOK, NEW r \in Runs, at[r] # "idle", Leave(r)
    PROVE  /\ at' \in [Runs -> Steps \cup {"idle"}] /\ on' \in [Runs -> Messages \cup {None}]
           /\ \A q \in Runs : at'[q] = "idle" <=> on'[q] = None
           /\ decided' \in [Runs -> Decisions]
           /\ ordered' \subseteq Runs /\ recorded' \subseteq Runs /\ warned' \subseteq Runs
           /\ slow' \subseteq Runs /\ late' \in [Messages -> Nat]
<1>1. late' \in [Messages -> Nat]
  <2>1. CASE InFlight(r)
    <3>1. late' = [late EXCEPT ![on[r]] = late[on[r]] + 1] /\ late \in [Messages -> Nat]
      BY <2>1 DEF TypeOK, Leave
    <3>2. late[on[r]] + 1 \in Nat
      BY DEF TypeOK
    <3> QED
      BY <3>1, <3>2
  <2>2. CASE ~InFlight(r)
    <3>1. late' = [late EXCEPT ![on[r]] = late[on[r]]] /\ late \in [Messages -> Nat]
      BY <2>2 DEF TypeOK, Leave
    <3> QED
      BY <3>1
  <2> QED
    BY <2>1, <2>2
<1>2. ordered' \subseteq Runs /\ recorded' \subseteq Runs /\ warned' \subseteq Runs /\ slow' \subseteq Runs
  BY DEF TypeOK, Leave
<1> QED
  BY <1>1, <1>2 DEF TypeOK, Leave, Decisions

LEMMA ThrowTyped ==
    ASSUME TypeOK, NEW r \in Runs, at[r] # "idle", Throw(r)
    PROVE  job' \in [Messages -> JobStates] /\ UNCHANGED <<tries, reclaims>> /\ Leave(r)
BY DEF TypeOK, Throw, JobStates

LEMMA MishapTyped ==
    ASSUME TypeOK, Mishap \/ Smooth
    PROVE  mishaps' \in 0 .. MaxMishaps
BY AiParameters DEF TypeOK, Mishap, Smooth

LEMMA SwitchOffTyped ==
    ASSUME TypeOK, NEW c, SwitchOff(c)
    PROVE  /\ ai' \in [Conversations -> BOOLEAN] /\ shown' \subseteq Messages
           /\ warned' \subseteq Runs /\ exposed' \in [Messages -> Nat]
<1>1. \A m \in Messages : Cardinality(UnderWay(m)) \in Nat
  BY RunsCounted DEF UnderWay
<1>2. \A m \in Messages : orders[m] + Cardinality(UnderWay(m)) + late[m] \in Nat /\ exposed[m] \in Nat
  BY <1>1 DEF TypeOK
<1>3. exposed' \in [Messages -> Nat]
  BY <1>2 DEF SwitchOff
<1>4. ai' \in [Conversations -> BOOLEAN]
  BY DEF SwitchOff, TypeOK
<1>5. shown' \subseteq Messages /\ warned' \subseteq Runs
  BY DEF SwitchOff, TypeOK
<1> QED
  BY <1>3, <1>4, <1>5

LEMMA HookGoToTyped ==
    ASSUME TypeOK, NEW h \in Hooks, hookAt[h] # "idle", NEW s \in HookSteps, HookGoTo(h, s)
    PROVE  /\ hookAt' \in [Hooks -> HookSteps \cup {"idle"}] /\ hookOn' = hookOn
           /\ \A g \in Hooks : hookAt'[g] = "idle" <=> hookOn'[g] = None
BY DEF TypeOK, HookGoTo, HookSteps

LEMMA HookLeaveTyped ==
    ASSUME TypeOK, NEW h \in Hooks, HookLeave(h)
    PROVE  /\ hookAt' \in [Hooks -> HookSteps \cup {"idle"}]
           /\ hookOn' \in [Hooks -> Messages \cup {None}]
           /\ \A g \in Hooks : hookAt'[g] = "idle" <=> hookOn'[g] = None
           /\ found' \in [Hooks -> Conversations \cup {None}] /\ repeated' \subseteq Hooks
BY DEF TypeOK, HookLeave

LEMMA HookThrowTyped ==
    ASSUME TypeOK, NEW h \in Hooks, hookAt[h] # "idle", HookThrow(h)
    PROVE  hookJob' \in [Messages -> JobStates] /\ HookLeave(h)
BY DEF TypeOK, HookThrow, JobStates

LEMMA RunTypes ==
    ASSUME TypeOK, RunsSound, Fresh, NEW r \in Runs,
           aiRespondHandler(r) \/ Crash(r) \/ AbandonedOrder(r), UNCHANGED hookVars
    PROVE  TypeOK'
<1> USE DEF hookVars
<1>0. at[r] # "idle" /\ on[r] \in Messages
  BY DEF Fresh, TypeOK, aiRespondHandler, executeAgentTurn, deliverAgentReply, Crash, findAITurnByMessageId,
    LoadContext, GroundingFailed, BeforeWrite, createOrder, OrderFails, ToolTrouble, Answer, Recheck,
    createAITurn, TurnRefused, triggerHumanHandoff, LookForReply, createMessage, enqueueSend, Complete,
    AbandonedOrder
<1>1. CASE findAITurnByMessageId(r)
  <2>1. PICK s \in Steps : GoTo(r, s)
    BY <1>1 DEF findAITurnByMessageId, Steps
  <2> QED
    BY <1>0, <1>1, <2>1, GoToTyped DEF findAITurnByMessageId, TypeOK
<1>2. CASE LoadContext(r)
  <2>1. PICK s \in Steps : GoTo(r, s)
    BY <1>2 DEF LoadContext, Steps
  <2> QED
    BY <1>0, <1>2, <2>1, GoToTyped DEF LoadContext, TypeOK
<1>3. CASE GroundingFailed(r)
  BY <1>0, <1>3, LeaveTyped, ThrowTyped, MishapTyped DEF GroundingFailed, TypeOK
<1>4. CASE BeforeWrite(r)
  <2>1. PICK s \in Steps : GoTo(r, s)
    BY <1>4 DEF BeforeWrite, Steps
  <2> QED
    BY <1>0, <1>4, <2>1, GoToTyped DEF BeforeWrite, TypeOK
<1>5. CASE createOrder(r)
  <2>1. PICK s \in Steps : GoTo(r, s)
    BY <1>5 DEF createOrder, Steps
  <2> QED
    BY <1>0, <1>5, <2>1, GoToTyped DEF createOrder, PlaceOrder, TypeOK
<1>6. CASE ToolTrouble(r)
  BY <1>6 DEF ToolTrouble, Decide, Decisions, TypeOK
<1>7. CASE Answer(r)
  <2>1. PICK s \in Steps : GoTo(r, s)
    BY <1>7 DEF Answer, Steps
  <2>2. decided' \in [Runs -> Decisions]
    BY <1>7 DEF Answer, Decide, Decisions, TypeOK
  <2> QED
    BY <1>0, <1>7, <2>1, <2>2, GoToTyped DEF Answer, TypeOK
<1>8. CASE Recheck(r)
  <2>1. PICK s \in Steps : GoTo(r, s)
    BY <1>8 DEF Recheck, Steps
  <2>2. decided' \in [Runs -> Decisions]
    BY <1>8 DEF Recheck, Decisions, TypeOK
  <2> QED
    BY <1>0, <1>8, <2>1, <2>2, GoToTyped DEF Recheck, TypeOK
<1>9. CASE createAITurn(r)
  <2>1. decided[r] \in {"reply", "silent", "handoff"}
    BY <1>9 DEF createAITurn, RunsSound, RunSound, TypeOK, Decisions
  <2>2. PICK s \in Steps : GoTo(r, s)
    BY <1>9, <2>1 DEF createAITurn, Steps
  <2>3. turn' \in [Messages -> TurnRows]
    BY <1>0, <1>9, <2>1 DEF createAITurn, TypeOK, TurnRows
  <2> QED
    BY <1>0, <1>9, <2>2, <2>3, GoToTyped DEF createAITurn, TypeOK
<1>10. CASE TurnRefused(r)
  <2>1. decided[r] \in {"reply", "silent", "handoff"}
    BY <1>10 DEF TurnRefused, RunsSound, RunSound, TypeOK, Decisions
  <2>2. mishaps' \in 0 .. MaxMishaps
    BY <1>10, MishapTyped DEF TurnRefused
  <2>3. unrecorded' \in [Messages -> Nat]
    BY <1>0, <1>10 DEF TurnRefused, TypeOK
  <2>4. CASE decided[r] = "reply"
    <3>1. Throw(r) /\ UNCHANGED <<convOf, ai, rows, unanswered, shown, exposed, toggles>>
      BY <1>10, <2>4 DEF TurnRefused
    <3>2. job' \in [Messages -> JobStates] /\ UNCHANGED <<tries, reclaims>> /\ Leave(r)
      BY <1>0, <3>1, ThrowTyped
    <3> QED
      BY <1>0, <2>2, <2>3, <3>1, <3>2, LeaveTyped DEF TypeOK
  <2>5. CASE decided[r] \in {"silent", "handoff"}
    <3>1. PICK s \in Steps : GoTo(r, s)
      BY <1>10, <2>5 DEF TurnRefused, Steps
    <3>2. /\ UNCHANGED <<convOf, ai, jobs, rows, run, reclaims, shown, exposed, warned, toggles>>
          /\ unanswered' \in {unanswered, unanswered \cup {on[r]}}
      BY <1>10, <2>5 DEF TurnRefused
    <3>3. on[r] \in Messages
      BY <1>0, <1>10 DEF TypeOK, TurnRefused
    <3> QED
      BY <1>0, <2>2, <2>3, <3>1, <3>2, <3>3, GoToTyped DEF TypeOK
  <2> QED
    BY <2>1, <2>4, <2>5
<1>11. CASE triggerHumanHandoff(r)
  <2>1. CASE /\ SwitchOff(convOf[on[r]]) /\ GoTo(r, "complete")
             /\ UNCHANGED <<jobs, run, unanswered, reclaims, mishaps>>
    BY <1>0, <1>11, <2>1, GoToTyped, SwitchOffTyped DEF triggerHumanHandoff, Steps, TypeOK
  <2>2. CASE /\ Mishap /\ Throw(r) /\ unanswered' = unanswered \cup {on[r]}
             /\ UNCHANGED <<ai, shown, exposed>>
    BY <1>0, <1>11, <2>2, LeaveTyped, ThrowTyped, MishapTyped DEF triggerHumanHandoff, TypeOK
  <2> QED
    BY <1>11, <2>1, <2>2 DEF triggerHumanHandoff
<1>12. CASE LookForReply(r)
  <2>1. PICK s \in Steps : GoTo(r, s)
    BY <1>12 DEF LookForReply, Steps
  <2> QED
    BY <1>0, <1>12, <2>1, GoToTyped DEF LookForReply, TypeOK
<1>13. CASE createMessage(r)
  <2>1. PICK s \in Steps : GoTo(r, s)
    BY <1>13 DEF createMessage, Steps
  <2> QED
    BY <1>0, <1>13, <2>1, GoToTyped DEF createMessage, TypeOK
<1>14. CASE enqueueSend(r)
  <2>1. CASE GoTo(r, "complete") /\ UNCHANGED <<jobs, run, reclaims, warned, mishaps>>
    BY <1>0, <1>14, <2>1, GoToTyped DEF enqueueSend, Steps, TypeOK
  <2>2. CASE Mishap /\ Throw(r) /\ UNCHANGED sent
    BY <1>0, <1>14, <2>2, LeaveTyped, ThrowTyped, MishapTyped DEF enqueueSend, TypeOK
  <2> QED
    BY <1>14, <2>1, <2>2 DEF enqueueSend
<1>15. CASE Complete(r)
  <2>1. job' \in [Messages -> JobStates]
    BY <1>0, <1>15 DEF Complete, TypeOK, JobStates
  <2> QED
    BY <1>0, <1>15, <2>1, LeaveTyped DEF Complete, TypeOK
<1>16. CASE Crash(r)
  BY <1>0, <1>16, LeaveTyped, MishapTyped DEF Crash, TypeOK
<1>17. CASE OrderFails(r)
  BY <1>0, <1>17, GoToTyped DEF OrderFails, Steps, TypeOK
<1>18. CASE AbandonedOrder(r)
  BY <1>0, <1>18 DEF AbandonedOrder, PlaceOrder, TypeOK
<1> QED
  BY <1>1, <1>2, <1>3, <1>4, <1>5, <1>6, <1>7, <1>8, <1>9, <1>10, <1>11, <1>12, <1>13, <1>14, <1>15, <1>16,
    <1>17, <1>18
  DEF aiRespondHandler, executeAgentTurn, deliverAgentReply

LEMMA QueueTypes ==
    ASSUME TypeOK, UNCHANGED hookVars,
           \/ \E r \in Runs, m \in Messages : Claim(r, m)
           \/ \E m \in Messages : ReclaimStalled(m) \/ ReclaimSlow(m) \/ LateOrder(m)
           \/ \E c \in Conversations : toggleConversationAi(c)
    PROVE  TypeOK'
<1> USE DEF hookVars
<1>1. ASSUME NEW r \in Runs, NEW m \in Messages, Claim(r, m) PROVE TypeOK'
  <2>1. /\ at' \in [Runs -> Steps \cup {"idle"}] /\ on' \in [Runs -> Messages \cup {None}]
        /\ \A q \in Runs : at'[q] = "idle" <=> on'[q] = None
    BY <1>1, AiParameters DEF Claim, TypeOK, Steps
  <2> QED
    BY <1>1, <2>1 DEF Claim, TypeOK, JobStates
<1>2. ASSUME NEW m \in Messages, Requeue(m), Mishap \/ Smooth PROVE TypeOK'
  BY <1>2, MishapTyped DEF Requeue, TypeOK, JobStates
<1>3. ASSUME NEW c \in Conversations, toggleConversationAi(c) PROVE TypeOK'
  <2>1. toggles' \in 0 .. MaxToggles
    BY <1>3, AiParameters DEF toggleConversationAi, TypeOK
  <2>2. /\ ai' \in [Conversations -> BOOLEAN] /\ shown' \subseteq Messages /\ warned' \subseteq Runs
        /\ exposed' \in [Messages -> Nat]
    <3>1. CASE ai[c]
      BY <1>3, <3>1, SwitchOffTyped DEF toggleConversationAi
    <3>2. CASE ~ai[c]
      BY <1>3, <3>2 DEF toggleConversationAi, TypeOK
    <3> QED
      BY <3>1, <3>2
  <2> QED
    BY <1>3, <2>1, <2>2 DEF toggleConversationAi, TypeOK
<1>4. ASSUME NEW m \in Messages, LateOrder(m) PROVE TypeOK'
  BY <1>4 DEF LateOrder, TypeOK
<1> QED
  BY <1>1, <1>2, <1>3, <1>4 DEF ReclaimStalled, ReclaimSlow

LEMMA HookTypes ==
    ASSUME TypeOK, HooksSound, HookNext
    PROVE  TypeOK'
<1> USE DEF aiVars, AiRest
<1>1. ASSUME NEW m \in Messages, persistLogicalEvent(m) PROVE TypeOK'
  BY <1>1 DEF persistLogicalEvent, TypeOK, EventStates, JobStates
<1>2. ASSUME NEW m \in Messages, HookRequeue(m), Mishap \/ Smooth PROVE TypeOK'
  BY <1>2, MishapTyped DEF HookRequeue, TypeOK, JobStates
<1>3. ASSUME NEW h \in Hooks, NEW m \in Messages, HookClaim(h, m) PROVE TypeOK'
  <2>1. /\ hookAt' \in [Hooks -> HookSteps \cup {"idle"}] /\ hookOn' \in [Hooks -> Messages \cup {None}]
        /\ \A g \in Hooks : hookAt'[g] = "idle" <=> hookOn'[g] = None
    BY <1>3, AiParameters DEF HookClaim, TypeOK, HookSteps
  <2> QED
    BY <1>3, <2>1 DEF HookClaim, TypeOK, JobStates
<1>4. ASSUME NEW h \in Hooks, processWebhookEvent(h) \/ HookCrash(h) PROVE TypeOK'
  <2>0. hookAt[h] # "idle" /\ hookOn[h] \in Messages
    BY <1>4 DEF TypeOK, processWebhookEvent, processInboundMessage, HookCrash, OpenEvent,
      findMessageByProviderId, findContactByPhone, createContact, findLatestConversation,
      createConversation, storeMessage, MarkProcessed, EnqueueAiRespond, HookComplete
  <2>1. CASE OpenEvent(h)
    BY <2>0, <2>1, HookGoToTyped DEF OpenEvent, TypeOK, HookSteps, EventStates
  <2>2. CASE findMessageByProviderId(h)
    BY <2>0, <2>2, HookGoToTyped DEF findMessageByProviderId, TypeOK, HookSteps
  <2>3. CASE findContactByPhone(h)
    <3>1. PICK s \in HookSteps : HookGoTo(h, s)
      BY <2>3 DEF findContactByPhone, HookSteps
    <3> QED
      BY <2>0, <2>3, <3>1, HookGoToTyped DEF findContactByPhone, TypeOK
  <2>4. CASE createContact(h)
    <3>1. CASE contact
      BY <2>0, <2>4, <3>1, HookLeaveTyped, HookThrowTyped DEF createContact, TypeOK
    <3>2. CASE ~contact
      BY <2>0, <2>4, <3>2, HookGoToTyped DEF createContact, TypeOK, HookSteps
    <3> QED
      BY <3>1, <3>2
  <2>5. CASE findLatestConversation(h)
    <3>1. found' \in [Hooks -> Conversations \cup {None}]
      <4>1. made # 0 => made \in Conversations
        BY AiParameters DEF TypeOK, Conversations
      <4> QED
        BY <2>5, <4>1 DEF findLatestConversation, TypeOK
    <3> QED
      BY <2>0, <2>5, <3>1, HookGoToTyped DEF findLatestConversation, TypeOK, HookSteps
  <2>6. CASE createConversation(h)
    <3>1. found' \in [Hooks -> Conversations \cup {None}] /\ made' \in 0 .. MaxConversations
      BY <2>6, AiParameters DEF createConversation, TypeOK, Conversations
    <3> QED
      BY <2>0, <2>6, <3>1, HookGoToTyped DEF createConversation, TypeOK, HookSteps
  <2>7. CASE storeMessage(h)
    <3>1. shown' \subseteq Messages
      BY <2>0, <2>7 DEF storeMessage, TypeOK
    <3>2. CASE Stored(hookOn[h])
      BY <2>0, <2>7, <3>1, <3>2, HookLeaveTyped, HookThrowTyped DEF storeMessage, TypeOK
    <3>3. CASE ~Stored(hookOn[h])
      <4>1. convOf' \in [Messages -> Conversations \cup {None}]
        BY <2>0, <2>7, <3>3 DEF storeMessage, TypeOK
      <4> QED
        BY <2>0, <2>7, <3>1, <3>3, <4>1, HookGoToTyped DEF storeMessage, TypeOK, HookSteps
    <3> QED
      BY <3>2, <3>3
  <2>8. ASSUME Breaks(h), UNCHANGED <<AiRest, shown, convOf, job, event, hookTries, contact, made>>
        PROVE  TypeOK'
    BY <2>0, <2>8, HookLeaveTyped, HookThrowTyped, MishapTyped DEF Breaks, TypeOK
  <2>9. CASE MarkProcessed(h)
    <3>1. CASE Breaks(h) /\ UNCHANGED event
      BY <2>8, <2>9, <3>1 DEF MarkProcessed
    <3>2. CASE /\ event' = [event EXCEPT ![hookOn[h]] = "PROCESSED"]
               /\ HookGoTo(h, "enqueue") /\ UNCHANGED <<unanswered, hookJob, found, repeated, mishaps>>
      BY <2>0, <2>9, <3>2, HookGoToTyped DEF MarkProcessed, TypeOK, HookSteps, EventStates
    <3> QED
      BY <2>9, <3>1, <3>2 DEF MarkProcessed
  <2>10. CASE EnqueueAiRespond(h)
    <3>1. CASE Breaks(h) /\ UNCHANGED job
      BY <2>8, <2>10, <3>1 DEF EnqueueAiRespond
    <3>2. CASE /\ HookGoTo(h, "complete") /\ UNCHANGED <<unanswered, hookJob, found, repeated, mishaps>>
               /\ job' = IF h \notin repeated /\ job[hookOn[h]] = "none"
                         THEN [job EXCEPT ![hookOn[h]] = "queued"] ELSE job
      <4>1. job' \in [Messages -> JobStates]
        BY <3>2 DEF TypeOK, JobStates
      <4> QED
        BY <2>0, <2>10, <3>2, <4>1, HookGoToTyped DEF EnqueueAiRespond, TypeOK, HookSteps
    <3> QED
      BY <2>10, <3>1, <3>2 DEF EnqueueAiRespond
  <2>11. CASE HookComplete(h)
    <3>1. hookJob' \in [Messages -> JobStates]
      BY <2>11 DEF HookComplete, TypeOK, JobStates
    <3> QED
      BY <2>0, <2>11, <3>1, HookLeaveTyped DEF HookComplete, TypeOK
  <2>12. CASE HookCrash(h)
    BY <2>0, <2>12, HookLeaveTyped, MishapTyped DEF HookCrash, TypeOK
  <2> QED
    BY <1>4, <2>1, <2>2, <2>3, <2>4, <2>5, <2>6, <2>7, <2>9, <2>10, <2>11, <2>12
    DEF processWebhookEvent, processInboundMessage
<1> QED
  BY <1>1, <1>2, <1>3, <1>4 DEF HookNext, HookReclaimStalled, HookReclaimSlow

LEMMA TypesStep == TypeOK /\ RunsSound /\ HooksSound /\ Fresh /\ [Next]_vars => TypeOK'
<1> SUFFICES ASSUME TypeOK, RunsSound, HooksSound, Fresh, [Next]_vars PROVE TypeOK'
  OBVIOUS
<1>1. CASE UNCHANGED vars
  BY <1>1 DEF vars, aiVars, hookVars, TypeOK
<1>2. CASE HookNext
  BY <1>2, HookTypes
<1>3. CASE AiNext /\ UNCHANGED hookVars
  BY <1>3, RunTypes, QueueTypes DEF AiNext
<1> QED
  BY <1>1, <1>2, <1>3 DEF Next

-----------------------------------------------------------------------------
(***************************************************************************)
(* Runs and what they may count on.                                        *)
(***************************************************************************)
\* A run to which a step does nothing, and whose facts the step respects.
LEMMA OtherRunSound ==
    ASSUME RunsSound, NEW q \in Runs,
           at'[q] = at[q], on'[q] = on[q], decided'[q] = decided[q],
           at[q] # "idle" =>
              /\ convOf'[on[q]] = convOf[on[q]] /\ job'[on[q]] # "none"
              /\ turn[on[q]] = "reply" => turn'[on[q]] = "reply"
              /\ at[q] = "write" /\ (Enabled(q) \/ q \in warned) =>
                    ai'[convOf[on[q]]] \/ q \in warned'
    PROVE  RunSound(q)'
BY DEF RunsSound, RunSound, Stored, Enabled

LEMMA NoMoreWriters ==
    ASSUME TypeOK, WritersBounded, UNCHANGED <<replies, reclaims>>,
           \A m \in Messages : Writers(m)' \in SUBSET Writers(m)
    PROVE  WritersBounded'
<1> SUFFICES ASSUME NEW m \in Messages
             PROVE  (replies[m] + Cardinality(Writers(m)) <= 1 + reclaims[m])'
  BY DEF WritersBounded
<1>1. PICK W : W = Writers(m)'
  OBVIOUS
<1>2. Writers(m) \in SUBSET Runs /\ W \in SUBSET Writers(m)
  BY <1>1 DEF Writers, On
<1>3. Cardinality(W) <= Cardinality(Writers(m)) /\ Cardinality(W) \in Nat /\ Cardinality(Writers(m)) \in Nat
  BY <1>2, FewerRuns, RunsCounted
<1>4. replies[m] \in Nat /\ reclaims[m] \in Nat
  BY DEF TypeOK
<1>5. replies[m] + Cardinality(Writers(m)) <= 1 + reclaims[m]
  BY DEF WritersBounded
<1>6. Cardinality(Writers(m))' = Cardinality(W)
  BY <1>1
<1> QED
  BY <1>3, <1>4, <1>5, <1>6

\* A run goes on and touches nothing the others go by.
LEMMA MoveKeeps ==
    ASSUME Inv, NEW r \in Runs, at[r] # "idle", NEW s, at' = [at EXCEPT ![r] = s],
           UNCHANGED <<convOf, ai, job, turn, on, reclaims, hookVars>>,
           \A q \in Runs \ {r} : decided'[q] = decided[q] /\ (q \in warned => q \in warned'),
           RunSound(r)'
    PROVE  RunsSound' /\ HooksSound' /\ JobsSound' /\ RunsBounded'
<1> USE DEF Inv, Sound
<1>1. RunsSound'
  <2> SUFFICES ASSUME NEW q \in Runs \ {r} PROVE RunSound(q)'
    BY DEF RunsSound
  <2>1. at'[q] = at[q] /\ on'[q] = on[q] /\ decided'[q] = decided[q] /\ (at[q] # "idle" => job[on[q]] # "none")
    BY DEF TypeOK, RunsSound, RunSound
  <2> QED
    BY <2>1, OtherRunSound DEF Enabled
<1>2. HooksSound' /\ JobsSound'
  BY DEF HooksSound, JobsSound, Stored, hookVars
<1>3. RunsBounded'
  <2>1. \A m : On(m)' = On(m) /\ Queued(m)' = Queued(m)
    BY DEF On, Queued
  <2> QED
    BY <2>1 DEF RunsBounded
<1> QED
  BY <1>1, <1>2, <1>3

\* ... and neither records a turn nor writes, nor is about to write.
LEMMA QuietMoveKeeps ==
    ASSUME Inv, NEW r \in Runs, at[r] # "idle", NEW s, s # "write", at' = [at EXCEPT ![r] = s],
           UNCHANGED <<convOf, ai, job, turn, on, reclaims, replies, hookVars>>,
           \A q \in Runs \ {r} : decided'[q] = decided[q] /\ (q \in warned => q \in warned'),
           RunSound(r)'
    PROVE  Sound'
<1>1. RunsSound' /\ HooksSound' /\ JobsSound' /\ RunsBounded'
  BY MoveKeeps
<1>2. WritersBounded'
  <2>1. \A m \in Messages : Writers(m)' \in SUBSET Writers(m)
    BY DEF Writers, On, Inv, TypeOK
  <2> QED
    BY <2>1, NoMoreWriters DEF Inv, Sound
<1>3. RepliesAreRecorded'
  BY DEF RepliesAreRecorded, Inv, Sound
<1> QED
  BY <1>1, <1>2, <1>3 DEF Sound

\* A run ends, and its job is left as it is, queued, done or dead.
LEMMA LeaveKeeps ==
    ASSUME Inv, NEW r \in Runs, at[r] # "idle", Leave(r),
           UNCHANGED <<convOf, ai, turn, reclaims, replies, hookVars>>,
           job' = job \/ \E st \in JobStates \ {"none"} : job' = [job EXCEPT ![on[r]] = st]
    PROVE  Sound'
<1> USE DEF Inv, Sound
<1>1. PICK n \in Messages : n = on[r]
  BY DEF TypeOK
<1>2. \A m \in Messages : /\ job[m] # "none" => job'[m] # "none"
                          /\ m # n => job'[m] = job[m]
                          /\ job[m] = "none" /\ job'[m] # "none" => m = n
  BY <1>1 DEF TypeOK
<1>3. /\ at'[r] = "idle" /\ on'[r] = None
      /\ \A q \in Runs \ {r} : at'[q] = at[q] /\ on'[q] = on[q] /\ decided'[q] = decided[q]
                              /\ (q \in warned => q \in warned')
  BY DEF Leave, TypeOK
<1>4. RunsSound'
  <2>1. RunSound(r)'
    BY <1>3 DEF RunSound
  <2> SUFFICES ASSUME NEW q \in Runs \ {r} PROVE RunSound(q)'
    BY <2>1 DEF RunsSound
  <2>2. at[q] # "idle" => on[q] \in Messages /\ job'[on[q]] # "none"
    BY <1>2 DEF TypeOK, RunsSound, RunSound
  <2> QED
    BY <1>3, <2>2, OtherRunSound DEF Enabled
<1>5. HooksSound'
  BY DEF HooksSound, Stored, hookVars
<1>6. JobsSound'
  <2>1. Stored(n)
    BY <1>1 DEF RunsSound, RunSound
  <2> QED
    BY <1>2, <2>1 DEF JobsSound, Stored
<1>7. \A m \in Messages : On(m)' = On(m) \ {r}
  BY <1>3, AiParameters DEF On
<1>8. RunsBounded'
  <2> SUFFICES ASSUME NEW m \in Messages
               PROVE  (Cardinality(On(m)) + Queued(m) <= 1 + reclaims[m])'
    BY DEF RunsBounded
  <2>1. On(m) \in SUBSET Runs /\ Cardinality(On(m)) \in Nat /\ reclaims[m] \in Nat
    BY RunsCounted DEF On, TypeOK
  <2>2. Cardinality(On(m)) + Queued(m) <= 1 + reclaims[m]
    BY DEF RunsBounded
  <2>3. Cardinality(On(m))' = Cardinality(On(m) \ {r})
    BY <1>7
  <2>4. CASE m = n
    <3>1. Cardinality(On(m) \ {r}) = Cardinality(On(m)) - 1
      BY <1>1, <2>1, <2>4, RunGone DEF On
    <3> QED
      BY <2>1, <2>2, <2>3, <3>1 DEF Queued
  <2>5. CASE m # n
    <3>1. On(m) \ {r} = On(m)
      BY <1>1, <2>5 DEF On
    <3> QED
      BY <1>2, <2>2, <2>3, <2>5, <3>1 DEF Queued
  <2> QED
    BY <2>4, <2>5
<1>9. WritersBounded'
  <2>1. \A m \in Messages : Writers(m)' \in SUBSET Writers(m)
    BY <1>3, <1>7 DEF Writers, On
  <2> QED
    BY <2>1, NoMoreWriters
<1>10. RepliesAreRecorded'
  BY DEF RepliesAreRecorded
<1> QED
  BY <1>4, <1>5, <1>6, <1>8, <1>9, <1>10

LEMMA ThrowKeeps ==
    ASSUME Inv, NEW r \in Runs, at[r] # "idle", Throw(r),
           UNCHANGED <<convOf, ai, turn, replies, hookVars>>
    PROVE  Sound'
<1>1. \E st \in JobStates \ {"none"} : job' = [job EXCEPT ![on[r]] = st]
  <2>1. PICK st \in JobStates \ {"none"} : st = IF tries[on[r]] < MaxAttempts THEN "queued" ELSE "dead"
    BY DEF JobStates
  <2> QED
    BY <2>1 DEF Throw
<1> QED
  BY <1>1, LeaveKeeps DEF Throw

-----------------------------------------------------------------------------
(***************************************************************************)
(* The handler's steps.                                                    *)
(***************************************************************************)

\* A step that changes nothing Sound speaks of, as orders and their calls are.
LEMMA StillKeeps ==
    ASSUME Inv, UNCHANGED <<at, on, convOf, ai, job, turn, reclaims, decided, replies, warned>>,
           UNCHANGED <<hookAt, hookOn, found>>
    PROVE  Sound'
<1> USE DEF Inv, Sound
<1>1. RunsSound' /\ JobsSound' /\ RepliesAreRecorded' /\ HooksSound'
  BY DEF RunsSound, RunSound, JobsSound, RepliesAreRecorded, HooksSound, Stored, Enabled
<1>2. \A m : On(m)' = On(m) /\ Writers(m)' = Writers(m) /\ Queued(m)' = Queued(m)
  BY DEF On, Writers, Queued
<1> QED
  BY <1>1, <1>2 DEF RunsBounded, WritersBounded

\* Steps that only go on to another one, and keep to what the run may count on.
LEMMA QuietSteps ==
    ASSUME Inv, NEW r \in Runs, UNCHANGED hookVars,
           \/ findAITurnByMessageId(r) \/ LoadContext(r) \/ BeforeWrite(r) \/ createOrder(r)
           \/ OrderFails(r) \/ AbandonedOrder(r) \/ ToolTrouble(r) \/ Answer(r) \/ Recheck(r)
    PROVE  Sound'
<1>0. at[r] # "idle" /\ on[r] \in Messages /\ RunSound(r)
  BY DEF Inv, Sound, OrdersSound, RunsSound, Fresh, TypeOK, findAITurnByMessageId, LoadContext, BeforeWrite, createOrder,
    OrderFails, AbandonedOrder, ToolTrouble, Answer, Recheck
<1>1. CASE findAITurnByMessageId(r)
  <2>1. PICK s \in {"begin", "check", "complete"} : GoTo(r, s)
                     /\ (s = "begin" => turn[on[r]] = "none") /\ (s = "check" => turn[on[r]] = "reply")
    BY <1>1 DEF findAITurnByMessageId
  <2>2. RunSound(r)'
    BY <1>0, <1>1, <2>1 DEF GoTo, RunSound, findAITurnByMessageId, Inv, TypeOK, Stored
  <2> QED
    BY <1>0, <1>1, <2>1, <2>2, QuietMoveKeeps DEF GoTo, findAITurnByMessageId
<1>2. CASE LoadContext(r)
  <2>1. PICK s \in {"think", "complete"} : GoTo(r, s)
    BY <1>2 DEF LoadContext
  <2>2. RunSound(r)'
    BY <1>0, <1>2, <2>1 DEF GoTo, RunSound, LoadContext, Inv, TypeOK, Stored
  <2> QED
    BY <1>0, <1>2, <2>1, <2>2, QuietMoveKeeps DEF GoTo, LoadContext
<1>3. CASE BeforeWrite(r)
  <2>1. RunSound(r)'
    BY <1>0, <1>3 DEF GoTo, RunSound, BeforeWrite, Inv, TypeOK, Stored, Enabled
  <2> QED
    BY <1>0, <1>3, <2>1, QuietMoveKeeps DEF GoTo, BeforeWrite
<1>4. CASE createOrder(r)
  <2>1. RunSound(r)'
    BY <1>0, <1>4 DEF GoTo, RunSound, createOrder, PlaceOrder, Inv, TypeOK, Stored
  <2> QED
    BY <1>0, <1>4, <2>1, QuietMoveKeeps DEF GoTo, createOrder, PlaceOrder
<1>5. CASE ToolTrouble(r)
  <2>1. at' = [at EXCEPT ![r] = "think"] /\ \A q \in Runs \ {r} : decided'[q] = decided[q]
    BY <1>5 DEF ToolTrouble, Decide, Inv, TypeOK
  <2>2. RunSound(r)'
    BY <1>0, <1>5 DEF RunSound, ToolTrouble, Stored
  <2> QED
    BY <1>0, <1>5, <2>1, <2>2, QuietMoveKeeps DEF ToolTrouble
<1>6. CASE Answer(r)
  <2>1. decided'[r] # "none" /\ \A q \in Runs \ {r} : decided'[q] = decided[q]
    BY <1>6 DEF Answer, Decide, Inv, TypeOK
  <2>2. RunSound(r)'
    BY <1>0, <1>6, <2>1 DEF GoTo, RunSound, Answer, Inv, TypeOK, Stored
  <2> QED
    BY <1>0, <1>6, <2>1, <2>2, QuietMoveKeeps DEF GoTo, Answer
<1>7. CASE Recheck(r)
  <2>1. decided'[r] # "none" /\ \A q \in Runs \ {r} : decided'[q] = decided[q]
    BY <1>0, <1>7 DEF Recheck, RunSound, Inv, TypeOK
  <2>2. RunSound(r)'
    BY <1>0, <1>7, <2>1 DEF GoTo, RunSound, Recheck, Inv, TypeOK, Stored
  <2> QED
    BY <1>0, <1>7, <2>1, <2>2, QuietMoveKeeps DEF GoTo, Recheck
<1>8. CASE OrderFails(r)
  <2>1. RunSound(r)'
    BY <1>0, <1>8 DEF GoTo, RunSound, OrderFails, Inv, TypeOK, Stored
  <2> QED
    BY <1>0, <1>8, <2>1, QuietMoveKeeps DEF GoTo, OrderFails
<1>9. CASE AbandonedOrder(r)
  <2>1. UNCHANGED <<at, on, convOf, ai, job, turn, reclaims, decided, replies, warned>>
    BY <1>9 DEF AbandonedOrder, PlaceOrder
  <2> QED
    BY <2>1, StillKeeps DEF hookVars
<1> QED
  BY <1>1, <1>2, <1>3, <1>4, <1>5, <1>6, <1>7, <1>8, <1>9

\* A turn's row is written once, and what a run goes by is what it says.
LEMMA RecordKeeps ==
    ASSUME Inv, NEW r \in Runs, UNCHANGED hookVars, createAITurn(r)
    PROVE  Sound'
<1> USE DEF Inv, Sound
<1>1. PICK n \in Messages : n = on[r] /\ at[r] = "record" /\ turn[n] = "none" /\ RunSound(r)
  BY DEF createAITurn, RunsSound, TypeOK
<1>2. decided[r] \in {"reply", "silent", "handoff"}
  BY <1>1 DEF RunSound, TypeOK, Decisions
<1>3. PICK s \in {"handOff", "complete", "check"} : GoTo(r, s) /\ (s = "check" <=> decided[r] = "reply")
  BY <1>2 DEF createAITurn
<1>4. \A m \in Messages : turn'[m] = IF m = n THEN decided[r] ELSE turn[m]
  BY <1>1 DEF createAITurn, TypeOK
<1>5. /\ at'[r] = s /\ \A q \in Runs \ {r} : at'[q] = at[q]
      /\ UNCHANGED <<on, convOf, ai, job, tries, replies, decided, reclaims, warned>>
  BY <1>3 DEF createAITurn, GoTo, TypeOK
<1>6. RunsSound'
  <2>1. RunSound(r)'
    BY <1>1, <1>3, <1>4, <1>5 DEF RunSound, Stored
  <2> SUFFICES ASSUME NEW q \in Runs \ {r} PROVE RunSound(q)'
    BY <2>1 DEF RunsSound
  <2>2. at[q] # "idle" => on[q] \in Messages /\ job[on[q]] # "none"
    BY DEF TypeOK, RunsSound, RunSound
  <2> QED
    BY <1>1, <1>4, <1>5, <2>2, OtherRunSound DEF Enabled
<1>7. HooksSound' /\ JobsSound'
  BY <1>5 DEF HooksSound, JobsSound, Stored, hookVars
<1>8. RunsBounded'
  <2>1. \A m : On(m)' = On(m) /\ Queued(m)' = Queued(m)
    BY <1>5 DEF On, Queued
  <2> QED
    BY <1>5, <2>1 DEF RunsBounded
<1>9. WritersBounded'
  <2>1. \A m \in Messages : Writers(m)' \in SUBSET Writers(m)
    BY <1>3, <1>5 DEF Writers, On
  <2> QED
    BY <1>5, <2>1, NoMoreWriters
<1>10. RepliesAreRecorded'
  BY <1>1, <1>4, <1>5 DEF RepliesAreRecorded, TypeOK
<1> QED
  BY <1>6, <1>7, <1>8, <1>9, <1>10

LEMMA RefusalKeeps ==
    ASSUME Inv, NEW r \in Runs, UNCHANGED hookVars, TurnRefused(r)
    PROVE  Sound'
<1>1. at[r] = "record" /\ on[r] \in Messages /\ RunSound(r)
  BY DEF TurnRefused, Inv, Sound, RunsSound, TypeOK
<1>2. decided[r] \in {"reply", "silent", "handoff"}
  BY <1>1 DEF RunSound, Inv, TypeOK, Decisions
<1>3. CASE decided[r] = "reply"
  BY <1>1, <1>3, ThrowKeeps DEF TurnRefused
<1>4. CASE decided[r] # "reply"
  <2>1. PICK s \in {"handOff", "complete"} :
          GoTo(r, s) /\ UNCHANGED <<jobs, run, reclaims, warned, convOf, ai, rows>>
    BY <1>2, <1>4 DEF TurnRefused
  <2>2. RunSound(r)'
    BY <1>1, <2>1 DEF GoTo, RunSound, Inv, TypeOK, Stored
  <2> QED
    BY <1>1, <2>1, <2>2, QuietMoveKeeps DEF GoTo
<1> QED
  BY <1>3, <1>4

\* The AI goes off in c: those past their last look are warned.
LEMMA SwitchOffKeeps ==
    ASSUME Inv, NEW c, SwitchOff(c), NEW R \in SUBSET Runs,
           UNCHANGED <<convOf, job, turn, reclaims>>,
           \A q \in R : at'[q] = at[q] /\ on'[q] = on[q] /\ decided'[q] = decided[q]
    PROVE  \A q \in R : RunSound(q)'
<1> SUFFICES ASSUME NEW q \in R PROVE RunSound(q)'
  OBVIOUS
<1>1. at[q] # "idle" => on[q] \in Messages /\ job[on[q]] # "none" /\ convOf[on[q]] \in Conversations
  BY AiParameters DEF Inv, Sound, TypeOK, RunsSound, RunSound, Stored
<1>2. at[q] = "write" /\ (Enabled(q) \/ q \in warned) =>
         ai'[convOf[on[q]]] \/ q \in warned'
  BY <1>1 DEF SwitchOff, Enabled, Inv, TypeOK
<1> QED
  BY <1>1, <1>2, OtherRunSound DEF Inv, Sound

LEMMA HandoffKeeps ==
    ASSUME Inv, NEW r \in Runs, UNCHANGED hookVars, triggerHumanHandoff(r)
    PROVE  Sound'
<1>1. at[r] = "handOff" /\ on[r] \in Messages /\ RunSound(r)
  BY DEF triggerHumanHandoff, Inv, Sound, RunsSound, TypeOK
<1>2. CASE /\ SwitchOff(convOf[on[r]]) /\ GoTo(r, "complete")
           /\ UNCHANGED <<jobs, run, unanswered, reclaims, mishaps>>
  <2>1. /\ UNCHANGED <<convOf, rows, jobs, run, reclaims, on>>
        /\ at'[r] = "complete" /\ \A q \in Runs \ {r} : at'[q] = at[q]
    BY <1>2 DEF triggerHumanHandoff, GoTo, Inv, TypeOK
  <2>2. RunsSound'
    <3>1. RunSound(r)'
      BY <1>1, <2>1 DEF RunSound, Stored
    <3>2. PICK R \in SUBSET Runs : R = Runs \ {r}
      OBVIOUS
    <3>3. \A q \in R : RunSound(q)'
      BY <1>2, <2>1, <3>2, SwitchOffKeeps
    <3> QED
      BY <3>1, <3>2, <3>3 DEF RunsSound
  <2>3. HooksSound' /\ JobsSound' /\ RepliesAreRecorded'
    BY <2>1 DEF HooksSound, JobsSound, RepliesAreRecorded, Stored, hookVars, Inv, Sound
  <2>4. RunsBounded'
    <3>1. \A m : On(m)' = On(m) /\ Queued(m)' = Queued(m)
      BY <2>1 DEF On, Queued
    <3> QED
      BY <2>1, <3>1 DEF RunsBounded, Inv, Sound
  <2>5. WritersBounded'
    <3>1. \A m \in Messages : Writers(m)' \in SUBSET Writers(m)
      BY <2>1 DEF Writers, On
    <3> QED
      BY <2>1, <3>1, NoMoreWriters DEF Inv, Sound
  <2> QED
    BY <2>2, <2>3, <2>4, <2>5 DEF Sound
<1>3. CASE Mishap /\ Throw(r) /\ UNCHANGED ai
  BY <1>1, <1>3, ThrowKeeps DEF triggerHumanHandoff
<1> QED
  BY <1>2, <1>3 DEF triggerHumanHandoff

-----------------------------------------------------------------------------
(***************************************************************************)
(* The reply: who looks for it before another wrote it counts as a writer. *)
(***************************************************************************)
LEMMA LookKeeps ==
    ASSUME Inv, NEW r \in Runs, UNCHANGED hookVars, LookForReply(r)
    PROVE  Sound'
<1> USE DEF Inv, Sound
<1>1. PICK n \in Messages : n = on[r] /\ at[r] = "check" /\ RunSound(r)
  BY DEF LookForReply, RunsSound, TypeOK
<1>2. PICK s \in {"complete", "enqueueSend", "write"} :
        GoTo(r, s) /\ (s = "write" => Enabled(r) /\ replies[n] = 0)
  <2>1. replies[n] \in Nat
    BY DEF TypeOK
  <2> QED
    BY <1>1, <2>1 DEF LookForReply
<1>3. /\ at' = [at EXCEPT ![r] = s]
      /\ UNCHANGED <<convOf, ai, job, turn, on, reclaims, replies, decided, warned>>
  BY <1>2 DEF LookForReply, GoTo
<1>4. RunSound(r)'
  BY <1>1, <1>2, <1>3 DEF RunSound, TypeOK, Stored, Enabled
<1>5. CASE s # "write"
  BY <1>1, <1>3, <1>4, <1>5, QuietMoveKeeps
<1>6. CASE s = "write"
  <2>1. RunsSound' /\ HooksSound' /\ JobsSound' /\ RunsBounded'
    BY <1>1, <1>3, <1>4, MoveKeeps
  <2>2. RepliesAreRecorded'
    BY <1>3 DEF RepliesAreRecorded
  <2>3. WritersBounded'
    <3> SUFFICES ASSUME NEW m \in Messages
                 PROVE  (replies[m] + Cardinality(Writers(m)) <= 1 + reclaims[m])'
      BY DEF WritersBounded
    <3>1. PICK W : W = Writers(m)'
      OBVIOUS
    <3>2. CASE m = n
      <4>1. W \in SUBSET On(n) /\ On(n) \in SUBSET Runs
        BY <1>3, <3>1, <3>2 DEF Writers, On
      <4>2. Cardinality(W) <= Cardinality(On(n)) /\ Cardinality(W) \in Nat /\ Cardinality(On(n)) \in Nat
        BY <4>1, FewerRuns, RunsCounted
      <4>3. Cardinality(On(n)) + Queued(n) <= 1 + reclaims[n] /\ Queued(n) \in Nat /\ reclaims[n] \in Nat
        BY DEF RunsBounded, Queued, TypeOK
      <4>4. Cardinality(Writers(m))' = Cardinality(W) /\ replies'[m] = 0 /\ reclaims'[m] = reclaims[n]
        BY <1>2, <1>3, <1>6, <3>1, <3>2
      <4> QED
        BY <4>2, <4>3, <4>4
    <3>3. CASE m # n
      <4>1. W = Writers(m)
        BY <1>1, <1>3, <3>1, <3>3 DEF Writers, On, TypeOK
      <4>2. Cardinality(Writers(m))' = Cardinality(Writers(m))
        BY <3>1, <4>1
      <4> QED
        BY <1>3, <4>2 DEF WritersBounded
    <3> QED
      BY <3>2, <3>3
  <2> QED
    BY <2>1, <2>2, <2>3
<1> QED
  BY <1>5, <1>6

LEMMA WriteKeeps ==
    ASSUME Inv, NEW r \in Runs, UNCHANGED hookVars, createMessage(r)
    PROVE  Sound'
<1> USE DEF Inv, Sound
<1>1. PICK n \in Messages : n = on[r] /\ at[r] = "write" /\ RunSound(r)
  BY DEF createMessage, RunsSound, TypeOK
<1>2. /\ at' = [at EXCEPT ![r] = "enqueueSend"] /\ replies' = [replies EXCEPT ![n] = replies[n] + 1]
      /\ UNCHANGED <<convOf, ai, job, turn, on, reclaims, decided, warned>>
  BY <1>1 DEF createMessage, GoTo
<1>3. turn[n] = "reply"
  BY <1>1 DEF RunSound
<1>4. RunSound(r)'
  BY <1>1, <1>2, <1>3 DEF RunSound, TypeOK, Stored
<1>5. RunsSound' /\ HooksSound' /\ JobsSound' /\ RunsBounded'
  BY <1>1, <1>2, <1>4, MoveKeeps
<1>6. RepliesAreRecorded'
  BY <1>2, <1>3 DEF RepliesAreRecorded, TypeOK
<1>7. WritersBounded'
  <2> SUFFICES ASSUME NEW m \in Messages
               PROVE  (replies[m] + Cardinality(Writers(m)) <= 1 + reclaims[m])'
    BY DEF WritersBounded
  <2>1. PICK W : W = Writers(m)'
    OBVIOUS
  <2>2. replies[m] + Cardinality(Writers(m)) <= 1 + reclaims[m] /\ replies[m] \in Nat /\ reclaims[m] \in Nat
    BY DEF WritersBounded, TypeOK
  <2>3. Cardinality(Writers(m))' = Cardinality(W)
    BY <2>1
  <2>4. CASE m = n
    <3>1. W = Writers(n) \ {r} /\ r \in Writers(n) /\ Writers(n) \in SUBSET Runs
      BY <1>1, <1>2, <2>1, <2>4 DEF Writers, On, TypeOK
    <3>2. Cardinality(W) = Cardinality(Writers(n)) - 1 /\ Cardinality(Writers(n)) \in Nat
      BY <3>1, RunGone, RunsCounted
    <3>3. replies'[m] = replies[m] + 1 /\ reclaims'[m] = reclaims[m]
      BY <1>2, <2>4 DEF TypeOK
    <3> QED
      BY <2>2, <2>3, <2>4, <3>2, <3>3
  <2>5. CASE m # n
    <3>1. W = Writers(m)
      BY <1>1, <1>2, <2>1, <2>5 DEF Writers, On, TypeOK
    <3>2. replies'[m] = replies[m] /\ reclaims'[m] = reclaims[m]
      BY <1>2, <2>5 DEF TypeOK
    <3> QED
      BY <2>2, <2>3, <3>1, <3>2
  <2> QED
    BY <2>4, <2>5
<1> QED
  BY <1>5, <1>6, <1>7

LEMMA EndKeeps ==
    ASSUME Inv, NEW r \in Runs, UNCHANGED hookVars,
           GroundingFailed(r) \/ enqueueSend(r) \/ Complete(r) \/ Crash(r)
    PROVE  Sound'
<1>0. at[r] # "idle" /\ on[r] \in Messages /\ RunSound(r)
  BY DEF Inv, Sound, RunsSound, TypeOK, GroundingFailed, enqueueSend, Complete, Crash
<1>1. CASE GroundingFailed(r)
  BY <1>0, <1>1, ThrowKeeps DEF GroundingFailed
<1>2. CASE enqueueSend(r)
  <2>1. CASE GoTo(r, "complete") /\ UNCHANGED <<jobs, run, reclaims, warned, mishaps>>
    <3>1. RunSound(r)'
      BY <1>0, <1>2, <2>1 DEF enqueueSend, GoTo, RunSound, Inv, TypeOK, Stored
    <3> QED
      BY <1>0, <1>2, <2>1, <3>1, QuietMoveKeeps DEF enqueueSend, GoTo
  <2>2. CASE Throw(r)
    BY <1>0, <1>2, <2>2, ThrowKeeps DEF enqueueSend
  <2> QED
    BY <1>2, <2>1, <2>2 DEF enqueueSend
<1>3. CASE Complete(r)
  <2>1. \E st \in JobStates \ {"none"} : job' = [job EXCEPT ![on[r]] = st]
    BY <1>3 DEF Complete, JobStates
  <2> QED
    BY <1>0, <1>3, <2>1, LeaveKeeps DEF Complete
<1>4. CASE Crash(r)
  BY <1>0, <1>4, LeaveKeeps DEF Crash
<1> QED
  BY <1>1, <1>2, <1>3, <1>4

-----------------------------------------------------------------------------
(***************************************************************************)
(* The queue, and people.                                                  *)
(***************************************************************************)
LEMMA ClaimKeeps ==
    ASSUME Inv, NEW r \in Runs, NEW n \in Messages, UNCHANGED hookVars, Claim(r, n)
    PROVE  Sound'
<1> USE DEF Inv, Sound
<1>1. /\ at[r] = "idle" /\ on[r] = None /\ job[n] = "queued"
      /\ at'[r] = "lookup" /\ on'[r] = n
      /\ \A q \in Runs \ {r} : at'[q] = at[q] /\ on'[q] = on[q]
      /\ \A m \in Messages : job'[m] = IF m = n THEN "running" ELSE job[m]
      /\ UNCHANGED <<convOf, ai, turn, replies, reclaims, decided, warned>>
  BY DEF Claim, TypeOK
<1>2. RunsSound'
  <2>1. RunSound(r)'
    BY <1>1 DEF RunSound, JobsSound, Stored
  <2> SUFFICES ASSUME NEW q \in Runs \ {r} PROVE RunSound(q)'
    BY <2>1 DEF RunsSound
  <2>2. at[q] # "idle" => on[q] \in Messages /\ job'[on[q]] # "none"
    BY <1>1 DEF TypeOK, RunsSound, RunSound
  <2> QED
    BY <1>1, <2>2, OtherRunSound DEF Enabled
<1>3. HooksSound' /\ JobsSound' /\ RepliesAreRecorded'
  BY <1>1 DEF HooksSound, JobsSound, RepliesAreRecorded, Stored, hookVars
<1>4. RunsBounded'
  <2> SUFFICES ASSUME NEW m \in Messages
               PROVE  (Cardinality(On(m)) + Queued(m) <= 1 + reclaims[m])'
    BY DEF RunsBounded
  <2>1. PICK S : S = On(m)'
    OBVIOUS
  <2>2. On(m) \in SUBSET Runs /\ Cardinality(On(m)) \in Nat /\ IsFiniteSet(On(m)) /\ reclaims[m] \in Nat
    BY RunsCounted DEF On, TypeOK
  <2>3. Cardinality(On(m)) + Queued(m) <= 1 + reclaims[m]
    BY DEF RunsBounded
  <2>4. Cardinality(On(m))' = Cardinality(S)
    BY <2>1
  <2>5. CASE m = n
    <3>1. S = On(m) \cup {r} /\ r \notin On(m)
      BY <1>1, <2>1, <2>5, AiParameters DEF On
    <3>2. Cardinality(S) = Cardinality(On(m)) + 1
      BY <2>2, <3>1, FS_AddElement
    <3> QED
      BY <1>1, <2>2, <2>3, <2>4, <2>5, <3>2 DEF Queued
  <2>6. CASE m # n
    <3>1. S = On(m)
      BY <1>1, <2>1, <2>6, AiParameters DEF On
    <3> QED
      BY <1>1, <2>3, <2>4, <2>6, <3>1 DEF Queued
  <2> QED
    BY <2>5, <2>6
<1>5. WritersBounded'
  <2>1. \A m \in Messages : Writers(m)' \in SUBSET Writers(m)
    BY <1>1 DEF Writers, On
  <2> QED
    BY <1>1, <2>1, NoMoreWriters
<1> QED
  BY <1>2, <1>3, <1>4, <1>5

LEMMA RequeueKeeps ==
    ASSUME Inv, NEW n \in Messages, UNCHANGED hookVars, Requeue(n)
    PROVE  Sound'
<1> USE DEF Inv, Sound
<1>1. /\ job[n] = "running"
      /\ \A m \in Messages : /\ job'[m] = IF m = n THEN "queued" ELSE job[m]
                             /\ reclaims'[m] = IF m = n THEN reclaims[m] + 1 ELSE reclaims[m]
                             /\ reclaims[m] \in Nat
      /\ UNCHANGED <<convOf, ai, turn, replies, at, on, decided, warned>>
  BY DEF Requeue, TypeOK
<1>2. RunsSound'
  <2> SUFFICES ASSUME NEW q \in Runs PROVE RunSound(q)'
    BY DEF RunsSound
  <2>2. at[q] # "idle" => on[q] \in Messages /\ job'[on[q]] # "none"
    BY <1>1 DEF TypeOK, RunsSound, RunSound
  <2> QED
    BY <1>1, <2>2, OtherRunSound DEF Enabled
<1>3. HooksSound' /\ JobsSound' /\ RepliesAreRecorded'
  BY <1>1 DEF HooksSound, JobsSound, RepliesAreRecorded, Stored, hookVars
<1>4. \A m : On(m)' = On(m) /\ Writers(m)' = Writers(m)
  BY <1>1 DEF On, Writers
<1>5. RunsBounded'
  <2> SUFFICES ASSUME NEW m \in Messages
               PROVE  (Cardinality(On(m)) + Queued(m) <= 1 + reclaims[m])'
    BY DEF RunsBounded
  <2>1. Cardinality(On(m)) \in Nat /\ Cardinality(On(m)) + Queued(m) <= 1 + reclaims[m]
    BY RunsCounted DEF RunsBounded, On
  <2> QED
    BY <1>1, <1>4, <2>1 DEF Queued
<1>6. WritersBounded'
  <2> SUFFICES ASSUME NEW m \in Messages
               PROVE  (replies[m] + Cardinality(Writers(m)) <= 1 + reclaims[m])'
    BY DEF WritersBounded
  <2>1. replies[m] \in Nat /\ Cardinality(Writers(m)) \in Nat
        /\ replies[m] + Cardinality(Writers(m)) <= 1 + reclaims[m]
    BY RunsCounted DEF WritersBounded, Writers, On, TypeOK
  <2> QED
    BY <1>1, <1>4, <2>1
<1> QED
  BY <1>2, <1>3, <1>5, <1>6

LEMMA ToggleKeeps ==
    ASSUME Inv, NEW c \in Conversations, UNCHANGED hookVars, toggleConversationAi(c)
    PROVE  Sound'
<1>1. UNCHANGED <<convOf, job, turn, replies, reclaims, at, on, decided>>
  BY DEF toggleConversationAi
<1>2. RunsSound'
  <2>1. CASE ai[c]
    <3>1. PICK R \in SUBSET Runs : R = Runs
      OBVIOUS
    <3>2. \A q \in R : RunSound(q)'
      BY <1>1, <2>1, SwitchOffKeeps DEF toggleConversationAi
    <3> QED
      BY <3>1, <3>2 DEF RunsSound
  <2>2. CASE ~ai[c]
    <3> SUFFICES ASSUME NEW q \in Runs PROVE RunSound(q)'
      BY DEF RunsSound
    <3>1. ai' = [ai EXCEPT ![c] = TRUE] /\ warned' = warned
      BY <2>2 DEF toggleConversationAi
    <3>2. at[q] # "idle" => on[q] \in Messages /\ job[on[q]] # "none" /\ convOf[on[q]] \in Conversations
      BY AiParameters DEF Inv, Sound, TypeOK, RunsSound, RunSound, Stored
    <3>3. at[q] # "idle" /\ Enabled(q) => ai'[convOf[on[q]]]
      BY <3>1, <3>2 DEF Enabled, Inv, TypeOK
    <3> QED
      BY <1>1, <3>1, <3>2, <3>3, OtherRunSound DEF Inv, Sound
  <2> QED
    BY <2>1, <2>2
<1>3. HooksSound' /\ JobsSound' /\ RepliesAreRecorded'
  BY <1>1 DEF HooksSound, JobsSound, RepliesAreRecorded, Stored, hookVars, Inv, Sound
<1>4. \A m : On(m)' = On(m) /\ Writers(m)' = Writers(m) /\ Queued(m)' = Queued(m)
  BY <1>1 DEF On, Writers, Queued
<1>5. RunsBounded' /\ WritersBounded'
  BY <1>1, <1>4 DEF RunsBounded, WritersBounded, Inv, Sound
<1> QED
  BY <1>2, <1>3, <1>5 DEF Sound

LEMMA AiKeeps ==
    ASSUME Inv, AiNext, UNCHANGED hookVars
    PROVE  Sound'
<1>1. ASSUME NEW r \in Runs, aiRespondHandler(r) \/ Crash(r) \/ AbandonedOrder(r) PROVE Sound'
  BY <1>1, QuietSteps, RecordKeeps, RefusalKeeps, HandoffKeeps, LookKeeps, WriteKeeps, EndKeeps
  DEF aiRespondHandler, executeAgentTurn, deliverAgentReply
<1>2. ASSUME NEW m \in Messages, LateOrder(m) PROVE Sound'
  BY <1>2, StillKeeps DEF LateOrder, hookVars
<1> QED
  BY <1>1, <1>2, ClaimKeeps, RequeueKeeps, ToggleKeeps DEF AiNext, ReclaimStalled, ReclaimSlow

-----------------------------------------------------------------------------
(***************************************************************************)
(* The webhook's job.                                                      *)
(***************************************************************************)

\* What a step of one execution leaves the runs and the other executions.
LEMMA HookMoveKeeps ==
    ASSUME Inv, NEW h \in Hooks, UNCHANGED <<AiRest, convOf, job>>,
           \A g \in Hooks \ {h} : hookAt'[g] = hookAt[g] /\ hookOn'[g] = hookOn[g] /\ found'[g] = found[g],
           hookAt'[h] = "store" => found'[h] \in Conversations,
           hookAt'[h] \in {"processed", "enqueue"} => Stored(hookOn'[h])
    PROVE  Sound'
<1> USE DEF Inv, Sound, AiRest
<1>1. RunsSound' /\ JobsSound' /\ RepliesAreRecorded'
  BY DEF RunsSound, RunSound, JobsSound, RepliesAreRecorded, Stored, Enabled
<1>2. HooksSound'
  <2> SUFFICES ASSUME NEW g \in Hooks
               PROVE  /\ hookAt'[g] = "store" => found'[g] \in Conversations
                      /\ hookAt'[g] \in {"processed", "enqueue"} => Stored(hookOn'[g])
    BY DEF HooksSound, Stored
  <2> QED
    BY DEF HooksSound, Stored
<1>3. \A m : On(m)' = On(m) /\ Writers(m)' = Writers(m) /\ Queued(m)' = Queued(m)
  BY DEF On, Writers, Queued
<1>4. RunsBounded' /\ WritersBounded'
  BY <1>3 DEF RunsBounded, WritersBounded
<1> QED
  BY <1>1, <1>2, <1>4

LEMMA HookLeaveKeeps ==
    ASSUME Inv, NEW h \in Hooks, UNCHANGED <<AiRest, convOf, job>>, HookLeave(h)
    PROVE  Sound'
BY HookMoveKeeps DEF HookLeave, Inv, TypeOK

\* The message was not stored, so no run and no job of it is about.
LEMMA StoreKeeps ==
    ASSUME Inv, NEW h \in Hooks, storeMessage(h)
    PROVE  Sound'
<1> USE DEF Inv, Sound
<1>1. PICK n \in Messages : n = hookOn[h] /\ hookAt[h] = "store" /\ found[h] \in Conversations
  BY DEF storeMessage, HooksSound, TypeOK
<1>2. UNCHANGED <<AiRest, job>>
  BY DEF storeMessage
<1>3. CASE Stored(n)
  BY <1>1, <1>2, <1>3, HookLeaveKeeps DEF storeMessage, HookThrow
<1>4. CASE ~Stored(n)
  <2>1. /\ convOf' = [convOf EXCEPT ![n] = found[h]] /\ HookGoTo(h, "processed") /\ UNCHANGED found
        /\ found[h] # None
    BY <1>1, <1>4, AiParameters DEF storeMessage
  <2>2. \A m \in Messages : Stored(m) => m # n /\ convOf'[m] = convOf[m]
    BY <1>4, <2>1 DEF TypeOK
  <2>3. \A m \in Messages : Stored(m) => Stored(m)'
    BY <2>2 DEF Stored
  <2>4. Stored(n)'
    BY <2>1 DEF Stored, TypeOK
  <2>5. RunsSound'
    <3> SUFFICES ASSUME NEW q \in Runs PROVE RunSound(q)'
      BY DEF RunsSound
    <3>1. at[q] # "idle" => on[q] \in Messages /\ Stored(on[q]) /\ job[on[q]] # "none"
      BY DEF TypeOK, RunsSound, RunSound
    <3>2. at[q] # "idle" => convOf'[on[q]] = convOf[on[q]]
      BY <2>2, <3>1
    <3> QED
      BY <1>2, <3>1, <3>2, OtherRunSound DEF AiRest, Enabled
  <2>6. JobsSound' /\ RepliesAreRecorded'
    BY <1>2, <2>3 DEF JobsSound, RepliesAreRecorded, AiRest
  <2>7. HooksSound'
    <3> SUFFICES ASSUME NEW g \in Hooks
                 PROVE  /\ hookAt'[g] = "store" => found'[g] \in Conversations
                        /\ hookAt'[g] \in {"processed", "enqueue"} => Stored(hookOn[g])'
      BY <2>1 DEF HooksSound, HookGoTo, Stored
    <3>1. CASE g = h
      BY <1>1, <2>1, <2>4, <3>1 DEF HookGoTo, TypeOK, Stored
    <3>2. CASE g # h
      <4>1. hookAt'[g] = hookAt[g] /\ hookOn'[g] = hookOn[g] /\ found'[g] = found[g]
        BY <2>1, <3>2 DEF HookGoTo, TypeOK
      <4>2. hookAt[g] \in {"processed", "enqueue"} => hookOn[g] \in Messages /\ Stored(hookOn[g])
        BY DEF HooksSound, TypeOK
      <4> QED
        BY <4>1, <4>2, <2>3 DEF HooksSound, Stored
    <3> QED
      BY <3>1, <3>2
  <2>8. \A m : On(m)' = On(m) /\ Writers(m)' = Writers(m) /\ Queued(m)' = Queued(m)
    BY <1>2 DEF On, Writers, Queued, AiRest
  <2>9. RunsBounded' /\ WritersBounded'
    BY <1>2, <2>8 DEF RunsBounded, WritersBounded, AiRest
  <2> QED
    BY <2>5, <2>6, <2>7, <2>9
<1> QED
  BY <1>3, <1>4

\* The message has no job, so no run holds it; its first job makes one at most.
LEMMA EnqueueKeeps ==
    ASSUME Inv, NEW h \in Hooks, EnqueueAiRespond(h)
    PROVE  Sound'
<1> USE DEF Inv, Sound
<1>1. PICK n \in Messages : n = hookOn[h] /\ hookAt[h] = "enqueue" /\ Stored(n)
  BY DEF EnqueueAiRespond, HooksSound, TypeOK
<1>2. UNCHANGED <<AiRest, convOf>>
  BY DEF EnqueueAiRespond
<1>3. CASE Breaks(h) /\ UNCHANGED job
  BY <1>2, <1>3, HookLeaveKeeps DEF Breaks, HookThrow
<1>4. CASE HookGoTo(h, "complete") /\ UNCHANGED found /\ UNCHANGED job
  BY <1>1, <1>2, <1>4, HookMoveKeeps DEF HookGoTo, TypeOK
<1>5. CASE HookGoTo(h, "complete") /\ UNCHANGED found /\ job[n] = "none" /\ job' = [job EXCEPT ![n] = "queued"]
  <2>1. \A m \in Messages : job'[m] = IF m = n THEN "queued" ELSE job[m]
    BY <1>5 DEF TypeOK
  <2>2. RunsSound'
    <3> SUFFICES ASSUME NEW q \in Runs PROVE RunSound(q)'
      BY DEF RunsSound
    <3>1. at[q] # "idle" => on[q] \in Messages /\ job[on[q]] # "none"
      BY DEF TypeOK, RunsSound, RunSound
    <3>2. at[q] # "idle" => job'[on[q]] # "none"
      BY <2>1, <3>1
    <3> QED
      BY <1>2, <3>1, <3>2, OtherRunSound DEF AiRest, Enabled
  <2>3. JobsSound' /\ RepliesAreRecorded'
    BY <1>1, <1>2, <2>1 DEF JobsSound, RepliesAreRecorded, Stored, AiRest
  <2>4. HooksSound'
    BY <1>2, <1>5 DEF HooksSound, HookGoTo, Stored, TypeOK
  <2>5. \A m : On(m)' = On(m) /\ Writers(m)' = Writers(m)
    BY <1>2 DEF On, Writers, AiRest
  <2>6. WritersBounded'
    BY <1>2, <2>5 DEF WritersBounded, AiRest
  <2>7. RunsBounded'
    <3> SUFFICES ASSUME NEW m \in Messages
                 PROVE  (Cardinality(On(m)) + Queued(m) <= 1 + reclaims[m])'
      BY DEF RunsBounded
    <3>1. CASE m = n
      <4>1. On(n) = {}
        <5>1. \A q \in Runs : on[q] = n => at[q] # "idle"
          BY AiParameters DEF TypeOK
        <5> QED
          BY <1>5, <5>1 DEF On, RunsSound, RunSound
      <4>2. Cardinality(On(n)) = 0
        BY <4>1, FS_EmptySet
      <4>3. reclaims'[m] \in Nat
        BY <1>2 DEF TypeOK, AiRest
      <4> QED
        BY <2>1, <2>5, <3>1, <4>2, <4>3 DEF Queued
    <3>2. CASE m # n
      BY <1>2, <2>1, <2>5, <3>2 DEF Queued, RunsBounded, AiRest
    <3> QED
      BY <3>1, <3>2
  <2> QED
    BY <2>2, <2>3, <2>4, <2>6, <2>7
<1> QED
  BY <1>1, <1>3, <1>4, <1>5 DEF EnqueueAiRespond

LEMMA HookKeeps ==
    ASSUME Inv, HookNext
    PROVE  Sound'
<1> USE DEF aiVars, AiRest
<1>1. ASSUME NEW m \in Messages, persistLogicalEvent(m) \/ HookReclaimStalled(m) \/ HookReclaimSlow(m)
      PROVE  Sound'
  BY <1>1, StillKeeps DEF persistLogicalEvent, HookReclaimStalled, HookReclaimSlow, HookRequeue
<1>2. ASSUME NEW h \in Hooks, NEW m \in Messages, HookClaim(h, m) PROVE Sound'
  BY <1>2, HookMoveKeeps DEF HookClaim, Inv, TypeOK
<1>3. ASSUME NEW h \in Hooks, processWebhookEvent(h) \/ HookCrash(h) PROVE Sound'
  <2>0. /\ hookAt \in [Hooks -> HookSteps \cup {"idle"}] /\ found \in [Hooks -> Conversations \cup {None}]
        /\ hookOn \in [Hooks -> Messages \cup {None}]
    BY DEF Inv, TypeOK
  <2>1. ASSUME NEW s \in HookSteps \ {"store", "processed", "enqueue"}, HookGoTo(h, s),
               UNCHANGED <<AiRest, convOf, job, found>>
        PROVE  Sound'
    BY <2>0, <2>1, HookMoveKeeps DEF HookGoTo
  <2>2. CASE OpenEvent(h)
    BY <2>1, <2>2 DEF OpenEvent, HookSteps
  <2>3. CASE findMessageByProviderId(h)
    <3>1. CASE Stored(hookOn[h])
      BY <2>0, <2>3, <3>1, HookMoveKeeps DEF findMessageByProviderId, HookGoTo
    <3>2. CASE ~Stored(hookOn[h])
      BY <2>1, <2>3, <3>2 DEF findMessageByProviderId, HookSteps
    <3> QED
      BY <3>1, <3>2
  <2>4. CASE findContactByPhone(h)
    <3>1. PICK s \in {"conversation", "createContact"} : HookGoTo(h, s)
      BY <2>4 DEF findContactByPhone
    <3> QED
      BY <2>1, <2>4, <3>1 DEF findContactByPhone, HookSteps
  <2>5. CASE createContact(h)
    <3>1. CASE contact
      BY <2>5, <3>1, HookLeaveKeeps DEF createContact, HookThrow
    <3>2. CASE ~contact
      BY <2>1, <2>5, <3>2 DEF createContact, HookSteps
    <3> QED
      BY <3>1, <3>2
  <2>6. CASE findLatestConversation(h)
    <3>1. CASE made = 0
      BY <2>1, <2>6, <3>1 DEF findLatestConversation, HookSteps
    <3>2. CASE made # 0
      <4>1. made \in Conversations
        BY <3>2, AiParameters DEF Inv, TypeOK, Conversations
      <4> QED
        BY <2>0, <2>6, <3>2, <4>1, HookMoveKeeps DEF findLatestConversation, HookGoTo
    <3> QED
      BY <3>1, <3>2
  <2>7. CASE createConversation(h)
    <3>1. made + 1 \in Conversations
      BY <2>7, AiParameters DEF createConversation, Inv, TypeOK, Conversations
    <3> QED
      BY <2>0, <2>7, <3>1, HookMoveKeeps DEF createConversation, HookGoTo
  <2>8. CASE MarkProcessed(h)
    <3>1. CASE Breaks(h)
      BY <2>8, <3>1, HookLeaveKeeps DEF MarkProcessed, Breaks, HookThrow
    <3>2. CASE HookGoTo(h, "enqueue") /\ UNCHANGED found
      <4>1. Stored(hookOn[h])
        BY <2>8 DEF MarkProcessed, Inv, Sound, HooksSound
      <4> QED
        BY <2>0, <2>8, <3>2, <4>1, HookMoveKeeps DEF MarkProcessed, HookGoTo
    <3> QED
      BY <2>8, <3>1, <3>2 DEF MarkProcessed
  <2>9. CASE HookComplete(h) \/ HookCrash(h)
    BY <2>9, HookLeaveKeeps DEF HookComplete, HookCrash
  <2> QED
    BY <1>3, <2>2, <2>3, <2>4, <2>5, <2>6, <2>7, <2>8, <2>9, StoreKeeps, EnqueueKeeps
    DEF processWebhookEvent, processInboundMessage
<1> QED
  BY <1>1, <1>2, <1>3 DEF HookNext

-----------------------------------------------------------------------------
(***************************************************************************)
(* Orders.  What a message may yet cost is an account its runs share: a    *)
(* step that places an order, or leaves a call behind, pays with the run's *)
(* own share of it, and only a reclaim or a refused row adds to it.        *)
(***************************************************************************)
One(b) == IF b THEN 1 ELSE 0

LEMMA SharesMove ==
    ASSUME NEW S \in SUBSET Runs, NEW T \in SUBSET Runs, NEW r \in Runs, T \ {r} \subseteq S
    PROVE  Cardinality(T) + One(r \in S) <= Cardinality(S) + One(r \in T)
<1>1. ASSUME NEW U \in SUBSET Runs
      PROVE  Cardinality(U) = Cardinality(U \ {r}) + One(r \in U) /\ Cardinality(U \ {r}) \in Nat
  <2>1. Cardinality(U) \in Nat /\ Cardinality(U \ {r}) \in Nat
    BY RunsCounted
  <2>2. CASE r \in U
    BY <2>1, <2>2, RunGone DEF One
  <2>3. CASE r \notin U
    <3>1. PICK V : V = U \ {r}
      OBVIOUS
    <3>2. V = U
      BY <2>3, <3>1
    <3>3. Cardinality(U \ {r}) = Cardinality(U)
      BY <3>1, <3>2
    <3> QED
      BY <2>1, <2>3, <3>3 DEF One
  <2> QED
    BY <2>2, <2>3
<1>2. Cardinality(T \ {r}) <= Cardinality(S \ {r})
  BY FewerRuns
<1>3. Cardinality(T) = Cardinality(T \ {r}) + One(r \in T) /\ Cardinality(T \ {r}) \in Nat
  BY <1>1
<1>4. Cardinality(S) = Cardinality(S \ {r}) + One(r \in S) /\ Cardinality(S \ {r}) \in Nat
  BY <1>1
<1> QED
  BY <1>2, <1>3, <1>4 DEF One

\* A step of run r on message n, as the other runs see it.
Alone(r, n) ==
    /\ on[r] \in {n, None} /\ on'[r] \in {n, None}
    /\ \A q \in Runs \ {r} : /\ at'[q] = at[q] /\ on'[q] = on[q]
                             /\ q \in ordered' <=> q \in ordered
                             /\ q \in slow' <=> q \in slow
    /\ \A m \in Messages \ {n} :
         /\ orders'[m] = orders[m] /\ late'[m] = late[m] /\ job'[m] = job[m] /\ turn'[m] = turn[m]
         /\ reclaims'[m] = reclaims[m] /\ unrecorded'[m] = unrecorded[m]

\* The run's share of what its message may cost.
Share(r) == One(Bears(r)) + One(Retries(r))
Cost(m) == orders[m] + late[m] + Credit(m)
Excess(m) == reclaims[m] + unrecorded[m]

LEMMA CountedMove ==
    ASSUME Inv, TypeOK', NEW r \in Runs, NEW n \in Messages, Alone(r, n),
           turn'[n] = "none" => turn[n] = "none",
           Share(r)' + Cost(n)' + Excess(n) <= Share(r) + Cost(n) + Excess(n)'
    PROVE  OrdersCounted'
<1> SUFFICES ASSUME NEW m \in Messages
             PROVE  (orders[m] + Cardinality(Bearers(m)) + Cardinality(Retriers(m)) + late[m] + Credit(m)
                       <= 1 + reclaims[m] + unrecorded[m])'
  BY DEF OrdersCounted
<1>1. PICK B, R : B = Bearers(m)' /\ R = Retriers(m)'
  OBVIOUS
<1>2. B \in SUBSET Runs /\ R \in SUBSET Runs /\ Bearers(m) \in SUBSET Runs /\ Retriers(m) \in SUBSET Runs
  BY <1>1 DEF Bearers, Retriers, On
<1>3. \A q \in Runs \ {r} : /\ on'[q] = m /\ Bears(q)' => Bears(q)
                            /\ on'[q] = m /\ Retries(q)' => Retries(q)
  BY DEF Bears, Retries, Alone
<1>4. B \ {r} \subseteq Bearers(m) /\ R \ {r} \subseteq Retriers(m)
  BY <1>1, <1>3 DEF Bearers, Retriers, On, Alone
<1>5. /\ Cardinality(B) + One(r \in Bearers(m)) <= Cardinality(Bearers(m)) + One(r \in B)
      /\ Cardinality(R) + One(r \in Retriers(m)) <= Cardinality(Retriers(m)) + One(r \in R)
  BY <1>2, <1>4, SharesMove
<1>6. /\ Cardinality(B) \in Nat /\ Cardinality(R) \in Nat
      /\ Cardinality(Bearers(m)) \in Nat /\ Cardinality(Retriers(m)) \in Nat
  BY <1>2, RunsCounted
<1>7. /\ orders[m] \in Nat /\ late[m] \in Nat /\ reclaims[m] \in Nat /\ unrecorded[m] \in Nat
      /\ orders'[m] \in Nat /\ late'[m] \in Nat /\ reclaims'[m] \in Nat /\ unrecorded'[m] \in Nat
      /\ Credit(m) \in {0, 1} /\ Credit(m)' \in {0, 1}
  BY DEF Inv, TypeOK, Credit
<1>8. orders[m] + Cardinality(Bearers(m)) + Cardinality(Retriers(m)) + late[m] + Credit(m)
        <= 1 + reclaims[m] + unrecorded[m]
  BY DEF Inv, OrdersSound, OrdersCounted
<1>9. orders'[m] + Cardinality(B) + Cardinality(R) + late'[m] + Credit(m)' <= 1 + reclaims'[m] + unrecorded'[m]
  <2>1. CASE m = n
    <3>1. /\ r \in Bearers(n) <=> Bears(r)
          /\ r \in Retriers(n) <=> Retries(r)
      BY DEF Bearers, Retriers, On, Bears, Retries, Alone, Inv, TypeOK
    <3>2. /\ r \in B <=> Bears(r)'
          /\ r \in R <=> Retries(r)'
      BY <1>1, <2>1 DEF Bearers, Retriers, On, Bears, Retries, Alone, TypeOK
    <3>3. /\ Share(r) = One(r \in Bearers(n)) + One(r \in Retriers(n))
          /\ Share(r)' = One(r \in B) + One(r \in R)
      BY <3>1, <3>2 DEF Share, One
    <3>4. /\ One(r \in Bearers(n)) \in {0, 1} /\ One(r \in Retriers(n)) \in {0, 1}
          /\ One(r \in B) \in {0, 1} /\ One(r \in R) \in {0, 1}
      BY DEF One
    <3>5. One(r \in B) + One(r \in R) + (orders'[n] + late'[n] + Credit(n)') + (reclaims[n] + unrecorded[n])
            <= One(r \in Bearers(n)) + One(r \in Retriers(n)) + (orders[n] + late[n] + Credit(n))
               + (reclaims'[n] + unrecorded'[n])
      BY <3>3 DEF Cost, Excess
    <3> QED
      BY <1>5, <1>6, <1>7, <1>8, <2>1, <3>4, <3>5
  <2>2. CASE m # n
    <3>1. r \notin B /\ r \notin R
      BY <1>1, <2>2, AiParameters DEF Bearers, Retriers, On, Alone
    <3>2. Cardinality(B) <= Cardinality(Bearers(m)) /\ Cardinality(R) <= Cardinality(Retriers(m))
      BY <1>5, <1>6, <3>1 DEF One
    <3>3. /\ orders'[m] = orders[m] /\ late'[m] = late[m] /\ Credit(m)' = Credit(m)
          /\ reclaims'[m] = reclaims[m] /\ unrecorded'[m] = unrecorded[m]
      BY <2>2 DEF Alone, Credit
    <3> QED
      BY <1>6, <1>7, <1>8, <3>2, <3>3
  <2> QED
    BY <2>1, <2>2
<1> QED
  BY <1>1, <1>9

LEMMA ExposedMove ==
    ASSUME Inv, TypeOK', NEW r \in Runs, NEW n \in Messages, Alone(r, n), Stored(n),
           UNCHANGED <<convOf, ai, exposed>>,
           \/ ai[convOf[n]]
           \/ One(r \in UnderWay(n))' + orders'[n] + late'[n] <= One(r \in UnderWay(n)) + orders[n] + late[n]
    PROVE  OrdersExposed'
<1> SUFFICES ASSUME NEW m \in Messages
             PROVE  /\ Stored(m)' /\ ~ai'[convOf'[m]] =>
                         (orders[m] + Cardinality(UnderWay(m)) + late[m] <= exposed[m])'
                    /\ ~Stored(m)' => orders'[m] = 0 /\ late'[m] = 0
  BY DEF OrdersExposed
<1>1. Stored(m)' <=> Stored(m)
  BY DEF Stored
<1>2. ~Stored(m) => orders'[m] = 0 /\ late'[m] = 0
  BY DEF Alone, Inv, OrdersSound, OrdersExposed
<1>3. ASSUME Stored(m), ~ai[convOf[m]]
      PROVE  (orders[m] + Cardinality(UnderWay(m)) + late[m] <= exposed[m])'
  <2>1. PICK U : U = UnderWay(m)'
    OBVIOUS
  <2>2. U \in SUBSET Runs /\ UnderWay(m) \in SUBSET Runs
    BY <2>1 DEF UnderWay
  <2>3. U \ {r} \subseteq UnderWay(m)
    BY <2>1 DEF UnderWay, InFlight, Alone
  <2>4. Cardinality(U) + One(r \in UnderWay(m)) <= Cardinality(UnderWay(m)) + One(r \in U)
    BY <2>2, <2>3, SharesMove
  <2>5. Cardinality(U) \in Nat /\ Cardinality(UnderWay(m)) \in Nat
    BY <2>2, RunsCounted
  <2>6. orders[m] + Cardinality(UnderWay(m)) + late[m] <= exposed[m]
    BY <1>3 DEF Inv, OrdersSound, OrdersExposed
  <2>7. /\ orders[m] \in Nat /\ late[m] \in Nat /\ orders'[m] \in Nat /\ late'[m] \in Nat
        /\ exposed[m] \in Nat /\ exposed'[m] = exposed[m]
    BY DEF Inv, TypeOK
  <2>8. orders'[m] + Cardinality(U) + late'[m] <= exposed'[m]
    <3>1. CASE m = n
      <4>1. One(r \in U) + orders'[n] + late'[n] <= One(r \in UnderWay(n)) + orders[n] + late[n]
        BY <1>3, <2>1, <3>1
      <4>2. One(r \in U) \in {0, 1} /\ One(r \in UnderWay(n)) \in {0, 1}
        BY DEF One
      <4> QED
        BY <2>4, <2>5, <2>6, <2>7, <3>1, <4>1, <4>2
    <3>2. CASE m # n
      <4>1. r \notin U
        BY <2>1, <3>2, AiParameters DEF UnderWay, Alone
      <4>2. Cardinality(U) <= Cardinality(UnderWay(m))
        BY <2>4, <2>5, <4>1 DEF One
      <4>3. orders'[m] = orders[m] /\ late'[m] = late[m]
        BY <3>2 DEF Alone
      <4> QED
        BY <2>5, <2>6, <2>7, <4>2, <4>3
    <3> QED
      BY <3>1, <3>2
  <2> QED
    BY <2>1, <2>8
<1> QED
  BY <1>1, <1>2, <1>3

\* A run goes on, and neither an order nor a call of create_order comes of it.
LEMMA QuietOrders ==
    ASSUME Inv, TypeOK', NEW r \in Runs, at[r] # "idle", at'[r] # "idle",
           \A q \in Runs \ {r} : at'[q] = at[q] /\ (q \in slow' <=> q \in slow),
           r \in slow' => r \in slow \/ at[r] = "create_order",
           UNCHANGED <<convOf, ai, job, turn, orders, on, ordered, late, reclaims, unrecorded, exposed>>,
           at'[r] \in {"lookup", "begin"} => at[r] = "lookup",
           at'[r] = "handOff" => turn[on[r]] # "none",
           at'[r] = "create_order" => Enabled(r) \/ at[r] = "create_order",
           Bears(r)' => Bears(r)
    PROVE  OrdersSound'
<1> USE DEF Inv, OrdersSound
<1>1. PICK n \in Messages : n = on[r] /\ Stored(n)
  BY DEF TypeOK, Sound, RunsSound, RunSound
<1>2. Alone(r, n)
  BY <1>1 DEF Alone, TypeOK
<1>3. Fresh'
  <2> SUFFICES ASSUME NEW q \in Runs, at'[q] \in {"idle", "lookup", "begin"}
               PROVE  q \notin ordered' /\ q \notin slow'
    BY DEF Fresh
  <2>1. at[q] \in {"idle", "lookup", "begin"}
    BY DEF TypeOK, Steps
  <2> QED
    BY <2>1 DEF Fresh
<1>4. OrdersCounted'
  <2>1. Share(r)' <= Share(r) /\ Share(r) \in Nat /\ Share(r)' \in Nat
    BY DEF Share, One, Retries
  <2>2. Cost(n)' = Cost(n) /\ Excess(n)' = Excess(n) /\ Cost(n) \in Nat /\ Excess(n) \in Nat
    BY DEF Cost, Excess, Credit, TypeOK
  <2> QED
    BY <1>2, <2>1, <2>2, CountedMove
<1>5. OrdersExposed'
  <2>1. ~ai[convOf[n]] /\ r \in UnderWay(n)' => r \in UnderWay(n)
    BY <1>1 DEF UnderWay, InFlight, Enabled
  <2>2. \/ ai[convOf[n]]
        \/ One(r \in UnderWay(n))' + orders'[n] + late'[n] <= One(r \in UnderWay(n)) + orders[n] + late[n]
    BY <2>1 DEF One, TypeOK
  <2> QED
    BY <1>1, <1>2, <2>2, ExposedMove
<1> QED
  BY <1>3, <1>4, <1>5

\* A run ends; its call of create_order, if one is under way, is left behind.
LEMMA LeaveOrders ==
    ASSUME Inv, TypeOK', NEW r \in Runs, NEW n \in Messages, n = on[r], Leave(r),
           UNCHANGED <<convOf, ai, turn, orders, reclaims, exposed>>,
           \A m \in Messages \ {n} : job'[m] = job[m] /\ unrecorded'[m] = unrecorded[m],
           \/ Credit(n)' <= Credit(n) /\ unrecorded' = unrecorded
           \/ Retries(r) /\ unrecorded' = unrecorded
           \/ at[r] = "begin" /\ unrecorded' = unrecorded
           \/ unrecorded'[n] = unrecorded[n] + 1
    PROVE  OrdersSound'
<1> USE DEF Inv, OrdersSound
<1>1. at[r] # "idle" /\ Stored(n)
  BY AiParameters DEF TypeOK, Sound, RunsSound, RunSound
<1>2. /\ at'[r] = "idle" /\ on'[r] = None /\ r \notin ordered' /\ r \notin slow'
      /\ \A m \in Messages \ {n} : late'[m] = late[m]
      /\ late'[n] = late[n] + One(InFlight(r))
  BY <1>1 DEF Leave, TypeOK, One
<1>3. Alone(r, n)
  BY <1>1, <1>2 DEF Alone, Leave, TypeOK
<1>4. Fresh'
  BY <1>2, <1>3 DEF Fresh, Alone
<1>5. /\ One(InFlight(r)) <= One(Bears(r)) /\ One(InFlight(r)) \in Nat
      /\ at[r] = "begin" => One(InFlight(r)) = 0 /\ One(Bears(r)) = 1
      /\ Retries(r) => One(Retries(r)) = 1
      /\ One(Bears(r)) \in Nat /\ One(Retries(r)) \in Nat
  BY DEF InFlight, Bears, Retries, One, Fresh
<1>6. OrdersCounted'
  <2>1. Share(r)' = 0
    BY <1>2 DEF Share, Bears, Retries, One
  <2>2. /\ Credit(n) \in {0, 1} /\ Credit(n)' \in {0, 1}
        /\ orders[n] \in Nat /\ late[n] \in Nat /\ reclaims[n] \in Nat /\ unrecorded[n] \in Nat
        /\ orders'[n] = orders[n] /\ reclaims'[n] = reclaims[n]
    BY DEF Credit, TypeOK
  <2>3. Share(r) = One(Bears(r)) + One(Retries(r))
    BY DEF Share
  <2>4. One(InFlight(r)) + Credit(n)' + unrecorded[n] <= Share(r) + Credit(n) + unrecorded'[n]
    BY <1>5, <2>2, <2>3
  <2>5. Share(r)' + Cost(n)' + Excess(n) <= Share(r) + Cost(n) + Excess(n)'
    <3>1. Share(r) \in Nat /\ unrecorded'[n] \in Nat
      BY <1>5, <2>3 DEF TypeOK
    <3>2. /\ Cost(n)' = orders[n] + (late[n] + One(InFlight(r))) + Credit(n)'
          /\ Excess(n)' = reclaims[n] + unrecorded'[n]
      BY <1>2, <2>2 DEF Cost, Excess
    <3>3. Cost(n) = orders[n] + late[n] + Credit(n) /\ Excess(n) = reclaims[n] + unrecorded[n]
      BY DEF Cost, Excess
    <3> QED
      BY <1>5, <2>1, <2>2, <2>4, <3>1, <3>2, <3>3
  <2> QED
    BY <1>3, <2>5, CountedMove
<1>7. OrdersExposed'
  <2>1. r \notin UnderWay(n)'
    BY <1>2, AiParameters DEF UnderWay
  <2>2. r \in UnderWay(n) <=> InFlight(r)
    BY <1>1 DEF UnderWay
  <2>3. One(r \in UnderWay(n))' + orders'[n] + late'[n] <= One(r \in UnderWay(n)) + orders[n] + late[n]
    <3>1. One(r \in UnderWay(n))' = 0 /\ One(r \in UnderWay(n)) = One(InFlight(r))
      BY <2>1, <2>2 DEF One
    <3> QED
      BY <1>2, <1>5, <3>1 DEF TypeOK
  <2> QED
    BY <1>1, <1>3, <2>3, ExposedMove
<1> QED
  BY <1>4, <1>6, <1>7

LEMMA ThrowOrders ==
    ASSUME Inv, TypeOK', NEW r \in Runs, NEW n \in Messages, n = on[r], Throw(r),
           UNCHANGED <<convOf, ai, turn, orders, exposed>>,
           \A m \in Messages \ {n} : unrecorded'[m] = unrecorded[m],
           \/ turn[n] # "none" /\ unrecorded' = unrecorded
           \/ Retries(r) /\ unrecorded' = unrecorded
           \/ at[r] = "begin" /\ unrecorded' = unrecorded
           \/ unrecorded'[n] = unrecorded[n] + 1
    PROVE  OrdersSound'
<1>1. \A m \in Messages \ {n} : job'[m] = job[m]
  BY DEF Throw, Inv, TypeOK
<1>2. turn[n] # "none" => Credit(n)' <= Credit(n)
  BY DEF Credit
<1> QED
  BY <1>1, <1>2, LeaveOrders DEF Throw

LEMMA QuietRunOrders ==
    ASSUME Inv, TypeOK', NEW r \in Runs,
           \/ findAITurnByMessageId(r) \/ LoadContext(r) \/ BeforeWrite(r) \/ OrderFails(r)
           \/ ToolTrouble(r) \/ Answer(r) \/ Recheck(r) \/ LookForReply(r) \/ createMessage(r)
           \/ enqueueSend(r) /\ GoTo(r, "complete") /\ UNCHANGED <<jobs, run, reclaims>>
    PROVE  OrdersSound'
<1>1. at \in [Runs -> Steps \cup {"idle"}] /\ Fresh
  BY DEF Inv, OrdersSound, TypeOK
<1>2. ASSUME NEW s, GoTo(r, s)
      PROVE  at'[r] = s /\ on' = on /\ \A q \in Runs \ {r} : at'[q] = at[q]
  BY <1>1, <1>2 DEF GoTo
<1>3. CASE findAITurnByMessageId(r)
  <2>1. PICK s \in {"begin", "check", "complete"} : GoTo(r, s) /\ (s = "begin" => turn[on[r]] = "none")
    BY <1>3 DEF findAITurnByMessageId
  <2>2. at'[r] = s /\ at[r] = "lookup" /\ on' = on /\ \A q \in Runs \ {r} : at'[q] = at[q]
    BY <1>2, <1>3, <2>1 DEF findAITurnByMessageId
  <2>3. Bears(r)' => Bears(r)
    BY <1>1, <1>3, <2>1, <2>2 DEF Bears, Fresh, findAITurnByMessageId
  <2> QED
    BY <1>3, <2>1, <2>2, <2>3, QuietOrders DEF findAITurnByMessageId
<1>4. CASE LoadContext(r)
  <2>1. PICK s \in {"think", "complete"} : GoTo(r, s)
    BY <1>4 DEF LoadContext
  <2>2. at'[r] = s /\ at[r] = "begin" /\ on' = on /\ \A q \in Runs \ {r} : at'[q] = at[q]
    BY <1>2, <1>4, <2>1 DEF LoadContext
  <2>3. Bears(r)' => Bears(r)
    BY <1>1, <1>4, <2>1, <2>2 DEF Bears, Fresh, LoadContext
  <2> QED
    BY <1>4, <2>1, <2>2, <2>3, QuietOrders DEF LoadContext
<1>5. CASE BeforeWrite(r)
  <2>1. PICK s \in {"create_order"} : GoTo(r, s)
    BY <1>5 DEF BeforeWrite
  <2>2. at'[r] = s /\ at[r] = "think" /\ on' = on /\ \A q \in Runs \ {r} : at'[q] = at[q]
    BY <1>2, <1>5, <2>1 DEF BeforeWrite
  <2>3. Bears(r)' => Bears(r)
    BY <1>1, <1>5, <2>1, <2>2 DEF Bears, Fresh, BeforeWrite
  <2> QED
    BY <1>5, <2>1, <2>2, <2>3, QuietOrders DEF BeforeWrite
<1>6. CASE OrderFails(r)
  <2>1. PICK s \in {"think"} : GoTo(r, s)
    BY <1>6 DEF OrderFails
  <2>2. at'[r] = s /\ at[r] = "create_order" /\ on' = on /\ \A q \in Runs \ {r} : at'[q] = at[q]
    BY <1>2, <1>6, <2>1 DEF OrderFails
  <2>3. Bears(r)' => Bears(r)
    BY <1>1, <1>6, <2>1, <2>2 DEF Bears, Fresh, OrderFails
  <2> QED
    BY <1>6, <2>1, <2>2, <2>3, QuietOrders DEF OrderFails
<1>7. CASE Answer(r)
  <2>1. PICK s \in {"recheck"} : GoTo(r, s)
    BY <1>7 DEF Answer
  <2>2. at'[r] = s /\ at[r] = "think" /\ on' = on /\ \A q \in Runs \ {r} : at'[q] = at[q]
    BY <1>2, <1>7, <2>1 DEF Answer
  <2>3. Bears(r)' => Bears(r)
    BY <1>1, <1>7, <2>1, <2>2 DEF Bears, Fresh, Answer
  <2> QED
    BY <1>7, <2>1, <2>2, <2>3, QuietOrders DEF Answer
<1>8. CASE Recheck(r)
  <2>1. PICK s \in {"record"} : GoTo(r, s)
    BY <1>8 DEF Recheck
  <2>2. at'[r] = s /\ at[r] = "recheck" /\ on' = on /\ \A q \in Runs \ {r} : at'[q] = at[q]
    BY <1>2, <1>8, <2>1 DEF Recheck
  <2>3. Bears(r)' => Bears(r)
    BY <1>1, <1>8, <2>1, <2>2 DEF Bears, Fresh, Recheck
  <2> QED
    BY <1>8, <2>1, <2>2, <2>3, QuietOrders DEF Recheck
<1>9. CASE LookForReply(r)
  <2>1. PICK s \in {"complete", "enqueueSend", "write"} : GoTo(r, s)
    BY <1>9 DEF LookForReply
  <2>2. at'[r] = s /\ at[r] = "check" /\ on' = on /\ \A q \in Runs \ {r} : at'[q] = at[q]
    BY <1>2, <1>9, <2>1 DEF LookForReply
  <2>3. Bears(r)' => Bears(r)
    BY <1>1, <1>9, <2>1, <2>2 DEF Bears, Fresh, LookForReply
  <2> QED
    BY <1>9, <2>1, <2>2, <2>3, QuietOrders DEF LookForReply
<1>10. CASE createMessage(r)
  <2>1. PICK s \in {"enqueueSend"} : GoTo(r, s)
    BY <1>10 DEF createMessage
  <2>2. at'[r] = s /\ at[r] = "write" /\ on' = on /\ \A q \in Runs \ {r} : at'[q] = at[q]
    BY <1>2, <1>10, <2>1 DEF createMessage
  <2>3. Bears(r)' => Bears(r)
    BY <1>1, <1>10, <2>1, <2>2 DEF Bears, Fresh, createMessage
  <2> QED
    BY <1>10, <2>1, <2>2, <2>3, QuietOrders DEF createMessage
<1>11. CASE enqueueSend(r) /\ GoTo(r, "complete") /\ UNCHANGED <<jobs, run, reclaims>>
  <2>1. PICK s \in {"complete"} : GoTo(r, s)
    BY <1>11 DEF enqueueSend
  <2>2. at'[r] = s /\ at[r] = "enqueueSend" /\ on' = on /\ \A q \in Runs \ {r} : at'[q] = at[q]
    BY <1>2, <1>11, <2>1 DEF enqueueSend
  <2>3. Bears(r)' => Bears(r)
    BY <1>1, <1>11, <2>1, <2>2 DEF Bears, Fresh, enqueueSend
  <2> QED
    BY <1>11, <2>1, <2>2, <2>3, QuietOrders DEF enqueueSend
<1>12. CASE ToolTrouble(r)
  <2>1. Bears(r)' => Bears(r)
    BY <1>12 DEF Bears, ToolTrouble
  <2> QED
    BY <1>12, <2>1, QuietOrders DEF ToolTrouble
<1> QED
  BY <1>3, <1>4, <1>5, <1>6, <1>7, <1>8, <1>9, <1>10, <1>11, <1>12

\* A call of create_order commits: the order was the run's to place.
LEMMA PlaceKeeps ==
    ASSUME Inv, TypeOK', NEW r \in Runs, createOrder(r) \/ AbandonedOrder(r)
    PROVE  OrdersSound'
<1> USE DEF Inv, OrdersSound
<1>1. PICK n \in Messages : n = on[r] /\ Stored(n) /\ at[r] \notin {"idle", "lookup", "begin"}
  BY DEF TypeOK, Sound, RunsSound, RunSound, createOrder, AbandonedOrder, Fresh
<1>2. /\ on' = on /\ at'[r] \in {at[r], "think"} /\ \A q \in Runs \ {r} : at'[q] = at[q]
      /\ at'[r] # "create_order" \/ r \in slow
      /\ at[r] = "create_order" \/ r \in slow
      /\ ordered' = ordered \cup {r} /\ slow' = slow \ {r}
      /\ UNCHANGED <<convOf, ai, job, turn, late, reclaims, unrecorded, exposed>>
      /\ orders' = [orders EXCEPT ![n] = IF r \in ordered THEN @ ELSE @ + 1]
  BY <1>1 DEF createOrder, AbandonedOrder, PlaceOrder, GoTo, TypeOK
<1>3. orders'[n] = orders[n] + One(r \notin ordered) /\ \A m \in Messages \ {n} : orders'[m] = orders[m]
  BY <1>2 DEF TypeOK, One
<1>4. Alone(r, n)
  BY <1>1, <1>2, <1>3 DEF Alone
<1>5. Fresh'
  BY <1>1, <1>2 DEF Fresh
<1>6. OrdersCounted'
  <2>1. One(Bears(r))' = 0 /\ One(Bears(r)) = One(r \notin ordered) /\ One(Retries(r))' <= One(Retries(r))
    BY <1>1, <1>2 DEF One, Bears, Retries
  <2>2. /\ One(Retries(r)) \in {0, 1} /\ One(Retries(r))' \in {0, 1} /\ One(r \notin ordered) \in {0, 1}
        /\ orders[n] \in Nat /\ late[n] \in Nat /\ Credit(n) \in {0, 1} /\ Credit(n)' = Credit(n)
        /\ Excess(n)' = Excess(n) /\ Excess(n) \in Nat
    BY <1>2 DEF One, Credit, Excess, TypeOK
  <2>3. Share(r)' + Cost(n)' + Excess(n) <= Share(r) + Cost(n) + Excess(n)'
    BY <1>2, <1>3, <2>1, <2>2 DEF Share, Cost
  <2> QED
    BY <1>2, <1>4, <2>3, CountedMove
<1>7. OrdersExposed'
  <2>1. r \notin UnderWay(n)' /\ (r \notin ordered => r \in UnderWay(n))
    BY <1>1, <1>2 DEF UnderWay, InFlight
  <2>2. One(r \in UnderWay(n))' = 0 /\ One(r \notin ordered) <= One(r \in UnderWay(n))
    BY <2>1 DEF One
  <2>3. One(r \in UnderWay(n)) \in {0, 1} /\ One(r \notin ordered) \in {0, 1}
        /\ orders[n] \in Nat /\ late[n] \in Nat
    BY DEF One, TypeOK
  <2>4. One(r \in UnderWay(n))' + orders'[n] + late'[n] <= One(r \in UnderWay(n)) + orders[n] + late[n]
    BY <1>2, <1>3, <2>2, <2>3
  <2> QED
    BY <1>1, <1>2, <1>4, <2>4, ExposedMove
<1> QED
  BY <1>5, <1>6, <1>7

\* A turn that is recorded makes no run good for a further order.
LEMMA RecordOrders ==
    ASSUME Inv, TypeOK', NEW r \in Runs, createAITurn(r)
    PROVE  OrdersSound'
<1> USE DEF Inv, OrdersSound
<1>1. PICK n \in Messages : n = on[r] /\ Stored(n) /\ at[r] = "record" /\ decided[r] \in {"reply", "silent", "handoff"}
  BY DEF TypeOK, Sound, RunsSound, RunSound, createAITurn, Decisions
<1>2. /\ at'[r] \in {"handOff", "complete", "check"} /\ on' = on /\ \A q \in Runs \ {r} : at'[q] = at[q]
      /\ turn'[n] # "none" /\ \A m \in Messages \ {n} : turn'[m] = turn[m]
      /\ UNCHANGED <<convOf, ai, job, orders, ordered, slow, late, reclaims, unrecorded, exposed>>
  BY <1>1 DEF createAITurn, GoTo, TypeOK
<1>3. Alone(r, n)
  BY <1>1, <1>2 DEF Alone
<1>4. Fresh'
  BY <1>2 DEF Fresh
<1>5. OrdersCounted'
  <2>1. One(Bears(r))' <= One(Bears(r)) /\ One(Retries(r))' = 0
    BY <1>1, <1>2 DEF One, Bears, Retries
  <2>2. /\ One(Bears(r)) \in {0, 1} /\ One(Bears(r))' \in {0, 1} /\ One(Retries(r)) \in {0, 1}
        /\ orders[n] \in Nat /\ late[n] \in Nat /\ Credit(n) \in {0, 1} /\ Credit(n)' = 0
        /\ Excess(n)' = Excess(n) /\ Excess(n) \in Nat
    BY <1>2 DEF One, Credit, Excess, TypeOK
  <2>3. Share(r)' + Cost(n)' + Excess(n) <= Share(r) + Cost(n) + Excess(n)'
    BY <1>2, <2>1, <2>2 DEF Share, Cost
  <2> QED
    BY <1>2, <1>3, <2>3, CountedMove
<1>6. OrdersExposed'
  <2>1. r \in UnderWay(n)' => r \in UnderWay(n)
    BY <1>1, <1>2 DEF UnderWay, InFlight
  <2>2. One(r \in UnderWay(n))' <= One(r \in UnderWay(n)) /\ One(r \in UnderWay(n))' \in Nat
        /\ One(r \in UnderWay(n)) \in Nat /\ orders[n] \in Nat /\ late[n] \in Nat
    BY <2>1 DEF One, TypeOK
  <2> QED
    BY <1>1, <1>2, <1>3, <2>2, ExposedMove
<1> QED
  BY <1>4, <1>5, <1>6

\* A refused row counts, unless another is there: then no run is good for more.
LEMMA RefusalOrders ==
    ASSUME Inv, TypeOK', NEW r \in Runs, TurnRefused(r)
    PROVE  OrdersSound'
<1> USE DEF Inv, OrdersSound
<1>1. PICK n \in Messages : n = on[r] /\ Stored(n) /\ at[r] = "record" /\ decided[r] \in {"reply", "silent", "handoff"}
  BY DEF TypeOK, Sound, RunsSound, RunSound, TurnRefused, Decisions
<1>2. \/ turn[n] # "none" /\ unrecorded' = unrecorded
      \/ turn[n] = "none" /\ unrecorded' = [unrecorded EXCEPT ![n] = @ + 1]
  BY <1>1 DEF TurnRefused
<1>3. \A m \in Messages \ {n} : unrecorded'[m] = unrecorded[m]
  BY <1>2 DEF TypeOK
<1>4. \/ turn[n] # "none" /\ unrecorded' = unrecorded
      \/ unrecorded'[n] = unrecorded[n] + 1
  BY <1>2 DEF TypeOK
<1>5. CASE decided[r] = "reply"
  <2>1. Throw(r) /\ UNCHANGED <<convOf, ai, turn, orders, exposed>>
    BY <1>5 DEF TurnRefused
  <2> QED
    BY <1>1, <1>3, <1>4, <2>1, ThrowOrders
<1>6. CASE decided[r] # "reply"
  <2>1. /\ at'[r] \in {"handOff", "complete"} /\ on' = on /\ \A q \in Runs \ {r} : at'[q] = at[q]
        /\ UNCHANGED <<convOf, ai, job, turn, orders, ordered, slow, late, reclaims, exposed>>
    BY <1>1, <1>6, ZenonT(30) DEF TurnRefused, GoTo, TypeOK
  <2>2. Alone(r, n)
    BY <1>1, <1>3, <2>1 DEF Alone
  <2>3. Fresh'
    BY <2>1 DEF Fresh
  <2>4. OrdersCounted'
    <3>1. One(Bears(r))' <= One(Bears(r)) /\ (turn[n] # "none" => One(Retries(r))' = 0)
      BY <1>1, <2>1 DEF One, Bears, Retries
    <3>2. /\ One(Bears(r)) \in {0, 1} /\ One(Bears(r))' \in {0, 1}
          /\ One(Retries(r)) \in {0, 1} /\ One(Retries(r))' \in {0, 1}
          /\ Cost(n)' = Cost(n) /\ Cost(n) \in Nat
          /\ reclaims[n] \in Nat /\ unrecorded[n] \in Nat /\ reclaims'[n] = reclaims[n]
      BY <2>1 DEF One, Cost, Credit, TypeOK
    <3>3. \/ turn[n] # "none" /\ unrecorded'[n] = unrecorded[n]
          \/ unrecorded'[n] = unrecorded[n] + 1
      BY <1>4
    <3>4. Share(r)' + Cost(n)' + Excess(n) <= Share(r) + Cost(n) + Excess(n)'
      BY <3>1, <3>2, <3>3 DEF Share, Excess
    <3> QED
      BY <2>1, <2>2, <3>4, CountedMove
  <2>5. OrdersExposed'
    <3>1. r \in UnderWay(n)' => r \in UnderWay(n)
      BY <1>1, <2>1 DEF UnderWay, InFlight
    <3>2. One(r \in UnderWay(n))' <= One(r \in UnderWay(n)) /\ One(r \in UnderWay(n))' \in Nat
          /\ One(r \in UnderWay(n)) \in Nat /\ orders[n] \in Nat /\ late[n] \in Nat
      BY <3>1 DEF One, TypeOK
    <3> QED
      BY <1>1, <2>1, <2>2, <3>2, ExposedMove
  <2> QED
    BY <2>3, <2>4, <2>5
<1> QED
  BY <1>5, <1>6

\* People take over: the orders there are, and those under way, are noted.
LEMMA SwitchOffExposes ==
    ASSUME Inv, TypeOK', NEW c, SwitchOff(c), UNCHANGED <<convOf, orders, late>>,
           \A m \in Messages : UnderWay(m)' = UnderWay(m)
    PROVE  OrdersExposed'
<1> SUFFICES ASSUME NEW m \in Messages
             PROVE  /\ Stored(m)' /\ ~ai'[convOf'[m]] =>
                         (orders[m] + Cardinality(UnderWay(m)) + late[m] <= exposed[m])'
                    /\ ~Stored(m)' => orders'[m] = 0 /\ late'[m] = 0
  BY DEF OrdersExposed
<1>1. Cardinality(UnderWay(m)) \in Nat /\ orders[m] \in Nat /\ late[m] \in Nat
  BY RunsCounted DEF UnderWay, Inv, TypeOK
<1>2. Cardinality(UnderWay(m))' = Cardinality(UnderWay(m))
  OBVIOUS
<1>3. CASE convOf[m] = c
  <2>1. exposed'[m] = orders[m] + Cardinality(UnderWay(m)) + late[m]
    BY <1>3 DEF SwitchOff
  <2> QED
    BY <1>1, <1>2, <2>1 DEF Inv, OrdersSound, OrdersExposed, Stored
<1>4. CASE convOf[m] # c
  <2>1. exposed'[m] = exposed[m] /\ (Stored(m) => ai'[convOf[m]] = ai[convOf[m]])
    BY <1>4 DEF SwitchOff, Inv, TypeOK, Stored
  <2> QED
    BY <1>2, <2>1 DEF Inv, OrdersSound, OrdersExposed, Stored
<1> QED
  BY <1>3, <1>4

LEMMA HandoffOrders ==
    ASSUME Inv, TypeOK', NEW r \in Runs, triggerHumanHandoff(r)
    PROVE  OrdersSound'
<1> USE DEF Inv, OrdersSound
<1>1. PICK n \in Messages : n = on[r] /\ at[r] = "handOff"
  BY DEF TypeOK, triggerHumanHandoff
<1>2. CASE Mishap /\ Throw(r) /\ UNCHANGED <<ai, shown, exposed>>
  <2>1. turn[n] # "none" \/ Retries(r)
    BY <1>1 DEF Retries
  <2>2. UNCHANGED <<convOf, ai, turn, orders, exposed, unrecorded>>
    BY <1>2 DEF triggerHumanHandoff
  <2> QED
    BY <1>1, <1>2, <2>1, <2>2, ThrowOrders
<1>3. CASE /\ SwitchOff(convOf[on[r]]) /\ GoTo(r, "complete")
           /\ UNCHANGED <<jobs, run, unanswered, reclaims, mishaps>>
  <2>1. /\ at'[r] = "complete" /\ on' = on /\ \A q \in Runs \ {r} : at'[q] = at[q]
        /\ UNCHANGED <<convOf, job, turn, orders, ordered, slow, late, reclaims, unrecorded>>
    BY <1>3 DEF triggerHumanHandoff, GoTo, TypeOK
  <2>2. Alone(r, n)
    BY <1>1, <2>1 DEF Alone
  <2>3. Fresh'
    BY <2>1 DEF Fresh
  <2>4. OrdersCounted'
    <3>1. One(Bears(r))' <= One(Bears(r)) /\ One(Retries(r))' = 0
      BY <1>1, <2>1 DEF One, Bears, Retries
    <3>2. /\ One(Bears(r)) \in {0, 1} /\ One(Bears(r))' \in {0, 1} /\ One(Retries(r)) \in {0, 1}
          /\ Cost(n)' = Cost(n) /\ Cost(n) \in Nat /\ Excess(n)' = Excess(n) /\ Excess(n) \in Nat
      BY <2>1 DEF One, Cost, Excess, Credit, TypeOK
    <3>3. Share(r)' + Cost(n)' + Excess(n) <= Share(r) + Cost(n) + Excess(n)'
      BY <3>1, <3>2 DEF Share
    <3> QED
      BY <2>1, <2>2, <3>3, CountedMove
  <2>5. \A m \in Messages : UnderWay(m)' = UnderWay(m)
    BY <1>1, <2>1 DEF UnderWay, InFlight
  <2> QED
    BY <1>3, <2>1, <2>3, <2>4, <2>5, SwitchOffExposes
<1> QED
  BY <1>2, <1>3 DEF triggerHumanHandoff

LEMMA EndOrders ==
    ASSUME Inv, TypeOK', NEW r \in Runs,
           \/ GroundingFailed(r) \/ Complete(r) \/ Crash(r)
           \/ enqueueSend(r) /\ Throw(r)
    PROVE  OrdersSound'
<1>1. PICK n \in Messages : n = on[r] /\ RunSound(r) /\ at[r] # "idle"
  BY DEF Inv, Sound, RunsSound, TypeOK, GroundingFailed, Complete, Crash, enqueueSend
<1>2. CASE GroundingFailed(r)
  BY <1>1, <1>2, ThrowOrders DEF GroundingFailed
<1>3. CASE Complete(r)
  <2>1. Credit(n)' <= Credit(n) /\ \A m \in Messages \ {n} : job'[m] = job[m]
    BY <1>1, <1>3 DEF Complete, Credit, Inv, TypeOK
  <2> QED
    BY <1>1, <1>3, <2>1, LeaveOrders DEF Complete
<1>4. CASE Crash(r)
  <2>1. Credit(n)' <= Credit(n)
    BY <1>4 DEF Crash, Credit
  <2> QED
    BY <1>1, <1>4, <2>1, LeaveOrders DEF Crash
<1>5. CASE enqueueSend(r) /\ Throw(r)
  <2>1. turn[n] # "none"
    BY <1>1, <1>5 DEF enqueueSend, RunSound
  <2> QED
    BY <1>1, <1>5, <2>1, ThrowOrders DEF enqueueSend
<1> QED
  BY <1>2, <1>3, <1>4, <1>5

LEMMA ClaimOrders ==
    ASSUME Inv, TypeOK', NEW r \in Runs, NEW n \in Messages, Claim(r, n)
    PROVE  OrdersSound'
<1> USE DEF Inv, OrdersSound
<1>1. /\ at[r] = "idle" /\ on[r] = None /\ job[n] = "queued" /\ Stored(n)
      /\ r \notin ordered /\ r \notin slow
  BY DEF Claim, TypeOK, Sound, JobsSound, Fresh
<1>2. /\ at'[r] = "lookup" /\ on'[r] = n /\ \A q \in Runs \ {r} : at'[q] = at[q] /\ on'[q] = on[q]
      /\ job'[n] = "running" /\ \A m \in Messages \ {n} : job'[m] = job[m]
      /\ UNCHANGED <<convOf, ai, turn, orders, ordered, slow, late, reclaims, unrecorded, exposed>>
  BY DEF Claim, TypeOK
<1>3. Alone(r, n)
  BY <1>1, <1>2 DEF Alone
<1>4. Fresh'
  BY <1>1, <1>2 DEF Fresh
<1>5. OrdersCounted'
  <2>1. Share(r)' + Credit(n)' <= Credit(n)
    BY <1>1, <1>2 DEF Share, Credit, One, Bears, Retries
  <2>2. /\ Share(r)' \in {0, 1, 2} /\ Share(r) \in {0, 1, 2} /\ Credit(n) \in {0, 1} /\ Credit(n)' \in {0, 1}
        /\ orders[n] \in Nat /\ late[n] \in Nat /\ Excess(n)' = Excess(n) /\ Excess(n) \in Nat
    BY <1>2 DEF Share, One, Credit, Excess, TypeOK
  <2>3. Share(r)' + Cost(n)' + Excess(n) <= Share(r) + Cost(n) + Excess(n)'
    BY <1>2, <2>1, <2>2 DEF Cost
  <2> QED
    BY <1>2, <1>3, <2>3, CountedMove
<1>6. OrdersExposed'
  <2>1. r \notin UnderWay(n)'
    BY <1>1, <1>2 DEF UnderWay, InFlight
  <2>2. One(r \in UnderWay(n))' = 0 /\ One(r \in UnderWay(n)) \in Nat /\ orders[n] \in Nat /\ late[n] \in Nat
    BY <2>1 DEF One, TypeOK
  <2> QED
    BY <1>1, <1>2, <1>3, <2>2, ExposedMove
<1> QED
  BY <1>4, <1>5, <1>6

\* A step of none of the runs.
LEMMA StillOrders ==
    ASSUME Inv, TypeOK', UNCHANGED <<at, on, ordered, slow, turn>>,
           \A m \in Messages : orders'[m] + late'[m] = orders[m] + late[m],
           \A m \in Messages : Credit(m)' + Excess(m) <= Credit(m) + Excess(m)'
    PROVE  Fresh' /\ OrdersCounted'
<1> USE DEF Inv, OrdersSound
<1>1. Fresh'
  BY DEF Fresh
<1>2. OrdersCounted'
  <2> SUFFICES ASSUME NEW m \in Messages
               PROVE  (orders[m] + Cardinality(Bearers(m)) + Cardinality(Retriers(m)) + late[m] + Credit(m)
                         <= 1 + reclaims[m] + unrecorded[m])'
    BY DEF OrdersCounted
  <2>1. Bearers(m)' = Bearers(m) /\ Retriers(m)' = Retriers(m)
    BY DEF Bearers, Retriers, On, Bears, Retries
  <2>2. /\ Cardinality(Bearers(m))' = Cardinality(Bearers(m)) /\ Cardinality(Bearers(m)) \in Nat
        /\ Cardinality(Retriers(m))' = Cardinality(Retriers(m)) /\ Cardinality(Retriers(m)) \in Nat
    BY <2>1, RunsCounted DEF Bearers, Retriers, On
  <2>3. /\ orders[m] \in Nat /\ late[m] \in Nat /\ reclaims[m] \in Nat /\ unrecorded[m] \in Nat
        /\ orders'[m] \in Nat /\ late'[m] \in Nat /\ reclaims'[m] \in Nat /\ unrecorded'[m] \in Nat
        /\ Credit(m) \in {0, 1} /\ Credit(m)' \in {0, 1}
    BY DEF TypeOK, Credit
  <2>4. orders[m] + Cardinality(Bearers(m)) + Cardinality(Retriers(m)) + late[m] + Credit(m)
          <= 1 + reclaims[m] + unrecorded[m]
    BY DEF OrdersCounted
  <2>5. /\ orders'[m] + late'[m] = orders[m] + late[m]
        /\ Credit(m)' + (reclaims[m] + unrecorded[m]) <= Credit(m) + (reclaims'[m] + unrecorded'[m])
    BY DEF Excess
  <2>6. orders'[m] + Cardinality(Bearers(m)) + Cardinality(Retriers(m)) + late'[m] + Credit(m)'
          <= 1 + reclaims'[m] + unrecorded'[m]
    BY <2>2, <2>3, <2>4, <2>5
  <2> QED
    BY <2>2, <2>6
<1> QED
  BY <1>1, <1>2

LEMMA StillExposed ==
    ASSUME Inv, TypeOK', UNCHANGED <<at, on, ordered, slow, exposed>>,
           \A m \in Messages : orders'[m] + late'[m] = orders[m] + late[m],
           \A m \in Messages : Stored(m) => convOf'[m] = convOf[m] /\ (ai[convOf[m]] => ai'[convOf[m]])
    PROVE  OrdersExposed'
<1> SUFFICES ASSUME NEW m \in Messages
             PROVE  /\ Stored(m)' /\ ~ai'[convOf'[m]] =>
                         (orders[m] + Cardinality(UnderWay(m)) + late[m] <= exposed[m])'
                    /\ ~Stored(m)' => orders'[m] = 0 /\ late'[m] = 0
  BY DEF OrdersExposed
<1> USE DEF Inv, OrdersSound
<1>1. UnderWay(m)' = UnderWay(m)
  BY DEF UnderWay, InFlight
<1>2. Cardinality(UnderWay(m))' = Cardinality(UnderWay(m)) /\ Cardinality(UnderWay(m)) \in Nat
  BY <1>1, RunsCounted DEF UnderWay
<1>3. /\ orders[m] \in Nat /\ late[m] \in Nat /\ orders'[m] \in Nat /\ late'[m] \in Nat
      /\ exposed[m] \in Nat /\ orders'[m] + late'[m] = orders[m] + late[m]
  BY DEF TypeOK
<1>4. CASE Stored(m)
  <2>1. /\ Stored(m)' /\ (~ai'[convOf'[m]] => ~ai[convOf[m]])
        /\ ~ai[convOf[m]] => orders[m] + Cardinality(UnderWay(m)) + late[m] <= exposed[m]
    BY <1>4 DEF Stored, OrdersExposed
  <2> QED
    BY <1>2, <1>3, <2>1
<1>5. CASE ~Stored(m)
  <2>1. UnderWay(m) = {}
    <3>1. \A q \in Runs : on[q] = m => at[q] # "idle"
      BY AiParameters DEF TypeOK
    <3> QED
      BY <1>5, <3>1 DEF UnderWay, Sound, RunsSound, RunSound
  <2>2. Cardinality(UnderWay(m)) = 0
    BY <2>1, FS_EmptySet
  <2>3. orders'[m] = 0 /\ late'[m] = 0
    BY <1>3, <1>5 DEF OrdersExposed
  <2> QED
    BY <1>2, <1>3, <2>2, <2>3
<1> QED
  BY <1>4, <1>5

LEMMA QueueOrders ==
    ASSUME Inv, TypeOK',
           \/ \E m \in Messages : Requeue(m) \/ LateOrder(m)
           \/ \E c \in Conversations : toggleConversationAi(c)
    PROVE  OrdersSound'
<1> USE DEF Inv, OrdersSound
<1>1. ASSUME NEW n \in Messages, Requeue(n) PROVE OrdersSound'
  <2>1. UNCHANGED <<convOf, ai, turn, orders, at, on, ordered, slow, late, unrecorded, exposed>>
    BY <1>1 DEF Requeue
  <2>2. \A m \in Messages : \/ job'[m] = job[m] /\ reclaims'[m] = reclaims[m]
                            \/ reclaims'[m] = reclaims[m] + 1
    BY <1>1 DEF Requeue, TypeOK
  <2>3. \A m \in Messages : Credit(m)' + Excess(m) <= Credit(m) + Excess(m)'
    BY <2>1, <2>2 DEF Credit, Excess, TypeOK
  <2> QED
    BY <2>1, <2>3, StillOrders, StillExposed
<1>2. ASSUME NEW n \in Messages, LateOrder(n) PROVE OrdersSound'
  <2>1. UNCHANGED <<convOf, ai, job, turn, at, on, ordered, slow, reclaims, unrecorded, exposed>>
    BY <1>2 DEF LateOrder
  <2>2. \A m \in Messages : orders'[m] + late'[m] = orders[m] + late[m]
    BY <1>2 DEF LateOrder, TypeOK
  <2>3. \A m \in Messages : Credit(m)' + Excess(m) <= Credit(m) + Excess(m)'
    BY <2>1 DEF Credit, Excess, TypeOK
  <2> QED
    BY <2>1, <2>2, <2>3, StillOrders, StillExposed
<1>3. ASSUME NEW c \in Conversations, toggleConversationAi(c) PROVE OrdersSound'
  <2>1. UNCHANGED <<convOf, job, turn, orders, at, on, ordered, slow, late, reclaims, unrecorded>>
    BY <1>3 DEF toggleConversationAi
  <2>2. \A m \in Messages : Credit(m)' + Excess(m) <= Credit(m) + Excess(m)'
    BY <2>1 DEF Credit, Excess, TypeOK
  <2>3. Fresh' /\ OrdersCounted'
    BY <2>1, <2>2, StillOrders
  <2>4. CASE ai[c]
    <3>1. \A m \in Messages : UnderWay(m)' = UnderWay(m)
      BY <2>1 DEF UnderWay, InFlight
    <3> QED
      BY <1>3, <2>1, <2>3, <2>4, <3>1, SwitchOffExposes DEF toggleConversationAi
  <2>5. CASE ~ai[c]
    <3>1. ai' = [ai EXCEPT ![c] = TRUE] /\ UNCHANGED exposed
      BY <1>3, <2>5 DEF toggleConversationAi
    <3>2. \A m \in Messages : Stored(m) => convOf'[m] = convOf[m] /\ (ai[convOf[m]] => ai'[convOf[m]])
      BY <2>1, <3>1 DEF TypeOK, Stored
    <3> QED
      BY <2>1, <2>3, <3>1, <3>2, StillExposed
  <2> QED
    BY <2>4, <2>5
<1> QED
  BY <1>1, <1>2, <1>3

LEMMA HookOrders ==
    ASSUME Inv, TypeOK', HookNext \/ UNCHANGED vars
    PROVE  OrdersSound'
<1> USE DEF Inv, OrdersSound
<1>1. /\ UNCHANGED <<ai, turn, orders, at, on, ordered, slow, late, reclaims, unrecorded, exposed>>
      /\ \A m \in Messages : Stored(m) => convOf'[m] = convOf[m]
      /\ \A m \in Messages : job'[m] = job[m] \/ job[m] = "none"
  <2>1. ASSUME NEW h \in Hooks, storeMessage(h)
        PROVE  UNCHANGED AiRest /\ job' = job /\ \A m \in Messages : Stored(m) => convOf'[m] = convOf[m]
    BY <2>1 DEF storeMessage, Stored, TypeOK
  <2>2. ASSUME NEW h \in Hooks, EnqueueAiRespond(h)
        PROVE  UNCHANGED <<AiRest, convOf>> /\ \A m \in Messages : job'[m] = job[m] \/ job[m] = "none"
    BY <2>2 DEF EnqueueAiRespond, TypeOK
  <2>3. CASE UNCHANGED <<AiRest, convOf, job>>
    BY <2>3 DEF AiRest
  <2>4. CASE UNCHANGED vars
    BY <2>3, <2>4 DEF vars, aiVars, AiRest
  <2>5. ASSUME NEW h \in Hooks, processInboundMessage(h) /\ ~storeMessage(h)
        PROVE  UNCHANGED <<AiRest, convOf, job>>
    BY <2>5 DEF processInboundMessage, findMessageByProviderId, findContactByPhone, createContact,
      findLatestConversation, createConversation, aiVars, AiRest
  <2>6. ASSUME NEW h \in Hooks,
               OpenEvent(h) \/ MarkProcessed(h) \/ HookComplete(h) \/ HookCrash(h)
        PROVE  UNCHANGED <<AiRest, convOf, job>>
    BY <2>6 DEF OpenEvent, MarkProcessed, HookComplete, HookCrash, aiVars, AiRest
  <2>7. ASSUME NEW m \in Messages,
               \/ persistLogicalEvent(m) \/ HookReclaimStalled(m) \/ HookReclaimSlow(m)
               \/ \E h \in Hooks : HookClaim(h, m)
        PROVE  UNCHANGED <<AiRest, convOf, job>>
    BY <2>7 DEF persistLogicalEvent, HookReclaimStalled, HookReclaimSlow, HookRequeue, HookClaim, aiVars, AiRest
  <2> QED
    BY <2>1, <2>2, <2>3, <2>4, <2>5, <2>6, <2>7 DEF HookNext, processWebhookEvent, AiRest
<1>2. \A m \in Messages : Credit(m)' + Excess(m) <= Credit(m) + Excess(m)'
  BY <1>1 DEF Credit, Excess, TypeOK
<1>3. \A m \in Messages : Stored(m) => convOf'[m] = convOf[m] /\ (ai[convOf[m]] => ai'[convOf[m]])
  BY <1>1
<1> QED
  BY <1>1, <1>2, <1>3, StillOrders, StillExposed

LEMMA OrdersStep ==
    ASSUME Inv, TypeOK', [Next]_vars
    PROVE  OrdersSound'
<1>1. ASSUME NEW r \in Runs, aiRespondHandler(r) \/ Crash(r) \/ AbandonedOrder(r) PROVE OrdersSound'
  <2>1. CASE enqueueSend(r)
    <3>1. \/ enqueueSend(r) /\ Throw(r)
          \/ enqueueSend(r) /\ GoTo(r, "complete") /\ UNCHANGED <<jobs, run, reclaims>>
      BY <2>1 DEF enqueueSend
    <3> QED
      BY <3>1, QuietRunOrders, EndOrders
  <2> QED
    BY <1>1, <2>1, QuietRunOrders, PlaceKeeps, RecordOrders, RefusalOrders, HandoffOrders, EndOrders
    DEF aiRespondHandler, executeAgentTurn, deliverAgentReply
<1>2. CASE AiNext
  BY <1>1, <1>2, ClaimOrders, QueueOrders DEF AiNext, ReclaimStalled, ReclaimSlow
<1> QED
  BY <1>2, HookOrders DEF Next

-----------------------------------------------------------------------------
(***************************************************************************)
(* A reply comes of one step of a run, and of no other.                    *)
(***************************************************************************)
LEMMA RepliesAreWritten ==
    ASSUME Inv, [Next]_vars, NEW m \in Messages, replies'[m] > replies[m]
    PROVE  \E r \in Runs : at[r] = "write" /\ on[r] = m
<1>1. replies \in [Messages -> Nat]
  BY DEF Inv, TypeOK
<1>2. CASE UNCHANGED replies
  BY <1>1, <1>2
<1>3. CASE \E r \in Runs : createMessage(r)
  BY <1>1, <1>3 DEF createMessage
<1>4. CASE UNCHANGED vars \/ HookNext
  BY <1>2, <1>4 DEF vars, aiVars, AiRest, HookNext, persistLogicalEvent, HookReclaimStalled, HookReclaimSlow,
    HookRequeue, HookClaim, processWebhookEvent, processInboundMessage, HookCrash, OpenEvent,
    findMessageByProviderId, findContactByPhone, createContact, findLatestConversation,
    createConversation, storeMessage, MarkProcessed, EnqueueAiRespond, HookComplete
<1>5. CASE \/ \E r \in Runs, n \in Messages : Claim(r, n)
           \/ \E n \in Messages : ReclaimStalled(n) \/ ReclaimSlow(n) \/ LateOrder(n)
           \/ \E c \in Conversations : toggleConversationAi(c)
  BY <1>2, <1>5 DEF Claim, ReclaimStalled, ReclaimSlow, Requeue, LateOrder, toggleConversationAi
<1>6. CASE \E r \in Runs : aiRespondHandler(r) \/ Crash(r) \/ AbandonedOrder(r)
  BY <1>2, <1>3, <1>6, ZenonT(30) DEF aiRespondHandler, executeAgentTurn, deliverAgentReply, Crash, AbandonedOrder,
    PlaceOrder, findAITurnByMessageId, LoadContext, GroundingFailed, BeforeWrite, createOrder, OrderFails,
    ToolTrouble, Answer, Recheck, createAITurn, TurnRefused, triggerHumanHandoff, LookForReply,
    enqueueSend, Complete
<1> QED
  BY <1>4, <1>5, <1>6 DEF Next, AiNext

-----------------------------------------------------------------------------
(***************************************************************************)
(* The invariant and what follows from it.                                 *)
(***************************************************************************)
LEMMA InvInit == Init => Inv
<1> SUFFICES ASSUME Init PROVE Inv
  OBVIOUS
<1> USE DEF Init, AiInit
<1>1. TypeOK
  BY AiParameters DEF TypeOK, JobStates, TurnRows, Decisions, EventStates
<1>2. RunsSound /\ HooksSound /\ JobsSound /\ RepliesAreRecorded
  BY DEF RunsSound, RunSound, HooksSound, JobsSound, RepliesAreRecorded
<1>3. \A m \in Messages : Cardinality(On(m)) = 0 /\ Cardinality(Writers(m)) = 0
  <2>1. \A m \in Messages : On(m) = {} /\ Writers(m) = {}
    BY AiParameters DEF On, Writers
  <2> QED
    BY <2>1, FS_EmptySet
<1>4. RunsBounded /\ WritersBounded
  BY <1>3 DEF RunsBounded, WritersBounded, Queued
<1>5. OrdersSound
  <2>1. Fresh
    BY DEF Fresh
  <2>2. \A m \in Messages : Cardinality(Bearers(m)) = 0 /\ Cardinality(Retriers(m)) = 0
    <3>1. \A m \in Messages : Bearers(m) = {} /\ Retriers(m) = {}
      BY DEF Bearers, Retriers, On, Bears, Retries
    <3> QED
      BY <3>1, FS_EmptySet
  <2>3. OrdersCounted
    BY <2>2 DEF OrdersCounted, Credit
  <2>4. OrdersExposed
    BY DEF OrdersExposed, Stored
  <2> QED
    BY <2>1, <2>3, <2>4 DEF OrdersSound
<1> QED
  BY <1>1, <1>2, <1>4, <1>5 DEF Inv, Sound

LEMMA InvStep == Inv /\ [Next]_vars => Inv'
<1> SUFFICES ASSUME Inv, [Next]_vars PROVE Inv'
  OBVIOUS
<1>1. TypeOK'
  BY TypesStep DEF Inv, Sound, OrdersSound
<1>2. Sound'
  <2>1. CASE UNCHANGED vars
    BY <2>1, StillKeeps DEF vars, aiVars, hookVars
  <2>2. CASE HookNext
    BY <2>2, HookKeeps
  <2>3. CASE AiNext /\ UNCHANGED hookVars
    BY <2>3, AiKeeps
  <2> QED
    BY <2>1, <2>2, <2>3 DEF Next
<1>3. OrdersSound'
  BY <1>1, OrdersStep
<1> QED
  BY <1>1, <1>2, <1>3 DEF Inv

LEMMA InvHolds == Spec => []Inv
BY InvInit, InvStep, PTL DEF Spec

(* Every variable of the inbound path and of the turn keeps its type.      *)
THEOREM TypeCorrect == Spec => []TypeOK
<1>1. Inv => TypeOK
  BY DEF Inv
<1> QED
  BY <1>1, InvHolds, PTL

(* A reply is written for a message only while the message's turn says it  *)
(* was answered: createMessage is reached through a row that was read, or  *)
(* written by the run itself, and never after a refused one.               *)
THEOREM RepliesAreRecordedHolds == Spec => []RepliesAreRecorded
<1>1. Inv => RepliesAreRecorded
  BY DEF Inv, Sound
<1> QED
  BY <1>1, InvHolds, PTL

(* However many workers, retries and deaths there are, a message gets one  *)
(* reply and one more at most for each time its lock was taken from a run: *)
(* the runs that hold the message are counted, and so are those among them *)
(* that have looked for a reply and not written theirs yet.                *)
THEOREM OneReplyPerMessageHolds == Spec => []OneReplyPerMessage
<1>1. Inv => OneReplyPerMessage
  <2> SUFFICES ASSUME Inv, NEW m \in Messages PROVE replies[m] <= 1 + reclaims[m]
    BY DEF OneReplyPerMessage
  <2>1. Cardinality(Writers(m)) \in Nat
    BY RunsCounted DEF Writers, On
  <2>2. replies[m] \in Nat /\ reclaims[m] \in Nat /\ replies[m] + Cardinality(Writers(m)) <= 1 + reclaims[m]
    BY DEF Inv, Sound, WritersBounded, TypeOK
  <2> QED
    BY <2>1, <2>2
<1> QED
  BY <1>1, InvHolds, PTL

(* A message gets one order, whatever calls of create_order time out, are  *)
(* tried again or commit when their turn is over, and one more at most for *)
(* each lock taken from a run and each turn row refused by the store.      *)
THEOREM OneOrderPerTurnHolds == Spec => []OneOrderPerTurn
<1>1. Inv => OneOrderPerTurn
  <2> SUFFICES ASSUME Inv, NEW m \in Messages
               PROVE  orders[m] <= 1 + reclaims[m] + unrecorded[m]
    BY DEF OneOrderPerTurn
  <2>1. Cardinality(Bearers(m)) \in Nat /\ Cardinality(Retriers(m)) \in Nat /\ Credit(m) \in Nat
    BY RunsCounted DEF Bearers, Retriers, On, Credit
  <2>2. orders[m] \in Nat /\ late[m] \in Nat /\ reclaims[m] \in Nat /\ unrecorded[m] \in Nat
    BY DEF Inv, TypeOK
  <2>3. orders[m] + Cardinality(Bearers(m)) + Cardinality(Retriers(m)) + late[m] + Credit(m)
          <= 1 + reclaims[m] + unrecorded[m]
    BY DEF Inv, OrdersSound, OrdersCounted
  <2> QED
    BY <2>1, <2>2, <2>3
<1> QED
  BY <1>1, InvHolds, PTL

(* A reply follows a look at aiEnabled: it is still on when the reply is   *)
(* written, or was switched off since the run looked.                      *)
THEOREM TakeoverIsHeardHolds == Spec => TakeoverIsHeard
<1>1. Inv /\ [Next]_vars =>
        [\A m \in Messages :
           replies'[m] > replies[m] => ai[convOf[m]] \/ \E r \in warned : on[r] = m]_vars
  <2> SUFFICES ASSUME Inv, [Next]_vars, NEW m \in Messages, replies'[m] > replies[m]
               PROVE  ai[convOf[m]] \/ \E r \in warned : on[r] = m
    OBVIOUS
  <2>1. PICK r \in Runs : at[r] = "write" /\ on[r] = m
    BY RepliesAreWritten
  <2> QED
    BY <2>1 DEF Inv, Sound, RunsSound, RunSound, Enabled
<1> QED
  BY <1>1, InvHolds, PTL DEF Spec, TakeoverIsHeard

(* While people have a conversation, its messages get no order that was    *)
(* neither placed nor under way when they took over: calls that commit     *)
(* late were counted then, and none begins.                                *)
THEOREM TakeoverStopsOrdersHolds == Spec => []TakeoverStopsOrders
<1>1. Inv => TakeoverStopsOrders
  <2> SUFFICES ASSUME Inv, NEW m \in Messages, Stored(m), ~ai[convOf[m]]
               PROVE  orders[m] <= exposed[m]
    BY DEF TakeoverStopsOrders
  <2>1. Cardinality(UnderWay(m)) \in Nat /\ orders[m] \in Nat /\ late[m] \in Nat /\ exposed[m] \in Nat
    BY RunsCounted DEF UnderWay, Inv, TypeOK
  <2>2. orders[m] + Cardinality(UnderWay(m)) + late[m] <= exposed[m]
    BY DEF Inv, OrdersSound, OrdersExposed
  <2> QED
    BY <2>1, <2>2
<1> QED
  BY <1>1, InvHolds, PTL

=============================================================================
