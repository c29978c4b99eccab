------------------------------- MODULE AiTurn -------------------------------
(***************************************************************************)
(* The ai.respond job: one turn of the agent over a customer's message,    *)
(* and the delivery of what it decided (server/jobs/handlers/ai-turn.      *)
(* handler.ts, services/agent/agent-runtime, reply-delivery and handoff).  *)
(* The job's row, its retries and its lock are as in JobQueue; what is     *)
(* said about the order of runs, takeovers and failures is said here.      *)
(* Inbound extends this module: it stores messages and enqueues the jobs.  *)
(***************************************************************************)
EXTENDS Integers, FiniteSets

CONSTANTS
    Messages,      \* inbound messages of one customer
    MaxConversations, \* bound: conversations created for the customer
    None,
    Slots,         \* executions of ai.respond at once
    MaxAttempts,   \* 3, JOB_DEFAULTS for ai.respond
    MaxToggles,    \* bound: takeovers and resumptions by people
    MaxMishaps     \* bound: deaths, refused statements, locks that expire early

Conversations == 1 .. MaxConversations
Runs == 1 .. Slots

ASSUME AiParameters ==
    /\ None \notin Messages /\ None \notin Conversations
    /\ MaxConversations \in Nat /\ Slots \in Nat /\ MaxAttempts \in Nat
    /\ MaxToggles \in Nat /\ MaxMishaps \in Nat

VARIABLES
    convOf,     \* the conversation a stored message is in, None before it is stored
    ai,         \* Conversation.aiEnabled; handoffAt is set exactly while it is off
    job, tries, \* the ai.respond job of each message
    turn,       \* its AITurn row: what outputText and handoffTriggered say
    replies,    \* reply messages written for its turn
    sent,       \* messages with a send job for a reply
    orders,     \* orders create_order placed for it
    at, on,     \* where each run is, and with which message
    decided,    \* what the turn has come to so far
    ordered,    \* runs whose execution has placed its order
    slow,       \* runs with a call of create_order behind them that timed out
    recorded,   \* runs that hold the id of a turn row
    late,       \* calls of create_order whose run is over and that may yet commit
    unanswered, \* history: messages given up in a way the code accepts
    reclaims,   \* history: locks of running jobs taken to have expired
    unrecorded, \* history: turn rows that were refused though no other was there
    shown,      \* history: messages that people had in a conversation of theirs
    exposed,    \* history: orders placed or under way when people took over
    warned,     \* history: runs about to write a reply at a takeover
    toggles, mishaps

jobs == <<job, tries>>
rows == <<turn, replies, sent, orders>>
run == <<decided, ordered, slow, recorded, late>>
history == <<unanswered, reclaims, unrecorded, shown, exposed, warned>>
aiVars == <<convOf, ai, jobs, rows, at, on, run, history, toggles, mishaps>>

-----------------------------------------------------------------------------
JobStates == {"none", "queued", "running", "done", "dead"}
TurnRows == {"none", "reply", "silent", "handoff"}
Steps == {"lookup", "begin", "think", "create_order", "recheck", "record",
          "handOff", "check", "write", "enqueueSend", "complete"}
Decisions == {"none", "reply", "silent", "handoff"}

AiInit ==
    /\ convOf = [m \in Messages |-> None]
    /\ ai = [c \in Conversations |-> TRUE]
    /\ job = [m \in Messages |-> "none"] /\ tries = [m \in Messages |-> 0]
    /\ turn = [m \in Messages |-> "none"]
    /\ replies = [m \in Messages |-> 0] /\ sent = {}
    /\ orders = [m \in Messages |-> 0]
    /\ at = [r \in Runs |-> "idle"] /\ on = [r \in Runs |-> None]
    /\ decided = [r \in Runs |-> "none"] /\ ordered = {} /\ slow = {} /\ recorded = {}
    /\ late = [m \in Messages |-> 0]
    /\ unanswered = {} /\ shown = {} /\ warned = {}
    /\ reclaims = [m \in Messages |-> 0] /\ unrecorded = [m \in Messages |-> 0]
    /\ exposed = [m \in Messages |-> 0]
    /\ toggles = 0 /\ mishaps = 0

Mishap == mishaps < MaxMishaps /\ mishaps' = mishaps + 1
Smooth == UNCHANGED mishaps
GoTo(r, step) == at' = [at EXCEPT ![r] = step] /\ UNCHANGED on
Enabled(r) == ai[convOf[on[r]]]
Decide(r, d) == decided' = [decided EXCEPT ![r] = IF @ = "none" THEN d ELSE @]

\* A call of create_order is under way, the execution's own or one it gave up
\* waiting for.  Its key lets all calls of an execution place one order.
InFlight(r) == (at[r] = "create_order" \/ r \in slow) /\ r \notin ordered
UnderWay(m) == {r \in Runs : on[r] = m /\ InFlight(r)}

\* The AI is switched off in c; some runs are past their last look at it.
SwitchOff(c) ==
    /\ ai' = [ai EXCEPT ![c] = FALSE]
    /\ shown' = shown \cup {m \in Messages : convOf[m] = c}
    /\ exposed' = [m \in Messages |-> IF convOf[m] = c
                     THEN orders[m] + Cardinality(UnderWay(m)) + late[m] ELSE exposed[m]]
    /\ warned' = warned \cup {r \in Runs : at[r] = "write" /\ convOf[on[r]] = c}

\* The run is over and its locals are gone.  A call it gave up waiting for is
\* not cancelled, nor is a COMMIT that is on its way when the process dies.
Leave(r) ==
    /\ at' = [at EXCEPT ![r] = "idle"] /\ on' = [on EXCEPT ![r] = None]
    /\ decided' = [decided EXCEPT ![r] = "none"]
    /\ ordered' = ordered \ {r} /\ slow' = slow \ {r} /\ recorded' = recorded \ {r}
    /\ late' = [late EXCEPT ![on[r]] = IF InFlight(r) THEN @ + 1 ELSE @]
    /\ warned' = warned \ {r}

\* What the queue does with a run that threw; both reports write by id alone.
Throw(r) ==
    /\ job' = [job EXCEPT ![on[r]] = IF tries[on[r]] < MaxAttempts THEN "queued" ELSE "dead"]
    /\ Leave(r)
    /\ UNCHANGED <<tries, reclaims>>

-----------------------------------------------------------------------------
(* The job.                                                                *)

\* Runs differ by nothing but their slot: the first free one is taken.
Claim(r, m) ==
    /\ at[r] = "idle" /\ \A s \in 1 .. r - 1 : at[s] # "idle"
    /\ job[m] = "queued"
    /\ job' = [job EXCEPT ![m] = "running"] /\ tries' = [tries EXCEPT ![m] = @ + 1]
    /\ at' = [at EXCEPT ![r] = "lookup"] /\ on' = [on EXCEPT ![r] = m]
    /\ UNCHANGED <<convOf, ai, rows, run, history, toggles, mishaps>>

Complete(r) ==
    /\ at[r] = "complete"
    /\ job' = [job EXCEPT ![on[r]] = "done"]
    /\ Leave(r)
    /\ UNCHANGED <<convOf, ai, tries, rows, unanswered, reclaims, unrecorded, shown, exposed>>
    /\ UNCHANGED <<toggles, mishaps>>

Crash(r) ==
    /\ at[r] # "idle"
    /\ Mishap
    /\ Leave(r)
    /\ unanswered' = IF at[r] = "handOff" THEN unanswered \cup {on[r]} ELSE unanswered
    /\ UNCHANGED <<convOf, ai, jobs, rows, reclaims, unrecorded, shown, exposed, toggles>>

Alive(m) == \E r \in Runs : on[r] = m

Requeue(m) ==
    /\ job[m] = "running"
    /\ job' = [job EXCEPT ![m] = "queued"]
    /\ reclaims' = [reclaims EXCEPT ![m] = @ + 1]
    /\ UNCHANGED <<convOf, ai, tries, rows, at, on, run, toggles>>
    /\ UNCHANGED <<unanswered, unrecorded, shown, exposed, warned>>

\* The sweep finds the lock of a dead run's job expired, ...
ReclaimStalled(m) == ~Alive(m) /\ Requeue(m) /\ Smooth

\* ... or that of a run that is only slow.
ReclaimSlow(m) == Alive(m) /\ Requeue(m) /\ Mishap

-----------------------------------------------------------------------------
(* aiRespondHandler and executeAgentTurn.                                  *)

\* Mutant: only a turn with an answer counts as done.
findAITurnMutant(r) ==
    /\ at[r] = "lookup"
    /\ GoTo(r, IF turn[on[r]] = "reply" THEN "check" ELSE "begin")
    /\ recorded' = IF turn[on[r]] = "reply" THEN recorded \cup {r} ELSE recorded
    /\ UNCHANGED <<convOf, ai, jobs, rows, decided, ordered, slow, late, history, toggles, mishaps>>

findAITurnByMessageId(r) ==
    /\ at[r] = "lookup"
    /\ GoTo(r, CASE turn[on[r]] = "none" -> "begin"
                 [] turn[on[r]] = "reply" -> "check"
                 [] OTHER -> "complete")
    /\ recorded' = IF turn[on[r]] = "none" THEN recorded ELSE recorded \cup {r}
    /\ UNCHANGED <<convOf, ai, jobs, rows, decided, ordered, slow, late, history, toggles, mishaps>>

\* A conversation people have is left to them.  A workspace over its rate, or
\* without an active agent, gets a result that says handed off and is not.
LoadContext(r) ==
    /\ at[r] = "begin"
    /\ \/ ~Enabled(r) /\ GoTo(r, "complete") /\ UNCHANGED unanswered
       \/ Enabled(r) /\ GoTo(r, "complete") /\ unanswered' = unanswered \cup {on[r]}
       \/ Enabled(r) /\ GoTo(r, "think") /\ UNCHANGED unanswered
    /\ UNCHANGED <<convOf, ai, jobs, rows, run, reclaims, unrecorded, shown, exposed, warned>>
    /\ UNCHANGED <<toggles, mishaps>>

\* Retrieval failed in a way that is worth another try.
GroundingFailed(r) ==
    /\ at[r] = "begin" /\ Enabled(r)
    /\ Mishap
    /\ Throw(r)
    /\ UNCHANGED <<convOf, ai, rows, unanswered, unrecorded, shown, exposed, toggles>>

\* Mutant: aiEnabled is not read again before a tool that writes.
BeforeWriteBlindly(r) ==
    /\ at[r] = "think" /\ r \notin ordered
    /\ GoTo(r, "create_order")
    /\ UNCHANGED <<convOf, ai, jobs, rows, run, history, toggles, mishaps>>

\* Before a tool that writes, aiEnabled is read again.  An execution that has
\* its order would be answered with it: that call is left out.
BeforeWrite(r) ==
    /\ at[r] = "think" /\ r \notin ordered
    /\ Enabled(r)
    /\ GoTo(r, "create_order")
    /\ UNCHANGED <<convOf, ai, jobs, rows, run, history, toggles, mishaps>>

\* The key of the order is new with every execution of the turn; a call that
\* finds an earlier one of its execution to have committed returns its order.
PlaceOrder(r) ==
    /\ orders' = [orders EXCEPT ![on[r]] = IF r \in ordered THEN @ ELSE @ + 1]
    /\ ordered' = ordered \cup {r} /\ slow' = slow \ {r}
    /\ UNCHANGED <<convOf, ai, jobs, turn, replies, sent, decided, recorded, late, history>>
    /\ UNCHANGED <<toggles, mishaps>>

createOrder(r) == at[r] = "create_order" /\ GoTo(r, "think") /\ PlaceOrder(r)

\* The handler returns an error, or the timer wins the race against it: the
\* call goes on, and its error is one the model may try again after.
OrderFails(r) ==
    /\ at[r] = "create_order"
    /\ GoTo(r, "think")
    /\ slow' = slow \/ slow' = slow \cup ({r} \ ordered)
    /\ UNCHANGED <<convOf, ai, jobs, rows, decided, ordered, recorded, late, history, toggles, mishaps>>

\* A call that was given up commits, whatever its run has come to by then.
AbandonedOrder(r) == r \in slow /\ PlaceOrder(r) /\ UNCHANGED <<at, on>>

LateOrder(m) ==
    /\ late[m] > 0
    /\ late' = [late EXCEPT ![m] = @ - 1] /\ orders' = [orders EXCEPT ![m] = @ + 1]
    /\ UNCHANGED <<convOf, ai, jobs, turn, replies, sent, at, on, decided, ordered, slow, recorded>>
    /\ UNCHANGED <<history, toggles, mishaps>>

\* A limit is met or a write's outcome is unknown: that is a handoff, and yet
\* the loop goes on to ask the model what to do next.
ToolTrouble(r) ==
    /\ at[r] = "think" /\ decided[r] = "none"
    /\ Decide(r, "handoff")
    /\ UNCHANGED <<convOf, ai, jobs, rows, at, on, ordered, slow, recorded, late, history, toggles, mishaps>>

\* The model answers, the provider fails, or the answer may not be given.
Answer(r) ==
    /\ at[r] = "think"
    /\ \E d \in {"reply", "silent", "handoff"} : Decide(r, d)
    /\ GoTo(r, "recheck")
    /\ UNCHANGED <<convOf, ai, jobs, rows, ordered, slow, recorded, late, history, toggles, mishaps>>

\* Mutant: a turn that people took over is recorded under a name of its own.
RecheckMutant(r) ==
    /\ at[r] = "recheck"
    /\ decided' = [decided EXCEPT ![r] = IF Enabled(r) THEN @ ELSE "aborted"]
    /\ GoTo(r, "record")
    /\ UNCHANGED <<convOf, ai, jobs, rows, ordered, slow, recorded, late, history, toggles, mishaps>>

Recheck(r) ==
    /\ at[r] = "recheck"
    /\ decided' = [decided EXCEPT ![r] = IF Enabled(r) THEN @ ELSE "handoff"]
    /\ GoTo(r, "record")
    /\ UNCHANGED <<convOf, ai, jobs, rows, ordered, slow, recorded, late, history, toggles, mishaps>>

createAITurn(r) ==
    /\ at[r] = "record" /\ turn[on[r]] = "none"
    /\ turn' = [turn EXCEPT ![on[r]] = decided[r]]
    /\ recorded' = recorded \cup {r}
    /\ GoTo(r, CASE decided[r] = "handoff" -> "handOff"
                 [] decided[r] = "silent" -> "complete"
                 [] decided[r] = "reply" -> "check")
    /\ UNCHANGED <<convOf, ai, jobs, replies, sent, orders, decided, ordered, slow, late, history, toggles, mishaps>>

\* Mutant: a reply is delivered whether its turn was recorded or not.
TurnRefusedMutant(r) ==
    /\ at[r] = "record"
    /\ IF turn[on[r]] = "none" THEN Mishap ELSE Smooth
    /\ GoTo(r, IF decided[r] = "handoff" THEN "handOff" ELSE "check")
    /\ UNCHANGED <<convOf, ai, jobs, rows, run, history, toggles>>

\* Of two rows for one message the second is refused.  A refusal is swallowed
\* here, but a reply without a turn to be recorded under is not delivered.
TurnRefused(r) ==
    /\ at[r] = "record"
    /\ IF turn[on[r]] = "none"
       THEN Mishap /\ unrecorded' = [unrecorded EXCEPT ![on[r]] = @ + 1]
       ELSE Smooth /\ UNCHANGED unrecorded
    /\ CASE decided[r] = "reply" -> Throw(r) /\ UNCHANGED unanswered
         [] decided[r] = "handoff" ->
              GoTo(r, "handOff") /\ UNCHANGED <<jobs, run, unanswered, reclaims, warned>>
         [] decided[r] = "silent" ->
              /\ GoTo(r, "complete") /\ unanswered' = unanswered \cup {on[r]}
              /\ UNCHANGED <<jobs, run, reclaims, warned>>
    /\ UNCHANGED <<convOf, ai, rows, shown, exposed, toggles>>

\* A conversation handed off already is left alone.  When the transaction
\* fails the job is to run again, and finds the turn's row.
triggerHumanHandoff(r) ==
    /\ at[r] = "handOff"
    /\ \/ /\ SwitchOff(convOf[on[r]])
          /\ GoTo(r, "complete")
          /\ UNCHANGED <<jobs, run, unanswered, reclaims, mishaps>>
       \/ /\ Mishap /\ Throw(r)
          /\ unanswered' = unanswered \cup {on[r]}
          /\ UNCHANGED <<ai, shown, exposed>>
    /\ UNCHANGED <<convOf, rows, unrecorded, toggles>>

-----------------------------------------------------------------------------
(* deliverAgentReply.  The conversation and the reply are looked for, and  *)
(* then a reply is written; no constraint allows a turn only one.          *)

\* Mutant: a reply that is there already is taken to be on its way.
LookForReplyMutant(r) ==
    /\ at[r] = "check"
    /\ GoTo(r, CASE ~Enabled(r) -> "complete"
                 [] Enabled(r) /\ replies[on[r]] > 0 -> "complete"
                 [] OTHER -> "write")
    /\ UNCHANGED <<convOf, ai, jobs, rows, run, history, toggles, mishaps>>

\* Mutant: whether a reply was written before is not asked.
LookForReplyNever(r) ==
    /\ at[r] = "check"
    /\ GoTo(r, IF Enabled(r) THEN "write" ELSE "complete")
    /\ UNCHANGED <<convOf, ai, jobs, rows, run, history, toggles, mishaps>>

\* Mutant: a turn that is resumed is delivered whoever has the conversation.
LookForReplyBlindly(r) ==
    /\ at[r] = "check"
    /\ GoTo(r, IF replies[on[r]] > 0 THEN "enqueueSend" ELSE "write")
    /\ UNCHANGED <<convOf, ai, jobs, rows, run, history, toggles, mishaps>>

LookForReply(r) ==
    /\ at[r] = "check"
    /\ GoTo(r, CASE ~Enabled(r) -> "complete"
                 [] Enabled(r) /\ replies[on[r]] > 0 -> "enqueueSend"
                 [] OTHER -> "write")
    /\ UNCHANGED <<convOf, ai, jobs, rows, run, history, toggles, mishaps>>

createMessage(r) ==
    /\ at[r] = "write"
    /\ replies' = [replies EXCEPT ![on[r]] = @ + 1]
    /\ GoTo(r, "enqueueSend")
    /\ UNCHANGED <<convOf, ai, jobs, turn, sent, orders, run, history, toggles, mishaps>>

enqueueSend(r) ==
    /\ at[r] = "enqueueSend"
    /\ \/ sent' = sent \cup {on[r]} /\ GoTo(r, "complete")
          /\ UNCHANGED <<jobs, run, reclaims, warned, mishaps>>
       \/ Mishap /\ Throw(r) /\ UNCHANGED sent
    /\ UNCHANGED <<convOf, ai, turn, replies, orders, unanswered, unrecorded, shown, exposed, toggles>>

-----------------------------------------------------------------------------
\* toggleConversationAi: a person takes the conversation over, or gives it back.
toggleConversationAi(c) ==
    /\ \E m \in Messages : convOf[m] = c
    /\ toggles < MaxToggles /\ toggles' = toggles + 1
    /\ IF ai[c] THEN SwitchOff(c)
               ELSE ai' = [ai EXCEPT ![c] = TRUE] /\ UNCHANGED <<shown, exposed, warned>>
    /\ UNCHANGED <<convOf, jobs, rows, at, on, run, unanswered, reclaims, unrecorded, mishaps>>

executeAgentTurn(r) ==
    \/ LoadContext(r) \/ GroundingFailed(r) \/ BeforeWrite(r) \/ createOrder(r)
    \/ OrderFails(r) \/ ToolTrouble(r) \/ Answer(r) \/ Recheck(r) \/ createAITurn(r) \/ TurnRefused(r)
    \/ triggerHumanHandoff(r)

deliverAgentReply(r) == LookForReply(r) \/ createMessage(r) \/ enqueueSend(r)

aiRespondHandler(r) ==
    findAITurnByMessageId(r) \/ executeAgentTurn(r) \/ deliverAgentReply(r) \/ Complete(r)

AiNext ==
    \/ \E r \in Runs : aiRespondHandler(r) \/ Crash(r) \/ AbandonedOrder(r)
    \/ \E r \in Runs, m \in Messages : Claim(r, m)
    \/ \E m \in Messages : ReclaimStalled(m) \/ ReclaimSlow(m) \/ LateOrder(m)
    \/ \E c \in Conversations : toggleConversationAi(c)

\* A run goes on until it ends or dies; workers claim, and the sweep runs.
\* The loop over the model's answers and its tools is bounded, so a run that
\* comes back to the model again and again leaves it in the end.
AiFairness ==
    /\ \A r \in Runs : WF_aiVars(aiRespondHandler(r)) /\ SF_aiVars(Answer(r))
    /\ \A m \in Messages :
        WF_aiVars(\E r \in Runs : Claim(r, m)) /\ WF_aiVars(ReclaimStalled(m))
=============================================================================
