---------------------------- MODULE OutboundSend ----------------------------
(***************************************************************************)
(* Sending a message row to WhatsApp: the executions of                    *)
(* dispatchOutboundMessage that the queue or a person's request starts,    *)
(* the provider, and the delivery receipts that come back                  *)
(* (server/services/whatsapp/outbound.service.ts, dispatch-outcome.ts,     *)
(* send-failure.ts, inbound.service.ts, message.repository.ts).  An action *)
(* is one database statement or the call to the provider.  The queue is    *)
(* the one of JobQueue with its reports as single steps: a claim counts an *)
(* attempt, a lock that outlives its lease is reclaimed whether or not its *)
(* run still lives, and a report updates the row by its id alone.          *)
(***************************************************************************)
EXTENDS Integers, FiniteSets

CONSTANTS
    Messages,     \* outbound rows
    Queued,       \* those sent by a whatsapp.send_message job; a person's request sends the others
    Executions,   \* calls of dispatchOutboundMessage that can be open at once
    Receivers,    \* calls of processStatusUpdate that can be open at once
    NoMessage,
    MaxAttempts,  \* the job's budget
    MaxStalls,    \* bound: locks reclaimed from runs that still live
    MaxOutages    \* bound: executions lost to a crash

ASSUME Parameters ==
    /\ Queued \subseteq Messages
    /\ NoMessage \notin Messages
    /\ IsFiniteSet(Executions)
    /\ MaxAttempts \in Nat \ {0}
    /\ MaxStalls \in Nat
    /\ MaxOutages \in Nat

VARIABLES
    status, pid, uncertain,  \* columns of a messages row; pid 0 is null
    job, attempts,           \* columns of its jobs row
    run,                     \* where each execution has got to
    receiver,                \* where each receipt has got to
    accepted,                \* provider: how often it has accepted the message
    lost,                    \* history: see Losing
    bounced,                 \* history: messages a FAILED receipt was applied to
    deferred,                \* history: messages whose last execution met the ceiling
    stalls, outages

row == <<status, pid, uncertain>>
queue == <<job, attempts>>
history == <<lost, bounced, deferred>>
vars == <<row, queue, run, receiver, accepted, history, stalls, outages>>

-----------------------------------------------------------------------------
PERSIST_ATTEMPTS == 3

STATUS_RANK == [QUEUED |-> 0, SENDING |-> 1, SENT |-> 2, DELIVERED |-> 3, READ |-> 4, FAILED |-> 5]

MessageStatuses == DOMAIN STATUS_RANK
Gone == {"SENT", "DELIVERED", "READ"}

Outranks(old, new) == STATUS_RANK[old] >= STATUS_RANK[new] /\ new # "FAILED"

BeforeSend == {"read", "reread", "limit", "mark", "write", "send"}
Recording == {"persist", "flag", "fail"}
Stages == {"idle", "touch", "return", "throw"} \cup BeforeSend \cup Recording

Runs == [at : Stages, msg : Messages \cup {NoMessage}, seen : BOOLEAN,
         id : Nat, tries : 0 .. PERSIST_ATTEMPTS]

Resting == [at |-> "idle", msg |-> NoMessage, seen |-> FALSE, id |-> 0, tries |-> 0]
Begun(m) == [at |-> "read", msg |-> m, seen |-> FALSE, id |-> 0, tries |-> 0]
Quiet == [msg |-> NoMessage, status |-> "QUEUED"]

\* A run that could still send the message, or has yet to write down what became of it.
Engaged(e, m) == run[e].msg = m /\ run[e].at \in BeforeSend \cup Recording

Init ==
    /\ status = [m \in Messages |-> "QUEUED"]
    /\ pid = [m \in Messages |-> 0]
    /\ uncertain = [m \in Messages |-> FALSE]
    /\ job = [m \in Messages |-> "pending"]
    /\ attempts = [m \in Messages |-> 0]
    /\ run = [e \in Executions |-> Resting]
    /\ receiver = [v \in Receivers |-> Quiet]
    /\ accepted = [m \in Messages |-> 0]
    /\ lost = [m \in Messages |-> 0]
    /\ bounced = {} /\ deferred = {}
    /\ stalls = 0
    /\ outages = 0

-----------------------------------------------------------------------------
(* `lost` counts the events after which nobody can rule out another copy:  *)
(* an accepted send that a crash or a failed write leaves unrecorded, and  *)
(* a job made available while another of its runs is engaged.              *)

Losing(m, many) == lost' = [lost EXCEPT ![m] = @ + many]

MakeAvailable(m, others) ==
    /\ job' = [job EXCEPT ![m] = "pending"]
    /\ Losing(m, IF job[m] # "pending" /\ \E e \in others : Engaged(e, m) THEN 1 ELSE 0)

GoTo(e, stage) == run' = [run EXCEPT ![e].at = stage]

-----------------------------------------------------------------------------
(* dispatchOutboundMessage                                                 *)

Start(e) ==
    \E m \in Messages :
        /\ run[e].at = "idle" /\ job[m] = "pending"
        /\ job' = [job EXCEPT ![m] = "running"]
        /\ attempts' = [attempts EXCEPT ![m] = @ + 1]
        /\ run' = [run EXCEPT ![e] = Begun(m)]
        /\ deferred' = deferred \ {m}
        /\ UNCHANGED <<row, receiver, accepted, lost, bounced, stalls, outages>>

\* Mutant: SENDING counts as sent, and nobody looks at it again.
FirstGatesMutant(m) == pid[m] # 0 \/ status[m] \in Gone \cup {"SENDING"}

FirstGates(m) == pid[m] # 0 \/ status[m] \in Gone

\* Checks 1 and 2, and 4 unless check 3 has to read again first.
Read(e) ==
    LET m == run[e].msg IN
    /\ run[e].at = "read"
    /\ run' = [run EXCEPT ![e].seen = uncertain[m],
                          ![e].at = IF FirstGates(m) THEN "return"
                                    ELSE IF status[m] = "SENDING" THEN "reread"
                                    ELSE IF uncertain[m] THEN "return" ELSE "limit"]
    /\ UNCHANGED <<row, queue, receiver, accepted, history, stalls, outages>>

\* Mutant: check 4 is gone; a row left SENDING is sent again.
RereadMutant(e) ==
    LET m == run[e].msg IN
    /\ run[e].at = "reread"
    /\ GoTo(e, IF FirstGates(m) THEN "return" ELSE "limit")
    /\ UNCHANGED <<row, queue, receiver, accepted, history, stalls, outages>>

\* Check 3 reads again; check 4 is made on the first reading.
Reread(e) ==
    LET m == run[e].msg IN
    /\ run[e].at = "reread"
    /\ GoTo(e, IF FirstGates(m) \/ run[e].seen THEN "return" ELSE "limit")
    /\ UNCHANGED <<row, queue, receiver, accepted, history, stalls, outages>>

\* The workspace's ceiling on sends: pass, or throw RateLimitError.
Limit(e) ==
    /\ run[e].at = "limit"
    /\ \/ GoTo(e, "mark") /\ UNCHANGED deferred
       \/ GoTo(e, "throw") /\ deferred' = deferred \cup {run[e].msg}
    /\ UNCHANGED <<row, queue, receiver, accepted, lost, bounced, stalls, outages>>

\* updateMessageStatus(SENDING): the rank is checked on a read, then written by id.
Mark(e) ==
    /\ run[e].at = "mark"
    /\ GoTo(e, IF Outranks(status[run[e].msg], "SENDING") THEN "send" ELSE "write")
    /\ UNCHANGED <<row, queue, receiver, accepted, history, stalls, outages>>

WriteSending(e) ==
    /\ run[e].at = "write"
    /\ status' = [status EXCEPT ![run[e].msg] = "SENDING"]
    /\ GoTo(e, "send")
    /\ UNCHANGED <<pid, uncertain, queue, receiver, accepted, history, stalls, outages>>

\* A statement, or the choice of a provider, throws before anything was sent.
Stumble(e) ==
    /\ run[e].at \in BeforeSend \ {"send"}
    /\ GoTo(e, "throw")
    /\ UNCHANGED <<row, queue, receiver, accepted, history, stalls, outages>>

-----------------------------------------------------------------------------
(* The provider's answer, and what classifySendFailure makes of none.      *)

Accept(m) == accepted' = [accepted EXCEPT ![m] = @ + 1]

Answered(e) ==
    LET m == run[e].msg IN
    /\ run[e].at = "send"
    /\ Accept(m)
    /\ run' = [run EXCEPT ![e].at = "persist", ![e].id = accepted[m] + 1]
    /\ UNCHANGED <<row, queue, receiver, history, stalls, outages>>

\* NOT_SENT_PERMANENT or NOT_SENT_RETRYABLE: Meta refused, or was never reached.
Refused(e) ==
    /\ run[e].at = "send"
    /\ GoTo(e, "fail")
    /\ UNCHANGED <<row, queue, receiver, accepted, history, stalls, outages>>

\* Mutant: a timeout is classified as not sent.
UnansweredMutant(e) ==
    LET m == run[e].msg IN
    /\ run[e].at = "send"
    /\ \/ Accept(m) /\ run' = [run EXCEPT ![e].at = "fail", ![e].id = accepted[m] + 1]
       \/ GoTo(e, "fail") /\ UNCHANGED accepted
    /\ UNCHANGED <<row, queue, receiver, history, stalls, outages>>

\* UNCERTAIN: the answer is lost, whether or not the message was accepted.
Unanswered(e) ==
    LET m == run[e].msg IN
    /\ run[e].at = "send"
    /\ \/ Accept(m) /\ run' = [run EXCEPT ![e].at = "flag", ![e].id = accepted[m] + 1]
       \/ GoTo(e, "flag") /\ UNCHANGED accepted
    /\ UNCHANGED <<row, queue, receiver, history, stalls, outages>>

-----------------------------------------------------------------------------
(* dispatch-outcome.ts: what is written down.                              *)

recordMessageDispatch(e) ==
    LET m == run[e].msg IN
    /\ pid' = [pid EXCEPT ![m] = run[e].id]
    /\ status' = [status EXCEPT ![m] = "SENT"]
    /\ uncertain' = [uncertain EXCEPT ![m] = FALSE]

\* The write and the read after it are tried three times; either may throw.
persistDispatchResult(e) ==
    /\ run[e].at = "persist"
    /\ \/ GoTo(e, "touch") /\ recordMessageDispatch(e)
       \/ /\ run' = [run EXCEPT ![e].tries = @ + 1,
                                ![e].at = IF run[e].tries + 1 = PERSIST_ATTEMPTS
                                            THEN "flag" ELSE "persist"]
          /\ UNCHANGED row \/ recordMessageDispatch(e)
    /\ UNCHANGED <<queue, receiver, accepted, history, stalls, outages>>

\* markDeliveryUncertain leaves the status; when it throws too, nothing is recorded.
MarkUncertain(e) ==
    LET m == run[e].msg IN
    /\ run[e].at = "flag"
    /\ GoTo(e, "throw")
    /\ \/ uncertain' = [uncertain EXCEPT ![m] = TRUE] /\ UNCHANGED lost
       \/ Losing(m, IF run[e].id # 0 THEN 1 ELSE 0) /\ UNCHANGED uncertain
    /\ UNCHANGED <<status, pid, queue, receiver, accepted, bounced, deferred,
                   stalls, outages>>

MarkFailed(e) ==
    /\ run[e].at = "fail"
    /\ GoTo(e, "throw")
    /\ status' \in {status, [status EXCEPT ![run[e].msg] = "FAILED"]}
    /\ UNCHANGED <<pid, uncertain, queue, receiver, accepted, history, stalls, outages>>

-----------------------------------------------------------------------------
(* The queue: the report of a run, by id alone, and the reclaimed lock.    *)

\* touchConversationActivity, after the record, may throw as well.
Returns(e) ==
    /\ run[e].at \in {"return", "touch"}
    /\ job' = [job EXCEPT ![run[e].msg] = "done"]
    /\ run' = [run EXCEPT ![e] = Resting]
    /\ UNCHANGED <<row, attempts, receiver, accepted, history, stalls, outages>>

Throws(e) ==
    LET m == run[e].msg IN
    /\ run[e].at \in {"throw", "touch"}
    /\ run' = [run EXCEPT ![e] = Resting]
    /\ IF m \in Queued /\ attempts[m] < MaxAttempts
         THEN MakeAvailable(m, Executions \ {e})
         ELSE job' = [job EXCEPT ![m] = "dead"] /\ UNCHANGED lost
    /\ UNCHANGED <<row, attempts, receiver, accepted, bounced, deferred, stalls, outages>>

Crash(e) ==
    /\ run[e].at # "idle" /\ outages < MaxOutages
    /\ outages' = outages + 1
    /\ run' = [run EXCEPT ![e] = Resting]
    /\ Losing(run[e].msg, IF run[e].at \in Recording /\ run[e].id # 0 THEN 1 ELSE 0)
    /\ UNCHANGED <<row, queue, receiver, accepted, bounced, deferred, stalls>>

ReclaimStalled(m) ==
    /\ m \in Queued /\ job[m] = "running"
    /\ \/ (\A e \in Executions : run[e].msg # m) /\ UNCHANGED stalls
       \/ stalls < MaxStalls /\ stalls' = stalls + 1
    /\ MakeAvailable(m, Executions)
    /\ UNCHANGED <<row, attempts, run, receiver, accepted, bounced, deferred, outages>>

-----------------------------------------------------------------------------
(* processStatusUpdate: a receipt finds its message by the provider's id.  *)

ReadReceipt(v) ==
    \E m \in Messages, s \in Gone \cup {"FAILED"} :
        /\ receiver[v] = Quiet /\ pid[m] # 0
        /\ ~Outranks(status[m], s)
        /\ receiver' = [receiver EXCEPT ![v] = [msg |-> m, status |-> s]]
        /\ UNCHANGED <<row, queue, run, accepted, history, stalls, outages>>

ApplyReceipt(v) ==
    LET m == receiver[v].msg s == receiver[v].status IN
    /\ receiver[v] # Quiet
    /\ receiver' = [receiver EXCEPT ![v] = Quiet]
    /\ status' = [status EXCEPT ![m] = s]
    /\ bounced' = IF s = "FAILED" THEN bounced \cup {m} ELSE bounced
    /\ UNCHANGED <<pid, uncertain, queue, run, accepted, lost, deferred, stalls, outages>>

-----------------------------------------------------------------------------
dispatchOutboundMessage(e) ==
    \/ Read(e) \/ Reread(e) \/ Limit(e) \/ Mark(e) \/ WriteSending(e) \/ Stumble(e)
    \/ Answered(e) \/ Refused(e) \/ Unanswered(e)
    \/ persistDispatchResult(e) \/ MarkUncertain(e) \/ MarkFailed(e)
    \/ Returns(e) \/ Throws(e)

Next ==
    \/ \E e \in Executions : Start(e) \/ dispatchOutboundMessage(e) \/ Crash(e)
    \/ \E m \in Messages : ReclaimStalled(m)
    \/ \E v \in Receivers : ReadReceipt(v) \/ ApplyReceipt(v)

Spec == Init /\ [][Next]_vars

\* Workers keep claiming and the sweep keeps reclaiming; a run goes on until it ends or crashes.
FairSpec ==
    /\ Spec
    /\ \A e \in Executions : WF_vars(Start(e)) /\ WF_vars(dispatchOutboundMessage(e))
    /\ \A m \in Messages : WF_vars(ReclaimStalled(m))

-----------------------------------------------------------------------------
(* Types.  An execution holds a message exactly while it is not idle.      *)
TypeOK ==
    /\ status \in [Messages -> MessageStatuses]
    /\ pid \in [Messages -> Nat]
    /\ uncertain \in [Messages -> BOOLEAN]
    /\ job \in [Messages -> {"pending", "running", "done", "dead"}]
    /\ attempts \in [Messages -> Nat]
    /\ run \in [Executions -> Runs]
    /\ \A e \in Executions : run[e].at = "idle" <=> run[e].msg = NoMessage
    /\ receiver \in [Receivers -> [msg : Messages \cup {NoMessage}, status : MessageStatuses]]
    /\ accepted \in [Messages -> Nat]
    /\ lost \in [Messages -> Nat]
    /\ bounced \subseteq Messages /\ deferred \subseteq Messages
    /\ stalls \in 0 .. MaxStalls
    /\ outages \in 0 .. MaxOutages

(* The customer gets one copy, and one more at most for each accepted send *)
(* that was never written down and each run started beside another: the    *)
(* four checks of dispatchOutboundMessage stop every other retry,          *)
(* timeouts and three failed attempts to record included.                  *)
OneCopyPerLoss == \A m \in Messages : accepted[m] <= 1 + lost[m]

(* A finished job accounts for its message: the row holds the provider's   *)
(* id, or says that nobody knows.  No job ends on a message that was left  *)
(* half way by a crash and could silently never arrive.                    *)
DoneMeansAccountedFor ==
    \A m \in Messages : job[m] = "done" => pid[m] # 0 \/ uncertain[m]

(* What a row claims is so.  SENT, DELIVERED and READ mean the provider    *)
(* has the message.  FAILED, unless a receipt said it or the row is        *)
(* flagged uncertain, means the customer does not have it once the runs    *)
(* are over, apart from copies that were lost track of.                    *)
StatusIsTrue ==
    \A m \in Messages :
        /\ status[m] \in Gone => accepted[m] > 0
        /\ /\ status[m] = "FAILED" /\ m \notin bounced /\ ~uncertain[m]
           /\ \A e \in Executions : ~Engaged(e, m)
           => accepted[m] <= lost[m]

(* No message of the queue lingers: in the end it carries the provider's   *)
(* id, or is flagged for a person to look at, or its job is dead.          *)
EveryMessageSettles ==
    \A m \in Queued : <>[](pid[m] # 0 \/ uncertain[m] \/ job[m] = "dead")
=============================================================================
