------------------------------ MODULE Approval ------------------------------
(***************************************************************************)
(* Requests for a person's approval, and what approving one does to its    *)
(* order (server/services/approval/approval.service.ts).  Nothing here is  *)
(* a transaction: every read and every write is a statement of its own,    *)
(* and the status is written without a condition.  An action is one such   *)
(* statement of one caller; cancelOrder, which is a transaction, is the    *)
(* two of its statements that matter.  OrderInventory has its stock side.  *)
(***************************************************************************)
EXTENDS Integers, FiniteSets, OrderLifecycle

CONSTANTS
    Requests,      \* approval rows, each the only one its idempotency key allows
    MayAsk,        \* [Requests -> SUBSET Kinds]: what each may turn out to ask for
    Callers,       \* server requests in flight
    Managers,      \* those of them made with the permission that approving takes
    NoRequest,
    Starts,        \* bound: where the order may stand when they begin
    MaxChanges,    \* bound: changes of the order's status by other people
    MaxMishaps     \* bound: processes that die, statements the database refuses

Kinds == {"ORDER_CANCEL", "ORDER_MODIFY", "MANUAL"}

ASSUME Parameters ==
    /\ MayAsk \in [Requests -> SUBSET Kinds]
    /\ Managers \subseteq Callers
    /\ NoRequest \notin Requests
    /\ Starts \subseteq OrderStatuses
    /\ MaxChanges \in Nat /\ MaxMishaps \in Nat

VARIABLES
    status, kind, \* columns of each approval row; kind is its actionType
    order,      \* the status of the order they are about
    at, about,  \* where each caller is, and with which request
    seen,       \* the order's status as a caller's revalidation found it
    granted,    \* history: approvals written, per request
    effects,    \* history: times the order was cancelled or edited for a request
    overlapped, \* history: requests with a decision written over another decision
    changes, mishaps

row == <<status, kind, order>>
local == <<at, about, seen>>
history == <<granted, effects, overlapped>>
vars == <<row, local, history, changes, mishaps>>

-----------------------------------------------------------------------------
Statuses == {"absent", "PENDING", "APPROVED", "REJECTED", "EXECUTED", "FAILED"}
Executing == {"revalidate", "stale", "act", "commit", "record", "audit", "fail"}
Places == {"idle", "approve", "auditApproval", "reject"} \cup Executing

Init ==
    /\ status = [r \in Requests |-> "absent"]
    /\ kind \in [Requests -> Kinds] /\ \A r \in Requests : kind[r] \in MayAsk[r]
    /\ order \in Starts
    /\ at = [c \in Callers |-> "idle"]
    /\ about = [c \in Callers |-> NoRequest]
    /\ seen = [c \in Callers |-> "PENDING"]
    /\ granted = [r \in Requests |-> 0]
    /\ effects = [r \in Requests |-> 0]
    /\ overlapped = {}
    /\ changes = 0 /\ mishaps = 0

Mishap == mishaps < MaxMishaps /\ mishaps' = mishaps + 1
GoTo(c, place) == at' = [at EXCEPT ![c] = place] /\ UNCHANGED about
Rest(c) == /\ at' = [at EXCEPT ![c] = "idle"]
           /\ about' = [about EXCEPT ![c] = NoRequest]
Take(c, r, place) ==
    /\ at[c] = "idle"
    /\ at' = [at EXCEPT ![c] = place] /\ about' = [about EXCEPT ![c] = r]

\* updateApprovalStatus: by id, whatever the row says by now.
updateApprovalStatus(c, s) == status' = [status EXCEPT ![about[c]] = s]

-----------------------------------------------------------------------------
(* Requests come from the AI's tool, which looks at the order first, and   *)
(* from the service's other callers.                                       *)

\* Find, then insert: of two inserts under one idempotency key one throws.
createApprovalRequest(r) ==
    /\ status[r] = "absent"
    /\ kind[r] = "ORDER_CANCEL" => order \notin {"CANCELLED", "DELIVERED"}
    /\ status' = [status EXCEPT ![r] = "PENDING"]
    /\ UNCHANGED <<order, kind, local, history, changes, mishaps>>

-----------------------------------------------------------------------------
(* Decisions.                                                              *)

\* Every status but PENDING returns or throws here.
approveRequest(c, r) ==
    /\ c \in Managers
    /\ Take(c, r, "approve")
    /\ status[r] = "PENDING"
    /\ UNCHANGED <<row, seen, history, changes, mishaps>>

rejectRequest(c, r) ==
    /\ c \in Managers
    /\ Take(c, r, "reject")
    /\ status[r] = "PENDING"
    /\ UNCHANGED <<row, seen, history, changes, mishaps>>

Decide(c, s) ==
    /\ updateApprovalStatus(c, s)
    /\ overlapped' = IF status[about[c]] = "PENDING" THEN overlapped
                                                     ELSE overlapped \cup {about[c]}

MarkApproved(c) ==
    /\ at[c] = "approve"
    /\ Decide(c, "APPROVED")
    /\ granted' = [granted EXCEPT ![about[c]] = @ + 1]
    /\ GoTo(c, "auditApproval")
    /\ UNCHANGED <<order, kind, seen, effects, changes, mishaps>>

\* A refused audit row ends the request here: approved, never executed.
AuditApproval(c) ==
    /\ at[c] = "auditApproval"
    /\ \/ GoTo(c, "revalidate") /\ UNCHANGED mishaps
       \/ Mishap /\ Rest(c)
    /\ UNCHANGED <<row, seen, history, changes>>

MarkRejected(c) ==
    /\ at[c] = "reject"
    /\ Decide(c, "REJECTED")
    /\ Rest(c)
    /\ UNCHANGED <<order, kind, seen, granted, effects, changes, mishaps>>

-----------------------------------------------------------------------------
(* executeApprovedRequest, with the row as the approval returned it.       *)

\* The orders that the two checks of each kind refuse.
TooLate(k) ==
    CASE k = "ORDER_CANCEL" -> {"DELIVERED", "SHIPPED", "CANCELLED"}
      [] k = "ORDER_MODIFY" -> OrderStatuses \ {"DRAFT", "PENDING"}
      [] k = "MANUAL" -> {}

Refused(k) ==
    CASE k = "ORDER_CANCEL" -> {"CANCELLED", "DELIVERED", "REFUNDED"}
      [] k = "ORDER_MODIFY" -> OrderStatuses \ {"DRAFT", "PENDING"}
      [] k = "MANUAL" -> {}

revalidate(c) ==
    /\ at[c] = "revalidate"
    /\ seen' = [seen EXCEPT ![c] = order]
    /\ LET k == kind[about[c]] IN
         \/ /\ GoTo(c, CASE order \in TooLate(k) -> "stale"
                         [] k = "MANUAL" -> "record"
                         [] OTHER -> "act")
            /\ UNCHANGED mishaps
         \/ Mishap /\ GoTo(c, "fail")
    /\ UNCHANGED <<row, history, changes>>

\* Mutant: an order that has moved on is left alone, and so is the request.
markStaleMutant(c) ==
    /\ at[c] = "stale"
    /\ Rest(c) /\ UNCHANGED <<status, mishaps>>
    /\ UNCHANGED <<order, kind, seen, history, changes>>

markStale(c) ==
    /\ at[c] = "stale"
    /\ \/ updateApprovalStatus(c, "FAILED") /\ Rest(c) /\ UNCHANGED mishaps
       \/ Mishap /\ GoTo(c, "fail") /\ UNCHANGED status
    /\ UNCHANGED <<order, kind, seen, history, changes>>

\* cancelOrder and updateOrder look at the order once more, ...
cancelOrUpdateOrder(c) ==
    /\ at[c] = "act"
    /\ GoTo(c, IF order \in Refused(kind[about[c]]) THEN "fail" ELSE "commit")
    /\ UNCHANGED <<row, seen, history, changes, mishaps>>

\* Mutant: what the order service throws is taken for success.
CommitIgnoringErrors(c) ==
    /\ at[c] = "commit"
    /\ \/ /\ order' = IF kind[about[c]] = "ORDER_CANCEL" THEN "CANCELLED" ELSE order
          /\ effects' = [effects EXCEPT ![about[c]] = @ + 1]
          /\ GoTo(c, "record") /\ UNCHANGED mishaps
       \/ Mishap /\ GoTo(c, "record") /\ UNCHANGED <<order, effects>>
    /\ UNCHANGED <<status, kind, seen, granted, overlapped, changes>>

\* Mutant: the order is looked at once more after the deed.
CommitAndLookAgain(c) ==
    /\ at[c] = "commit"
    /\ order' = IF kind[about[c]] = "ORDER_CANCEL" THEN "CANCELLED" ELSE order
    /\ effects' = [effects EXCEPT ![about[c]] = @ + 1]
    /\ GoTo(c, IF order' \in TooLate(kind[about[c]]) THEN "stale" ELSE "record")
    /\ UNCHANGED <<status, kind, seen, granted, overlapped, changes, mishaps>>

\* ... and write it without a condition on what they saw.
CommitToOrder(c) ==
    /\ at[c] = "commit"
    /\ \/ /\ order' = IF kind[about[c]] = "ORDER_CANCEL" THEN "CANCELLED" ELSE order
          /\ effects' = [effects EXCEPT ![about[c]] = @ + 1]
          /\ GoTo(c, "record") /\ UNCHANGED mishaps
       \/ Mishap /\ GoTo(c, "fail") /\ UNCHANGED <<order, effects>>
    /\ UNCHANGED <<status, kind, seen, granted, overlapped, changes>>

MarkExecuted(c) ==
    /\ at[c] = "record"
    /\ \/ updateApprovalStatus(c, "EXECUTED") /\ GoTo(c, "audit") /\ UNCHANGED mishaps
       \/ Mishap /\ GoTo(c, "fail") /\ UNCHANGED status
    /\ UNCHANGED <<order, kind, seen, history, changes>>

\* Mutant: a refused audit row starts the execution over.
AuditExecutedMutant(c) ==
    /\ at[c] = "audit"
    /\ \/ Rest(c) /\ UNCHANGED mishaps
       \/ Mishap /\ GoTo(c, "revalidate")
    /\ UNCHANGED <<row, seen, history, changes>>

\* The audit row is written inside the try: refused, it makes the request FAILED.
AuditExecuted(c) ==
    /\ at[c] = "audit"
    /\ \/ Rest(c) /\ UNCHANGED mishaps
       \/ Mishap /\ GoTo(c, "fail")
    /\ UNCHANGED <<row, seen, history, changes>>

MarkFailed(c) ==
    /\ at[c] = "fail"
    /\ \/ updateApprovalStatus(c, "FAILED") /\ UNCHANGED mishaps
       \/ Mishap /\ UNCHANGED status
    /\ Rest(c)
    /\ UNCHANGED <<order, kind, seen, history, changes>>

executeApprovedRequest(c) ==
    \/ revalidate(c) \/ markStale(c) \/ cancelOrUpdateOrder(c) \/ CommitToOrder(c)
    \/ MarkExecuted(c) \/ AuditExecuted(c) \/ MarkFailed(c)

-----------------------------------------------------------------------------
\* Someone else moves the order on, or cancels it.
OrderMoves ==
    /\ changes < MaxChanges /\ changes' = changes + 1
    /\ \E s \in OrderStatuses :
        /\ \/ isLegalStatusTransition(order, s)
           \/ s = "CANCELLED" /\ order \notin Refused("ORDER_CANCEL")
        /\ order' = s
    /\ UNCHANGED <<status, kind, local, history, mishaps>>

Crash(c) ==
    /\ at[c] # "idle"
    /\ Mishap
    /\ Rest(c)
    /\ UNCHANGED <<row, seen, history, changes>>

Serve(c) ==
    MarkApproved(c) \/ AuditApproval(c) \/ MarkRejected(c)
    \/ executeApprovedRequest(c)

Next ==
    \/ \E r \in Requests : createApprovalRequest(r)
    \/ \E c \in Callers, r \in Requests : approveRequest(c, r) \/ rejectRequest(c, r)
    \/ \E c \in Callers : Serve(c) \/ Crash(c)
    \/ OrderMoves

Spec == Init /\ [][Next]_vars

\* A request that has begun is served to its end unless its process dies.
FairSpec == Spec /\ \A c \in Callers : WF_vars(Serve(c))

-----------------------------------------------------------------------------
(* Properties.                                                             *)

TypeOK ==
    /\ status \in [Requests -> Statuses]
    /\ kind \in [Requests -> Kinds]
    /\ order \in OrderStatuses
    /\ at \in [Callers -> Places]
    /\ about \in [Callers -> Requests \cup {NoRequest}]
    /\ \A c \in Callers : at[c] = "idle" <=> about[c] = NoRequest
    /\ seen \in [Callers -> OrderStatuses]
    /\ granted \in [Requests -> Nat] /\ effects \in [Requests -> Nat]
    /\ overlapped \subseteq Requests
    /\ changes \in 0 .. MaxChanges /\ mishaps \in 0 .. MaxMishaps

(* Each time an order is cancelled or edited for a request, a manager      *)
(* approved that request for it: one approval pays for one effect, however *)
(* approvals, rejections, crashes and failures interleave.                 *)
EachEffectIsApproved == \A r \in Requests : effects[r] <= granted[r]

(* EXECUTED is never a claim without the deed, unless the deed is left to  *)
(* people anyway.                                                          *)
ExecutedMeansDone ==
    \A r \in Requests :
        status[r] = "EXECUTED" /\ kind[r] # "MANUAL" => effects[r] > 0

(* Unless two decisions met on one request, a request that says rejected   *)
(* or failed has left its order alone, and none was carried out twice: the *)
(* statement between the deed and its record may fail, and nothing else    *)
(* may come between them.                                                  *)
UndecidedTwice(r) == r \notin overlapped
RefusedMeansUntouched ==
    \A r \in Requests : UndecidedTwice(r) =>
        /\ effects[r] <= 1
        /\ status[r] \in {"PENDING", "REJECTED"} => effects[r] = 0
        /\ status[r] = "FAILED" /\ mishaps = 0 => effects[r] = 0

(* An approval ends executed or failed, where people see it, unless its    *)
(* process died or the database refused one of its statements.             *)
ApprovalConcludes ==
    \A r \in Requests : (status[r] = "APPROVED") ~> (status[r] # "APPROVED" \/ mishaps > 0)
=============================================================================
