--------------------------- MODULE JobQueue_proofs ---------------------------
(***************************************************************************)
(* Theorems about JobQueue, for every set of rows, keys, workers and       *)
(* callers, every concurrency and every bound on outages and stalls.       *)
(***************************************************************************)
EXTENDS JobQueue, FiniteSetTheorems, TLAPS

(***************************************************************************)
(* The inductive invariant.  The properties speak of rows; a step acts on  *)
(* the row its slot is running, so each needs what the slot has already    *)
(* established about that row since it was claimed.                        *)
(***************************************************************************)
HolderRuns ==
    \A s \in Slots : phase[s] # "idle" /\ reclaims[doing[s]] = 0 =>
        status[doing[s]] = "RUNNING" /\ lockedBy[doing[s]] = s[1]

RunsAlone ==
    \A s, t \in Slots :
        phase[s] # "idle" /\ doing[s] = doing[t] /\ reclaims[doing[s]] = 0 => s = t

AbsentUntouched == \A j \in Jobs : status[j] = "absent" => attempts[j] = 0

RetryHasBudget ==
    \A s \in Slots : phase[s] = "retry" /\ reclaims[doing[s]] = 0 =>
        attempts[doing[s]] < MaxAttempts[doing[s]]

CompletingHandled == \A s \in Slots : phase[s] = "complete" => handled[doing[s]]

BuryingSpent ==
    \A s \in Slots : phase[s] = "bury" => attempts[doing[s]] >= MaxAttempts[doing[s]]

RejectingMalformed == \A s \in Slots : phase[s] = "reject" => doing[s] \in Malformed

Exclusive == TypeOK /\ HolderRuns /\ RunsAlone

-----------------------------------------------------------------------------
USE DEF row, process, history, budget

LEMMA TypeInit == Init => TypeOK
BY Parameters DEF Init, TypeOK, Statuses, Phases, Slots

LEMMA TypeStep == TypeOK /\ [Next]_vars => TypeOK'
<1> SUFFICES ASSUME TypeOK, [Next]_vars PROVE TypeOK'
  OBVIOUS
<1> USE Parameters DEF TypeOK, Statuses, Phases
<1>1. ASSUME NEW c \in Callers, NEW k \in Keys \cup {NoKey}, Enqueue(c, k) PROVE TypeOK'
  <2>1. UNCHANGED <<attempts, lock, lockedBy, process, reclaims, handled, budget>>
    BY <1>1 DEF Enqueue
  <2>2. CASE InsertRow(k) /\ UNCHANGED caller
    BY <2>1, <2>2 DEF InsertRow
  <2>3. CASE /\ caller' = [caller EXCEPT ![c] = [at |-> "lookup", key |-> k]]
             /\ UNCHANGED <<status, due, key, wanted>>
    BY <2>1, <2>3
  <2> QED
    BY <1>1, <2>2, <2>3 DEF Enqueue
<1>2. ASSUME NEW c \in Callers, LookUpExisting(c) PROVE TypeOK'
  BY <1>2 DEF LookUpExisting
<1>3. ASSUME NEW c \in Callers, Recreate(c) PROVE TypeOK'
  <2>1. PICK k \in Keys \cup {NoKey} : k = caller[c].key
    OBVIOUS
  <2>2. CASE KeyTaken(caller[c].key)
    BY <1>3, <2>2 DEF Recreate
  <2>3. CASE ~KeyTaken(caller[c].key)
    <3>1. InsertRow(k)
      BY <1>3, <2>1, <2>3 DEF Recreate
    <3>2. caller' \in [Callers -> [at : {"ready", "lookup", "recreate"}, key : Keys \cup {NoKey}]]
      BY <1>3 DEF Recreate
    <3>3. UNCHANGED <<attempts, lock, lockedBy, process, reclaims, handled, budget>>
      BY <1>3 DEF Recreate
    <3>4. /\ status' \in [Jobs -> Statuses] /\ due' \in [Jobs -> BOOLEAN]
          /\ key' \in [Jobs -> Keys \cup {NoKey}] /\ wanted' \in [Jobs -> Keys \cup {NoKey}]
          /\ \A j \in Jobs : status'[j] = "RUNNING" <=> status[j] = "RUNNING"
      BY <3>1 DEF InsertRow
    <3> QED
      BY <3>2, <3>3, <3>4
  <2> QED
    BY <2>2, <2>3
<1>4. ASSUME NEW k \in Keys, ReleaseDeadKey(k) PROVE TypeOK'
  BY <1>4 DEF ReleaseDeadKey
<1>5. ASSUME NEW s \in Slots, SlotStep(s) PROVE TypeOK'
  <2>1. CASE HandlerReturns(s)
    BY <2>1 DEF HandlerReturns, Step
  <2>2. CASE HandlerThrows(s)
    BY <2>2 DEF HandlerThrows, Step
  <2>3. CASE ReleaseOwnKey(s)
    BY <2>3 DEF ReleaseOwnKey
  <2>4. CASE Complete(s)
    BY <2>4 DEF Complete, Settle, Finish
  <2>5. CASE CompleteThrows(s)
    BY <2>5 DEF CompleteThrows, Step
  <2>6. CASE ReadForFailure(s)
    BY <2>6 DEF ReadForFailure, Finish
  <2>7. CASE MarkRetrying(s)
    BY <2>7 DEF MarkRetrying, Settle, Finish
  <2>8. CASE MarkDead(s)
    BY <2>8 DEF MarkDead, Settle, Finish
  <2> QED
    BY <1>5, <2>1, <2>2, <2>3, <2>4, <2>5, <2>6, <2>7, <2>8 DEF SlotStep
<1>6. ASSUME NEW w \in Workers, WorkerStep(w) PROVE TypeOK'
  <2>1. CASE Claim(w)
    BY <2>1 DEF Claim, TakeRows, AssignRows, Eligible, Idle
  <2>2. CASE StartBatch(w)
    BY <2>2 DEF StartBatch
  <2>3. CASE LoseBatch(w)
    BY <2>3 DEF LoseBatch
  <2>4. CASE Crash(w) \/ Exit(w)
    BY <2>4 DEF Crash, Exit, Abandon
  <2>5. CASE Stop(w) \/ Start(w)
    BY <2>5 DEF Stop, Start
  <2> QED
    BY <1>6, <2>1, <2>2, <2>3, <2>4, <2>5 DEF WorkerStep
<1>7. ASSUME NEW j \in Jobs, RowStep(j) PROVE TypeOK'
  <2>1. CASE BecomeDue(j)
    BY <2>1 DEF BecomeDue
  <2>2. CASE LockExpires(j)
    BY <2>2 DEF LockExpires
  <2>3. CASE DeleteFinished(j)
    BY <2>3 DEF DeleteFinished, Finished
  <2> QED
    BY <1>7, <2>1, <2>2, <2>3 DEF RowStep
<1>8. CASE ReclaimStalled
  BY <1>8 DEF ReclaimStalled, Stalled
<1>9. CASE UNCHANGED vars
  BY <1>9 DEF vars
<1> QED
  BY <1>1, <1>2, <1>3, <1>4, <1>5, <1>6, <1>7, <1>8, <1>9 DEF Next, CallerStep

(***************************************************************************)
(* Type correctness, and the consistency of slots and locks, of the queue. *)
(***************************************************************************)
THEOREM TypeCorrect == Spec => []TypeOK
<1>1. Init => TypeOK
  BY TypeInit
<1>2. TypeOK /\ [Next]_vars => TypeOK'
  BY TypeStep
<1> QED
  BY <1>1, <1>2, PTL DEF Spec

-----------------------------------------------------------------------------
(* Which rows a step may touch, and what a slot knows of its row.          *)

LEMMA ExclusiveInit == Init => Exclusive
BY TypeInit DEF Init, Exclusive, HolderRuns, RunsAlone

LEMMA ExclusiveStep == Exclusive /\ [Next]_vars => Exclusive'
<1> SUFFICES ASSUME Exclusive, [Next]_vars PROVE HolderRuns' /\ RunsAlone'
  BY TypeStep DEF Exclusive
<1> USE Parameters DEF Exclusive, TypeOK, HolderRuns, RunsAlone
<1>1. ASSUME NEW c \in Callers, NEW k \in Keys \cup {NoKey}, Enqueue(c, k)
      PROVE HolderRuns' /\ RunsAlone'
  <2>1. UNCHANGED <<attempts, lock, lockedBy, process, reclaims, handled, budget>>
    BY <1>1 DEF Enqueue
  <2>2. CASE InsertRow(k) /\ UNCHANGED caller
    BY <2>1, <2>2 DEF InsertRow
  <2>3. CASE /\ caller' = [caller EXCEPT ![c] = [at |-> "lookup", key |-> k]]
             /\ UNCHANGED <<status, due, key, wanted>>
    BY <2>1, <2>3
  <2> QED
    BY <1>1, <2>2, <2>3 DEF Enqueue
<1>2. ASSUME NEW c \in Callers, LookUpExisting(c) \/ Recreate(c)
      PROVE HolderRuns' /\ RunsAlone'
  BY <1>2 DEF LookUpExisting, Recreate, InsertRow
<1>3. ASSUME NEW k \in Keys, ReleaseDeadKey(k) PROVE HolderRuns' /\ RunsAlone'
  BY <1>3 DEF ReleaseDeadKey
<1>4. ASSUME NEW s \in Slots, SlotStep(s) PROVE HolderRuns' /\ RunsAlone'
  <2>1. CASE HandlerReturns(s) \/ HandlerThrows(s) \/ CompleteThrows(s)
    BY <2>1 DEF HandlerReturns, HandlerThrows, CompleteThrows, Step
  <2>2. CASE ReleaseOwnKey(s)
    BY <2>2 DEF ReleaseOwnKey
  <2>3. CASE Complete(s)
    BY <2>3 DEF Complete, Settle, Finish
  <2>4. CASE ReadForFailure(s)
    BY <2>4 DEF ReadForFailure, Finish
  <2>5. CASE MarkRetrying(s)
    BY <2>5 DEF MarkRetrying, Settle, Finish
  <2>6. CASE MarkDead(s)
    BY <2>6 DEF MarkDead, Settle, Finish
  <2> QED
    BY <1>4, <2>1, <2>2, <2>3, <2>4, <2>5, <2>6 DEF SlotStep
<1>5. ASSUME NEW w \in Workers, WorkerStep(w) PROVE HolderRuns' /\ RunsAlone'
  <2>1. CASE Claim(w)
    BY <2>1 DEF Claim, TakeRows, AssignRows, Eligible, Idle
  <2>2. CASE StartBatch(w)
    BY <2>2 DEF StartBatch
  <2>3. CASE LoseBatch(w)
    BY <2>3 DEF LoseBatch
  <2>4. CASE Crash(w) \/ Exit(w)
    BY <2>4 DEF Crash, Exit, Abandon
  <2>5. CASE Stop(w) \/ Start(w)
    BY <2>5 DEF Stop, Start
  <2> QED
    BY <1>5, <2>1, <2>2, <2>3, <2>4, <2>5 DEF WorkerStep
<1>6. ASSUME NEW j \in Jobs, RowStep(j) PROVE HolderRuns' /\ RunsAlone'
  BY <1>6 DEF RowStep, BecomeDue, LockExpires, DeleteFinished, Finished, LiveRuns, Runs
<1>7. CASE ReclaimStalled
  BY <1>7 DEF ReclaimStalled, Stalled
<1>8. CASE UNCHANGED vars
  BY <1>8 DEF vars
<1> QED
  BY <1>1, <1>2, <1>3, <1>4, <1>5, <1>6, <1>7, <1>8 DEF Next, CallerStep

(* SoleRunner: until a stalled lock is reclaimed, a row has one runner,    *)
(* the holder of its lock, whatever crashes and reports come in between.   *)
THEOREM SoleRunnerHolds == Spec => []SoleRunner
<1>1. Exclusive => SoleRunner
  <2> SUFFICES ASSUME Exclusive, NEW j \in Jobs, reclaims[j] = 0, NEW s \in LiveRuns(j)
               PROVE  /\ status[j] = "RUNNING" /\ lockedBy[j] = s[1]
                      /\ LiveRuns(j) = {s}
    BY DEF SoleRunner
  <2>1. s \in Slots /\ phase[s] # "idle" /\ doing[s] = j
    BY DEF LiveRuns, Runs
  <2>2. status[j] = "RUNNING" /\ lockedBy[j] = s[1]
    BY <2>1 DEF Exclusive, HolderRuns
  <2>3. \A t \in LiveRuns(j) : t = s
    BY <2>1 DEF Exclusive, RunsAlone, LiveRuns, Runs
  <2> QED
    BY <2>2, <2>3
<1>2. Exclusive /\ [Next]_vars => Exclusive'
  BY ExclusiveStep
<1> QED
  BY ExclusiveInit, <1>1, <1>2, PTL DEF Spec

(* A claim takes some eligible rows, counts an attempt on each, and starts *)
(* slots on rows that are well formed or about to be rejected.             *)
LEMMA ClaimTakes ==
  ASSUME TypeOK, NEW w \in Workers, Claim(w)
  PROVE  /\ \A j \in Jobs :
              \/ status'[j] = status[j] /\ attempts'[j] = attempts[j]
              \/ status[j] = "PENDING" /\ status'[j] = "RUNNING" /\ attempts'[j] = attempts[j] + 1
         /\ \A t \in Slots :
              \/ phase'[t] = phase[t] /\ doing'[t] = doing[t]
              \/ phase'[t] \in {"claimed", "handler"}
              \/ phase'[t] = "reject" /\ doing'[t] \in Malformed
<1>1. PICK used \in SUBSET Idle(w) : \E batch \in [used -> Eligible] :
        TakeRows({batch[s] : s \in used}, w) /\ AssignRows(used, batch)
  BY DEF Claim
<1>2. PICK batch \in [used -> Eligible] :
        TakeRows({batch[s] : s \in used}, w) /\ AssignRows(used, batch)
  BY <1>1
<1>3. \A j \in Jobs :
        \/ status'[j] = status[j] /\ attempts'[j] = attempts[j]
        \/ status[j] = "PENDING" /\ status'[j] = "RUNNING" /\ attempts'[j] = attempts[j] + 1
  BY <1>2 DEF TakeRows, Eligible
<1>4. \A t \in Slots : \/ phase'[t] = phase[t] /\ doing'[t] = doing[t]
                       \/ phase'[t] \in {"claimed", "handler"}
                       \/ phase'[t] = "reject" /\ doing'[t] \in Malformed
  BY <1>2 DEF AssignRows
<1> QED
  BY <1>3, <1>4

(* FinishedStaysFinished: a reported outcome of a row that was never       *)
(* reclaimed is overwritten by no late report; the row is only pruned.     *)
THEOREM FinishedStaysFinishedHolds == Spec => FinishedStaysFinished
<1> DEFINE Stays ==
        \A j \in Jobs : status[j] \in Finished /\ reclaims[j] = 0
            => status'[j] \in {status[j], "deleted"}
<1>1. Exclusive /\ [Next]_vars => [Stays]_vars
  <2> SUFFICES ASSUME Exclusive, Next PROVE Stays
    OBVIOUS
  <2> USE Parameters DEF Exclusive, TypeOK, HolderRuns, Finished
  <2>1. CASE CallerStep
    BY <2>1 DEF CallerStep, Enqueue, LookUpExisting, Recreate, ReleaseDeadKey, InsertRow
  <2>2. ASSUME NEW s \in Slots, SlotStep(s) PROVE Stays
    <3>1. phase[s] # "idle" /\ (status' = status \/ \E st \in Statuses : Settle(doing[s], st))
      BY <2>2 DEF SlotStep, HandlerReturns, HandlerThrows, ReleaseOwnKey, Complete, CompleteThrows,
                  ReadForFailure, MarkRetrying, MarkDead, Step, Statuses
    <3> QED
      BY <3>1 DEF Settle
  <2>3. ASSUME NEW w \in Workers, WorkerStep(w) PROVE Stays
    <3>1. CASE Claim(w)
      BY <3>1, ClaimTakes
    <3> QED
      BY <2>3, <3>1 DEF WorkerStep, StartBatch, LoseBatch, Crash, Stop, Exit, Start
  <2>4. ASSUME NEW j \in Jobs, RowStep(j) PROVE Stays
    BY <2>4 DEF RowStep, BecomeDue, LockExpires, DeleteFinished
  <2>5. CASE ReclaimStalled
    BY <2>5 DEF ReclaimStalled, Stalled
  <2> QED
    BY <2>1, <2>2, <2>3, <2>4, <2>5 DEF Next
<1>2. Exclusive /\ [Next]_vars => Exclusive'
  BY ExclusiveStep
<1> QED
  BY ExclusiveInit, <1>1, <1>2, PTL DEF Spec, FinishedStaysFinished

-----------------------------------------------------------------------------
(* Outcomes and budgets: what the decision a slot carries says of its row. *)

Informed ==
    /\ Exclusive
    /\ AbsentUntouched /\ BudgetKept /\ RetryHasBudget
    /\ CompletingHandled /\ CompletedMeansHandled
    /\ BuryingSpent /\ RejectingMalformed /\ DeadMeansSpent

Decisions == RetryHasBudget /\ CompletingHandled /\ BuryingSpent /\ RejectingMalformed

Outcomes == AbsentUntouched /\ BudgetKept /\ CompletedMeansHandled /\ DeadMeansSpent

LEMMA InformedInit == Init => Informed
BY ExclusiveInit, Parameters
   DEF Init, Informed, AbsentUntouched, BudgetKept, RetryHasBudget, CompletingHandled,
       CompletedMeansHandled, BuryingSpent, RejectingMalformed, DeadMeansSpent

LEMMA InformedStep == Informed /\ [Next]_vars => Informed'
<1> SUFFICES ASSUME Informed, [Next]_vars PROVE Decisions' /\ Outcomes'
  BY ExclusiveStep DEF Informed, Decisions, Outcomes
<1> USE Parameters
    DEF Informed, Decisions, Outcomes, Exclusive, TypeOK, HolderRuns, RunsAlone, AbsentUntouched,
        BudgetKept, RetryHasBudget, CompletingHandled, CompletedMeansHandled, BuryingSpent,
        RejectingMalformed, DeadMeansSpent
<1>1. CASE CallerStep
  BY <1>1 DEF CallerStep, Enqueue, LookUpExisting, Recreate, ReleaseDeadKey, InsertRow
<1>2. ASSUME NEW s \in Slots, SlotStep(s) PROVE Decisions' /\ Outcomes'
  <2>1. CASE HandlerReturns(s)
    BY <2>1 DEF HandlerReturns, Step
  <2>2. CASE HandlerThrows(s) \/ CompleteThrows(s) \/ ReleaseOwnKey(s)
    BY <2>2 DEF HandlerThrows, CompleteThrows, ReleaseOwnKey, Step
  <2>3. CASE Complete(s)
    <3>1. handled[doing[s]]
      BY <2>3 DEF Complete
    <3>2. Decisions'
      BY <2>3 DEF Complete, Settle, Finish
    <3>3. Outcomes'
      BY <2>3, <3>1 DEF Complete, Settle, Finish
    <3> QED
      BY <3>2, <3>3
  <2>4. CASE ReadForFailure(s)
    <3>1. /\ UNCHANGED <<status, attempts, reclaims, handled>>
          /\ \A t \in Slots \ {s} : phase'[t] = phase[t] /\ doing'[t] = doing[t]
      BY <2>4 DEF ReadForFailure, Finish
    <3>2. \/ phase'[s] = "idle"
          \/ /\ doing'[s] = doing[s] /\ doing[s] \in Jobs
             /\ phase'[s] = IF isExhausted(doing[s]) THEN "bury" ELSE "retry"
      BY <2>4 DEF ReadForFailure, Finish
    <3>3. RetryHasBudget' /\ BuryingSpent'
      BY <3>1, <3>2 DEF isExhausted
    <3>4. CompletingHandled' /\ RejectingMalformed'
      BY <3>1, <3>2
    <3>5. Outcomes'
      BY <3>1, <2>4 DEF ReadForFailure
    <3> QED
      BY <3>3, <3>4, <3>5
  <2>5. CASE MarkRetrying(s)
    BY <2>5 DEF MarkRetrying, Settle, Finish
  <2>6. CASE MarkDead(s)
    BY <2>6 DEF MarkDead, Settle, Finish
  <2> QED
    BY <1>2, <2>1, <2>2, <2>3, <2>4, <2>5, <2>6 DEF SlotStep
<1>3. ASSUME NEW w \in Workers, WorkerStep(w) PROVE Decisions' /\ Outcomes'
  <2>1. CASE Claim(w)
    <3>1. /\ \A j \in Jobs :
               \/ status'[j] = status[j] /\ attempts'[j] = attempts[j]
               \/ /\ status[j] = "PENDING" /\ status'[j] = "RUNNING"
                  /\ attempts'[j] = attempts[j] + 1
          /\ \A t \in Slots :
               \/ phase'[t] = phase[t] /\ doing'[t] = doing[t]
               \/ phase'[t] \in {"claimed", "handler"}
               \/ phase'[t] = "reject" /\ doing'[t] \in Malformed
      BY <2>1, ClaimTakes
    <3>2. UNCHANGED <<reclaims, handled>>
      BY <2>1 DEF Claim
    <3>3. \A t \in Slots : phase[t] # "idle" => doing[t] \in Jobs
      OBVIOUS
    <3>4. RetryHasBudget'
      BY <3>1, <3>2, <3>3
    <3>5. CompletingHandled' /\ BuryingSpent' /\ RejectingMalformed'
      BY <3>1, <3>2, <3>3
    <3>6. Outcomes'
      BY <3>1, <3>2
    <3> QED
      BY <3>4, <3>5, <3>6
  <2>2. CASE StartBatch(w) \/ LoseBatch(w)
    BY <2>2 DEF StartBatch, LoseBatch
  <2>3. CASE Crash(w) \/ Exit(w) \/ Stop(w) \/ Start(w)
    <3>1. /\ UNCHANGED <<status, attempts, reclaims, handled>>
          /\ \A t \in Slots :
               \/ phase'[t] = phase[t] /\ doing'[t] = doing[t]
               \/ phase'[t] = "idle"
      BY <2>3 DEF Crash, Exit, Abandon, Stop, Start
    <3> QED
      BY <3>1
  <2> QED
    BY <1>3, <2>1, <2>2, <2>3 DEF WorkerStep
<1>4. ASSUME NEW j \in Jobs, RowStep(j) PROVE Decisions' /\ Outcomes'
  BY <1>4 DEF RowStep, BecomeDue, LockExpires, DeleteFinished, Finished
<1>5. CASE ReclaimStalled
  BY <1>5 DEF ReclaimStalled, Stalled
<1>6. CASE UNCHANGED vars
  BY <1>6 DEF vars
<1> QED
  BY <1>1, <1>2, <1>3, <1>4, <1>5, <1>6 DEF Next

(* BudgetKept: a row that was never reclaimed is run at most maxAttempts   *)
(* times, and waits only while it has an attempt left.                     *)
THEOREM BudgetKeptHolds == Spec => []BudgetKept
<1>1. Informed => BudgetKept
  BY DEF Informed
<1> QED
  BY InformedInit, InformedStep, <1>1, PTL DEF Spec

(* CompletedMeansHandled: no interleaving of late reports marks a row      *)
(* COMPLETED whose handler has never returned.                             *)
THEOREM CompletedMeansHandledHolds == Spec => []CompletedMeansHandled
<1>1. Informed => CompletedMeansHandled
  BY DEF Informed
<1> QED
  BY InformedInit, InformedStep, <1>1, PTL DEF Spec

(* DeadMeansSpent: a row goes DEAD only with its budget spent, although    *)
(* `fail` reads the attempts in one statement and writes in another.       *)
THEOREM DeadMeansSpentHolds == Spec => []DeadMeansSpent
<1>1. Informed => DeadMeansSpent
  BY DEF Informed
<1> QED
  BY InformedInit, InformedStep, <1>1, PTL DEF Spec

-----------------------------------------------------------------------------
(* After reclaims.  Whoever may still run a row without looking at its     *)
(* budget again holds a ticket: the row itself while it waits, and a run   *)
(* that has decided to put it back.  Claiming spends a ticket, a reclaim   *)
(* issues one, and nothing else does.                                      *)

Returning(j) == {s \in LiveRuns(j) : phase[s] = "retry"}

Waits(j) == IF status[j] = "PENDING" THEN 1 ELSE 0

Ledger(j) ==
    /\ IsFiniteSet(LiveRuns(j))
    /\ Cardinality(LiveRuns(j)) + Waits(j) <= 1 + reclaims[j]
    /\ attempts[j] + Cardinality(Returning(j)) + Waits(j) <= MaxAttempts[j] + reclaims[j]
    /\ status[j] = "absent" => LiveRuns(j) = {} /\ attempts[j] = 0

Balanced == TypeOK /\ \A j \in Jobs : Ledger(j)

(* What one step can do to the tickets of one row. *)
Quiet(j) ==
    /\ LiveRuns(j)' \subseteq LiveRuns(j) /\ Returning(j)' \subseteq Returning(j)
    /\ attempts'[j] = attempts[j] /\ reclaims'[j] = reclaims[j]
    /\ status'[j] = "PENDING" => status[j] = "PENDING"
    /\ status'[j] = "absent" => status[j] = "absent"

Claimed(j) ==
    /\ status[j] = "PENDING" /\ status'[j] = "RUNNING"
    /\ \E s \in Slots : LiveRuns(j)' = LiveRuns(j) \cup {s}
    /\ Returning(j)' \subseteq Returning(j)
    /\ attempts'[j] = attempts[j] + 1 /\ reclaims'[j] = reclaims[j]

Decided(j) ==
    /\ attempts[j] < MaxAttempts[j]
    /\ \E s \in LiveRuns(j) \ Returning(j) : Returning(j)' = Returning(j) \cup {s}
    /\ LiveRuns(j)' = LiveRuns(j)
    /\ status'[j] = status[j] /\ attempts'[j] = attempts[j] /\ reclaims'[j] = reclaims[j]

PutBack(j) ==
    /\ status'[j] = "PENDING" /\ attempts'[j] = attempts[j] /\ reclaims'[j] = reclaims[j]
    /\ \E s \in Returning(j) : /\ LiveRuns(j)' = LiveRuns(j) \ {s}
                               /\ Returning(j)' = Returning(j) \ {s}

Reclaimed(j) ==
    /\ status[j] = "RUNNING" /\ status'[j] = "PENDING"
    /\ attempts'[j] = attempts[j] /\ reclaims'[j] = reclaims[j] + 1
    /\ LiveRuns(j)' = LiveRuns(j) /\ Returning(j)' = Returning(j)

Inserted(j) ==
    /\ status[j] = "absent" /\ status'[j] = "PENDING"
    /\ attempts'[j] = attempts[j] /\ reclaims'[j] = reclaims[j]
    /\ LiveRuns(j)' = LiveRuns(j) /\ Returning(j)' = Returning(j)

LEMMA LedgerKept ==
  ASSUME TypeOK, NEW j \in Jobs, Ledger(j), TypeOK',
         Quiet(j) \/ Claimed(j) \/ Decided(j) \/ PutBack(j) \/ Reclaimed(j) \/ Inserted(j)
  PROVE  Ledger(j)'
<1> DEFINE R == Cardinality(LiveRuns(j))
           D == Cardinality(Returning(j))
<1>0. /\ attempts[j] \in Nat /\ reclaims[j] \in Nat /\ MaxAttempts[j] \in Nat \ {0}
      /\ attempts'[j] \in Nat /\ reclaims'[j] \in Nat
  BY Parameters DEF TypeOK
<1>1. Returning(j) \subseteq LiveRuns(j) /\ Returning(j)' \subseteq LiveRuns(j)'
  BY DEF Returning
<1>2. IsFiniteSet(Returning(j)) /\ R \in Nat /\ D \in Nat /\ D <= R
  BY <1>1, FS_Subset, FS_CardinalityType DEF Ledger
<1>3. CASE Quiet(j)
  <2>1. IsFiniteSet(LiveRuns(j)') /\ R' <= R /\ R' \in Nat
    BY <1>3, <1>2, FS_Subset, FS_CardinalityType DEF Quiet, Ledger
  <2>2. D' <= D /\ D' \in Nat
    BY <1>3, <1>2, FS_Subset, FS_CardinalityType DEF Quiet
  <2>3. Waits(j)' <= Waits(j) /\ Waits(j) \in Nat /\ Waits(j)' \in Nat
    BY <1>3 DEF Quiet, Waits
  <2>4. status'[j] = "absent" => LiveRuns(j)' = {} /\ attempts'[j] = 0
    BY <1>3 DEF Quiet, Ledger
  <2> HIDE DEF R, D
  <2> QED
    BY <1>0, <1>2, <1>3, <2>1, <2>2, <2>3, <2>4 DEF Ledger, Quiet, R, D
<1>4. CASE Claimed(j)
  <2>0. PICK s \in Slots : LiveRuns(j)' = LiveRuns(j) \cup {s}
    BY <1>4 DEF Claimed
  <2>1. IsFiniteSet(LiveRuns(j)') /\ R' <= R + 1 /\ R' \in Nat
    <3>1. IsFiniteSet(LiveRuns(j) \cup {s}) /\ Cardinality(LiveRuns(j) \cup {s}) <= R + 1
      BY <1>2, FS_AddElement DEF Ledger
    <3> QED
      BY <2>0, <3>1, FS_CardinalityType
  <2>2. D' <= D /\ D' \in Nat
    BY <1>4, <1>2, FS_Subset, FS_CardinalityType DEF Claimed
  <2>3. Waits(j)' = 0 /\ Waits(j) = 1
    BY <1>4 DEF Claimed, Waits
  <2> HIDE DEF R, D
  <2> QED
    BY <1>0, <1>2, <1>4, <2>1, <2>2, <2>3 DEF Ledger, Claimed, R, D
<1>5. CASE Decided(j)
  <2>1. PICK s \in LiveRuns(j) \ Returning(j) : Returning(j)' = Returning(j) \cup {s}
    BY <1>5 DEF Decided
  <2>2. D' = D + 1
    BY <2>1, <1>2, FS_AddElement
  <2>3. R' = R /\ IsFiniteSet(LiveRuns(j)') /\ D' <= R'
    BY <1>5, <1>1, FS_Subset DEF Decided, Ledger
  <2>4. Waits(j)' = Waits(j) /\ Waits(j) \in Nat
    BY <1>5 DEF Decided, Waits
  <2>5. status'[j] = "absent" => LiveRuns(j)' = {} /\ attempts'[j] = 0
    BY <1>5 DEF Decided, Ledger
  <2> HIDE DEF R, D
  <2> QED
    BY <1>0, <1>2, <1>5, <2>2, <2>3, <2>4, <2>5 DEF Ledger, Decided, R, D
<1>6. CASE PutBack(j)
  <2>1. PICK s \in Returning(j) : /\ LiveRuns(j)' = LiveRuns(j) \ {s}
                                 /\ Returning(j)' = Returning(j) \ {s}
    BY <1>6 DEF PutBack
  <2>2. R' = R - 1 /\ IsFiniteSet(LiveRuns(j)')
    BY <2>1, <1>1, FS_RemoveElement DEF Ledger
  <2>3. D' = D - 1
    BY <2>1, <1>2, FS_RemoveElement
  <2>4. Waits(j)' = 1 /\ Waits(j) \in Nat
    BY <1>6 DEF PutBack, Waits
  <2> HIDE DEF R, D
  <2> QED
    BY <1>0, <1>2, <1>6, <2>2, <2>3, <2>4 DEF Ledger, PutBack, R, D
<1>7. CASE Reclaimed(j)
  <2>1. R' = R /\ D' = D /\ IsFiniteSet(LiveRuns(j)')
    BY <1>7 DEF Reclaimed, Ledger
  <2>2. Waits(j)' = 1 /\ Waits(j) = 0
    BY <1>7 DEF Reclaimed, Waits
  <2> HIDE DEF R, D
  <2> QED
    BY <1>0, <1>2, <1>7, <2>1, <2>2 DEF Ledger, Reclaimed, R, D
<1>8. CASE Inserted(j)
  <2>1. LiveRuns(j)' = {} /\ Returning(j)' = {} /\ attempts'[j] = 0
    BY <1>8, <1>1 DEF Inserted, Ledger
  <2>2. Cardinality({}) = 0 /\ IsFiniteSet({})
    BY FS_EmptySet
  <2>3. Waits(j)' = 1 /\ status'[j] = "PENDING"
    BY <1>8 DEF Inserted, Waits
  <2> QED
    BY <1>0, <1>8, <2>1, <2>2, <2>3 DEF Ledger, Inserted
<1> QED
  BY <1>3, <1>4, <1>5, <1>6, <1>7, <1>8

(* Every step is one of these to every row. *)
Booked(j) == Quiet(j) \/ Claimed(j) \/ Decided(j) \/ PutBack(j) \/ Reclaimed(j) \/ Inserted(j)

LEMMA ClaimIsBooked ==
  ASSUME TypeOK, NEW w \in Workers, Claim(w), NEW j \in Jobs
  PROVE  Booked(j)
<1>0. PICK used \in SUBSET Idle(w) : \E batch \in [used -> Eligible] :
        /\ \A s, t \in used : batch[s] = batch[t] => s = t
        /\ TakeRows({batch[s] : s \in used}, w) /\ AssignRows(used, batch)
  BY DEF Claim
<1>1. PICK batch \in [used -> Eligible] :
        /\ \A s, t \in used : batch[s] = batch[t] => s = t
        /\ TakeRows({batch[s] : s \in used}, w) /\ AssignRows(used, batch)
        /\ UNCHANGED reclaims
  BY <1>0 DEF Claim
<1>2. \A s \in used : s \in Slots /\ phase[s] = "idle"
  BY <1>1 DEF Idle
<1>3. \A t \in Slots : IF t \in used THEN doing'[t] = batch[t] /\ phase'[t] \in {"claimed", "handler", "reject"}
                                    ELSE doing'[t] = doing[t] /\ phase'[t] = phase[t]
  BY <1>1 DEF AssignRows
<1>4. CASE \E s \in used : batch[s] = j
  <2>1. PICK s \in used : batch[s] = j
    BY <1>4
  <2>2. LiveRuns(j)' = LiveRuns(j) \cup {s}
    BY <1>1, <1>2, <1>3, <2>1 DEF LiveRuns, Runs
  <2>3. Returning(j)' \subseteq Returning(j)
    BY <1>3 DEF Returning, LiveRuns, Runs
  <2>4. j \in Eligible /\ j \in {batch[t] : t \in used}
    BY <2>1
  <2>5. status[j] = "PENDING" /\ status'[j] = "RUNNING" /\ attempts'[j] = attempts[j] + 1
    BY <1>1, <2>4 DEF TakeRows, Eligible
  <2> QED
    BY <1>1, <1>2, <2>2, <2>3, <2>5 DEF Booked, Claimed
<1>5. CASE ~\E s \in used : batch[s] = j
  <2>1. LiveRuns(j)' = LiveRuns(j) /\ Returning(j)' = Returning(j)
    BY <1>2, <1>3, <1>5 DEF LiveRuns, Runs, Returning
  <2>2. status'[j] = status[j] /\ attempts'[j] = attempts[j]
    BY <1>1, <1>5 DEF TakeRows
  <2> QED
    BY <1>1, <2>1, <2>2 DEF Booked, Quiet
<1> QED
  BY <1>4, <1>5

LEMMA SlotStepIsBooked ==
  ASSUME TypeOK, NEW s \in Slots, SlotStep(s), NEW j \in Jobs
  PROVE  Booked(j)
<1> USE Parameters DEF TypeOK, Booked, LiveRuns, Returning, Runs
<1>1. CASE HandlerReturns(s) \/ HandlerThrows(s) \/ CompleteThrows(s) \/ ReleaseOwnKey(s)
  BY <1>1 DEF HandlerReturns, HandlerThrows, CompleteThrows, ReleaseOwnKey, Step, Quiet
<1>2. CASE Complete(s)
  BY <1>2 DEF Complete, Settle, Finish, Quiet
<1>3. CASE MarkDead(s)
  BY <1>3 DEF MarkDead, Settle, Finish, Quiet
<1>4. CASE ReadForFailure(s)
  <2>1. /\ UNCHANGED <<status, attempts, reclaims>> /\ phase[s] = "fail"
        /\ \A t \in Slots \ {s} : phase'[t] = phase[t] /\ doing'[t] = doing[t]
    BY <1>4 DEF ReadForFailure, Finish
  <2>2. \/ phase'[s] \in {"idle", "bury"} /\ doing'[s] \in {doing[s], NoJob}
        \/ /\ phase'[s] = "retry" /\ doing'[s] = doing[s]
           /\ attempts[doing[s]] < MaxAttempts[doing[s]]
    BY <1>4 DEF ReadForFailure, Finish, isExhausted
  <2>3. CASE doing[s] = j /\ phase'[s] = "retry"
    <3>1. s \in LiveRuns(j) \ Returning(j)
      BY <2>1, <2>3
    <3>2. Returning(j)' = Returning(j) \cup {s} /\ LiveRuns(j)' = LiveRuns(j)
      BY <2>1, <2>2, <2>3
    <3> QED
      BY <2>1, <2>2, <2>3, <3>1, <3>2 DEF Decided
  <2>4. CASE ~(doing[s] = j /\ phase'[s] = "retry")
    BY <2>1, <2>2, <2>4 DEF Quiet
  <2> QED
    BY <2>3, <2>4
<1>5. CASE MarkRetrying(s)
  <2>1. /\ UNCHANGED <<attempts, reclaims>> /\ phase[s] = "retry" /\ phase'[s] = "idle"
        /\ \A t \in Slots \ {s} : phase'[t] = phase[t] /\ doing'[t] = doing[t]
        /\ status' = [status EXCEPT ![doing[s]] = "PENDING"]
    BY <1>5 DEF MarkRetrying, Settle, Finish
  <2>2. CASE doing[s] = j
    <3>1. s \in Returning(j) /\ status'[j] = "PENDING"
      BY <2>1, <2>2
    <3>2. LiveRuns(j)' = LiveRuns(j) \ {s} /\ Returning(j)' = Returning(j) \ {s}
      BY <2>1, <2>2
    <3> QED
      BY <2>1, <3>1, <3>2 DEF PutBack
  <2>3. CASE doing[s] # j
    BY <2>1, <2>3 DEF Quiet
  <2> QED
    BY <2>2, <2>3
<1> QED
  BY <1>1, <1>2, <1>3, <1>4, <1>5 DEF SlotStep

LEMMA InsertIsBooked ==
  ASSUME TypeOK, NEW k, InsertRow(k), UNCHANGED <<attempts, process, reclaims>>, NEW j \in Jobs
  PROVE  Booked(j)
BY DEF InsertRow, Booked, Inserted, Quiet, LiveRuns, Returning, Runs, TypeOK

LEMMA StepIsBooked ==
  ASSUME TypeOK, [Next]_vars, NEW j \in Jobs
  PROVE  Booked(j)
<1> USE DEF TypeOK
<1>1. CASE UNCHANGED <<status, attempts, process, reclaims>>
  BY <1>1 DEF Booked, Quiet, LiveRuns, Returning, Runs
<1>2. ASSUME NEW c \in Callers, NEW k \in Keys \cup {NoKey}, Enqueue(c, k) PROVE Booked(j)
  BY <1>1, <1>2, InsertIsBooked DEF Enqueue
<1>3. ASSUME NEW c \in Callers, LookUpExisting(c) \/ Recreate(c) PROVE Booked(j)
  BY <1>1, <1>3, InsertIsBooked DEF LookUpExisting, Recreate
<1>4. ASSUME NEW k \in Keys, ReleaseDeadKey(k) PROVE Booked(j)
  BY <1>1, <1>4 DEF ReleaseDeadKey
<1>5. ASSUME NEW s \in Slots, SlotStep(s) PROVE Booked(j)
  BY <1>5, SlotStepIsBooked
<1>6. ASSUME NEW w \in Workers, WorkerStep(w) PROVE Booked(j)
  <2>1. CASE Claim(w)
    BY <2>1, ClaimIsBooked
  <2>2. CASE StartBatch(w)
    BY <2>2 DEF StartBatch, Booked, Quiet, LiveRuns, Returning, Runs
  <2>3. CASE LoseBatch(w) \/ Crash(w) \/ Exit(w)
    BY <2>3 DEF LoseBatch, Crash, Exit, Abandon, Booked, Quiet, LiveRuns, Returning, Runs
  <2>4. CASE Stop(w) \/ Start(w)
    BY <1>1, <2>4 DEF Stop, Start, Booked, Quiet, LiveRuns, Returning, Runs
  <2> QED
    BY <1>6, <2>1, <2>2, <2>3, <2>4 DEF WorkerStep
<1>7. ASSUME NEW i \in Jobs, RowStep(i) PROVE Booked(j)
  <2>1. CASE BecomeDue(i) \/ LockExpires(i)
    BY <1>1, <2>1 DEF BecomeDue, LockExpires
  <2>2. CASE DeleteFinished(i)
    BY <2>2 DEF DeleteFinished, Finished, Booked, Quiet, LiveRuns, Returning, Runs
  <2> QED
    BY <1>7, <2>1, <2>2 DEF RowStep
<1>8. CASE ReclaimStalled
  BY <1>8 DEF ReclaimStalled, Stalled, Booked, Quiet, Reclaimed, LiveRuns, Returning, Runs
<1>9. CASE UNCHANGED vars
  BY <1>1, <1>9 DEF vars
<1> QED
  BY <1>2, <1>3, <1>4, <1>5, <1>6, <1>7, <1>8, <1>9 DEF Next, CallerStep

LEMMA BalancedInit == Init => Balanced
<1> SUFFICES ASSUME Init, NEW j \in Jobs PROVE Ledger(j)
  BY TypeInit DEF Balanced
<1>1. LiveRuns(j) = {} /\ Returning(j) = {}
  BY DEF Init, LiveRuns, Returning, Runs
<1>2. Waits(j) = 0 /\ attempts[j] = 0 /\ reclaims[j] = 0 /\ MaxAttempts[j] \in Nat
  BY Parameters DEF Init, Waits
<1> QED
  BY <1>1, <1>2, FS_EmptySet DEF Ledger

LEMMA BalancedStep == Balanced /\ [Next]_vars => Balanced'
BY TypeStep, StepIsBooked, LedgerKept DEF Balanced, Booked

LEMMA BalancedBounds ==
  ASSUME Balanced, NEW j \in Jobs
  PROVE  /\ Cardinality(LiveRuns(j)) <= 1 + reclaims[j]
         /\ attempts[j] <= MaxAttempts[j] + reclaims[j]
<1>1. IsFiniteSet(LiveRuns(j)) /\ Returning(j) \subseteq LiveRuns(j)
  BY DEF Balanced, Ledger, Returning
<1>2. Cardinality(LiveRuns(j)) \in Nat /\ Cardinality(Returning(j)) \in Nat
  BY <1>1, FS_Subset, FS_CardinalityType
<1>3. Waits(j) \in Nat /\ attempts[j] \in Nat /\ reclaims[j] \in Nat /\ MaxAttempts[j] \in Nat
  BY Parameters DEF Balanced, TypeOK, Waits
<1> QED
  BY <1>2, <1>3 DEF Balanced, Ledger

(* RunnersBoundedByReclaims: late reports put a row back on the queue, but *)
(* every reclaim adds at most one to the runs that are at work on it.      *)
THEOREM RunnersBoundedHolds == Spec => []RunnersBoundedByReclaims
<1>1. Balanced => RunnersBoundedByReclaims
  BY BalancedBounds DEF RunnersBoundedByReclaims
<1> QED
  BY BalancedInit, BalancedStep, <1>1, PTL DEF Spec

(* AttemptsBoundedByReclaims: claiming does not look at the budget, and    *)
(* still a row exceeds it by no more than the number of its reclaims.      *)
THEOREM AttemptsBoundedHolds == Spec => []AttemptsBoundedByReclaims
<1>1. Balanced => AttemptsBoundedByReclaims
  BY BalancedBounds DEF AttemptsBoundedByReclaims
<1> QED
  BY BalancedInit, BalancedStep, <1>1, PTL DEF Spec

-----------------------------------------------------------------------------
(* Dedupe keys.  The unique index speaks of the column, the property of    *)
(* the key a caller asked for: they agree while a row is unfinished, until *)
(* a late report revives a row that has given its key up.                  *)

KeysUnique == \A i, j \in Jobs : key[i] = key[j] /\ key[i] # NoKey => i = j

KeyHeld ==
    \A j \in Jobs : reclaims[j] = 0 /\ status[j] \in Unfinished => key[j] = wanted[j]

Keyed == Exclusive /\ KeysUnique /\ KeyHeld

LEMMA InsertKeepsKeys ==
  ASSUME Keyed, NEW k \in Keys \cup {NoKey}, k = NoKey \/ ~KeyTaken(k), InsertRow(k),
         UNCHANGED reclaims
  PROVE  KeysUnique' /\ KeyHeld'
BY Parameters
   DEF Keyed, Exclusive, TypeOK, KeysUnique, KeyHeld, InsertRow, KeyTaken, Unfinished

LEMMA KeyedInit == Init => Keyed
BY ExclusiveInit DEF Init, Keyed, KeysUnique, KeyHeld

LEMMA KeyedStep == Keyed /\ [Next]_vars => Keyed'
<1> SUFFICES ASSUME Keyed, [Next]_vars PROVE KeysUnique' /\ KeyHeld'
  BY ExclusiveStep DEF Keyed
<1> USE Parameters DEF Keyed, Exclusive, TypeOK, KeysUnique, KeyHeld, Unfinished
<1>1. CASE UNCHANGED <<status, key, wanted, reclaims>>
  BY <1>1
<1>2. ASSUME NEW c \in Callers, NEW k \in Keys \cup {NoKey}, Enqueue(c, k)
      PROVE KeysUnique' /\ KeyHeld'
  BY <1>1, <1>2, InsertKeepsKeys DEF Enqueue
<1>3. ASSUME NEW c \in Callers, LookUpExisting(c) PROVE KeysUnique' /\ KeyHeld'
  BY <1>1, <1>3 DEF LookUpExisting
<1>4. ASSUME NEW c \in Callers, Recreate(c) PROVE KeysUnique' /\ KeyHeld'
  <2>1. caller[c].key \in Keys \cup {NoKey}
    OBVIOUS
  <2> QED
    BY <1>1, <1>4, <2>1, InsertKeepsKeys DEF Recreate
<1>5. ASSUME NEW k \in Keys, ReleaseDeadKey(k) PROVE KeysUnique' /\ KeyHeld'
  BY <1>5 DEF ReleaseDeadKey
<1>6. ASSUME NEW s \in Slots, SlotStep(s) PROVE KeysUnique' /\ KeyHeld'
  <2>1. CASE UNCHANGED <<status, key, wanted, reclaims>>
    BY <1>1, <2>1
  <2>2. CASE ReleaseOwnKey(s)
    BY <2>2 DEF ReleaseOwnKey
  <2>3. CASE Complete(s)
    BY <2>3 DEF Complete, Settle
  <2>4. CASE MarkRetrying(s) \/ MarkDead(s)
    BY <2>4 DEF MarkRetrying, MarkDead, Settle, HolderRuns
  <2> QED
    BY <1>6, <2>1, <2>2, <2>3, <2>4
       DEF SlotStep, HandlerReturns, HandlerThrows, CompleteThrows, ReadForFailure, Step
<1>7. ASSUME NEW w \in Workers, WorkerStep(w) PROVE KeysUnique' /\ KeyHeld'
  <2>1. CASE Claim(w)
    <3>1. \A j \in Jobs : status'[j] = status[j] \/ status[j] = "PENDING"
      BY <2>1, ClaimTakes
    <3>2. UNCHANGED <<key, wanted, reclaims>>
      BY <2>1 DEF Claim
    <3> QED
      BY <3>1, <3>2
  <2>2. CASE StartBatch(w) \/ LoseBatch(w) \/ Crash(w) \/ Stop(w) \/ Exit(w) \/ Start(w)
    BY <1>1, <2>2 DEF StartBatch, LoseBatch, Crash, Stop, Exit, Start
  <2> QED
    BY <1>7, <2>1, <2>2 DEF WorkerStep
<1>8. ASSUME NEW j \in Jobs, RowStep(j) PROVE KeysUnique' /\ KeyHeld'
  <2>1. CASE BecomeDue(j) \/ LockExpires(j)
    BY <1>1, <2>1 DEF BecomeDue, LockExpires
  <2>2. CASE DeleteFinished(j)
    <3>1. /\ status' = [status EXCEPT ![j] = "deleted"] /\ key' = [key EXCEPT ![j] = NoKey]
          /\ wanted' = [wanted EXCEPT ![j] = NoKey] /\ UNCHANGED reclaims
      BY <2>2 DEF DeleteFinished
    <3> QED
      BY <3>1
  <2> QED
    BY <1>8, <2>1, <2>2 DEF RowStep
<1>9. CASE ReclaimStalled
  BY <1>9 DEF ReclaimStalled, Stalled
<1> QED
  BY <1>1, <1>2, <1>3, <1>4, <1>5, <1>6, <1>7, <1>8, <1>9 DEF Next, CallerStep, vars

(* OneUnfinishedJobPerKey: enqueueing a key twice never has two rows at    *)
(* work for it, unless one of them was revived from a stalled lock.        *)
THEOREM OneUnfinishedJobPerKeyHolds == Spec => []OneUnfinishedJobPerKey
<1>1. Keyed => OneUnfinishedJobPerKey
  <2> SUFFICES ASSUME Keyed, NEW i \in Jobs, NEW j \in Jobs,
                      i # j, wanted[i] = wanted[j], wanted[i] # NoKey,
                      status[i] \in Unfinished, status[j] \in Unfinished
               PROVE  reclaims[i] + reclaims[j] > 0
    BY DEF OneUnfinishedJobPerKey
  <2>1. reclaims[i] # 0 \/ reclaims[j] # 0
    BY DEF Keyed, KeysUnique, KeyHeld
  <2>2. reclaims[i] \in Nat /\ reclaims[j] \in Nat
    BY DEF Keyed, Exclusive, TypeOK
  <2> QED
    BY <2>1, <2>2
<1> QED
  BY KeyedInit, KeyedStep, <1>1, PTL DEF Spec
=============================================================================
