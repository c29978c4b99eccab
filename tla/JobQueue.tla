------------------------------ MODULE JobQueue ------------------------------
(***************************************************************************)
(* The background queue: rows of the `jobs` table, the callers that insert *)
(* them and the worker processes that claim, run and report them           *)
(* (server/repositories/job.repository.ts, server/jobs/drivers/            *)
(* postgres-queue.ts, server/jobs/worker.ts).  One action is one SQL       *)
(* statement or one step of a process between two statements; everything   *)
(* else runs concurrently with it.                                         *)
(***************************************************************************)
EXTENDS Integers, FiniteSets

CONSTANTS
    Jobs,         \* row identities; each is inserted at most once
    Keys,         \* dedupe keys
    Workers,      \* worker processes
    Callers,      \* concurrent calls of enqueue
    Concurrency,  \* slots per worker (WorkerOptions.concurrency)
    MaxAttempts,  \* [Jobs -> budget], JOB_DEFAULTS
    Priority,     \* [Jobs -> priority], JOB_DEFAULTS
    Malformed,    \* rows whose type or payload the claiming worker rejects
    NoKey, NoWorker, NoJob,
    MaxOutages,   \* bound: crashes and restarts of worker processes
    MaxStalls     \* bound: locks that expire while their handler still runs

ASSUME Parameters ==
    /\ MaxAttempts \in [Jobs -> Nat \ {0}]
    /\ Priority \in [Jobs -> Int]
    /\ Malformed \subseteq Jobs
    /\ Concurrency \in Nat
    /\ NoKey \notin Keys
    /\ NoWorker \notin Workers
    /\ NoJob \notin Jobs
    /\ MaxOutages \in Nat
    /\ MaxStalls \in Nat

Slots == Workers \X (1 .. Concurrency)

VARIABLES
    status, attempts, due, lock, lockedBy, key,  \* columns of a jobs row
    worker,        \* a worker process: up, draining after SIGTERM, or down
    phase, doing,  \* where each slot's runJob has got to, and on which row
    caller,        \* where each enqueue call has got to
    reclaims,      \* history: how often a row was reclaimed from a stalled lock
    handled,       \* history: rows whose handler has returned normally
    wanted,        \* history: the key a row was enqueued under, until released
    outages, stalls

row == <<status, attempts, due, lock, lockedBy, key>>
process == <<worker, phase, doing>>
history == <<reclaims, handled, wanted>>
budget == <<outages, stalls>>
vars == <<row, process, caller, history, budget>>

-----------------------------------------------------------------------------
Statuses == {"absent", "PENDING", "RUNNING", "COMPLETED", "DEAD", "deleted"}
Phases == {"idle", "claimed", "reject", "handler", "complete", "fail", "retry", "bury"}
Unfinished == {"PENDING", "RUNNING"}
Finished == {"COMPLETED", "DEAD"}

Runs(s, j) == phase[s] # "idle" /\ doing[s] = j
LiveRuns(j) == {s \in Slots : Runs(s, j)}
Idle(w) == {s \in Slots : s[1] = w /\ phase[s] = "idle"}
KeyTaken(k) == \E j \in Jobs : key[j] = k

Init ==
    /\ status = [j \in Jobs |-> "absent"]
    /\ attempts = [j \in Jobs |-> 0]
    /\ due = [j \in Jobs |-> FALSE]
    /\ lock = [j \in Jobs |-> "none"]
    /\ lockedBy = [j \in Jobs |-> NoWorker]
    /\ key = [j \in Jobs |-> NoKey]
    /\ worker = [w \in Workers |-> "up"]
    /\ phase = [s \in Slots |-> "idle"]
    /\ doing = [s \in Slots |-> NoJob]
    /\ caller = [c \in Callers |-> [at |-> "ready", key |-> NoKey]]
    /\ reclaims = [j \in Jobs |-> 0]
    /\ handled = [j \in Jobs |-> FALSE]
    /\ wanted = [j \in Jobs |-> NoKey]
    /\ outages = 0
    /\ stalls = 0

-----------------------------------------------------------------------------
(* Enqueueing: insertJob.  The conflict check is the unique index on       *)
(* dedupeKey; only the follow-up read and the last create are separate     *)
(* statements.                                                             *)

InsertRow(k) ==
    \E j \in Jobs, ready \in BOOLEAN :
        /\ status[j] = "absent"
        /\ status' = [status EXCEPT ![j] = "PENDING"]
        /\ due' = [due EXCEPT ![j] = ready]
        /\ key' = [key EXCEPT ![j] = k]
        /\ wanted' = [wanted EXCEPT ![j] = k]

Enqueue(c, k) ==
    /\ caller[c].at = "ready"
    /\ \/ /\ k = NoKey \/ ~KeyTaken(k)
          /\ InsertRow(k)
          /\ UNCHANGED caller
       \/ /\ k # NoKey /\ KeyTaken(k)
          /\ caller' = [caller EXCEPT ![c] = [at |-> "lookup", key |-> k]]
          /\ UNCHANGED <<status, due, key, wanted>>
    /\ UNCHANGED <<attempts, lock, lockedBy, process, reclaims, handled, budget>>

\* The existing row is returned with created: false, or it has lost its key since.
LookUpExisting(c) ==
    /\ caller[c].at = "lookup"
    /\ caller' = [caller EXCEPT ![c] =
                    IF KeyTaken(caller[c].key) THEN [at |-> "ready", key |-> NoKey]
                                               ELSE [@ EXCEPT !.at = "recreate"]]
    /\ UNCHANGED <<row, process, history, budget>>

\* A plain create: losing the key again violates the index and throws.
Recreate(c) ==
    /\ caller[c].at = "recreate"
    /\ IF KeyTaken(caller[c].key)
         THEN UNCHANGED <<status, due, key, wanted>>
         ELSE InsertRow(caller[c].key)
    /\ caller' = [caller EXCEPT ![c] = [at |-> "ready", key |-> NoKey]]
    /\ UNCHANGED <<attempts, lock, lockedBy, process, reclaims, handled, budget>>

\* releaseDeadJobDedupeKey: a person retries work whose job is dead.
ReleaseDeadKey(k) ==
    \E j \in Jobs :
        /\ status[j] = "DEAD" /\ key[j] = k
        /\ key' = [key EXCEPT ![j] = NoKey]
        /\ wanted' = [wanted EXCEPT ![j] = NoKey]
        /\ UNCHANGED <<status, attempts, due, lock, lockedBy, process, caller,
                       reclaims, handled, budget>>

\* runAfter passes: a scheduled row, or one backing off, becomes eligible.
BecomeDue(j) ==
    /\ status[j] = "PENDING" /\ ~due[j]
    /\ due' = [due EXCEPT ![j] = TRUE]
    /\ UNCHANGED <<status, attempts, lock, lockedBy, key, process, caller, history, budget>>

-----------------------------------------------------------------------------
(* Claiming: one UPDATE takes as many eligible rows as the worker has free *)
(* slots, the highest priorities first.  A batch with a malformed row      *)
(* waits, unstarted, until claim has rejected that row.                    *)

\* Mutant: a locked row is claimed like a waiting one.
EligibleMutant == {j \in Jobs : status[j] \in Unfinished /\ due[j]}

Eligible == {j \in Jobs : status[j] = "PENDING" /\ due[j]}

TopBatch(batch) ==
    \A j \in batch, i \in Eligible \ batch : Priority[i] <= Priority[j]

Claiming(w) == \E s \in Slots : s[1] = w /\ phase[s] \in {"claimed", "reject"}

TakeRows(taken, w) ==
    /\ status' = [j \in Jobs |-> IF j \in taken THEN "RUNNING" ELSE status[j]]
    /\ attempts' = [j \in Jobs |-> IF j \in taken THEN attempts[j] + 1 ELSE attempts[j]]
    /\ lock' = [j \in Jobs |-> IF j \in taken THEN "fresh" ELSE lock[j]]
    /\ lockedBy' = [j \in Jobs |-> IF j \in taken THEN w ELSE lockedBy[j]]

AssignRows(used, batch) ==
    /\ doing' = [s \in Slots |-> IF s \in used THEN batch[s] ELSE doing[s]]
    /\ phase' = [s \in Slots |->
                    IF s \notin used THEN phase[s]
                    ELSE IF batch[s] \in Malformed THEN "reject"
                    ELSE IF \E t \in used : batch[t] \in Malformed THEN "claimed"
                    ELSE "handler"]

Claim(w) ==
    /\ worker[w] = "up" /\ ~Claiming(w)
    /\ \E used \in SUBSET Idle(w) : \E batch \in [used -> Eligible] :
        LET taken == {batch[s] : s \in used} IN
        /\ used # {}
        /\ \A s, t \in used : batch[s] = batch[t] => s = t
        /\ used = Idle(w) \/ taken = Eligible
        /\ TopBatch(taken)
        /\ TakeRows(taken, w)
        /\ AssignRows(used, batch)
    /\ UNCHANGED <<due, key, worker, caller, history, budget>>

\* claim returns the well-formed rest of the batch to tick, which starts it.
StartBatch(w) ==
    /\ Claiming(w)
    /\ \A s \in Slots : s[1] = w => phase[s] # "reject"
    /\ phase' = [s \in Slots |-> IF s[1] = w /\ phase[s] = "claimed" THEN "handler" ELSE phase[s]]
    /\ UNCHANGED <<row, worker, doing, caller, history, budget>>

\* A rejection that throws takes tick down: the batch is RUNNING and nobody runs it.
LoseBatch(w) ==
    /\ outages < MaxOutages
    /\ \E s \in Slots : s[1] = w /\ phase[s] = "reject"
    /\ LET lost == {s \in Slots : s[1] = w /\ phase[s] \in {"claimed", "reject"}} IN
        /\ phase' = [s \in Slots |-> IF s \in lost THEN "idle" ELSE phase[s]]
        /\ doing' = [s \in Slots |-> IF s \in lost THEN NoJob ELSE doing[s]]
    /\ outages' = outages + 1
    /\ UNCHANGED <<row, worker, caller, history, stalls>>

-----------------------------------------------------------------------------
(* Running one claimed row: runJob.  Nothing below checks that the slot    *)
(* still holds the row's lock.                                             *)

Finish(s) ==
    /\ phase' = [phase EXCEPT ![s] = "idle"]
    /\ doing' = [doing EXCEPT ![s] = NoJob]

Settle(j, st) ==
    /\ status' = [status EXCEPT ![j] = st]
    /\ lock' = [lock EXCEPT ![j] = "none"]
    /\ lockedBy' = [lockedBy EXCEPT ![j] = NoWorker]

Step(s, from, to) ==
    /\ phase[s] = from
    /\ phase' = [phase EXCEPT ![s] = to]
    /\ UNCHANGED <<row, worker, doing, caller, budget>>

HandlerReturns(s) ==
    /\ Step(s, "handler", "complete")
    /\ handled' = [handled EXCEPT ![doing[s]] = TRUE]
    /\ UNCHANGED <<reclaims, wanted>>

HandlerThrows(s) ==
    /\ Step(s, "handler", "fail")
    /\ UNCHANGED history

\* releaseJobDedupeKey: a handler frees its own key to queue its successor.
ReleaseOwnKey(s) ==
    /\ phase[s] = "handler" /\ key[doing[s]] # NoKey
    /\ key' = [key EXCEPT ![doing[s]] = NoKey]
    /\ wanted' = [wanted EXCEPT ![doing[s]] = NoKey]
    /\ UNCHANGED <<status, attempts, due, lock, lockedBy, process, caller,
                   reclaims, handled, budget>>

\* Mutant: completing does not return, and control runs on into the catch.
CompleteMutant(s) ==
    /\ phase[s] = "complete" /\ status[doing[s]] # "deleted"
    /\ Settle(doing[s], "COMPLETED")
    /\ key' = [key EXCEPT ![doing[s]] = NoKey]
    /\ phase' = [phase EXCEPT ![s] = "fail"]
    /\ UNCHANGED <<attempts, due, worker, doing, caller, history, budget>>

Complete(s) ==
    /\ phase[s] = "complete" /\ status[doing[s]] # "deleted"
    /\ Settle(doing[s], "COMPLETED")
    /\ key' = [key EXCEPT ![doing[s]] = NoKey]
    /\ Finish(s)
    /\ UNCHANGED <<attempts, due, worker, caller, history, budget>>

\* The update throws (row gone, database error) inside the try: reported as a failure.
CompleteThrows(s) ==
    /\ Step(s, "complete", "fail")
    /\ UNCHANGED history

\* Mutants: off by one, either way.
isExhaustedLate(j) == attempts[j] > MaxAttempts[j]

isExhaustedEarly(j) == attempts[j] + 1 >= MaxAttempts[j]

isExhausted(j) == attempts[j] >= MaxAttempts[j]

\* fail, first statement: read the row and decide.
ReadForFailure(s) ==
    /\ phase[s] = "fail"
    /\ IF status[doing[s]] = "deleted"
         THEN Finish(s)
         ELSE /\ phase' = [phase EXCEPT ![s] =
                             IF isExhausted(doing[s]) THEN "bury" ELSE "retry"]
              /\ UNCHANGED doing
    /\ UNCHANGED <<row, worker, caller, history, budget>>

\* Mutant: retrying clears the dedupe key, as completing does.
MarkRetryingMutant(s) ==
    /\ phase[s] = "retry"
    /\ Settle(doing[s], "PENDING")
    /\ \E ready \in BOOLEAN : due' = [due EXCEPT ![doing[s]] = ready]
    /\ key' = [key EXCEPT ![doing[s]] = NoKey]
    /\ Finish(s)
    /\ UNCHANGED <<attempts, worker, caller, history, budget>>

\* fail, second statement: markJobRetrying on the earlier reading.
MarkRetrying(s) ==
    /\ phase[s] = "retry"
    /\ Settle(doing[s], "PENDING")
    /\ \E ready \in BOOLEAN : due' = [due EXCEPT ![doing[s]] = ready]
    /\ Finish(s)
    /\ UNCHANGED <<attempts, key, worker, caller, history, budget>>

\* markJobDead, from fail or from claim's rejection of a malformed row.
MarkDead(s) ==
    /\ phase[s] \in {"bury", "reject"}
    /\ Settle(doing[s], "DEAD")
    /\ Finish(s)
    /\ UNCHANGED <<attempts, due, key, worker, caller, history, budget>>

-----------------------------------------------------------------------------
(* Processes and time.                                                     *)

\* Every run of w vanishes; its rows keep their status and lock.
Abandon(w) ==
    /\ worker' = [worker EXCEPT ![w] = "down"]
    /\ phase' = [s \in Slots |-> IF s[1] = w THEN "idle" ELSE phase[s]]
    /\ doing' = [s \in Slots |-> IF s[1] = w THEN NoJob ELSE doing[s]]

\* A killed process; also what a throw inside fail comes to, which nothing handles.
Crash(w) ==
    /\ worker[w] # "down" /\ outages < MaxOutages
    /\ Abandon(w)
    /\ outages' = outages + 1
    /\ UNCHANGED <<row, caller, history, stalls>>

Stop(w) ==
    /\ worker[w] = "up" /\ outages < MaxOutages
    /\ worker' = [worker EXCEPT ![w] = "draining"]
    /\ outages' = outages + 1
    /\ UNCHANGED <<row, phase, doing, caller, history, stalls>>

\* Drained, or the grace period elapsed with runs still in flight.
Exit(w) ==
    /\ worker[w] = "draining"
    /\ Abandon(w)
    /\ UNCHANGED <<row, caller, history, budget>>

Start(w) ==
    /\ worker[w] = "down"
    /\ worker' = [worker EXCEPT ![w] = "up"]
    /\ UNCHANGED <<row, phase, doing, caller, history, budget>>

\* LOCK_TIMEOUT_MS passes, over an orphan or over a handler still at work.
LockExpires(j) ==
    /\ lock[j] = "fresh"
    /\ IF LiveRuns(j) = {} THEN UNCHANGED stalls
                           ELSE stalls < MaxStalls /\ stalls' = stalls + 1
    /\ lock' = [lock EXCEPT ![j] = "expired"]
    /\ UNCHANGED <<status, attempts, due, lockedBy, key, process, caller, history, outages>>

\* Mutant: exhausted rows are not revived, and nothing buries them either.
StalledMutant(j) == status[j] = "RUNNING" /\ lock[j] = "expired" /\ attempts[j] < MaxAttempts[j]

Stalled(j) == status[j] = "RUNNING" /\ lock[j] = "expired"

ReclaimStalled ==
    /\ \E w \in Workers : worker[w] = "up"
    /\ \E j \in Jobs : Stalled(j)
    /\ status' = [j \in Jobs |-> IF Stalled(j) THEN "PENDING" ELSE status[j]]
    /\ lock' = [j \in Jobs |-> IF Stalled(j) THEN "none" ELSE lock[j]]
    /\ lockedBy' = [j \in Jobs |-> IF Stalled(j) THEN NoWorker ELSE lockedBy[j]]
    /\ reclaims' = [j \in Jobs |-> IF Stalled(j) THEN reclaims[j] + 1 ELSE reclaims[j]]
    /\ UNCHANGED <<attempts, due, key, process, caller, handled, wanted, budget>>

\* deleteCompletedJobsBefore and deleteDeadJobsBefore, in the maintenance sweep.
\* The row is days old: only a handler can have been at work for as long.
DeleteFinished(j) ==
    /\ status[j] \in Finished
    /\ \A s \in LiveRuns(j) : phase[s] = "handler"
    /\ status' = [status EXCEPT ![j] = "deleted"]
    /\ key' = [key EXCEPT ![j] = NoKey]
    /\ wanted' = [wanted EXCEPT ![j] = NoKey]
    /\ UNCHANGED <<attempts, due, lock, lockedBy, process, caller, reclaims,
                   handled, budget>>

-----------------------------------------------------------------------------
CallerStep ==
    \/ \E c \in Callers, k \in Keys \cup {NoKey} : Enqueue(c, k)
    \/ \E c \in Callers : LookUpExisting(c) \/ Recreate(c)
    \/ \E k \in Keys : ReleaseDeadKey(k)

SlotStep(s) ==
    \/ HandlerReturns(s) \/ HandlerThrows(s) \/ ReleaseOwnKey(s)
    \/ Complete(s) \/ CompleteThrows(s)
    \/ ReadForFailure(s) \/ MarkRetrying(s) \/ MarkDead(s)

WorkerStep(w) ==
    \/ Claim(w) \/ StartBatch(w) \/ LoseBatch(w)
    \/ Crash(w) \/ Stop(w) \/ Exit(w) \/ Start(w)

RowStep(j) == BecomeDue(j) \/ LockExpires(j) \/ DeleteFinished(j)

Next ==
    \/ CallerStep
    \/ \E s \in Slots : SlotStep(s)
    \/ \E w \in Workers : WorkerStep(w)
    \/ \E j \in Jobs : RowStep(j)
    \/ ReclaimStalled

Spec == Init /\ [][Next]_vars

(* Time passes, the supervisor restarts a worker, a worker polls and       *)
(* reclaims, and a handler that runs returns or throws.  Nothing obliges   *)
(* anyone to enqueue, to release a key, or a process to fail.              *)
Fairness ==
    /\ \A s \in Slots : WF_vars(SlotStep(s))
    /\ \A w \in Workers : /\ WF_vars(Claim(w)) /\ WF_vars(StartBatch(w))
                          /\ WF_vars(Exit(w)) /\ WF_vars(Start(w))
    /\ \A j \in Jobs : WF_vars(BecomeDue(j)) /\ WF_vars(LockExpires(j))
    /\ WF_vars(ReclaimStalled)

FairSpec == Spec /\ Fairness

-----------------------------------------------------------------------------
(* Properties.                                                             *)

(* Types; a slot is idle exactly when it holds no row, and lockedAt and    *)
(* lockedBy are set exactly while the row is RUNNING, whoever wrote last.  *)
TypeOK ==
    /\ status \in [Jobs -> Statuses]
    /\ attempts \in [Jobs -> Nat]
    /\ due \in [Jobs -> BOOLEAN]
    /\ lock \in [Jobs -> {"none", "fresh", "expired"}]
    /\ lockedBy \in [Jobs -> Workers \cup {NoWorker}]
    /\ key \in [Jobs -> Keys \cup {NoKey}]
    /\ worker \in [Workers -> {"up", "draining", "down"}]
    /\ phase \in [Slots -> Phases]
    /\ doing \in [Slots -> Jobs \cup {NoJob}]
    /\ caller \in [Callers -> [at : {"ready", "lookup", "recreate"}, key : Keys \cup {NoKey}]]
    /\ reclaims \in [Jobs -> Nat]
    /\ handled \in [Jobs -> BOOLEAN]
    /\ wanted \in [Jobs -> Keys \cup {NoKey}]
    /\ outages \in Nat
    /\ stalls \in Nat
    /\ \A s \in Slots : phase[s] = "idle" <=> doing[s] = NoJob
    /\ \A j \in Jobs : /\ lock[j] = "none" <=> status[j] # "RUNNING"
                       /\ lock[j] = "none" <=> lockedBy[j] = NoWorker

(* Until a stalled lock is reclaimed, claiming (FOR UPDATE SKIP LOCKED)    *)
(* keeps a row exclusive: at most one slot anywhere runs it, the row is    *)
(* RUNNING, and the slot belongs to the worker in lockedBy.                *)
SoleRunner ==
    \A j \in Jobs : reclaims[j] = 0 =>
        \A s \in LiveRuns(j) :
            /\ status[j] = "RUNNING" /\ lockedBy[j] = s[1]
            /\ LiveRuns(j) = {s}

(* Every reclaim lets in at most one more run: late reports of earlier     *)
(* runs put the row back on the queue but never multiply its runners.      *)
RunnersBoundedByReclaims ==
    \A j \in Jobs : Cardinality(LiveRuns(j)) <= 1 + reclaims[j]

(* A row that was never reclaimed keeps to its attempt budget: `fail`      *)
(* buries it at maxAttempts, and only a row with an attempt left waits.    *)
BudgetKept ==
    \A j \in Jobs : reclaims[j] = 0 =>
        /\ attempts[j] <= MaxAttempts[j]
        /\ status[j] = "PENDING" => attempts[j] < MaxAttempts[j]

(* A row can outrun its budget, since claiming does not look at it, but    *)
(* only by one attempt for every reclaim.                                  *)
AttemptsBoundedByReclaims ==
    \A j \in Jobs : attempts[j] <= MaxAttempts[j] + reclaims[j]

(* COMPLETED means some run's handler returned normally, whichever of a    *)
(* stalled run and its replacement reported it.                            *)
CompletedMeansHandled ==
    \A j \in Jobs : status[j] = "COMPLETED" => handled[j]

(* No row is given up before its budget is spent, even when the decision   *)
(* in `fail` was taken on a reading that a rival run has since outdated.   *)
DeadMeansSpent ==
    \A j \in Jobs : status[j] = "DEAD" => j \in Malformed \/ attempts[j] >= MaxAttempts[j]

(* Two unfinished rows never stand for the same key, so that enqueueing    *)
(* twice runs the work once, unless a late report revived one of them.     *)
OneUnfinishedJobPerKey ==
    \A i, j \in Jobs :
        /\ i # j /\ wanted[i] = wanted[j] /\ wanted[i] # NoKey
        /\ status[i] \in Unfinished /\ status[j] \in Unfinished
        => reclaims[i] + reclaims[j] > 0

(* A reported outcome is final for a row that was never reclaimed: it can  *)
(* only be pruned.  (Complete and fail write by id alone.)                 *)
FinishedStaysFinished ==
    [][\A j \in Jobs :
          status[j] \in Finished /\ reclaims[j] = 0 => status'[j] \in {status[j], "deleted"}]_vars

(* Every queued row settles, through failures, crashes, drained workers    *)
(* and stalled locks, as long as workers come back and handlers end.       *)
EveryJobSettles ==
    \A j \in Jobs : status[j] = "PENDING" ~> status[j] \in Finished \cup {"deleted"}
=============================================================================
