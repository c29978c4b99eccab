-------------------------- MODULE KnowledgeIngest ---------------------------
(***************************************************************************)
(* One knowledge document: the requests that save, retry and delete it     *)
(* (server/services/knowledge/knowledge.service.ts), the jobs that turn    *)
(* its text into chunks (knowledge-ingest.service.ts) and as much of the   *)
(* queue as lies between them: the document's dedupe key, at-least-once    *)
(* runs, reports by id.  JobQueue is the detailed account of that queue.   *)
(* A text stands for its contentHash: saving an old text brings the old    *)
(* hash back.                                                              *)
(***************************************************************************)
EXTENDS Integers, FiniteSets

CONSTANTS
    Texts, NoText,
    Jobs, NoJob,   \* job rows; one that nothing refers to any more stands for a new one
    Executions,    \* runs of the handler alive at once, on any worker
    Callers,       \* requests in flight
    MaxAttempts,   \* the budget of knowledge.ingest_document, JOB_DEFAULTS
    MaxWrites,     \* bound: saves and retries
    MaxMishaps     \* bound: processes that die, locks that expire under a live run,
                   \* statements that the database refuses

ASSUME Parameters ==
    /\ NoText \notin Texts
    /\ NoJob \notin Jobs
    /\ MaxAttempts \in Nat \ {0}
    /\ MaxWrites \in Nat /\ MaxMishaps \in Nat

VARIABLES
    status, text,          \* the row of the document
    published,             \* the text its chunks were cut from
    job, attempts, keyed,  \* job rows; keyed: those that hold the document's dedupe key
    run,                   \* where each execution of the handler is
    caller,                \* where each request is
    lost,                  \* history: a save or retry was left without an attempt
    writes, mishaps

document == <<status, text, published>>
queue == <<job, attempts, keyed>>
budget == <<writes, mishaps>>
vars == <<document, queue, run, caller, lost, budget>>

-----------------------------------------------------------------------------
Waiting == {"PENDING", "PROCESSING"}
Stored == Waiting \cup {"READY", "FAILED"}
Deciding == {"find", "claim", "embed", "swap", "release", "requeue",
             "markReturn", "markThrow"}
Stages == {"idle", "complete", "throw"} \cup Deciding

Resting == [at |-> "idle", job |-> NoJob, text |-> NoText, attempt |-> 0]
Mishap == mishaps < MaxMishaps /\ mishaps' = mishaps + 1
RunsOf(j) == {e \in Executions : run[e].job = j}
Free(j) == j \notin keyed /\ RunsOf(j) = {} /\ job[j] \in {"absent", "done", "dead"}

Init ==
    /\ status = "none" /\ text = NoText /\ published = NoText
    /\ job = [j \in Jobs |-> "absent"]
    /\ attempts = [j \in Jobs |-> 0]
    /\ keyed = {}
    /\ run = [e \in Executions |-> Resting]
    /\ caller = [c \in Callers |-> "idle"]
    /\ lost = FALSE
    /\ writes = 0 /\ mishaps = 0

-----------------------------------------------------------------------------
(* Requests.  What was saved is committed before its job is queued.        *)

GoTo(c, stage) == caller' = [caller EXCEPT ![c] = stage]

Writing(c) == caller[c] = "idle" /\ writes < MaxWrites /\ writes' = writes + 1

createKnowledgeDocument(c, t) ==
    /\ Writing(c)
    /\ status = "none"
    /\ status' = "PENDING" /\ text' = t
    /\ GoTo(c, "release")
    /\ UNCHANGED <<published, queue, run, lost, mishaps>>

\* The text and the status change in one statement; the chunks stay.
updateKnowledgeDocument(c, t) ==
    /\ Writing(c)
    /\ status \in Stored
    /\ status' = "PENDING" /\ text' = t
    /\ GoTo(c, "release")
    /\ UNCHANGED <<published, queue, run, lost, mishaps>>

\* retryKnowledgeDocument reads the status, refuses READY, ...
ReadForRetry(c) ==
    /\ Writing(c)
    /\ status \in Stored \ {"READY"}
    /\ GoTo(c, "reset")
    /\ UNCHANGED <<document, queue, run, lost, mishaps>>

\* ... and resets the row whatever its status is by then.
requeueKnowledgeDocument(c) ==
    /\ caller[c] = "reset"
    /\ IF status \in Stored
         THEN status' = "PENDING" /\ GoTo(c, "release")
         ELSE GoTo(c, "idle") /\ UNCHANGED status
    /\ UNCHANGED <<text, published, queue, run, lost, budget>>

\* The chunks go with the row, by cascade.
deleteKnowledgeDocument(c) ==
    /\ caller[c] = "idle"
    /\ status \in Stored
    /\ status' = "deleted" /\ published' = NoText
    /\ UNCHANGED <<text, queue, run, caller, lost, budget>>

-----------------------------------------------------------------------------
(* scheduleIngest: release the key of a dead job, enqueue under the key    *)
(* and, when either throws, say so on the row.                             *)

releaseDeadJobDedupeKey(c) ==
    /\ caller[c] = "release"
    /\ \/ /\ GoTo(c, "enqueue") /\ keyed' = {j \in keyed : job[j] # "dead"}
          /\ UNCHANGED mishaps
       \/ Mishap /\ GoTo(c, "giveUp") /\ UNCHANGED keyed
    /\ UNCHANGED <<document, job, attempts, run, lost, writes>>

InsertJob ==
    \E j \in Jobs :
        /\ Free(j)
        /\ job' = [job EXCEPT ![j] = "pending"]
        /\ attempts' = [attempts EXCEPT ![j] = 0]
        /\ keyed' = keyed \cup {j}

\* The row that answers the enqueue will not be run again for what was saved.
Spent(j) == job[j] = "dead" \/ \E e \in RunsOf(j) : run[e].at \in {"complete", "throw"}

\* The row that holds the key answers the enqueue, whatever its state.
EnqueueUnderKey ==
    \/ keyed = {} /\ InsertJob /\ UNCHANGED lost
    \/ /\ keyed # {} /\ UNCHANGED queue
       /\ lost' = (lost \/ \E j \in keyed : Spent(j))

enqueue(c) ==
    /\ caller[c] = "enqueue"
    /\ \/ GoTo(c, "idle") /\ EnqueueUnderKey /\ UNCHANGED mishaps
       \/ Mishap /\ GoTo(c, "giveUp") /\ UNCHANGED <<queue, lost>>
    /\ UNCHANGED <<document, run, writes>>

MarkFailed == status' = IF status \in Stored THEN "FAILED" ELSE status

giveUp(c) ==
    /\ caller[c] = "giveUp"
    /\ \/ MarkFailed /\ UNCHANGED <<lost, mishaps>>
       \/ Mishap /\ lost' = TRUE /\ UNCHANGED status
    /\ GoTo(c, "idle")
    /\ UNCHANGED <<text, published, queue, run, writes>>

\* The process serving the request dies after it has saved.
CallerDies(c) ==
    /\ caller[c] # "idle"
    /\ Mishap
    /\ GoTo(c, "idle")
    /\ lost' = (lost \/ caller[c] # "reset")
    /\ UNCHANGED <<document, queue, run, writes>>

-----------------------------------------------------------------------------
(* ingestKnowledgeDocument, from its claim by a worker to its report.      *)

At(e, stage) == run' = [run EXCEPT ![e].at = stage]

\* A worker claims the job row: the attempt is counted then.
claimJob(e) ==
    /\ run[e].at = "idle"
    /\ \E j \in Jobs :
        /\ job[j] = "pending"
        /\ job' = [job EXCEPT ![j] = "running"]
        /\ attempts' = [attempts EXCEPT ![j] = @ + 1]
        /\ run' = [run EXCEPT ![e] = [at |-> "find", job |-> j, text |-> NoText,
                                      attempt |-> attempts[j] + 1]]
    /\ UNCHANGED <<document, keyed, caller, lost, budget>>

\* The text read here is the version this attempt embeds.
findKnowledgeDocumentForIngest(e) ==
    /\ run[e].at = "find"
    /\ \/ status \notin Stored /\ At(e, "complete") /\ UNCHANGED mishaps
       \/ /\ status \in Stored /\ UNCHANGED mishaps
          /\ run' = [run EXCEPT ![e] = [at |-> "claim", job |-> run[e].job,
                                        text |-> text, attempt |-> run[e].attempt]]
       \/ Mishap /\ At(e, "throw")
    /\ UNCHANGED <<document, queue, caller, lost, writes>>

claimDocumentForIngest(e) ==
    /\ run[e].at = "claim"
    /\ \/ /\ status \in Waiting /\ status' = "PROCESSING"
          /\ At(e, "embed") /\ UNCHANGED mishaps
       \/ status \notin Waiting /\ At(e, "complete") /\ UNCHANGED <<status, mishaps>>
       \/ Mishap /\ At(e, "throw") /\ UNCHANGED status
    /\ UNCHANGED <<text, published, queue, caller, lost, writes>>

\* handleIngestFailure: a retryable failure is thrown, marked first on the last attempt.
Fail(e) ==
    \/ run[e].attempt < MaxAttempts /\ At(e, "throw")
    \/ run[e].attempt >= MaxAttempts /\ At(e, "markThrow")
    \/ At(e, "markReturn")

\* Chunking and embedding, outside every transaction.
embedDrafts(e) ==
    /\ run[e].at = "embed"
    /\ At(e, "swap") \/ Fail(e)
    /\ UNCHANGED <<document, queue, caller, lost, budget>>

\* Mutant: the hash is not compared again under the lock.
swapChunksMutant(e) ==
    /\ run[e].at = "swap"
    /\ \/ /\ status \in Stored
          /\ published' = run[e].text /\ status' = "READY"
          /\ At(e, "complete")
       \/ /\ status \notin Stored /\ At(e, "complete")
          /\ UNCHANGED <<status, published>>
    /\ UNCHANGED <<text, queue, caller, lost, budget>>

\* One transaction under the row's lock; only the current text is published.
swapChunks(e) ==
    /\ run[e].at = "swap"
    /\ \/ /\ status \in Stored /\ run[e].text = text
          /\ published' = text /\ status' = "READY"
          /\ At(e, "complete") /\ UNCHANGED mishaps
       \/ /\ status \in Stored /\ run[e].text # text
          /\ At(e, "release") /\ UNCHANGED <<status, published, mishaps>>
       \/ /\ status \notin Stored
          /\ At(e, "complete") /\ UNCHANGED <<status, published, mishaps>>
       \/ Mishap /\ Fail(e) /\ UNCHANGED <<status, published>>
    /\ UNCHANGED <<text, queue, caller, lost, writes>>

\* Mutant: the superseded attempt enqueues its successor without giving up its key.
releaseJobDedupeKeyMutant(e) ==
    /\ run[e].at = "release"
    /\ At(e, "requeue")
    /\ UNCHANGED <<document, queue, caller, lost, budget>>

\* requeueSuperseded: give up this job's own key, then enqueue under it.
releaseJobDedupeKey(e) ==
    /\ run[e].at = "release"
    /\ \/ At(e, "requeue") /\ keyed' = keyed \ {run[e].job} /\ UNCHANGED mishaps
       \/ Mishap /\ Fail(e) /\ UNCHANGED keyed
    /\ UNCHANGED <<document, job, attempts, caller, lost, writes>>

requeueSuperseded(e) ==
    /\ run[e].at = "requeue"
    /\ \/ At(e, "complete") /\ EnqueueUnderKey /\ UNCHANGED mishaps
       \/ Mishap /\ Fail(e) /\ UNCHANGED <<queue, lost>>
    /\ UNCHANGED <<document, caller, writes>>

\* markDocumentFailed has no condition on what the row holds by now.
markDocumentFailed(e) ==
    /\ run[e].at \in {"markReturn", "markThrow"}
    /\ \/ /\ MarkFailed /\ UNCHANGED mishaps
          /\ At(e, IF run[e].at = "markThrow" THEN "throw" ELSE "complete")
       \/ Mishap /\ At(e, "throw") /\ UNCHANGED status
    /\ UNCHANGED <<text, published, queue, caller, lost, writes>>

-----------------------------------------------------------------------------
(* The report, by id alone, and what can befall a run.                     *)

Rest(e) == run' = [run EXCEPT ![e] = Resting]

Complete(e) ==
    /\ run[e].at = "complete"
    /\ \/ /\ job' = [job EXCEPT ![run[e].job] = "done"]
          /\ keyed' = keyed \ {run[e].job}
          /\ Rest(e) /\ UNCHANGED mishaps
       \/ Mishap /\ At(e, "throw") /\ UNCHANGED <<job, keyed>>
    /\ UNCHANGED <<document, attempts, caller, lost, writes>>

\* A row out of attempts dies and keeps its key; no run comes for what is waiting.
FailJob(e) ==
    /\ run[e].at = "throw"
    /\ LET spent == attempts[run[e].job] >= MaxAttempts IN
         /\ job' = [job EXCEPT ![run[e].job] = IF spent THEN "dead" ELSE "pending"]
         /\ lost' = (lost \/ (spent /\ status \in Waiting))
    /\ Rest(e)
    /\ UNCHANGED <<document, attempts, keyed, caller, budget>>

Crash(e) ==
    /\ run[e].at # "idle"
    /\ Mishap
    /\ Rest(e)
    /\ UNCHANGED <<document, queue, caller, lost, writes>>

\* The lock of a running row expires, with its run dead or merely slow.
ReclaimStalled(j) ==
    /\ job[j] = "running"
    /\ IF RunsOf(j) = {}
         THEN UNCHANGED mishaps
         ELSE Mishap
    /\ job' = [job EXCEPT ![j] = "pending"]
    /\ UNCHANGED <<document, attempts, keyed, run, caller, lost, writes>>

-----------------------------------------------------------------------------
RequestStep(c) ==
    \/ \E t \in Texts : createKnowledgeDocument(c, t) \/ updateKnowledgeDocument(c, t)
    \/ ReadForRetry(c) \/ requeueKnowledgeDocument(c) \/ deleteKnowledgeDocument(c)
    \/ releaseDeadJobDedupeKey(c) \/ enqueue(c) \/ giveUp(c) \/ CallerDies(c)

Ingest(e) ==
    \/ claimJob(e) \/ findKnowledgeDocumentForIngest(e) \/ claimDocumentForIngest(e)
    \/ embedDrafts(e) \/ swapChunks(e) \/ releaseJobDedupeKey(e) \/ requeueSuperseded(e)
    \/ markDocumentFailed(e) \/ Complete(e) \/ FailJob(e)

Next ==
    \/ \E c \in Callers : RequestStep(c)
    \/ \E e \in Executions : Ingest(e) \/ Crash(e)
    \/ \E j \in Jobs : ReclaimStalled(j)

Spec == Init /\ [][Next]_vars

\* Requests go on once they have saved, workers poll, embedding ends, locks expire.
FairSpec ==
    /\ Spec
    /\ \A c \in Callers :
        WF_vars(requeueKnowledgeDocument(c) \/ releaseDeadJobDedupeKey(c)
                \/ enqueue(c) \/ giveUp(c))
    /\ \A e \in Executions : WF_vars(Ingest(e))
    /\ \A j \in Jobs : WF_vars(RunsOf(j) = {} /\ ReclaimStalled(j))

-----------------------------------------------------------------------------
(* Properties.                                                             *)

TypeOK ==
    /\ status \in Stored \cup {"none", "deleted"}
    /\ text \in Texts \cup {NoText} /\ published \in Texts \cup {NoText}
    /\ job \in [Jobs -> {"absent", "pending", "running", "done", "dead"}]
    /\ attempts \in [Jobs -> 0 .. MaxAttempts + MaxMishaps]
    /\ keyed \subseteq Jobs
    /\ run \in [Executions -> [at : Stages, job : Jobs \cup {NoJob},
                               text : Texts \cup {NoText}, attempt : Nat]]
    /\ caller \in [Callers -> {"idle", "reset", "release", "enqueue", "giveUp"}]
    /\ lost \in BOOLEAN
    /\ writes \in 0 .. MaxWrites /\ mishaps \in 0 .. MaxMishaps

(* Chunks change under the assistant only as a whole, only to the text     *)
(* that is current at that moment, and never after a deletion, although    *)
(* attempts that read older texts end at any time after newer ones.        *)
Corpus == INSTANCE PublishedCorpus WITH
            current <- IF status \in Stored THEN text ELSE NoText,
            served <- published,
            fresh <- status = "READY",
            gone <- status = "deleted"

PublishesAsPromised == Corpus!Spec

(* The dedupe key never drops a save on the floor: a document that waits   *)
(* has a request about to queue it, or an unfinished job none of whose     *)
(* runs is past deciding on it, or its loss is one that `lost` records.    *)
Queueing(c) == caller[c] \in {"release", "enqueue", "giveUp"}
Holds(j) == job[j] \in {"pending", "running"} /\ \A e \in RunsOf(j) : run[e].at # "complete"
Attended == (\E c \in Callers : Queueing(c)) \/ (\E j \in Jobs : Holds(j))

WaitingIsAttended == status \in Waiting => Attended \/ lost

(* Every save ends published, failed where the owner sees it, or deleted,  *)
(* through crashes, stalls, retries and edits during processing, unless it *)
(* was lost in one of the ways `lost` records.                             *)
EverySaveSettles == (status \in Waiting) ~> (status \notin Waiting \/ lost)
=============================================================================
