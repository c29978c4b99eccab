------------------------ MODULE KnowledgeIngest_proofs ------------------------
(***************************************************************************)
(* Theorems about KnowledgeIngest, for every set of texts, jobs, runs and  *)
(* requests and every budget: it implements PublishedCorpus, and a save    *)
(* that waits is attended to.                                              *)
(***************************************************************************)
EXTENDS KnowledgeIngest, TLAPS

USE DEF document, queue, budget

-----------------------------------------------------------------------------
(* Types.  A job is handed out once more than its budget at most for each  *)
(* mishap, because a row without a live run is still RUNNING only after a  *)
(* crash.                                                                  *)

Counted ==
    \A j \in Jobs :
        /\ attempts[j] \in Nat /\ attempts[j] <= MaxAttempts + mishaps
        /\ job[j] = "pending" \/ (job[j] = "running" /\ RunsOf(j) = {})
             => attempts[j] + 1 <= MaxAttempts + mishaps

Runs == [at : Stages, job : Jobs \cup {NoJob}, text : Texts \cup {NoText}, attempt : Nat]

Typed ==
    /\ status \in Stored \cup {"none", "deleted"}
    /\ text \in Texts \cup {NoText} /\ published \in Texts \cup {NoText}
    /\ status \in Stored => text \in Texts
    /\ job \in [Jobs -> {"absent", "pending", "running", "done", "dead"}]
    /\ attempts \in [Jobs -> Nat]
    /\ keyed \subseteq Jobs
    /\ run \in [Executions -> Runs]
    /\ \A e \in Executions : run[e].at = "idle" <=> run[e].job = NoJob
    /\ caller \in [Callers -> {"idle", "reset", "release", "enqueue", "giveUp"}]
    /\ lost \in BOOLEAN
    /\ writes \in 0 .. MaxWrites /\ mishaps \in 0 .. MaxMishaps

Inv == Typed /\ Counted

LEMMA TypesInitially == Init => Inv
<1> SUFFICES ASSUME Init PROVE Inv
  OBVIOUS
<1>1. Resting \in Runs /\ Resting.at = "idle" /\ Resting.job = NoJob
  BY DEF Resting, Runs, Stages
<1>2. Typed
  <2>1. status \in Stored \cup {"none", "deleted"} /\ status \notin Stored
    BY DEF Init, Stored, Waiting
  <2>2. /\ run \in [Executions -> Runs]
        /\ \A e \in Executions : run[e].at = "idle" <=> run[e].job = NoJob
    BY <1>1 DEF Init
  <2>3. writes \in 0 .. MaxWrites /\ mishaps \in 0 .. MaxMishaps
    BY Parameters DEF Init
  <2> QED BY <2>1, <2>2, <2>3 DEF Init, Typed
<1>3. Counted
  BY Parameters DEF Init, Counted
<1> QED
  BY <1>2, <1>3 DEF Inv

LEMMA SmallSteps ==
  ASSUME Typed
  PROVE  /\ Mishap => mishaps' \in 0 .. MaxMishaps /\ mishaps' = mishaps + 1
         /\ \A c \in Callers : Writing(c) => writes' \in 0 .. MaxWrites
         /\ MarkFailed => status' \in Stored \cup {"none", "deleted"}
                          /\ (status' \in Stored <=> status \in Stored)
BY Parameters DEF Typed, Mishap, Writing, MarkFailed, Stored, Waiting

\* A run that moves on keeps its job and what it has read.
LEMMA RunMoves ==
  ASSUME Typed, NEW e \in Executions, NEW stage \in Stages \ {"idle"},
         run[e].at # "idle", At(e, stage)
  PROVE  /\ run' \in [Executions -> Runs]
         /\ \A d \in Executions : run'[d].at = "idle" <=> run'[d].job = NoJob
         /\ \A d \in Executions : run'[d].job = run[d].job
         /\ \A d \in Executions \ {e} : run'[d] = run[d]
         /\ run'[e].at = stage
BY DEF Typed, At, Runs

LEMMA RunRests ==
  ASSUME Typed, NEW e \in Executions, Rest(e)
  PROVE  /\ run' \in [Executions -> Runs]
         /\ \A d \in Executions : run'[d].at = "idle" <=> run'[d].job = NoJob
         /\ \A d \in Executions \ {e} : run'[d] = run[d]
         /\ run'[e].at = "idle" /\ run'[e].job = NoJob
BY DEF Typed, Rest, Runs, Resting, Stages

LEMMA RunningHasJob ==
  ASSUME Typed, NEW e \in Executions, run[e].at # "idle"
  PROVE  run[e].job \in Jobs
BY DEF Typed, Runs

\* Runs that keep their jobs leave the count alone.
LEMMA CountedKept ==
  ASSUME Inv, UNCHANGED <<job, attempts>>, mishaps' \in {mishaps, mishaps + 1},
         \A d \in Executions : run'[d].job = run[d].job
  PROVE  Counted'
<1>1. \A j \in Jobs : RunsOf(j)' = RunsOf(j)
  BY DEF RunsOf
<1> QED
  BY <1>1, Parameters DEF Inv, Typed, Counted

LEMMA EnqueueTyped ==
  ASSUME Inv, EnqueueUnderKey, mishaps' = mishaps, \A d \in Executions : run'[d].job = run[d].job
  PROVE  /\ job' \in [Jobs -> {"absent", "pending", "running", "done", "dead"}]
         /\ attempts' \in [Jobs -> Nat] /\ keyed' \subseteq Jobs /\ lost' \in BOOLEAN
         /\ Counted'
<1>1. \A j \in Jobs : RunsOf(j)' = RunsOf(j)
  BY DEF RunsOf
<1>2. CASE UNCHANGED queue
  <2>1. lost' \in BOOLEAN
    BY DEF EnqueueUnderKey, Inv, Typed
  <2> QED BY <1>1, <1>2, <2>1, CountedKept DEF Inv, Typed
<1>3. CASE InsertJob /\ UNCHANGED lost
  <2>1. PICK j \in Jobs : /\ job' = [job EXCEPT ![j] = "pending"]
                          /\ attempts' = [attempts EXCEPT ![j] = 0]
                          /\ keyed' = keyed \cup {j}
    BY <1>3 DEF InsertJob
  <2> QED BY <1>1, <1>3, <2>1, Parameters DEF Inv, Typed, Counted
<1> QED
  BY <1>2, <1>3 DEF EnqueueUnderKey

LEMMA TypeStep == Inv /\ [Next]_vars => Inv'
<1> SUFFICES ASSUME Inv, [Next]_vars PROVE Inv'
  OBVIOUS
<1> USE SmallSteps DEF Inv
<1>1. ASSUME NEW c \in Callers, RequestStep(c)
      PROVE  Inv'
  <2>0. \A stage \in {"idle", "reset", "release", "enqueue", "giveUp"} : GoTo(c, stage) =>
           caller' \in [Callers -> {"idle", "reset", "release", "enqueue", "giveUp"}]
    BY DEF Typed, GoTo
  <2>1. ASSUME NEW t \in Texts, createKnowledgeDocument(c, t) \/ updateKnowledgeDocument(c, t)
        PROVE  Inv'
    <3>1. Typed'
      BY <2>0, <2>1 DEF createKnowledgeDocument, updateKnowledgeDocument, Typed, Stored, Waiting
    <3> QED BY <2>1, <3>1, CountedKept DEF createKnowledgeDocument, updateKnowledgeDocument
  <2>2. CASE ReadForRetry(c) \/ requeueKnowledgeDocument(c) \/ deleteKnowledgeDocument(c)
    <3>1. Typed'
      BY <2>0, <2>2 DEF ReadForRetry, requeueKnowledgeDocument, deleteKnowledgeDocument, Typed,
         Stored, Waiting
    <3> QED BY <2>2, <3>1, CountedKept
            DEF ReadForRetry, requeueKnowledgeDocument, deleteKnowledgeDocument
  <2>3. CASE releaseDeadJobDedupeKey(c) \/ giveUp(c) \/ CallerDies(c)
    <3>1. UNCHANGED <<text, published, job, attempts, run, writes>>
      BY <2>3 DEF releaseDeadJobDedupeKey, giveUp, CallerDies
    <3>2. keyed' \subseteq Jobs /\ lost' \in BOOLEAN
      BY <2>3 DEF releaseDeadJobDedupeKey, giveUp, CallerDies, Typed
    <3>3. status' \in Stored \cup {"none", "deleted"} /\ (status' \in Stored <=> status \in Stored)
      BY <2>3 DEF releaseDeadJobDedupeKey, giveUp, CallerDies, Typed
    <3>4. mishaps' \in 0 .. MaxMishaps /\ mishaps' \in {mishaps, mishaps + 1}
      BY <2>3 DEF releaseDeadJobDedupeKey, giveUp, CallerDies, Typed
    <3>5. caller' \in [Callers -> {"idle", "reset", "release", "enqueue", "giveUp"}]
      BY <2>0, <2>3 DEF releaseDeadJobDedupeKey, giveUp, CallerDies
    <3> QED BY <3>1, <3>2, <3>3, <3>4, <3>5, CountedKept DEF Typed
  <2>4. CASE enqueue(c)
    <3>1. UNCHANGED <<document, run, writes>>
          /\ caller' \in [Callers -> {"idle", "reset", "release", "enqueue", "giveUp"}]
      BY <2>0, <2>4 DEF enqueue
    <3>2. CASE EnqueueUnderKey /\ UNCHANGED mishaps
      BY <3>1, <3>2, EnqueueTyped DEF Typed
    <3>3. CASE Mishap /\ UNCHANGED <<queue, lost>>
      BY <3>1, <3>3, CountedKept DEF Typed
    <3> QED BY <2>4, <3>2, <3>3 DEF enqueue
  <2> QED
    BY <1>1, <2>1, <2>2, <2>3, <2>4 DEF RequestStep
<1>2. ASSUME NEW e \in Executions, Ingest(e) \/ Crash(e)
      PROVE  Inv'
  <2>1. CASE claimJob(e)
    <3>1. PICK j \in Jobs :
            /\ job[j] = "pending"
            /\ job' = [job EXCEPT ![j] = "running"]
            /\ attempts' = [attempts EXCEPT ![j] = @ + 1]
            /\ run' = [run EXCEPT ![e] = [at |-> "find", job |-> j, text |-> NoText,
                                          attempt |-> attempts[j] + 1]]
      BY <2>1 DEF claimJob
    <3>2. UNCHANGED <<document, keyed, caller, lost, budget>>
      BY <2>1 DEF claimJob
    <3>3. Typed'
      BY <3>1, <3>2, Parameters DEF Typed, Runs, Stages, Deciding
    <3>4. RunsOf(j)' # {} /\ \A i \in Jobs \ {j} : RunsOf(i)' = {} => RunsOf(i) = {}
      <4>1. run'[e].job = j /\ \A d \in Executions \ {e} : run'[d] = run[d]
        BY <3>1 DEF Typed
      <4>2. run[e].job = NoJob
        BY <2>1 DEF claimJob, Typed
      <4> QED BY <4>1, <4>2, Parameters DEF RunsOf
    <3>5. Counted'
      BY <3>1, <3>2, <3>4, Parameters DEF Counted, Typed
    <3> QED BY <3>3, <3>5
  <2>2. CASE findKnowledgeDocumentForIngest(e)
    <3>0. run[e].at # "idle" /\ UNCHANGED <<document, queue, caller, lost, writes>>
      BY <2>2 DEF findKnowledgeDocumentForIngest
    <3>1. /\ run' \in [Executions -> Runs]
          /\ \A d \in Executions : run'[d].at = "idle" <=> run'[d].job = NoJob
          /\ \A d \in Executions : run'[d].job = run[d].job
      <4>1. CASE At(e, "complete") \/ At(e, "throw")
        BY <3>0, <4>1, RunMoves DEF Stages
      <4>2. CASE run' = [run EXCEPT ![e] = [at |-> "claim", job |-> run[e].job,
                                            text |-> text, attempt |-> run[e].attempt]]
        <5>1. PICK x \in Runs : x = run[e]
          BY DEF Typed
        <5>2. PICK t \in Texts \cup {NoText} : t = text
          BY DEF Typed
        <5>3. run' = [run EXCEPT ![e] = [at |-> "claim", job |-> x.job, text |-> t,
                                         attempt |-> x.attempt]]
          BY <4>2, <5>1, <5>2 DEF Typed, Runs
        <5>4. run' \in [Executions -> Runs]
          BY <5>1, <5>2, <5>3 DEF Typed, Runs, Stages, Deciding
        <5>5. \A d \in Executions \ {e} : run'[d] = run[d]
          BY <5>3 DEF Typed
        <5>6. run'[e].at = "claim" /\ run'[e].job = run[e].job
          BY <5>1, <5>3 DEF Typed
        <5> QED BY <3>0, <5>4, <5>5, <5>6 DEF Typed
      <4> QED BY <2>2, <4>1, <4>2 DEF findKnowledgeDocumentForIngest
    <3>2. mishaps' \in 0 .. MaxMishaps /\ mishaps' \in {mishaps, mishaps + 1}
      BY <2>2 DEF findKnowledgeDocumentForIngest, Typed
    <3> QED BY <3>0, <3>1, <3>2, CountedKept DEF Typed
  <2>3. CASE \/ claimDocumentForIngest(e) \/ embedDrafts(e) \/ swapChunks(e)
             \/ releaseJobDedupeKey(e) \/ markDocumentFailed(e)
    <3>0. PICK stage \in Stages \ {"idle"} : At(e, stage)
      BY <2>3 DEF claimDocumentForIngest, embedDrafts, swapChunks, releaseJobDedupeKey,
         markDocumentFailed, Fail, Stages, Deciding
    <3>1. /\ run' \in [Executions -> Runs]
          /\ \A d \in Executions : run'[d].at = "idle" <=> run'[d].job = NoJob
          /\ \A d \in Executions : run'[d].job = run[d].job
      <4>1. run[e].at # "idle"
        BY <2>3 DEF claimDocumentForIngest, embedDrafts, swapChunks, releaseJobDedupeKey,
           markDocumentFailed
      <4> QED BY <3>0, <4>1, RunMoves
    <3>2. UNCHANGED <<text, job, attempts, caller, lost, writes>>
      BY <2>3 DEF claimDocumentForIngest, embedDrafts, swapChunks, releaseJobDedupeKey,
         markDocumentFailed
    <3>3. /\ status' \in Stored \cup {"none", "deleted"} /\ (status' \in Stored => status \in Stored)
          /\ published' \in Texts \cup {NoText} /\ keyed' \subseteq Jobs
      BY <2>3 DEF claimDocumentForIngest, embedDrafts, swapChunks, releaseJobDedupeKey,
         markDocumentFailed, Typed, Stored, Waiting
    <3>4. mishaps' \in 0 .. MaxMishaps /\ mishaps' \in {mishaps, mishaps + 1}
      BY <2>3 DEF claimDocumentForIngest, embedDrafts, swapChunks, releaseJobDedupeKey,
         markDocumentFailed, Typed
    <3> QED BY <3>1, <3>2, <3>3, <3>4, CountedKept DEF Typed
  <2>4. CASE requeueSuperseded(e)
    <3>0. PICK stage \in Stages \ {"idle"} : At(e, stage)
      BY <2>4 DEF requeueSuperseded, Fail, Stages, Deciding
    <3>1. /\ run' \in [Executions -> Runs]
          /\ \A d \in Executions : run'[d].at = "idle" <=> run'[d].job = NoJob
          /\ \A d \in Executions : run'[d].job = run[d].job
      <4>1. run[e].at # "idle"
        BY <2>4 DEF requeueSuperseded
      <4> QED BY <3>0, <4>1, RunMoves
    <3>2. UNCHANGED <<document, caller, writes>>
      BY <2>4 DEF requeueSuperseded
    <3>3. CASE EnqueueUnderKey /\ UNCHANGED mishaps
      BY <3>1, <3>2, <3>3, EnqueueTyped DEF Typed
    <3>4. CASE Mishap /\ UNCHANGED <<queue, lost>>
      BY <3>1, <3>2, <3>4, CountedKept DEF Typed
    <3> QED BY <2>4, <3>3, <3>4 DEF requeueSuperseded
  <2>5. CASE Complete(e) /\ Rest(e)
    <3>0. run[e].at = "complete" /\ run[e].job \in Jobs
      BY <2>5, RunningHasJob DEF Complete
    <3>1. /\ job' = [job EXCEPT ![run[e].job] = "done"]
          /\ keyed' = keyed \ {run[e].job}
          /\ UNCHANGED <<document, attempts, caller, lost, budget>>
      <4>1. run'[e].at = "idle"
        BY <2>5, RunRests
      <4>2. ~At(e, "throw")
        BY <4>1 DEF At, Typed, Runs
      <4> QED BY <2>5, <4>2 DEF Complete
    <3>2. \A j \in Jobs \ {run[e].job} : RunsOf(j)' = RunsOf(j)
      BY <2>5, <3>0, RunRests, Parameters DEF RunsOf
    <3>3. Typed'
      BY <2>5, <3>0, <3>1, RunRests DEF Typed
    <3> QED BY <3>0, <3>1, <3>2, <3>3 DEF Counted, Typed
  <2>6. CASE Complete(e) /\ ~Rest(e)
    <3>1. At(e, "throw") /\ Mishap /\ run[e].at # "idle"
          /\ UNCHANGED <<document, queue, caller, lost, writes>>
      BY <2>6 DEF Complete
    <3> QED BY <3>1, RunMoves, CountedKept DEF Typed, Stages
  <2>7. CASE FailJob(e)
    <3>0. PICK j \in Jobs : j = run[e].job
      BY <2>7, RunningHasJob DEF FailJob
    <3>1. /\ job' = [job EXCEPT ![j] = IF attempts[j] >= MaxAttempts THEN "dead" ELSE "pending"]
          /\ lost' \in BOOLEAN /\ Rest(e)
          /\ UNCHANGED <<document, attempts, keyed, caller, budget>>
      BY <2>7, <3>0 DEF FailJob, Typed
    <3>2. \A i \in Jobs \ {j} : RunsOf(i)' = RunsOf(i)
      BY <3>0, <3>1, RunRests, Parameters DEF RunsOf
    <3>3. Typed'
      BY <3>0, <3>1, RunRests DEF Typed
    <3> QED BY <3>1, <3>2, <3>3, Parameters DEF Counted, Typed
  <2>8. CASE Crash(e)
    <3>1. Rest(e) /\ Mishap /\ UNCHANGED <<document, queue, caller, lost, writes>>
      BY <2>8 DEF Crash
    <3>2. Typed'
      BY <3>1, RunRests DEF Typed
    <3> QED BY <3>1, <3>2, Parameters DEF Counted, Typed
  <2> QED
    BY <1>2, <2>1, <2>2, <2>3, <2>4, <2>5, <2>6, <2>7, <2>8 DEF Ingest
<1>3. ASSUME NEW j \in Jobs, ReclaimStalled(j)
      PROVE  Inv'
  <2>1. \A i \in Jobs : RunsOf(i)' = RunsOf(i)
    BY <1>3 DEF ReclaimStalled, RunsOf
  <2>2. Typed'
    BY <1>3 DEF ReclaimStalled, Typed
  <2>3. Counted'
    BY <1>3, <2>1, Parameters DEF ReclaimStalled, Counted, Typed
  <2> QED BY <2>2, <2>3
<1>4. CASE UNCHANGED vars
  BY <1>4, CountedKept DEF vars, Typed
<1> QED
  BY <1>1, <1>2, <1>3, <1>4 DEF Next

(* Every reachable state has its type: no job is handed out more often     *)
(* than its budget and the mishaps allow, whoever ends or reclaims it.     *)
THEOREM TypeCorrect == Spec => []TypeOK
<1>1. Inv => TypeOK
  BY Parameters DEF Inv, Typed, Counted, TypeOK, Runs
<1> QED
  BY <1>1, TypesInitially, TypeStep, PTL DEF Spec

-----------------------------------------------------------------------------
(* The refinement.  What the requests do is a Save, a Doubt or a Remove;   *)
(* of an execution's steps, only swapChunks is a Publish.                  *)

LEMMA DocumentRests == UNCHANGED document => UNCHANGED Corpus!vars
BY DEF Corpus!vars, Stored, Waiting

LEMMA FailureDoubts ==
  ASSUME Inv, MarkFailed, UNCHANGED <<text, published>>
  PROVE  [Corpus!Next]_Corpus!vars
<1>1. CASE status \in Stored
  <2>1. status' = "FAILED" /\ status' \in Stored
    BY <1>1 DEF MarkFailed, Stored
  <2> QED BY <1>1, <2>1 DEF Corpus!Next, Corpus!Doubt, Stored, Waiting
<1>2. CASE status \notin Stored
  BY <1>2, DocumentRests DEF MarkFailed
<1> QED
  BY <1>1, <1>2

LEMMA RequestsRefine ==
  ASSUME Inv, NEW c \in Callers, RequestStep(c)
  PROVE  [Corpus!Next]_Corpus!vars
<1>1. ASSUME NEW t \in Texts, createKnowledgeDocument(c, t) \/ updateKnowledgeDocument(c, t)
      PROVE  Corpus!Save(t)
  BY <1>1 DEF createKnowledgeDocument, updateKnowledgeDocument, Corpus!Save, Stored, Waiting
<1>2. CASE requeueKnowledgeDocument(c)
  <2>1. CASE status \in Stored
    BY <1>2, <2>1 DEF requeueKnowledgeDocument, Corpus!Next, Corpus!Doubt, Stored, Waiting
  <2> QED BY <1>2, <2>1, DocumentRests DEF requeueKnowledgeDocument
<1>3. CASE deleteKnowledgeDocument(c)
  <2>1. text # NoText
    BY <1>3, Parameters DEF deleteKnowledgeDocument, Inv, Typed
  <2> QED BY <1>3, <2>1 DEF deleteKnowledgeDocument, Corpus!Next, Corpus!Remove, Stored, Waiting
<1>4. CASE ReadForRetry(c) \/ releaseDeadJobDedupeKey(c) \/ enqueue(c) \/ CallerDies(c)
  BY <1>4, DocumentRests DEF ReadForRetry, releaseDeadJobDedupeKey, enqueue, CallerDies
<1>5. CASE giveUp(c)
  <2>1. CASE MarkFailed
    BY <1>5, <2>1, FailureDoubts DEF giveUp
  <2> QED BY <1>5, <2>1, DocumentRests DEF giveUp
<1> QED
  BY <1>1, <1>2, <1>3, <1>4, <1>5 DEF RequestStep, Corpus!Next

LEMMA RunsRefine ==
  ASSUME Inv, NEW e \in Executions, Ingest(e) \/ Crash(e)
  PROVE  [Corpus!Next]_Corpus!vars
<1>1. CASE swapChunks(e)
  <2>1. CASE status \in Stored /\ published' = text /\ status' = "READY"
    <3>1. text # NoText
      BY <2>1, Parameters DEF Inv, Typed
    <3> QED BY <1>1, <2>1, <3>1 DEF swapChunks, Corpus!Next, Corpus!Publish, Stored, Waiting
  <2> QED BY <1>1, <2>1, DocumentRests DEF swapChunks
<1>2. CASE claimDocumentForIngest(e)
  BY <1>2 DEF claimDocumentForIngest, Corpus!vars, Stored, Waiting
<1>3. CASE markDocumentFailed(e)
  <2>1. CASE MarkFailed
    BY <1>3, <2>1, FailureDoubts DEF markDocumentFailed
  <2> QED BY <1>3, <2>1, DocumentRests DEF markDocumentFailed
<1>4. CASE \/ claimJob(e) \/ findKnowledgeDocumentForIngest(e) \/ embedDrafts(e)
           \/ releaseJobDedupeKey(e) \/ requeueSuperseded(e) \/ Complete(e) \/ FailJob(e) \/ Crash(e)
  BY <1>4, DocumentRests
  DEF claimJob, findKnowledgeDocumentForIngest, embedDrafts, releaseJobDedupeKey,
      requeueSuperseded, Complete, FailJob, Crash
<1> QED
  BY <1>1, <1>2, <1>3, <1>4 DEF Ingest

(* The assistant answers from one text the owner saved, a text replaces    *)
(* another as a whole and only while it is current, and nothing is         *)
(* answered from after a deletion: however many requests and attempts      *)
(* interleave, swapChunks under the row's lock is the only publication.    *)
THEOREM PublishesAsPromisedHolds == Spec => PublishesAsPromised
<1>1. Init => Corpus!Init
  BY DEF Init, Corpus!Init, Stored, Waiting
<1>2. Inv /\ [Next]_vars => [Corpus!Next]_Corpus!vars
  <2>1. CASE UNCHANGED vars
    BY <2>1, DocumentRests DEF vars
  <2>2. ASSUME NEW j \in Jobs, ReclaimStalled(j)
        PROVE  UNCHANGED Corpus!vars
    BY <2>2, DocumentRests DEF ReclaimStalled
  <2> QED BY <2>1, <2>2, RequestsRefine, RunsRefine DEF Next
<1> QED
  BY <1>1, <1>2, TypesInitially, TypeStep, PTL DEF Spec, PublishesAsPromised, Corpus!Spec

-----------------------------------------------------------------------------
(* A save that waits is attended to.  The row that answers an enqueue must *)
(* not be the one whose run is asking: a run that is about to enqueue has  *)
(* given up its own key.                                                   *)

Keys ==
    /\ \A j \in keyed : job[j] \in {"pending", "running", "dead"}
    /\ \A e \in Executions : run[e].at = "requeue" => run[e].job \notin keyed

AttendInv == Inv /\ Keys /\ WaitingIsAttended

\* Whoever enqueues leaves a holder behind, or a loss.
LEMMA EnqueueHolds ==
  ASSUME AttendInv, EnqueueUnderKey,
         NEW e, UNCHANGED run \/ (run[e].job \notin keyed /\ run[e].job \in Jobs
                                  /\ \A d \in Executions \ {e} : run'[d] = run[d]),
         \A d \in Executions : run'[d].job = run[d].job
  PROVE  /\ lost' \/ \E j \in Jobs : Holds(j)'
         /\ \A j \in keyed' : job'[j] \in {"pending", "running", "dead"}
         /\ \A j \in keyed' \ keyed : RunsOf(j) = {}
<1>1. CASE UNCHANGED queue /\ keyed # {} /\ lost' = (lost \/ \E j \in keyed : Spent(j))
  <2>1. PICK j \in keyed : TRUE
    BY <1>1
  <2>2. CASE ~Spent(j)
    <3>1. \A d \in RunsOf(j)' : d \in RunsOf(j) /\ run'[d] = run[d]
      BY <2>1 DEF RunsOf
    <3>2. Holds(j)'
      BY <1>1, <2>1, <2>2, <3>1 DEF Holds, Spent, AttendInv, Keys, Inv, Typed
    <3> QED BY <1>1, <2>1, <3>2 DEF AttendInv, Keys, Inv, Typed
  <2> QED BY <1>1, <2>1, <2>2 DEF AttendInv, Keys
<1>2. CASE InsertJob /\ UNCHANGED lost
  <2>1. PICK j \in Jobs : /\ Free(j) /\ job' = [job EXCEPT ![j] = "pending"]
                          /\ keyed' = keyed \cup {j}
    BY <1>2 DEF InsertJob
  <2>2. RunsOf(j) = {} /\ RunsOf(j)' = {}
    BY <2>1 DEF Free, RunsOf
  <2>3. job'[j] = "pending" /\ \A i \in Jobs \ {j} : job'[i] = job[i]
    BY <2>1 DEF AttendInv, Inv, Typed
  <2>4. Holds(j)'
    BY <2>2, <2>3 DEF Holds
  <2> QED BY <2>1, <2>2, <2>3, <2>4 DEF AttendInv, Keys, Inv, Typed
<1> QED
  BY <1>1, <1>2 DEF EnqueueUnderKey

\* A request that moves on.
LEMMA CallerMoves ==
  ASSUME Inv, NEW c \in Callers, NEW stage, GoTo(c, stage)
  PROVE  /\ caller'[c] = stage
         /\ \A d \in Callers \ {c} : caller'[d] = caller[d]
BY DEF Inv, Typed, GoTo

LEMMA RequestsAttend ==
  ASSUME AttendInv, NEW c \in Callers, RequestStep(c)
  PROVE  Keys' /\ WaitingIsAttended'
<1>0. Inv
  BY DEF AttendInv
<1>1. ASSUME NEW t \in Texts, createKnowledgeDocument(c, t) \/ updateKnowledgeDocument(c, t)
      PROVE  Keys' /\ WaitingIsAttended'
  <2>1. GoTo(c, "release") /\ UNCHANGED <<queue, run>>
    BY <1>1 DEF createKnowledgeDocument, updateKnowledgeDocument
  <2>2. Attended'
    BY <1>0, <2>1, CallerMoves DEF Attended, Queueing
  <2> QED BY <2>1, <2>2 DEF AttendInv, Keys, WaitingIsAttended
<1>2. ASSUME UNCHANGED <<queue, run>>, status' \in Waiting => status \in Waiting, lost => lost',
             \A d \in Callers : Queueing(d) => Queueing(d)'
      PROVE  Keys' /\ WaitingIsAttended'
  <2>1. \A j \in Jobs : Holds(j) => Holds(j)'
    BY <1>2 DEF Holds, RunsOf
  <2> QED BY <1>2, <2>1 DEF AttendInv, Keys, WaitingIsAttended, Attended
<1>3. CASE ReadForRetry(c)
  <2>1. ~Queueing(c) /\ GoTo(c, "reset") /\ UNCHANGED <<document, queue, run, lost>>
    BY <1>3 DEF ReadForRetry, Writing, Queueing
  <2> QED BY <1>0, <1>2, <2>1, CallerMoves DEF Queueing
<1>4. CASE requeueKnowledgeDocument(c)
  <2>1. CASE status \in Stored
    <3>1. Attended' /\ UNCHANGED <<queue, run>>
      BY <1>0, <1>4, <2>1, CallerMoves DEF requeueKnowledgeDocument, Attended, Queueing
    <3> QED BY <3>1 DEF AttendInv, Keys, WaitingIsAttended
  <2>2. CASE status \notin Stored
    <3>1. ~Queueing(c) /\ GoTo(c, "idle") /\ UNCHANGED <<status, queue, run, lost>>
      BY <1>4, <2>2 DEF requeueKnowledgeDocument, Queueing
    <3> QED BY <1>0, <1>2, <3>1, CallerMoves DEF Queueing
  <2> QED BY <2>1, <2>2
<1>5. CASE deleteKnowledgeDocument(c)
  BY <1>2, <1>5 DEF deleteKnowledgeDocument, Queueing, Waiting
<1>6. CASE releaseDeadJobDedupeKey(c)
  <2>1. Attended'
    BY <1>0, <1>6, CallerMoves DEF releaseDeadJobDedupeKey, Attended, Queueing
  <2> QED BY <1>6, <2>1 DEF releaseDeadJobDedupeKey, AttendInv, Keys, WaitingIsAttended
<1>7. CASE enqueue(c)
  <2>1. CASE EnqueueUnderKey /\ UNCHANGED run
    <3>1. /\ lost' \/ \E j \in Jobs : Holds(j)'
          /\ \A j \in keyed' : job'[j] \in {"pending", "running", "dead"}
          /\ \A j \in keyed' \ keyed : RunsOf(j) = {}
      BY <2>1, EnqueueHolds
    <3>2. ASSUME NEW e \in Executions, run[e].at = "requeue", run[e].job \in keyed'
          PROVE  FALSE
      BY <3>1, <3>2 DEF AttendInv, Keys, RunsOf
    <3> QED BY <2>1, <3>1, <3>2 DEF Keys, WaitingIsAttended, Attended
  <2>2. CASE GoTo(c, "giveUp") /\ UNCHANGED <<document, queue, run, lost>>
    BY <1>0, <1>2, <2>2, CallerMoves DEF Queueing
  <2> QED BY <1>7, <2>1, <2>2 DEF enqueue
<1>8. CASE giveUp(c)
  <2>1. UNCHANGED <<queue, run>>
    BY <1>8 DEF giveUp
  <2>2. status' \notin Waiting \/ lost'
    BY <1>8 DEF giveUp, MarkFailed, Stored, Waiting
  <2> QED BY <2>1, <2>2 DEF AttendInv, Keys, WaitingIsAttended
<1>9. CASE CallerDies(c)
  <2>1. CASE caller[c] # "reset"
    <3>1. lost' /\ UNCHANGED <<queue, run>>
      BY <1>9, <2>1 DEF CallerDies, AttendInv, Inv, Typed
    <3> QED BY <3>1 DEF AttendInv, Keys, WaitingIsAttended
  <2>2. CASE caller[c] = "reset"
    <3>1. ~Queueing(c) /\ GoTo(c, "idle") /\ UNCHANGED <<document, queue, run>> /\ (lost => lost')
      BY <1>0, <1>9, <2>2 DEF CallerDies, Queueing, Inv, Typed
    <3> QED BY <1>0, <1>2, <3>1, CallerMoves DEF Queueing
  <2> QED BY <2>1, <2>2
<1> QED
  BY <1>1, <1>3, <1>4, <1>5, <1>6, <1>7, <1>8, <1>9 DEF RequestStep

\* An execution that moves on and neither ends what it was to decide nor touches the queue.
LEMMA MovesAttend ==
  ASSUME AttendInv, NEW e \in Executions, run[e].at # "idle",
         NEW stage \in Stages \ {"idle"}, At(e, stage),
         UNCHANGED <<job, caller>>, keyed' \subseteq keyed, lost => lost',
         stage = "requeue" => run[e].job \notin keyed',
         status' \in Waiting => status \in Waiting /\ stage # "complete"
  PROVE  Keys' /\ WaitingIsAttended'
<1>1. /\ \A d \in Executions : run'[d].job = run[d].job
      /\ \A d \in Executions \ {e} : run'[d] = run[d]
      /\ run'[e].at = stage
  BY RunMoves DEF AttendInv, Inv
<1>2. Keys'
  BY <1>1 DEF AttendInv, Keys
<1>3. ASSUME status' \in Waiting, NEW j \in Jobs, Holds(j)
      PROVE  Holds(j)'
  BY <1>1, <1>3 DEF Holds, RunsOf
<1> QED
  BY <1>2, <1>3 DEF AttendInv, WaitingIsAttended, Attended, Queueing

LEMMA RunsAttend ==
  ASSUME AttendInv, NEW e \in Executions, Ingest(e) \/ Crash(e)
  PROVE  Keys' /\ WaitingIsAttended'
<1> USE DEF AttendInv, Inv
<1>1. CASE claimJob(e)
  <2>1. PICK j \in Jobs :
          /\ job[j] = "pending"
          /\ job' = [job EXCEPT ![j] = "running"]
          /\ run' = [run EXCEPT ![e] = [at |-> "find", job |-> j, text |-> NoText,
                                        attempt |-> attempts[j] + 1]]
    BY <1>1 DEF claimJob
  <2>2. /\ run'[e].at = "find" /\ \A d \in Executions \ {e} : run'[d] = run[d]
        /\ job'[j] = "running" /\ \A i \in Jobs \ {j} : job'[i] = job[i]
        /\ UNCHANGED <<status, keyed, caller, lost>>
    BY <1>1, <2>1 DEF claimJob, Typed
  <2>3. Keys'
    BY <2>1, <2>2 DEF Keys, Typed
  <2>4. \A i \in Jobs : Holds(i) => Holds(i)'
    BY <2>1, <2>2 DEF Holds, RunsOf
  <2> QED BY <2>2, <2>3, <2>4 DEF WaitingIsAttended, Attended, Queueing
<1>2. ASSUME NEW stage \in Stages \ {"idle"}, At(e, stage), run[e].at # "idle",
             UNCHANGED <<queue, caller, lost>>, stage # "requeue",
             status' \in Waiting => status \in Waiting /\ stage # "complete"
      PROVE  Keys' /\ WaitingIsAttended'
  BY <1>2, MovesAttend
<1>3. CASE findKnowledgeDocumentForIngest(e)
  <2>1. CASE At(e, "complete") /\ status \notin Stored
    BY <1>2, <1>3, <2>1 DEF findKnowledgeDocumentForIngest, Stages, Stored
  <2>2. CASE At(e, "throw")
    BY <1>2, <1>3, <2>2 DEF findKnowledgeDocumentForIngest, Stages
  <2>3. CASE run' = [run EXCEPT ![e] = [at |-> "claim", job |-> run[e].job,
                                        text |-> text, attempt |-> run[e].attempt]]
    <3>1. /\ run'[e].at = "claim" /\ run'[e].job = run[e].job
          /\ \A d \in Executions \ {e} : run'[d] = run[d]
          /\ UNCHANGED <<status, queue, caller, lost>>
      BY <1>3, <2>3 DEF findKnowledgeDocumentForIngest, Typed
    <3>2. \A j \in Jobs : Holds(j) => Holds(j)'
      BY <3>1 DEF Holds, RunsOf
    <3> QED BY <3>1, <3>2 DEF Keys, WaitingIsAttended, Attended, Queueing
  <2> QED BY <1>3, <2>1, <2>2, <2>3 DEF findKnowledgeDocumentForIngest
<1>4. CASE claimDocumentForIngest(e)
  BY <1>2, <1>4 DEF claimDocumentForIngest, Stages, Deciding, Waiting
<1>5. ASSUME Fail(e), run[e].at # "idle", UNCHANGED <<status, queue, caller, lost>>
      PROVE  Keys' /\ WaitingIsAttended'
  BY <1>2, <1>5 DEF Fail, Stages, Deciding
<1>6. CASE embedDrafts(e)
  BY <1>2, <1>5, <1>6 DEF embedDrafts, Stages, Deciding
<1>7. CASE swapChunks(e)
  BY <1>2, <1>5, <1>7 DEF swapChunks, Stages, Deciding, Stored, Waiting
<1>8. CASE releaseJobDedupeKey(e)
  <2>1. CASE At(e, "requeue") /\ keyed' = keyed \ {run[e].job}
    BY <1>8, <2>1, MovesAttend DEF releaseJobDedupeKey, Stages, Deciding
  <2> QED BY <1>5, <1>8, <2>1 DEF releaseJobDedupeKey
<1>9. CASE requeueSuperseded(e)
  <2>1. CASE At(e, "complete") /\ EnqueueUnderKey
    <3>1. /\ run[e].at = "requeue" /\ run[e].job \notin keyed /\ run[e].job \in Jobs
          /\ UNCHANGED <<status, caller>>
      BY <1>9, RunningHasJob DEF requeueSuperseded, Keys
    <3>2. /\ \A d \in Executions : run'[d].job = run[d].job
          /\ \A d \in Executions \ {e} : run'[d] = run[d]
          /\ run'[e].at = "complete"
      BY <2>1, <3>1, RunMoves DEF Stages
    <3>3. /\ lost' \/ \E j \in Jobs : Holds(j)'
          /\ \A j \in keyed' : job'[j] \in {"pending", "running", "dead"}
          /\ \A j \in keyed' \ keyed : RunsOf(j) = {}
      BY <2>1, <3>1, <3>2, EnqueueHolds
    <3>4. ASSUME NEW d \in Executions, run'[d].at = "requeue", run'[d].job \in keyed'
          PROVE  FALSE
      BY <3>2, <3>3, <3>4 DEF Keys, RunsOf
    <3> QED BY <3>3, <3>4 DEF Keys, WaitingIsAttended, Attended
  <2> QED BY <1>5, <1>9, <2>1 DEF requeueSuperseded
<1>10. CASE markDocumentFailed(e)
  <2>1. CASE MarkFailed
    BY <1>2, <1>10, <2>1 DEF markDocumentFailed, MarkFailed, Stages, Stored, Waiting
  <2>2. CASE At(e, "throw") /\ UNCHANGED status
    BY <1>2, <1>10, <2>2 DEF markDocumentFailed, Stages
  <2> QED BY <1>10, <2>1, <2>2 DEF markDocumentFailed
<1>11. CASE Complete(e)
  <2>1. PICK j \in Jobs : j = run[e].job
    BY <1>11, RunningHasJob DEF Complete
  <2>2. ~Holds(j) /\ run[e].at = "complete" /\ UNCHANGED <<status, caller, lost>>
    BY <1>11, <2>1 DEF Complete, Holds, RunsOf
  <2>3. CASE At(e, "throw") /\ UNCHANGED queue
    BY <1>2, <2>2, <2>3 DEF Stages
  <2>4. CASE /\ job' = [job EXCEPT ![j] = "done"] /\ keyed' = keyed \ {j} /\ Rest(e)
    <3>1. /\ \A d \in Executions \ {e} : run'[d] = run[d]
          /\ run'[e].at = "idle" /\ run'[e].job = NoJob
          /\ \A i \in Jobs \ {j} : job'[i] = job[i]
      BY <2>4, RunRests DEF Typed
    <3>2. Keys'
      BY <2>4, <3>1 DEF Keys, Typed
    <3>3. \A i \in Jobs : Holds(i) => Holds(i)'
      BY <2>2, <3>1, Parameters DEF Holds, RunsOf
    <3> QED BY <2>2, <3>2, <3>3 DEF WaitingIsAttended, Attended, Queueing
  <2> QED BY <1>11, <2>1, <2>3, <2>4 DEF Complete
<1>12. CASE FailJob(e)
  <2>1. PICK j \in Jobs : j = run[e].job
    BY <1>12, RunningHasJob DEF FailJob
  <2>2. /\ job' = [job EXCEPT ![j] = IF attempts[j] >= MaxAttempts THEN "dead" ELSE "pending"]
        /\ lost' = (lost \/ (attempts[j] >= MaxAttempts /\ status \in Waiting))
        /\ Rest(e) /\ UNCHANGED <<status, keyed, caller>>
    BY <1>12, <2>1 DEF FailJob
  <2>3. /\ \A d \in Executions \ {e} : run'[d] = run[d]
        /\ run'[e].at = "idle" /\ run'[e].job = NoJob
        /\ job'[j] \in {"dead", "pending"} /\ \A i \in Jobs \ {j} : job'[i] = job[i]
    BY <2>2, RunRests DEF Typed
  <2>4. Keys'
    BY <2>2, <2>3 DEF Keys, Typed
  <2>5. CASE attempts[j] >= MaxAttempts
    BY <2>2, <2>4, <2>5 DEF WaitingIsAttended
  <2>6. CASE ~(attempts[j] >= MaxAttempts)
    <3>1. job'[j] = "pending" /\ (lost => lost')
      BY <2>2, <2>6 DEF Typed
    <3>2. \A i \in Jobs : Holds(i) => Holds(i)'
      BY <2>3, <3>1, Parameters DEF Holds, RunsOf
    <3> QED BY <2>2, <2>4, <3>1, <3>2 DEF WaitingIsAttended, Attended, Queueing
  <2> QED BY <2>5, <2>6
<1>13. CASE Crash(e)
  <2>1. /\ \A d \in Executions \ {e} : run'[d] = run[d]
        /\ run'[e].at = "idle" /\ run'[e].job = NoJob
        /\ UNCHANGED <<status, queue, caller, lost>>
    BY <1>13, RunRests DEF Crash
  <2>2. \A i \in Jobs : Holds(i) => Holds(i)'
    BY <2>1, Parameters DEF Holds, RunsOf
  <2> QED BY <2>1, <2>2 DEF Keys, WaitingIsAttended, Attended, Queueing
<1> QED
  BY <1>1, <1>3, <1>4, <1>6, <1>7, <1>8, <1>9, <1>10, <1>11, <1>12, <1>13 DEF Ingest

(* The dedupe key drops no save on the floor: while a document waits, some *)
(* request is about to queue it or some unfinished job has no run past     *)
(* deciding on it, unless the loss is one of those `lost` records.         *)
THEOREM WaitingIsAttendedHolds == Spec => []WaitingIsAttended
<1>1. Init => AttendInv
  BY TypesInitially DEF Init, AttendInv, Keys, WaitingIsAttended, Waiting, Resting
<1>2. AttendInv /\ [Next]_vars => AttendInv'
  <2> SUFFICES ASSUME AttendInv, [Next]_vars PROVE AttendInv'
    OBVIOUS
  <2>1. Inv'
    BY TypeStep DEF AttendInv
  <2>2. ASSUME NEW j \in Jobs, ReclaimStalled(j)
        PROVE  Keys' /\ WaitingIsAttended'
    <3>1. /\ job[j] = "running" /\ job'[j] = "pending" /\ \A i \in Jobs \ {j} : job'[i] = job[i]
          /\ UNCHANGED <<status, keyed, run, caller, lost>>
      BY <2>2 DEF ReclaimStalled, AttendInv, Inv, Typed
    <3>2. \A i \in Jobs : Holds(i) => Holds(i)'
      BY <3>1 DEF Holds, RunsOf
    <3>3. Keys'
      BY <3>1 DEF AttendInv, Inv, Typed, Keys
    <3> QED BY <3>1, <3>2, <3>3 DEF AttendInv, WaitingIsAttended, Attended, Queueing
  <2>3. ASSUME UNCHANGED vars
        PROVE  Keys' /\ WaitingIsAttended'
    <3>1. UNCHANGED <<status, queue, run, caller, lost>>
      BY <2>3 DEF vars
    <3>2. \A i \in Jobs : Holds(i) => Holds(i)'
      BY <3>1 DEF Holds, RunsOf
    <3>3. Keys'
      BY <3>1 DEF AttendInv, Keys
    <3>4. Attended => Attended'
      BY <3>1, <3>2 DEF Attended, Queueing
    <3> QED BY <3>1, <3>3, <3>4 DEF AttendInv, WaitingIsAttended
  <2>4. ASSUME NEW c \in Callers, RequestStep(c)
        PROVE  Keys' /\ WaitingIsAttended'
    BY <2>4, RequestsAttend
  <2>5. ASSUME NEW e \in Executions, Ingest(e) \/ Crash(e)
        PROVE  Keys' /\ WaitingIsAttended'
    BY <2>5, RunsAttend
  <2>6. Keys' /\ WaitingIsAttended'
    BY <2>2, <2>3, <2>4, <2>5 DEF Next
  <2> QED BY <2>1, <2>6 DEF AttendInv
<1> QED
  BY <1>1, <1>2, PTL DEF Spec, AttendInv
=============================================================================
