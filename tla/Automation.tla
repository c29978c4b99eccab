----------------------------- MODULE Automation -----------------------------
(***************************************************************************)
(* One automation and one event, a conversation that has been idle since   *)
(* its last message: the scans that trigger the automation for it, the run *)
(* they share, the jobs that resume the run after each WAIT, and a person  *)
(* who edits, toggles or deletes the automation meanwhile (services/       *)
(* automation, repositories/automation.repository, jobs/handlers/          *)
(* automation.handler).  Runs for other events share its actions only.     *)
(* The rows of the resume jobs are as in JobQueue; their five attempts     *)
(* outlast MaxMishaps and are not counted.  currentActionPosition and      *)
(* runCount are written and decide nothing.                                *)
(***************************************************************************)
EXTENDS Naturals, Sequences, FiniteSets

CONSTANTS
    Lists,       \* action lists a person may save
    MaxActions,  \* the length of the longest, at most 51
    Slots,       \* executions of the scan and of automation.resume at once
    None,
    MaxEdits,    \* bound: times the actions are replaced
    MaxMishaps   \* bound: deaths, refused statements, locks that expire early

ASSUME AutomationParameters ==
    /\ \A l \in Lists : l \in Seq({"ACT", "WAIT"}) /\ Len(l) \in 1 .. MaxActions
    /\ MaxActions \in Nat /\ Slots \in Nat /\ MaxEdits \in Nat /\ MaxMishaps \in Nat

Workers == 1 .. Slots
Positions == 1 .. MaxActions
Indices == 1 .. MaxActions + 1
NoJob == 0

VARIABLES
    automation,  \* "on", "off" (isActive) or "gone"
    list,        \* its AutomationAction rows, in the order of their position
    draft,       \* the actions an edit has still to insert, or None
    run,         \* AutomationRun.status of the row with the event's dedupeKey, or "none"
    job,         \* automation.resume by action index; "none" without one to execute
    stage,       \* where each worker is
    steps, next, \* the actions it has read, and the one it comes to
    resumes,     \* the index of the resume job it executes, or NoJob
    performed,   \* history: how often the run has performed each position
    planned,     \* history: the list the run was created for
    touched,     \* history: the automation was edited after it was read for the run
    struck,      \* history: an execution died or could not record its end
    resumed,     \* history: action indices the run has been resumed at
    repeats,     \* history: resumptions at an index it had been resumed at before
    edits, mishaps

rows == <<automation, list, draft>>
worker == <<stage, steps, next, resumes>>
runHistory == <<performed, planned, touched, struck, resumed, repeats>>
automationVars == <<rows, run, job, worker, runHistory, edits, mishaps>>

-----------------------------------------------------------------------------
RunStates == {"none", "RUNNING", "WAITING", "COMPLETED", "FAILED"}
Unfinished == {"RUNNING", "WAITING"}
Steps == {"match", "lookup", "create", "act", "enqueue", "catch", "read", "resume", "finish"}

AutomationInit ==
    /\ automation = "on" /\ list \in Lists /\ draft = None
    /\ run = "none"
    /\ job = [p \in Indices |-> "none"]
    /\ stage = [w \in Workers |-> "idle"]
    /\ steps = [w \in Workers |-> <<>>] /\ next = [w \in Workers |-> 1]
    /\ resumes = [w \in Workers |-> NoJob]
    /\ performed = [p \in Positions |-> 0]
    /\ planned = <<>>
    /\ touched = FALSE /\ struck = FALSE /\ resumed = {} /\ repeats = 0
    /\ edits = 0 /\ mishaps = 0

Mishap == mishaps < MaxMishaps /\ mishaps' = mishaps + 1
Smooth == UNCHANGED mishaps
GoTo(w, step) == stage' = [stage EXCEPT ![w] = step] /\ UNCHANGED <<steps, next, resumes>>

Leave(w) ==
    /\ stage' = [stage EXCEPT ![w] = "idle"]
    /\ steps' = [steps EXCEPT ![w] = <<>>] /\ next' = [next EXCEPT ![w] = 1]
    /\ resumes' = [resumes EXCEPT ![w] = NoJob]

SetJob(w, st) ==
    job' = IF resumes[w] = NoJob THEN job ELSE [job EXCEPT ![resumes[w]] = st]

\* updateAutomationRun: updateMany by id, which a deleted row does not mind.
updateAutomationRun(st) == run' = IF run = "none" THEN run ELSE st

Strike(w) == struck' = (struck \/ stage[w] \in {"act", "enqueue", "catch"})

-----------------------------------------------------------------------------
(* Triggering: scanAndTriggerIdleConversations and triggerAutomations.     *)

\* Workers differ by nothing but their number: the first free one is taken.
FirstFree(w) == stage[w] = "idle" /\ \A v \in 1 .. w - 1 : stage[v] # "idle"

scanAndTriggerIdleConversations(w) ==
    /\ FirstFree(w) /\ automation = "on"
    /\ stage' = [stage EXCEPT ![w] = "match"]
    /\ UNCHANGED <<rows, run, job, steps, next, resumes, runHistory, edits, mishaps>>

findActiveAutomationsByTrigger(w) ==
    /\ stage[w] = "match"
    /\ IF automation = "on"
         THEN /\ stage' = [stage EXCEPT ![w] = "lookup"] /\ steps' = [steps EXCEPT ![w] = list]
              /\ UNCHANGED <<next, resumes>>
         ELSE Leave(w)
    /\ UNCHANGED <<rows, run, job, runHistory, edits, mishaps>>

findAutomationRunByDedupeKey(w) ==
    /\ stage[w] = "lookup"
    /\ IF run = "none" THEN GoTo(w, "create") ELSE Leave(w)
    /\ UNCHANGED <<rows, run, job, runHistory, edits, mishaps>>

\* Mutant: dedupeKey is not unique.
createAutomationRunMutant(w) ==
    /\ stage[w] = "create"
    /\ run' = "RUNNING"
    /\ planned' = steps[w]
    /\ GoTo(w, "act")
    /\ UNCHANGED <<rows, job, performed, touched, struck, resumed, repeats, edits, mishaps>>

\* A second row for the key, or one for a deleted automation, throws.
createAutomationRun(w) ==
    /\ stage[w] = "create"
    /\ IF run = "none" /\ automation # "gone"
         THEN /\ run' = "RUNNING"
              /\ planned' = steps[w]
              /\ GoTo(w, "act")
         ELSE Leave(w) /\ UNCHANGED <<run, planned>>
    /\ UNCHANGED <<rows, job, performed, touched, struck, resumed, repeats, edits, mishaps>>

-----------------------------------------------------------------------------
(* executeAutomationActions.                                               *)

HasNext(w) == next[w] <= Len(steps[w])

Effect(w) == performed' = [performed EXCEPT ![next[w]] = @ + 1]

\* The action throws before or after its effect, or goes well and the position advances.
executeSingleAction(w) ==
    /\ stage[w] = "act" /\ HasNext(w) /\ steps[w][next[w]] # "WAIT"
    /\ \/ Effect(w) /\ next' = [next EXCEPT ![w] = @ + 1] /\ UNCHANGED <<stage, steps, resumes>>
       \/ Effect(w) /\ GoTo(w, "catch")
       \/ UNCHANGED performed /\ GoTo(w, "catch")
    /\ UNCHANGED <<automation, list, draft, run, job, planned, touched, struck, resumed, repeats, edits, mishaps>>

Wait(w) ==
    /\ stage[w] = "act" /\ HasNext(w) /\ steps[w][next[w]] = "WAIT"
    /\ \/ updateAutomationRun("WAITING") /\ GoTo(w, "enqueue")
       \/ UNCHANGED run /\ GoTo(w, "catch")
    /\ UNCHANGED <<rows, job, runHistory, edits, mishaps>>

\* Mutant: the resume job keeps the position of the WAIT.
enqueueResumeMutant(w) ==
    /\ stage[w] = "enqueue"
    /\ job' = [job EXCEPT ![next[w]] = IF @ = "none" THEN "due" ELSE @]
    /\ GoTo(w, "finish")
    /\ UNCHANGED <<rows, run, runHistory, edits, mishaps>>

\* An unfinished job with the key stands for this one.
enqueueResume(w) ==
    /\ stage[w] = "enqueue"
    /\ \/ /\ job' = [job EXCEPT ![next[w] + 1] = IF @ = "none" THEN "due" ELSE @]
          /\ GoTo(w, "finish")
       \/ UNCHANGED job /\ GoTo(w, "catch")
    /\ UNCHANGED <<rows, run, runHistory, edits, mishaps>>

\* An error that cannot be recorded leaves the function and the handler.
Escape(w) ==
    /\ Mishap
    /\ Strike(w) /\ SetJob(w, "due") /\ Leave(w)
    /\ UNCHANGED <<run, performed, planned, touched, resumed, repeats>>

\* Mutant: the error is logged and the loop left.
recordFailureMutant(w) ==
    /\ stage[w] = "catch"
    /\ GoTo(w, "finish")
    /\ UNCHANGED <<rows, run, job, runHistory, edits, mishaps>>

recordFailure(w) ==
    /\ stage[w] = "catch"
    /\ \/ updateAutomationRun("FAILED") /\ GoTo(w, "finish") /\ Smooth /\ UNCHANGED <<job, runHistory>>
       \/ Escape(w)
    /\ UNCHANGED <<rows, edits>>

recordCompletion(w) ==
    /\ stage[w] = "act" /\ ~HasNext(w)
    /\ \/ updateAutomationRun("COMPLETED") /\ GoTo(w, "finish") /\ Smooth /\ UNCHANGED <<job, runHistory>>
       \/ Escape(w)
    /\ UNCHANGED <<rows, edits>>

\* The audit entry is refused, or the handler returns and its job completes.
FinishRun(w) ==
    /\ stage[w] = "finish"
    /\ \/ SetJob(w, "none") /\ Leave(w) /\ Smooth /\ UNCHANGED <<run, runHistory>>
       \/ Escape(w)
    /\ UNCHANGED <<rows, edits>>

-----------------------------------------------------------------------------
(* The automation.resume job: resumeAutomation.                            *)

Claim(w, p) ==
    /\ FirstFree(w) /\ job[p] = "due"
    /\ job' = [job EXCEPT ![p] = "running"]
    /\ stage' = [stage EXCEPT ![w] = "read"]
    /\ next' = [next EXCEPT ![w] = p] /\ resumes' = [resumes EXCEPT ![w] = p]
    /\ UNCHANGED <<rows, run, steps, runHistory, edits, mishaps>>

\* Mutant: an automation that is off is not resumed.
findAutomationRunByIdMutant(w) ==
    /\ stage[w] = "read"
    /\ IF run = "WAITING" /\ automation = "on"
         THEN /\ stage' = [stage EXCEPT ![w] = "resume"] /\ steps' = [steps EXCEPT ![w] = list]
              /\ UNCHANGED <<next, resumes>>
         ELSE GoTo(w, "finish")
    /\ UNCHANGED <<rows, run, job, runHistory, edits, mishaps>>

\* The actions are those the automation has now; whether it is on is not asked.
findAutomationRunById(w) ==
    /\ stage[w] = "read"
    /\ IF run = "WAITING"
         THEN /\ stage' = [stage EXCEPT ![w] = "resume"] /\ steps' = [steps EXCEPT ![w] = list]
              /\ UNCHANGED <<next, resumes>>
         ELSE GoTo(w, "finish")
    /\ UNCHANGED <<rows, run, job, runHistory, edits, mishaps>>

\* By id alone: whether the run is WAITING, and for this index, is not asked.
resumeAutomation(w) ==
    /\ stage[w] = "resume"
    /\ \/ /\ updateAutomationRun("RUNNING")
          /\ resumed' = resumed \cup {next[w]}
          /\ repeats' = IF next[w] \in resumed THEN repeats + 1 ELSE repeats
          /\ GoTo(w, "act") /\ Smooth
          /\ UNCHANGED <<job, performed, planned, touched, struck>>
       \/ Escape(w)
    /\ UNCHANGED <<rows, edits>>

Crash(w) ==
    /\ stage[w] # "idle"
    /\ Mishap
    /\ Strike(w) /\ Leave(w)
    /\ UNCHANGED <<rows, run, job, performed, planned, touched, resumed, repeats, edits>>

Alive(p) == \E w \in Workers : resumes[w] = p

\* reclaimStalledJobs: the lock expired, of a worker that died or of one that is slow.
ReclaimStalled(p) ==
    /\ job[p] = "running"
    /\ job' = [job EXCEPT ![p] = "due"]
    /\ \/ ~Alive(p) /\ Smooth
       \/ Alive(p) /\ Mishap
    /\ UNCHANGED <<rows, run, worker, runHistory, edits>>

-----------------------------------------------------------------------------
(* People who manage the automation.                                       *)

toggleAutomation ==
    /\ automation # "gone"
    /\ automation' = IF automation = "on" THEN "off" ELSE "on"
    /\ UNCHANGED <<list, draft, run, job, worker, runHistory, edits, mishaps>>

\* The runs and actions go with it; the resume jobs stay.
deleteAutomation ==
    /\ automation # "gone" /\ automation' = "gone"
    /\ list' = <<>> /\ draft' = None
    /\ run' = "none"
    /\ UNCHANGED <<job, worker, runHistory, edits, mishaps>>

\* updateAutomation deletes the actions in one statement and inserts in another.
deleteActions(l) ==
    /\ automation # "gone" /\ draft = None /\ edits < MaxEdits
    /\ list' = <<>> /\ draft' = l
    /\ edits' = edits + 1
    /\ touched' = (touched \/ run # "none" \/ \E w \in Workers : stage[w] \in {"lookup", "create"})
    /\ UNCHANGED <<automation, run, job, worker, performed, planned, struck, resumed, repeats, mishaps>>

\* It inserts them, or the process dies first.
insertActions ==
    /\ draft # None /\ draft' = None
    /\ \/ list' = draft /\ Smooth
       \/ UNCHANGED list /\ Mishap
    /\ UNCHANGED <<automation, run, job, worker, runHistory, edits>>

-----------------------------------------------------------------------------
triggerAutomations(w) ==
    \/ findActiveAutomationsByTrigger(w) \/ findAutomationRunByDedupeKey(w) \/ createAutomationRun(w)

executeAutomationActions(w) ==
    \/ executeSingleAction(w) \/ Wait(w) \/ enqueueResume(w)
    \/ recordFailure(w) \/ recordCompletion(w)

Execute(w) ==
    \/ triggerAutomations(w) \/ executeAutomationActions(w)
    \/ findAutomationRunById(w) \/ resumeAutomation(w) \/ FinishRun(w)

AutomationNext ==
    \/ \E w \in Workers : scanAndTriggerIdleConversations(w) \/ Execute(w) \/ Crash(w)
    \/ \E w \in Workers, p \in Indices : Claim(w, p)
    \/ \E p \in Indices : ReclaimStalled(p)
    \/ toggleAutomation \/ deleteAutomation
    \/ \E l \in Lists : deleteActions(l)
    \/ insertActions

AutomationSpec == AutomationInit /\ [][AutomationNext]_automationVars

(* A process that lives goes on; the queue claims what is due and reclaims *)
(* what a dead worker held.  Scans and people act when they please.        *)
FairAutomationSpec ==
    /\ AutomationSpec
    /\ \A w \in Workers : WF_automationVars(Execute(w))
    /\ SF_automationVars(\E w \in Workers, p \in Indices : Claim(w, p))
    /\ WF_automationVars(\E p \in Indices : ~Alive(p) /\ ReclaimStalled(p))

-----------------------------------------------------------------------------
(* Properties.                                                             *)

AutomationTypeOK ==
    /\ automation \in {"on", "off", "gone"}
    /\ list \in Lists \cup {<<>>} /\ draft \in Lists \cup {None}
    /\ run \in RunStates
    /\ job \in [Indices -> {"none", "due", "running"}]
    /\ job[1] = "none"
    /\ stage \in [Workers -> Steps \cup {"idle"}]
    /\ steps \in [Workers -> Lists \cup {<<>>}]
    /\ \A w \in Workers : stage[w] = "enqueue" => HasNext(w)
    /\ next \in [Workers -> Indices]
    /\ resumes \in [Workers -> Indices \cup {NoJob}]
    /\ performed \in [Positions -> Nat]
    /\ planned \in Lists \cup {<<>>}
    /\ touched \in BOOLEAN /\ struck \in BOOLEAN
    /\ resumed \subseteq Indices /\ repeats \in Nat
    /\ edits \in 0 .. MaxEdits /\ mishaps \in 0 .. MaxMishaps

(* Scans that overlap, retries of a job, edits and toggles included, a run *)
(* performs the action at a position once, and once more at most for each  *)
(* time it was resumed at an index it had been resumed at before.          *)
OnceUnlessRepeated == \A p \in Positions : performed[p] <= 1 + repeats

(* A run that is RUNNING has a worker on it, and one that is WAITING has a *)
(* resume job or a worker about to enqueue it, unless an execution died or *)
(* a resumption was repeated.                                              *)
Handled == \E w \in Workers : stage[w] \in {"act", "enqueue", "catch"}
UnfinishedIsHeld ==
    \/ struck \/ repeats > 0
    \/ /\ run = "RUNNING" => Handled
       /\ run = "WAITING" => Handled \/ \E p \in Indices : job[p] # "none"

(* A run ends, unless an execution of it died after the run had begun or   *)
(* been resumed, or one resumption was repeated: nothing then revives it,  *)
(* since the retried scan and the retried job pass it over.                *)
EveryRunEnds == (run \in Unfinished) ~> (run \notin Unfinished \/ struck \/ repeats > 0)
=============================================================================
