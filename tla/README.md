# WhatsApp OS in TLA+

TLA+ specifications of the parts of WhatsApp OS whose correctness depends on the order in which
concurrent requests, workers, crashes, people and two providers act: the background queue, orders
and inventory, messages in and out, the AI's turns, approvals, knowledge ingestion, automations,
the team, billing and the WhatsApp channel. TLC checks each on a small instance, and
TLAPS proves the safety properties of each for every value of the constants, among them that knowledge
ingestion implements an abstract specification of what it promises.

Paths below are relative to `src/`.

## 1. The system

A multi-tenant Next.js application for small shops that sell over WhatsApp. Web processes serve
server actions and webhooks; worker processes poll a PostgreSQL table for jobs; PostgreSQL (Prisma,
READ COMMITTED) is the only shared state. There are no locks besides row locks, one
`FOR UPDATE SKIP LOCKED`, and unique indexes, and most services use no transaction at all, so almost
every property below is about what happens *between* two statements.

    customer ── Meta ──> webhook route ──> WebhookEvent + job ──> worker: processWebhookEvent
                                                                     │ contact, conversation, message
                                                                     ▼
                           automations <── triggers ──────────── job ai.respond ──> AI turn, tools
                                                                     │                  │ orders, approvals
                                                                     ▼                  ▼
    customer <── Meta <── dispatchOutboundMessage <── job whatsapp.send_message    orders, inventory
                  └── receipts (sent, delivered, read, failed) ──> processStatusUpdate

    owner ──> knowledge, team, plan, channel ──> rows, jobs, Meta and the payment provider

### Inventory of components

| Component | State | Operations | What is hard | What makes it correct |
|---|---|---|---|---|
| **Job queue and worker** `server/jobs`, `job.repository.ts` | `jobs` rows (status, attempts, runAfter, lock, dedupeKey); slots of each worker | enqueue, claim, run, complete, fail, reclaim, drain, prune | two workers, crashes, locks that expire under a live handler, reports by id alone | one runner per row, budgets kept, outcomes true and final, one unfinished job per key, every job settles |
| **Orders and inventory** `order.service.ts`, `inventory.repository.ts`, `stock.service.ts` | orders, their items, `inventory_items` (available, reserved, sold), contact aggregates | place, change status, cancel, stocktake, movement | check-then-act across statements, row locks in item order, aborts | units conserved, shelf agrees with orders, sequential numbers, no deadlock but over crossed lines |
| **Outbound dispatch** `outbound.service.ts`, `dispatch-outcome.ts`, `send-failure.ts` | message status, provider id, `deliveryUncertainAt`; the provider | four checks, ceiling, send, record, flag, fail; receipts | the provider has no idempotency key; lost answers; crash between acceptance and record; receipts out of order | one copy, no claim that is false, every queued message settles |
| **Inbound webhooks** `webhook.parser.ts`, `webhook-processor.service.ts`, `inbound.service.ts` | webhook events and their jobs, contacts, conversations, messages | persist event and job, find or create, store, mark, enqueue the turn | retries after partial work | every stored message is attended to |
| **AI turn and delivery** `ai-turn.handler.ts`, `agent-runtime.service.ts`, `reply-delivery.service.ts`, `handoff.service.ts` | AITurn rows, `aiEnabled`, replies, orders the tool placed | run the loop, call tools, record, hand off, deliver | takeover while the model thinks; retries after tools have acted; tools that outlive their timeout | no reply and no order begun after a takeover, one reply and one order per turn, what is said is recorded |
| **Approvals** `approval.service.ts` | ActionApproval status, the order | request, approve, reject, revalidate, execute | status written unconditionally after a read; crash before execution | one effect per approval, no claim without the deed, none stuck |
| **Knowledge ingestion** `services/knowledge` | document status and text, chunks, its job and dedupe key | create, edit, retry, delete, ingest, swap | edit during ingestion, late failure, dedupe key of a job about to end | answers come from a current text; no save is lost |
| **Automations** `automation-engine.service.ts` | run, resume jobs, action rows | trigger, execute, wait, resume, edit, toggle, delete | run row before resume job; two resumptions of one run | each action once; waiting runs resume |
| **Membership** `member.service.ts`, `member-rules.ts` | members, roles, invitations | invite, revoke, accept, change role and status, remove, leave, transfer | rules evaluated on facts read before | always an active owner; seats within the plan |
| **Plans, quotas, billing** `services/billing`, `subscription.service.ts` | subscription row; the provider's subscriptions and events | checkout, update and end events; downgrade, cancel, resume | events late, replayed, together | what is in force is what is paid for |
| **Channel** `meta-onboarding.service.ts`, `meta-connection-health.service.ts` | accounts, numbers, token, status | connect, disconnect, check, report an error | sequences of statements and calls to Meta without a transaction | connected means proven and heard |
| Maintenance `maintenance.handler.ts`, `worker-entry.ts` | job, session, bucket rows | sweep, schedule | scheduling itself | sweeps go on |
| Rate limiter `server/ratelimit` | counters per fixed window | consume, consumeDual, sweep | a window worked out by one clock and compared with another | at most the limit per window, up to what is swept early |
| Sessions and authentication `session.service.ts`, `tenancy/resolve.ts` | sessions, tokens | sign in, validate, renew, revoke, sweep | renewals, deletions and the sweep out of order | a session in use lives on |
| Conversations, contacts, products, lifecycle, analytics, UI, configuration | their records | mostly single-row writes, reads, pure derivations | little | - |

The parts in bold are modelled, wholly or in part. Every component, with what is left out and why, is
listed in `PROJECT.json` under `components`; every known hazard, at its line and with the properties
that cover it, under `hazards`.

## 2. The modules

| Module | What it is | Composed with |
|---|---|---|
| `JobQueue` | the queue, its callers and its workers | |
| `OrderLifecycle` | order statuses and their legal transitions | |
| `OrderInventory` | orders, their transactions and the shelf | EXTENDS `OrderLifecycle` |
| `OutboundSend` | dispatch of a message, the provider, receipts, and the job around it | |
| `AiTurn` | a message's `ai.respond` job, its turn, reply and handoff | |
| `Inbound` | webhook events and their jobs, up to that job | EXTENDS `AiTurn`; its `Next` is either's |
| `Approval` | decisions about an order and their execution | EXTENDS `OrderLifecycle` |
| `PublishedCorpus` | what knowledge ingestion promises of a document (abstract) | |
| `KnowledgeIngest` | the requests, jobs and attempts that keep the promise | INSTANCE `PublishedCorpus` |
| `Automation` | an automation's run, its resume jobs and its editors | |
| `Team` | memberships, invitations and seats | |
| `Billing` | the subscription row, the owner and the payment provider | |
| `Channel` | accounts, numbers, connections, checks and errors | |
| `JobQueue_proofs`, `OrderInventory_proofs`, `OutboundSend_proofs`, `KnowledgeIngest_proofs`, `Approval_proofs`, `Channel_proofs` | the theorems about the component | EXTENDS the component |
| `Inbound_proofs` | the theorems about `Inbound` and the `AiTurn` in it | EXTENDS `Inbound` |
| `Workspace_proofs` | the theorems about what a workspace's owner sets up: `Team`, `Billing`, `Automation` | EXTENDS the three |
| `MC...` | instances for TLC | EXTENDS the component |

`PROJECT.json` (`map`) gives the lines each definition stands for. Common conventions:

* An action is one database statement, or one step of a process between two statements; whatever
  a function reads in one statement and uses in another is kept in the process's own state (`phase`,
  `req`, `run`, `at`, `seen`, `saw`, ...), so everything else can happen in between.
* Variables marked `history` only record; no guard reads them.
* Bounds are constants named `Max...`, with `Asked` and `Starts` for the statuses people ask for and
  begin from, and appear in guards only. A *mishap* is a process that dies, a statement the database
  refuses, or a lock that is taken to have expired under a live run; one bound counts all three.
* `CHECK_DEADLOCK FALSE` is set because each instance has finite work: the real system waits for more.
* Where a component has its own job, the module carries as much of the queue as its job needs:
  a claim counts an attempt, a lock may be taken to have expired, a report goes by the row's id alone.
  `JobQueue` is the detailed account of that queue.
* Definitions named `...Mutant`, and a few more under a comment that begins "Mutant", are plausible
  bugs in the definition below them. They are not part of the specification; substituting one must make
  the property listed for it in `PROJECT.json` fail.

### JobQueue

A row's columns are functions on `Jobs`; a worker has `Concurrency` slots, and `phase`/`doing` say
where each slot's `runJob` is. `Enqueue`, `LookUpExisting` and `Recreate` are the three statements of
`insertJob`. `Claim` is the single claiming UPDATE (eligible, by priority, limited to free slots)
together with the parsing that marks malformed rows for rejection; `StartBatch` starts the batch, `LoseBatch` is
a claim that commits and throws. `HandlerReturns`/`HandlerThrows`, then `Complete`, or
`ReadForFailure` followed by `MarkRetrying` or `MarkDead`, are the report; `CompleteThrows` is the completing write
failing inside the same `try`. `Stop`, `Exit` and `Start` are SIGTERM, the drain and the supervisor,
`Crash` any sudden death. `LockExpires` and `ReclaimStalled` are the five-minute lock: nothing
prevents the lock of a live handler from expiring, since there is no heartbeat. Time is abstracted to
`due` and to `lock` being fresh or expired. Handlers are opaque: they return, throw or release their own key.

### OrderInventory

A request is a transaction; `req[r].at` is the statement it is at. `stock` is the newest version of
a row, `visible` the committed one, and `Sees` which of the two a statement of a request reads, as
READ COMMITTED has it. `BeginCreate`, `CheckLine` (one stock check per line), `generateOrderNumber`,
`InsertOrder`, `MoveLine` (one reservation per line), `CommitCreate` are createOrder;
`updateOrderStatus`/`cancelOrder`, `MoveLine`, `CommitTransition` the other two. A write takes the
row's lock till the end, waits for another's, and re-evaluates its filter (`Matches`) when it gets
it; a filter that matches nothing moves nothing, and the code does not notice. `setAvailable` and
`adjustAvailable` are single statements. `Abort` is a lost transaction. `WaitsFor` is who waits for whose row or
order number, `Cycle` a deadlock, and `DeadlockVictim` PostgreSQL's detector, which aborts one of it; no property is about the detector.
What the code decides is in which order rows are locked: an order's lines are taken as they were entered, and its items, which are
read without ORDER BY, are assumed to come back in that one order. The database is external and modelled by what the code relies on.

### OutboundSend

`Read` is the first read with checks 1 and 2 (`FirstGates`), `Reread` check 3 (a SENDING row is read
again) and check 4 (the uncertain flag, *of the first read*), `Limit` the ceiling, `Mark`/`WriteSending` the two
statements of updateMessageStatus, `Stumble` any error before the send. `Answered`, `Refused` and
`Unanswered` are the outcomes of the call; an unanswered call may have been accepted.
`persistDispatchResult` is one of three attempts to record, each of which can fail before or after its write; `MarkUncertain`
and `MarkFailed` the two error writes; `Returns`/`Throws` the report of the job. A crash and a reclaimed lock can
strike at each point. `ReadReceipt`/`ApplyReceipt` are the two statements of a receipt, in any order
among receivers. `lost` counts the events after which nobody can rule out another copy: an accepted
send that was neither recorded nor flagged, and a job handed out beside a live run of it.

The queue appears here as far as one message's job needs it (pending, running, done, dead, attempts,
reclaim, report by id alone); `JobQueue` is the detailed account of that queue.

### Inbound and AiTurn

`persistLogicalEvent` is the route: event and job in one transaction, or neither. A `Hook` is an
attempt of that job: `OpenEvent`, the three find-or-create pairs of `processInboundMessage`, `MarkProcessed`,
`EnqueueAiRespond`. `AiTurn` is the `ai.respond` job it enqueues: `findAITurnByMessageId` is the handler's
test for a turn that is already recorded; `LoadContext` (the takeover, the rate, the agent), the loop of `BeforeWrite`/`createOrder`,
`ToolTrouble` and `Answer`, `Recheck` (the last look at `aiEnabled`) and `createAITurn`/`TurnRefused` are
executeAgentTurn; `triggerHumanHandoff` its transaction; `LookForReply`, `createMessage`, `enqueueSend` deliverAgentReply.
What the model says is a choice between answering, saying nothing and handing off; of the tools that write only `create_order` is
kept, since it alone writes what a retry repeats. `toggleConversationAi` is the person who takes the conversation over or
gives it back, at any time.

The runtime races a tool's handler against ten seconds and does not cancel it. So `createOrder` commits the order while its
run waits for it, and `OrderFails` gives the run an error with the call ended or still going on (`slow`). The run may then ask the model again, call again
under the same key, record its turn, hand over, answer, end or die, and the call left behind commits at any point of that
(`AbandonedOrder`) or after the run's end (`LateOrder`, counted in `late`). The process's death loses a call or leaves a COMMIT on its way; `late` stands for both, since a
late order is never obliged to commit. An `ordered` run has its order, and all calls of one execution place one.

Three histories name what the properties allow. `exposed` counts, at each takeover, the orders of a message that were placed or under way; `warned` are the runs
that were between their last look at `aiEnabled` and the write of their reply then; `unrecorded` counts turn rows that were refused though
the message had none.

### Approval

A row is `status` and `kind`; the order is its status, since the checks ask for nothing else. `approveRequest` and
`rejectRequest` are the reads, `MarkApproved` and `MarkRejected` the unconditional writes, then statement by statement
the approval's audit row, `revalidate`, `markStale`, `cancelOrUpdateOrder` (which looks at the order again),
`CommitToOrder`, `MarkExecuted`, `AuditExecuted` and the `catch` that marks FAILED. `OrderMoves` is anyone
else's change of the order. `granted` and `effects` count approvals and deeds, `overlapped` names requests with
a decision written over another one.

### KnowledgeIngest and PublishedCorpus

`PublishedCorpus` has four variables - the current text, the text served, whether the document claims to be fresh,
whether it is gone - and four actions: Save, Doubt, Publish, Remove. `KnowledgeIngest` has the row, its job rows with the dedupe key,
the executions of the handler and the requests. A save is `createKnowledgeDocument`, `updateKnowledgeDocument` or `ReadForRetry`
with `requeueKnowledgeDocument`, followed by scheduleIngest: `releaseDeadJobDedupeKey`, `enqueue` and, when either throws, `giveUp`.
An execution is `findKnowledgeDocumentForIngest`, `claimDocumentForIngest`, `embedDrafts`, `swapChunks` (one transaction
under the row's lock, which compares the hash again) and, when the text was superseded, `releaseJobDedupeKey` and `requeueSuperseded`;
`markDocumentFailed` and the report end it. A text stands for its content hash, so an old text can come back. The refinement mapping is
`current <- IF status \in Stored THEN text ELSE NoText`, `served <- published`, `fresh <- status = "READY"`,
`gone <- status = "deleted"`: a save is Save, a retry, a failure or giving up is Doubt, a deletion is Remove, the swap
is Publish, everything else stutters. `lost` records the ways in which the code does drop a save: a process that dies after it
saved, a failure that cannot be written down, an enqueue answered by a row that is decided already, a last attempt that fails.

### Automation

One automation, one event. `scanAndTriggerIdleConversations`, `findActiveAutomationsByTrigger`,
`findAutomationRunByDedupeKey` and `createAutomationRun` are the trigger's statements; `executeSingleAction`, `Wait`, `enqueueResume`,
`recordFailure`, `recordCompletion` the loop over the actions as they were read; `findAutomationRunById` and `resumeAutomation` the resume job, which
reads the actions anew. An edit is two statements (`deleteActions`, `insertActions`); `toggleAutomation` and `deleteAutomation` may strike
at any moment. An action is `ACT` or `WAIT`: what an action does is counted in `performed`, by position.

### Team

Every request reads the caller's membership (`Begin`), then the facts of its rule (`CheckTarget`, `CheckLeave`, `CheckInvite`, `CheckAccept`),
then writes by id. `saw` are the facts it was allowed on. `Crosses` says that ownership has moved since they were read - the target or the leaver has become the owner, the one who transfers
is the owner no more or hands it to someone suspended meanwhile, or a second owner has gone - and `crossed` records that such a write was made. Everything else that changes between
rule and write (roles below the owner's, other suspensions, removals, invitations) is left to the property.
`getCurrentLimitUsage` is the teamMembers quota: active members and pending invitations. MANAGER and VIEWER are left out, since in these rules they
hold what AGENT holds: nothing.

### Billing

The provider holds subscriptions and emits an event for each change (`CheckOut`, `Update`, `End`); it delivers any of them at any time, any number
of times, two at once (`processBillingWebhook`, `FinishDelivery`, `Fail`). The row's columns change by the three event handlers and by the owner's
`changeSubscriptionPlan`, `cancelSubscription` and `resumeSubscription`; `PeriodEnds` is the calendar, and `resolveEffectivePlanKey` the plan in force.

### Channel

Accounts and numbers are single rows with unique Meta ids. A connection is `verifyAssets`, the two reads of assertAssetsUnclaimed, the quota, the calls to Meta (`askMeta`),
`upsertAccount`, `upsertPhone`, `readBack`, `updateAccountConnectionState`, `markPhoneNumberRegistered`; a disconnection is
`disconnectAccount` and `disconnectPhones`; a health check is a read and `finish`; `send`, `recordSendFailure` and `updateAccountError` are the send path's report.
`Throw` ends any of them anywhere. The histories name what the code lets happen: `byCheck` (a check wrote the status last), `outrun` (a verdict landed after the token had gone),
`misjudged` (a check that read the account without a token wrote its verdict over a token that had come since),
`tangled` (a connection was cut short or interfered with). `settled` are the numbers connected with a token and not written to by a disconnection's statement since,
whatever checks, errors and other connections were or are in flight.

## 3. What is checked

States are distinct states found by TLC.

| Run | Instance | Shows |
|---|---|---|
| `jobqueue` | two rows (budgets 2 and 1), one malformed, one worker of two slots, two callers of one key, one outage, one stall | `RunnersBoundedByReclaims`, `AttemptsBoundedByReclaims`, `DeadMeansSpent`, `OneUnfinishedJobPerKey`, `FinishedStaysFinished`, `EveryJobSettles`. A worker of two slots that may be drained or die and be restarted, two rows with budgets of two and one, one of them malformed, two racing callers with one dedupe key, and a handler outliving its lock: ownership, budgets, outcomes and dedupe keys under every interleaving, and every queued row settles when workers come back and handlers end. |
| `orders_safety` (2.0M) | two requests, two orders of one product, one with the product on two lines, six statuses to ask for, three units, one abort | `UnitsConserved`, `OrderNumbersSequential`, `ShelfMatchesOrders`. Two concurrent requests place, deliver, return and cancel two orders for one product, one of them with two lines of it, under an aborted transaction: the shelf and the order numbers. |
| `orders_deadlock` (406k) | two requests, two orders that take two products in one order and a third that takes them in the other, one stocktake or movement | `DeadlocksAreCrossed`. Two requests place and cancel orders over two rows while a stocktake or a movement by hand lands in between: they wait in a cycle only when the lines of their orders cross, never over an order number or over one order. |
| `outbound_send` | one queued message, three attempts, two executions, one receiver, one stall, one crash | `OneCopyPerLoss`, `DoneMeansAccountedFor`, `StatusIsTrue`, `EveryMessageSettles`. One queued message with three attempts, two executions, a reclaimed lock, a crash, every provider outcome and failed bookkeeping, receipts landing in between: how many copies the customer gets, whether row and job tell the truth, and that the message settles. |
| `knowledge` (360k) | two texts, two job rows, two executions, one caller, budget 2, two writes, one mishap | `WaitingIsAttended`, `PublishesAsPromised`, `EverySaveSettles`. One document saved twice, retried and deleted while two executions of its two jobs run, with one process death, expired lock or refused statement: what is answered from stays as promised, and no save is dropped in a way the model does not name. |
| `approval` | a request to cancel and one to edit or for a person, two managers, one change of the order by others, one mishap, three statuses to begin from | `EachEffectIsApproved`, `ExecutedMeansDone`, `RefusedMeansUntouched`, `ApprovalConcludes`. Two managers approve and reject two requests about one order, which a third person moves on meanwhile, with one process death or refused statement: what each request ends as, and what was done to the order. |
| `conversation` (470k) | one message, two conversations, two runs of the turn, one attempt of the event at a time, three attempts, one toggle, two mishaps | `TypeOK`, `RepliesAreRecorded`, `OneReplyPerMessage`, `OneOrderPerTurn`, `TakeoverStopsOrders`, `TakeoverIsHeard`, `EveryMessageIsAttended`. A customer's message from the webhook to the reply, under two failures anywhere - deaths, refused statements, a lock taken to have expired while its run goes on -, tool calls that outlive their timeout without bound, and a person who takes the conversation over or gives it back at any time: how many replies and orders there can be, and which of them a takeover stops. |
| `conversation_handoff` | the same | (violated) `HandoffCommits`. A handoff whose transaction fails once, or whose process dies before it, is never made: the retry finds the turn's row and takes the job for done. |
| `automation` | the lists ACT WAIT ACT WAIT ACT and WAIT ACT, two workers, one edit, one mishap | `AutomationTypeOK`, `OnceUnlessRepeated`, `UnfinishedIsHeld`, `EveryRunEnds`. One automation with two waits is triggered by overlapping scans, resumed by retried and doubled jobs, and edited, toggled and deleted meanwhile: how often its actions are performed and which runs can stay unfinished. |
| `team` (398k) | a founder and two people, two requests in flight, six in all, two seats | `OneOwner`, `SeatsAreKept`. Two requests in flight, six in all, over a founder and two people: there is exactly one active owner until a write crosses a transfer of ownership, and how far the seats in use can exceed the plan. |
| `billing` | two paid plans, two subscriptions, two deliveries in flight, three events, four deliveries, two changes by the owner or the calendar | `PaidMeansLinked`, `RowFollowsProvider`. Two subscriptions bought, changed and ended at the provider, whose events are delivered late, twice, out of order, two at once or after a failure, while the owner downgrades, cancels and resumes: when the row and the provider agree, and when a plan nobody pays for can stay. |
| `channel` (1.1M) | two workspaces, two accounts, two numbers, one listed on both, three requests | `ConnectedIsHeard`, `NoTokenNoChannel`, `ConnectedIsProven`. Three requests, all of which may be in flight at once, over two workspaces, two accounts and two numbers, one of which Meta has listed on both accounts: what a connection's status is worth when connections, disconnections, health checks and send errors interleave and die half way. |

Type invariants are proved (section 4); the runs check those of `Inbound` and `Automation` as well.

Why the bounds are enough to be interesting. A race of the queue needs a run, its replacement and a report of each: two slots, two
attempts, a stall. A race of orders needs two requests and two orders on a shelf that cannot serve both; a deadlock a pair
of orders whose lines cross, and the instance has that pair and uncrossed requests beside it. A duplicate send needs an accepted send, a reclaim and a second run; three attempts allow a refusal, a lost answer
and a retry after each. A lost or resurrected text needs two texts, two writes and two attempts that overlap. A double decision needs
two callers; a stale one a change of the order in between. A second reply needs two runs of one job; a second conversation
two events at once (TLC reaches one with two messages and two hook slots, in an instance larger than the run keeps). A double resumption needs two workers and one failure. A workspace without an owner needs two requests that overlap, six allow a
founder to leave, be replaced and be demoted. Events out of order need three of them and four deliveries. A connection torn by another needs
two accounts, a number listed on both, and three requests. By the proofs the safety results hold
at every size, so for them the instance only has to be large enough for TLC to object while a model is wrong.

### Fairness

Liveness is claimed under fairness that the code's scheduling gives:

* `JobQueue`: weak fairness of slots, of claiming, exiting and restarting workers, of the clock (`BecomeDue`,
  `LockExpires`) and of `ReclaimStalled`. `worker.ts` loops over claim and reclaim, and `worker-entry.ts`
  exits for a supervisor to restart it. *Handlers end* is an assumption: the code sets no time limit. Nothing
  obliges a caller to enqueue, a person to release a key, or a process to fail.
* `OutboundSend`, `KnowledgeIngest`, `AiTurn`, `Inbound`: weak fairness of claiming a pending job, of each step of an execution that lives and
  of reclaiming a row without a live run; in `KnowledgeIngest` also of a request that has saved. Saves, people, receipts, stalls and crashes are not fair.
  In `AiTurn` and `Inbound` also strong fairness of `Answer`: a run goes back to the model after every tool, but at most five times and ten calls, and within 45 seconds
  (`RUNTIME_DEFAULTS`). A call that was given up is never obliged to commit.
* `Automation`: weak fairness of executions and of reclaiming, strong fairness of the queue's claim, which an edit, a toggle or a
  slow worker may disable for a while. Scans and people are not fair.
* `Approval`: weak fairness of a request that has begun: nothing but its process's death stops it.

`OrderInventory`, `Team`, `Billing` and `Channel` have no liveness property: whatever is decided in one request is written in it, and what ends a deadlock is PostgreSQL.

### Where text and code disagree

One disagreement is a run TLC must find violated (`PROJECT.json`, `findings`). `conversation_handoff`: a turn is recorded as handed off before the handoff's transaction;
when that fails the retry finds the record and takes the job for done, although the comment says "we must ensure the
handoff transaction commits". Others that the models show, for a reader of the code:

* **Queue.** A row that stalls with its budget spent becomes PENDING again and is handed out again; a late report turns DEAD into COMPLETED (`markJobDead`:
  "Terminal failure"). The comment that the maintenance sweep is self-perpetuating has no code behind it: nothing schedules the next one. Nothing
  enqueues `automation.check_idle` or `automation.run` either.
* **Orders.** The row count of `reserveStock` is ignored, so an order can be placed with lines that hold nothing. CANCELLED to CANCELLED is legal and releases
  again, guarded only by other orders' reserved units. A transition checked against an earlier read overwrites a cancellation. An order DELIVERED and then RETURNED passes
  cancelOrder's guard.
* **Outbound.** A crash between the provider's acceptance and the record leaves neither id nor flag, and the retry sends a second copy. A retried FAILED row whose answer is
  lost stays FAILED, not SENDING. READ goes back to SENT when the send's own record comes last. A person's send that meets the ceiling has no job to bring it back. Refusals that
  `docs/META_INTEGRATION.md` calls not retryable are retried. A receipt that arrives before the record finds no message and is dropped.
* **Conversation.** Two first messages at once create two conversations. A takeover after the last look does not stop the reply (`docs/AI.md`). A turn over the workspace's rate, or without an active agent, says
  handed off and nothing is. After a tool's trouble is a handoff the loop goes on asking the model. The idempotency key of `create_order` contains the execution id, so a repeated turn places
  a second order. A `create_order` that outlives its ten seconds is told to the model as failed and goes on: its order may commit after the turn said it could not be placed, after the handoff, or
  after a person took the conversation over (`agent-runtime.service.ts:767`; no order *begins* after that). A message stored by an attempt that broke before it enqueued the turn is never answered.
* **Approvals.** A second click while the first executes changes an executed request. A crash or a refused audit row after APPROVED leaves it APPROVED for ever; a refused audit row after EXECUTED makes it FAILED with
  the order cancelled.
* **Knowledge.** An edit whose enqueue is answered by a job that has already decided is left PENDING.
* **Automations.** SEND_MESSAGE writes SENT and enqueues nothing. Toggling off does not stop a waiting run. A retried resume job repeats its actions. A waiting run whose resume job was never written waits for ever. The
  loser of a race for the dedupe key throws, the webhook swallows it, and the automations after it are skipped.
* **Team.** Two transfers at once make two owners, who can then both leave; a demotion, suspension or removal checked before a transfer lands on the new owner and leaves none ("A business must always have at least one owner").
  Suspended members hold no seat and take one unasked when reactivated.
* **Billing.** The owner's downgrade to free keeps the provider's id, so a later `updated` restores the paid plan; a replayed checkout after the end does too; resuming after the period's end revives the plan; a
  local cancellation is not told to the provider; a second subscription that ends leaves the workspace free while the first is still paid.
* **Channel.** A check writes CONNECTED or DEGRADED over a disconnection, DISCONNECTED over a reconnection, and erases a newer ERROR; DEGRADED for want of a registration becomes CONNECTED by a check. A
  disconnection's second statement silences a number reconnected meanwhile. Reconnecting through one number leaves the account's others off, and
  a disconnected number keeps its owner although the message to a rival says "Disconnect it there first". A second number on a connected account skips the quota.

## 4. What is proved

All theorems have the form `Spec => []P` (or `[][A]_vars`, or a specification) for every value of the constants
satisfying the module's `Parameters`, which only say what kind of thing each constant is: sets of
any size, and finite where something is counted. The first of each component is its `TypeCorrect`
(`BillingTypeCorrect` and `AutomationTypeCorrect` where three components share a module). Every safety property of a passing run is among them.

**JobQueue.** `SoleRunnerHolds`, `FinishedStaysFinishedHolds`, `BudgetKeptHolds`,
`CompletedMeansHandledHolds`, `DeadMeansSpentHolds`, `RunnersBoundedHolds`, `AttemptsBoundedHolds`, `OneUnfinishedJobPerKeyHolds`. The properties speak of rows but a step
acts on the row its slot is running, so the invariant records what a slot knows about its row: `HolderRuns` (as long as
a row was never reclaimed, a busy slot's row is RUNNING under that slot's worker) and `RunsAlone` (no second slot has it) give
exclusiveness; `RetryHasBudget`, `CompletingHandled`, `BuryingSpent`, `RejectingMalformed` carry what was established before
the reporting write. The bounds by reclaims come from a `Ledger` per row, in which the live runs, what waits and the attempts are paid for by one budget
and the reclaims. For the keys, a row that was never reclaimed still holds the key it was enqueued under while it is unfinished (`KeyHeld`).

**OrderInventory.** `UnitsConservedHolds`, `ContactAggregatesAgreeHolds`, `OrderNumbersSequentialHolds`, `ShelfMatchesOrdersHolds`, `DeadlocksAreCrossedHolds`; the types say that no count is ever negative. The invariant describes the open
transactions: a row without a writer has its newest version committed; the newest version under a writer differs
only by moves, which conserve the sum; a request holding an uncommitted number is the only one with it
and its number is one more than the number of placed orders. For the shelf it also says what an open transaction has done so far: `MovesAgree`, that the
newest version of a row under a writer differs from the committed one by the lines of that product the writer has come past, and that a row it does not write has none of them behind it;
`WritersMove`, `FirstLine` and `Unfated` say who can be such a writer and where it starts. What was missed is kept per order and product (`short`): an order's other
products are reserved and released exactly, and the reservation of a product without `trackInventory`, which no check precedes, can miss as well. For the deadlocks: a request that moves units holds rows of lines behind it only (`HeldBehind`), and
one that waits for an order number holds none, so in a cycle whose lines agree the request waiting for the last product in their common order could wait for nobody of it.

**AiTurn and Inbound.** `RepliesAreRecordedHolds`, `OneReplyPerMessageHolds`, `OneOrderPerTurnHolds`, `TakeoverStopsOrdersHolds`, `TakeoverIsHeardHolds`. `RunSound` says of a run at each statement what
it has already read: the turn that entitles it to look for a reply, the `aiEnabled` it acts on, a decision before it is recorded. The replies are counted: the runs that hold
a message and its queued job are together at most one more than the times its lock was taken (`RunsBounded`), and so are its replies together with the runs between
their look for a reply and their write (`WritersBounded`), because a run that looks finds the replies of those before it. `HooksSound` and `JobsSound`: nothing has a job before it is stored. The orders
are an account too (`OrdersCounted`): a message's orders, the runs that may still place one or have one under way (`Bearers`), those whose failure would run the turn again (`Retriers`), the calls that outlived their
run and the job that is still to run and would find no turn (`Credit`) are together at most one more than its reclaims and refused turn rows. `OrdersExposed`: while people have a conversation, what its messages have and what is
under way is no more than what was at the takeover.

**OutboundSend.** `OneCopyPerLossHolds`, `DoneMeansAccountedForHolds`, `StatusIsTrueHolds`. The inductive invariant `Sound` is an account of copies: for every message, the
copies accepted, plus the executions that may yet send one, plus one if the job waits for a
run and nothing stops that run, are at most one more than `lost`. Around it `RunsWork` and `RowsAgree` relate what an execution has
read or done to the row, and `ReceiptsWork` bounds what a receipt may write.

**KnowledgeIngest.** `PublishesAsPromisedHolds` is the refinement: every step of every request and attempt is a step of `PublishedCorpus` or a stutter, which needs the types (a stored
document has a text) and nothing else, because `swapChunks` compares the hash in its own transaction. `WaitingIsAttendedHolds` needs
`Keys`: a row that holds the key is unfinished or dead, and a run about to enqueue a successor has given up its own key; otherwise the row that answers the enqueue could be the one about to
complete. `TypeCorrect` includes `Counted`: a job is handed out once more than its budget at most for each mishap.

**Approval.** `EachEffectIsApprovedHolds` by an account: the approvals granted cover the deeds done and the callers that may still do one. `ExecutedMeansDoneHolds`: a caller past its deed, and a row
that says EXECUTED, have one behind them. `RefusedMeansUntouchedHolds` by `Sole`: as long as no two decisions met on a request, one caller at most works for it, and the row and its deeds say how far that caller has come.

**Team.** `OneOwnerHolds` and `SeatsAreKeptHolds`, from `Vetted`: a request that is about to write was allowed by its rule on the facts it saw; by `Crosses`, a write on those facts that does
not cross a transfer takes no owner away.

**Billing.** `PaidMeansLinkedHolds` and `RowFollowsProviderHolds`. For events in order the invariant says that the newest processed event about the linked subscription left
the row `AsLeft`, and that what was emitted last about a subscription is what the provider holds (`Told`).

**Automation.** `OnceUnlessRepeatedHolds`, `UnfinishedIsHeldHolds`. That a position is performed once depends on every earlier one, so the invariant is an account kept at every place of the list
(`Loads`): how often the place was performed, the executions that may still come to it, and the first resumptions still owed at or before it are at most one more
than `repeats`. `NotYetRun` starts the account, `Forward` shows that a resumption never owes a place behind one already resumed, and `OneHand` that, while nothing died or was repeated, one execution or
one job has the run, which is `UnfinishedIsHeld`.

**Channel.** `ConnectedIsHeardHolds`, `NoTokenNoChannelHolds`, `ConnectedIsProvenHolds`. `SettledIsOn`: a settled number is on, and its account holds a token; `TokenIsHeard`: only a check that saw no token calls an account
that has one DISCONNECTED. `OneWriter` and `OnCourse` say that an
untangled account has one connection at its statements, and what has been written at each of them.

Assumed: what each `Parameters` says. Trusted: TLAPS with Z3, Zenon and LS4, TLC, and the reading of the code. Model-checked only: the liveness properties, whose fairness and ENABLED are
beyond the prover. Neither proved nor checked: that the queue inside `OutboundSend`, `KnowledgeIngest`, `AiTurn` and `Automation` is an abstraction of `JobQueue`; each was written from the same code.

## 5. What is not modelled

* Durations. A lock expires, a backoff passes, a transaction times out at any moment that makes sense; nothing is said of how long it takes.
* Of orders: money, COD payments, thresholds, soft deletion, the creation of missing stock rows, the NEW/RETURNING tag of a contact, and clock skew in the order number (a
  hazard without a property: the model gives the newest number to the newest row).
* Of messages: media, templates, the conversation's activity fields and the channel's telemetry; of the turn: what the model is told and says, usage and cost rows.
* The conditions of automation triggers, the chunker and the retrieval: text processing.
* Agent configuration, rules and grounding: prompt assembly and text rules, with no state that others race on. The rate limiter: one atomic upsert per attempt, whose
  verdict the models take as a choice. Sessions and authentication (see below); conversations, contacts, products, analytics, the web application and the configuration: single-row writes, reads and rendering, modelled where another part races on them.
* Sessions, although their text and code disagree: the comment on validateSession (`server/services/auth/session.service.ts`) says that a session "slides forward on any interaction that mutates",
  but the Server Actions inside a workspace take `requireTenantContext`, which validates without renewing; only `createWorkspaceAction` renews. `Team` leaves out the deletion of a
  changed member's sessions, since every request reads the membership anew.
* The maintenance sweep's own schedule, because by the code there is none.

## 6. What could come next

An abstract at-least-once queue that `JobQueue` implements and from which the jobs inside the other modules are taken; the composition of
`Approval` with `OrderInventory`, of `Automation` with several events, and of `Team` with `Billing`, whose plan sets the seats; the order's money; sessions whose renewals and deletions land out of
order, and the limiter's windows under clocks that disagree.
