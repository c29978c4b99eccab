------------------------------ MODULE Billing -------------------------------
(***************************************************************************)
(* The subscription of one workspace: what its owner does with it, and the *)
(* payment provider's events about it (server/services/billing/            *)
(* billing-webhook.service.ts, server/services/subscription/               *)
(* subscription.service.ts).  No number or id of an event is kept: the     *)
(* provider delivers each at least once, in any order, and a delivery      *)
(* reads the row in one statement and writes it in another.                *)
(***************************************************************************)
EXTENDS Integers, Sequences

CONSTANTS
    Paid,          \* plans that have a price
    Subscriptions, \* subscriptions the provider may come to hold
    Deliveries,    \* webhook requests in flight
    NoSubscription,
    MaxEvents,     \* bound: events the provider emits
    MaxDeliveries, \* bound: deliveries of them
    MaxChanges     \* bound: what the owner and the calendar do to the row

ASSUME BillingParameters ==
    /\ "free" \notin Paid /\ NoSubscription \notin Subscriptions
    /\ MaxEvents \in Nat /\ MaxDeliveries \in Nat /\ MaxChanges \in Nat

VARIABLES
    planKey, status, cancelAtPeriodEnd, over, providerSubscriptionId, \* the row
    held,       \* what the provider holds: a plan, or that it has ended
    emitted,    \* the events it has emitted
    phase, event,  \* where each delivery is, and with which of them
    processed,  \* history: events a delivery has been finished for
    orderly,    \* history: each was delivered once, in order, one at a time
    overlapped, \* history: two deliveries were in flight together
    downgraded, \* history: the owner went to the free plan since the last checkout
    delivered, changes

subscription == <<planKey, status, cancelAtPeriodEnd, over, providerSubscriptionId>>
provider == <<held, emitted>>
request == <<phase, event>>
history == <<processed, orderly, overlapped, downgraded>>
billingVars == <<subscription, provider, request, history, delivered, changes>>

Plans == Paid \cup {"free"}
Types == {"completed", "updated", "deleted"}
Events == [type : Types, of : Subscriptions, plan : Paid, cancel : BOOLEAN]

\* ensureWorkspaceSubscription: a workspace opens on a trial of a paid plan.
BillingInit ==
    /\ planKey \in Paid /\ status = "TRIAL"
    /\ cancelAtPeriodEnd = FALSE /\ over = FALSE
    /\ providerSubscriptionId = NoSubscription
    /\ held = [s \in Subscriptions |-> "none"]
    /\ emitted = <<>>
    /\ phase = [d \in Deliveries |-> "idle"]
    /\ event = [d \in Deliveries |-> 0]
    /\ processed = {}
    /\ orderly = TRUE /\ overlapped = FALSE /\ downgraded = FALSE
    /\ delivered = 0 /\ changes = 0

\* The plan in force; `over` says that the trial or the period has ended.
resolveEffectivePlanKey ==
    IF over /\ (status = "TRIAL" \/ cancelAtPeriodEnd) THEN "free" ELSE planKey

-----------------------------------------------------------------------------
(* The provider.                                                           *)

Emit(type, s, p, cancel) ==
    /\ Len(emitted) < MaxEvents
    /\ emitted' = Append(emitted, [type |-> type, of |-> s, plan |-> p, cancel |-> cancel])
    /\ UNCHANGED <<subscription, request, history, delivered, changes>>

CheckOut(s, p) ==
    /\ held[s] = "none"
    /\ held' = [held EXCEPT ![s] = p]
    /\ Emit("completed", s, p, FALSE)

Update(s, p, cancel) ==
    /\ held[s] \in Paid
    /\ held' = [held EXCEPT ![s] = p]
    /\ Emit("updated", s, p, cancel)

End(s) ==
    /\ held[s] \in Paid
    /\ held' = [held EXCEPT ![s] = "ended"]
    /\ Emit("deleted", s, held[s], FALSE)

-----------------------------------------------------------------------------
(* Its webhook.                                                            *)

InFlight == \E d \in Deliveries : phase[d] # "idle"

\* Mutant: any subscription's event is taken to be the current one's.
ConcernsMutant(i) == TRUE

\* Only the first type is written whatever subscription the row is linked to.
Concerns(i) == emitted[i].type = "completed" \/ providerSubscriptionId = emitted[i].of

processBillingWebhook(d, i) ==
    /\ phase[d] = "idle" /\ delivered < MaxDeliveries
    /\ delivered' = delivered + 1
    /\ orderly' = (orderly /\ ~InFlight /\ i \notin processed /\ 1 .. i - 1 \subseteq processed)
    /\ overlapped' = (overlapped \/ InFlight)
    /\ IF Concerns(i)
       THEN /\ phase' = [phase EXCEPT ![d] = emitted[i].type]
            /\ event' = [event EXCEPT ![d] = i]
            /\ UNCHANGED processed
       ELSE /\ processed' = processed \cup {i}
            /\ UNCHANGED request
    /\ UNCHANGED <<subscription, provider, downgraded, changes>>

FinishDelivery(d) ==
    /\ phase' = [phase EXCEPT ![d] = "idle"]
    /\ event' = [event EXCEPT ![d] = 0]
    /\ processed' = processed \cup {event[d]}
    /\ UNCHANGED <<provider, orderly, overlapped, delivered, changes>>

\* The statement, or the process, fails: the answer is no 200, and nothing is kept.
Fail(d) ==
    /\ phase[d] # "idle"
    /\ phase' = [phase EXCEPT ![d] = "idle"]
    /\ event' = [event EXCEPT ![d] = 0]
    /\ UNCHANGED <<subscription, provider, history, delivered, changes>>

processCheckoutCompleted(d) ==
    LET e == emitted[event[d]] IN
    /\ phase[d] = "completed"
    /\ planKey' = e.plan /\ status' = "ACTIVE"
    /\ cancelAtPeriodEnd' = FALSE /\ over' = FALSE
    /\ providerSubscriptionId' = e.of
    /\ downgraded' = FALSE
    /\ FinishDelivery(d)

\* Mutant: what the event asks for at the end of the period is done at once.
processSubscriptionUpdatedMutant(d) ==
    LET e == emitted[event[d]] IN
    /\ phase[d] = "updated"
    /\ planKey' = IF e.cancel THEN "free" ELSE e.plan
    /\ cancelAtPeriodEnd' = FALSE
    /\ UNCHANGED <<status, over, providerSubscriptionId, downgraded>>
    /\ FinishDelivery(d)

\* The event may bring a new end of the period, or leave it.
processSubscriptionUpdated(d) ==
    LET e == emitted[event[d]] IN
    /\ phase[d] = "updated"
    /\ planKey' = e.plan
    /\ cancelAtPeriodEnd' = e.cancel
    /\ over' \in {over, FALSE}
    /\ UNCHANGED <<status, providerSubscriptionId, downgraded>>
    /\ FinishDelivery(d)

processSubscriptionDeleted(d) ==
    /\ phase[d] = "deleted"
    /\ planKey' = "free" /\ status' = "ACTIVE"
    /\ cancelAtPeriodEnd' = FALSE /\ over' = FALSE
    /\ providerSubscriptionId' = NoSubscription
    /\ UNCHANGED downgraded
    /\ FinishDelivery(d)

-----------------------------------------------------------------------------
(* The owner, and the calendar.                                            *)

Change ==
    /\ changes < MaxChanges /\ changes' = changes + 1
    /\ UNCHANGED <<provider, request, processed, orderly, overlapped, delivered,
                   providerSubscriptionId>>

\* processCheckoutOrDowngrade: a paid plan is a redirect to the provider.
changeSubscriptionPlan ==
    /\ planKey' = "free" /\ status' = "ACTIVE"
    /\ cancelAtPeriodEnd' = FALSE /\ over' = FALSE
    /\ downgraded' = TRUE
    /\ Change

cancelSubscription ==
    /\ planKey # "free"
    /\ cancelAtPeriodEnd' = TRUE
    /\ UNCHANGED <<planKey, status, over, downgraded>>
    /\ Change

resumeSubscription ==
    /\ cancelAtPeriodEnd' = FALSE
    /\ UNCHANGED <<planKey, status, over, downgraded>>
    /\ Change

PeriodEnds ==
    /\ ~over /\ over' = TRUE
    /\ UNCHANGED <<planKey, status, cancelAtPeriodEnd, downgraded>>
    /\ Change

BillingNext ==
    \/ \E s \in Subscriptions, p \in Paid : CheckOut(s, p)
    \/ \E s \in Subscriptions, p \in Paid, cancel \in BOOLEAN : Update(s, p, cancel)
    \/ \E s \in Subscriptions : End(s)
    \/ \E d \in Deliveries, i \in DOMAIN emitted : processBillingWebhook(d, i)
    \/ \E d \in Deliveries : \/ processCheckoutCompleted(d)
                             \/ processSubscriptionUpdated(d)
                             \/ processSubscriptionDeleted(d)
                             \/ Fail(d)
    \/ changeSubscriptionPlan \/ cancelSubscription \/ resumeSubscription \/ PeriodEnds

BillingSpec == BillingInit /\ [][BillingNext]_billingVars

-----------------------------------------------------------------------------
(* Properties.                                                             *)

(* Types.                                                                  *)
BillingTypeOK ==
    /\ planKey \in Plans /\ status \in {"TRIAL", "ACTIVE"}
    /\ cancelAtPeriodEnd \in BOOLEAN /\ over \in BOOLEAN
    /\ orderly \in BOOLEAN /\ overlapped \in BOOLEAN /\ downgraded \in BOOLEAN
    /\ providerSubscriptionId \in Subscriptions \cup {NoSubscription}
    /\ held \in [Subscriptions -> Paid \cup {"none", "ended"}]
    /\ emitted \in Seq(Events)
    /\ phase \in [Deliveries -> {"idle"} \cup Types]
    /\ event \in [Deliveries -> 0 .. Len(emitted)]
    /\ processed \subseteq DOMAIN emitted

(* A workspace beyond its trial is on a paid plan only while its row is    *)
(* linked to a subscription, whatever is replayed, late or lost: only an   *)
(* update that read the row before another delivery ended the subscription *)
(* can leave a plan that nothing pays for and no later event takes back.   *)
PaidMeansLinked ==
    planKey \in Paid /\ status = "ACTIVE" =>
        providerSubscriptionId # NoSubscription \/ overlapped

(* Events that come once, in order and one at a time, however often their  *)
(* processing has to be repeated after a failure, keep the plan in force   *)
(* the one the provider holds for the subscription the row is linked to,   *)
(* but for the owner's own steps: down to the free plan, or a cancellation *)
(* whose period is over.                                                   *)
RowFollowsProvider ==
    orderly /\ processed = DOMAIN emitted /\ providerSubscriptionId # NoSubscription =>
        \/ resolveEffectivePlanKey = held[providerSubscriptionId]
        \/ /\ resolveEffectivePlanKey = "free"
           /\ downgraded \/ (over /\ cancelAtPeriodEnd)
=============================================================================
