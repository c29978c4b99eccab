SPECIFICATION BillingSpec
CONSTANTS
    Paid = {"starter", "growth"}
    Subscriptions = {s1, s2}
    Deliveries = {d1, d2}
    NoSubscription = NoSubscription
    MaxEvents = 3
    MaxDeliveries = 4
    MaxChanges = 2
INVARIANTS
    PaidMeansLinked
    RowFollowsProvider
CHECK_DEADLOCK FALSE
