SPECIFICATION FairSpec
CONSTANTS
    Messages = {m1}
    Queued = {m1}
    Executions = {e1, e2}
    Receivers = {v1}
    NoMessage = NoMessage
    MaxAttempts = 3
    MaxStalls = 1
    MaxOutages = 1
INVARIANTS
    OneCopyPerLoss
    DoneMeansAccountedFor
    StatusIsTrue
PROPERTIES
    EveryMessageSettles
CHECK_DEADLOCK FALSE
