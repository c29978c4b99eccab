SPECIFICATION FairSpec
CONSTANTS
    r1 = r1
    r2 = r2
    Requests = {r1, r2}
    MayAsk <- Mix
    Callers = {c1, c2}
    Managers = {c1, c2}
    NoRequest = NoRequest
    Starts = {"PENDING", "PROCESSING", "SHIPPED"}
    MaxChanges = 1
    MaxMishaps = 1
INVARIANTS
    EachEffectIsApproved
    ExecutedMeansDone
    RefusedMeansUntouched
PROPERTIES
    ApprovalConcludes
CHECK_DEADLOCK FALSE
