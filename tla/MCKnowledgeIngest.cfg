SPECIFICATION FairSpec
CONSTANTS
    Texts = {t1, t2}
    NoText = NoText
    Jobs = {j1, j2}
    NoJob = NoJob
    Executions = {e1, e2}
    Callers = {c1}
    MaxAttempts = 2
    MaxWrites = 2
    MaxMishaps = 1
INVARIANTS
    WaitingIsAttended
PROPERTIES
    PublishesAsPromised
    EverySaveSettles
CHECK_DEADLOCK FALSE
