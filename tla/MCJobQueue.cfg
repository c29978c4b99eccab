SPECIFICATION FairSpec
CONSTANTS
    j1 = j1
    j2 = j2
    Jobs = {j1, j2}
    Keys = {k1}
    Workers = {w1}
    Callers = {c1, c2}
    Concurrency = 2
    MaxAttempts <- MCMaxAttempts
    Priority <- MCPriority
    Malformed = {j2}
    NoKey = NoKey
    NoWorker = NoWorker
    NoJob = NoJob
    MaxOutages = 1
    MaxStalls = 1
INVARIANTS
    RunnersBoundedByReclaims
    AttemptsBoundedByReclaims
    DeadMeansSpent
    OneUnfinishedJobPerKey
PROPERTIES
    FinishedStaysFinished
    EveryJobSettles
CHECK_DEADLOCK FALSE
