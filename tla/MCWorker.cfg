SPECIFICATION Spec
CONSTANTS
    \* StreamTrigger
    NumMessages = 2
    Workers = {w1, w2}
    MaxAttempts = 2
    MaxDeliveries = 3
    MaxReplays = 1
    MaxRestarts = 1
    \* HttpServing
    Requests = {r1, r2}
    Keys = {k1, k2}
    PoolSize = 1
    \* EventLog
    Emitters = {e1, e2, e3}
    Own = {e1, e2}
    Retention = 2
    MaxEvents = 4
    \* AgentLoop
    Subs = {s1, s2}
    Batches <- Turns
    SubBatches <- SubTurns
    MaxTokens = 3
    MaxIterations = 2
    Retries = 1
    Models = 2
    Repairs = 2
    GateLimit = 1
    MaxParallel = 2
    \* PlanSteps
    Steps = 2
    Branches = 3
    Concurrency = 2
    MaxResumes = 2
    \* BashRun
    MaxOutput = 3
    Limit = 2
INVARIANTS
    TypeOK
    
    EventsInOrder
    RunsAreFaithful
PROPERTIES
    WorkerProgress
\* Runs end, and the bounds end the others.
CHECK_DEADLOCK FALSE
