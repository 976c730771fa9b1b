SPECIFICATION PlanSpec
CONSTANTS
    Steps = 2
    Branches = 3
    Concurrency = 2
    MaxResumes = 2
INVARIANTS
    CompletedRanEveryStep
\* Runs end.
CHECK_DEADLOCK FALSE
