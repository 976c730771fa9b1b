SPECIFICATION Spec
CONSTANTS
    live = live
    resume = resume
    scanner = scanner
    operator = operator
    replicaA = replicaA
    replicaB = replicaB
    Live = live
    Resumes <- MCResumes
    Scanners <- MCScanners
    Operators <- NoOperators
    HostOf <- MCHostOf
    Plan <- ReadGatedPlan
    MaxCrashes = 0
    MaxStalls = 2
INVARIANT TerminalOnce
PROPERTY ImplementsFencedLease
\* A run that is decided has nothing left to do.
CHECK_DEADLOCK FALSE
