SPECIFICATION Spec
CONSTANTS
    live = live
    resume = resume
    scanner = scanner
    operator = operator
    replicaA = replicaA
    replicaB = replicaB
    Live = live
    Resumes <- MCResumes
    Scanners <- MCScanners
    Operators <- NoOperators
    HostOf <- MCHostOf
    Plan <- EffectPlan
    MaxCrashes = 0
    MaxStalls = 0
INVARIANT ScanNeverDuplicates
CHECK_DEADLOCK FALSE
