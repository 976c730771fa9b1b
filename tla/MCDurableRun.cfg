SPECIFICATION FairSpec
CONSTANTS
    live = live
    resume = resume
    scanner = scanner
    operator = operator
    replicaA = replicaA
    replicaB = replicaB
    Live = live
    Resumes <- MCResumes
    Scanners <- MCScanners
    Operators <- MCOperators
    HostOf <- MCHostOf
    Plan <- GatedPlan
    MaxCrashes = 2
    MaxStalls = 0
ACTION_CONSTRAINT FewFaults
INVARIANTS
    TypeOK
    SoleExecutor
    NoAutoDuplicate
    JournalOutlivesRun
    
PROPERTIES
    AckedNeverReopens
    SettledCallNotRepeated
    InterruptedRunDecided
\* A run that is decided has nothing left to do.
CHECK_DEADLOCK FALSE
