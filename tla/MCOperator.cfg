SPECIFICATION Spec
CONSTANTS
    \* FleetDeploy
    Commands = {c1, c2, c3}
    HostCount = 1
    Keep = 1
    MaxDeployFaults = 1
    \* OperateSession
    Runtimes = {r1, r2}
    Turns = {t1, t2}
    MaxCalls = 2
    MaxOpenings = 2
    MaxMishaps = 1
    \* WorkerEvidence
    Files = {fa, fb}
    MaxEdits = 2
    MaxToolCalls = 3
    MaxFailures = 1
    \* TunnelManager
    Trips = {qa, qb}
    MaxRotations = 1
    \* Console
    Workers = {fa, fb}
    Early = {fa}
    qa = qa
    qb = qb
    Requests = {qa, qb}
    MaxLines = 1
    MaxOutages = 1
    Asks <- OneLists
INVARIANTS
    TypeOK
    MachinesConsistent
    CallsSettledOnce
PROPERTIES
    RecordsAreTrue
    OperatorProgress
\* Commands, sessions and turns end.
CHECK_DEADLOCK FALSE
