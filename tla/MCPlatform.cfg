SPECIFICATION Spec
CONSTANTS
    c1 = c1
    c2 = c2
    c3 = c3
    x = x
    y = y
    fa = fa
    none = none
    \* IdempotencyStore
    KeyCallers = {c1, c2, c3}
    Execs = {x, y}
    ExecOf <- TwoExecs
    KeyNames = {k1}
    \* JournalStore
    Sweepers = {c1, c2}
    OwnSweeper = c1
    JournalSteps = 2
    \* EventStore
    EventWriters = {c1, c2}
    MaxID = 4
    \* SchemaMigration
    Processes = {c1, c2}
    BinaryOf <- TwoBinaries
    MaxCrashes = 1
    \* ApprovalDesk
    MaxRequests = 2
    MaxApprovals = 2
    DeskFaults = 1
    \* FileSink
    SinkWriters = {c1, c2}
    Old = x
    None = none
    SinkFaults = 1
    \* SpanExport
    TracedOps = {c1, c2, c3}
    KindOf <- AllTools
    CallOf <- TwoCalls
    NoCall = none
    RunsOf <- OneRepeats
    \* TraceViews
    TraceKeys = {c1, c2}
    ViewRetention = 2
    ViewEvents <- BackendEvents
    ViewBoots = 1
    \* WorkerIDE
    IDETexts = 2
    IDERetries = 1
    IDECalls = 1
    \* LanguageClient
    LSPServers = 2
    LSPCalls = 1
    LSPDiags = 2
    LSPCap = 1
    \* Cockpit
    CockpitCalls = 1
    CockpitTurns = 2
    CockpitQueue = 1
    CockpitBuffer = 1
INVARIANTS
    TypeOK
    StoresAgree
    
    ViewsAreTrue
PROPERTIES
    HistoryStays
    PlatformProgress
\* a part may end: nothing is left to do
CHECK_DEADLOCK FALSE
