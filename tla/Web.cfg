SPECIFICATION Spec
CONSTANTS
    Parts = {"session", "limiter", "durable", "cache", "cors", "body", "pipeline"}
    r1 = r1
    r2 = r2
    r3 = r3
    Applications <- MCApplications
    LimiterKeys = {a, b}
    LimiterCallers = {p, q}
    Limit = 2
    Window = 2
    Capacity = 1
    LimiterSecond = 2
    MaxLimiterTime = 4
    MaxResets = 1
    DurableKeys = {a, b}
    Processes = {p, q}
    DurableLimit = 1
    DurableWindow = 2
    PruneLimit = 1
    DatabaseSecond = 1
    MaxDurableTime = 3
    MaxDurableResets = 1
    CacheKeys = {k}
    CacheCallers = {c, d}
    Lifetime = 2
    MaxCacheVersion = 2
    MaxCacheTime = 4
    Configs <- MCConfigs
    CORSRequests <- MCCORSRequests
    MaxServed = 2
    Bodies <- MCBodies
    Limits = {1, 2, 3}
    Forged = "forged"
    MaxCalls = 3
    Stack <- MCStack
    PipelineRequests <- MCPipelineRequests
    Routes = {"GET", "DELETE"}
    Statuses = {101, 103, 200, 422}
    HTTPErrors = {302, 422}
    MaxOps = 2
SYMMETRY MCSymmetry
INVARIANTS
    RemovedStaysRemoved WinnerKeepsCookie StaleOnlyByLateLoader CacheSafe LimitHolds CompletionIsTrue
PROPERTIES
    ImplementsFixedWindow DurableFixedWindow
CHECK_DEADLOCK FALSE
