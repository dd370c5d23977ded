SPECIFICATION JobsSpec
CONSTANTS
    Parts = {"overlap", "faults"}
    NULL = NULL
    d1 = d1
    d2 = d2
    r1 = r1
    v1 = v1
    v2 = v2
    s1 = s1
    s2 = s2
    Ids = {1, 2}
    Workers = {w1, w2}
    Routes = {r1}
    Keys = {d1}
    Priorities = {0}
    Budgets = {1, 2}
    LeaseDurations = {1}
    Delays = {0}
    Ats = {}
    Limits = {1, 2}
    Txs = {s1}
    MaxStall = 0
    MaxNow = 2
    MaxRestores = 0
    Concurrency = 2
    MaxBeats = 1
    MaxFaults = 2
    Schedulers = {}
    Versions = {v1}
    Names <- OneName
    Code <- SameCode
    Cron <- MCCron
    Target <- MCTarget
    Grace = 2
    Minute = 2
    Period = 3
    MaxSchedulerFaults = 0
SYMMETRY MCSymmetry
INVARIANTS
    NoStrandedJob
