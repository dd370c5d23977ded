SPECIFICATION JobsSpec
CONSTANTS
    Parts = {"leases", "dedup"}
    NULL = NULL
    d1 = d1
    d2 = d2
    r1 = r1
    v1 = v1
    v2 = v2
    s1 = s1
    s2 = s2
    Ids = {1, 2}
    Workers = {w1, w2}
    Routes = {r1, r2}
    Keys = {d1}
    Priorities = {0}
    Budgets = {1, 3}
    LeaseDurations = {1, 2}
    Delays = {0, 1}
    Ats = {3}
    Limits = {1, 2}
    Txs = {s1, s2}
    MaxStall = 2
    MaxNow = 4
    MaxRestores = 1
    Concurrency = 1
    MaxBeats = 0
    MaxFaults = 0
    Schedulers = {}
    Versions = {v1}
    Names <- OneName
    Code <- SameCode
    Cron <- MCCron
    Target <- MCTarget
    Grace = 2
    Minute = 2
    Period = 3
    MaxSchedulerFaults = 0
SYMMETRY MCSymmetry
PROPERTIES
    NoTakeoverOfLiveLease ImplementsLifecycle
