SPECIFICATION JobsSpec
CONSTANTS
    Parts = {"leases"}
    NULL = NULL
    d1 = d1
    d2 = d2
    r1 = r1
    v1 = v1
    v2 = v2
    s1 = s1
    s2 = s2
    Ids = {1}
    Workers = {w1, w2}
    Routes = {r1}
    Keys = {d1}
    Priorities = {0}
    Budgets = {1}
    LeaseDurations = {2}
    Delays = {0, 1}
    Ats = {}
    Limits = {1}
    Txs = {s1}
    MaxStall = 1
    MaxNow = 5
    MaxRestores = 1
    Concurrency = 1
    MaxBeats = 0
    MaxFaults = 0
    Schedulers = {}
    Versions = {v1}
    Names <- OneName
    Code <- SameCode
    Cron <- MCCron
    Target <- MCTarget
    Grace = 2
    Minute = 2
    Period = 3
    MaxSchedulerFaults = 0
SYMMETRY MCSymmetry
INVARIANTS
    GenerationsIncrease
