SPECIFICATION JobsSpec
CONSTANTS
    Parts = {"worker"}
    NULL = NULL
    d1 = d1
    d2 = d2
    r1 = r1
    v1 = v1
    v2 = v2
    s1 = s1
    s2 = s2
    Ids = {1}
    Workers = {w1}
    Routes = {r1}
    Keys = {d1, d2}
    Priorities = {0}
    Budgets = {2}
    LeaseDurations = {2}
    Delays = {0}
    Ats = {}
    Limits = {1}
    Txs = {s1, s2}
    MaxStall = 0
    MaxNow = 0
    MaxRestores = 0
    Concurrency = 1
    MaxBeats = 1
    MaxFaults = 0
    Schedulers = {s1, s2}
    Versions = {v1, v2}
    Names <- TwoNames
    Code <- TwoCodes
    Cron <- MCCron
    Target <- MCTarget
    Grace = 2
    Minute = 2
    Period = 3
    MaxSchedulerFaults = 0
INVARIANTS
    SlotRetained
