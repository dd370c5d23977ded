SPECIFICATION Spec
CONSTANTS
    Parts = {"server", "tracker", "snapshot", "candidate", "reload"}
    Sources = {1, 2, 3}
    Bad = {2}
    MayCancel = TRUE
    MaxEdits = 2
    MaxWrites = 1
    MaxFaults = 1
    TrackerSources = {"a", "b"}
    Waiters = {w1}
    Debounce = 2
    Tolerance = 2
    MaxTrackerEdits = 3
    Paths = {1, 2, 3}
    Assets = {1, 2}
    Contents <- MCContents
    MaxFiles = 2
    MaxFileBytes = 2
    MaxTotalBytes = 3
    Revalidation = 2
    MaxTime = 2
    MaxSnapshotEdits = 3
    Attempts = 3
    MaxStrangers = 2
    Browsers = {b1}
    Streams = {s1, s2}
    MaxSubscribers = 1
    MaxUint64 = 9
    MaxBuilds = 3
    MaxLosses = 2
INVARIANTS
    LastGoodStands
PROPERTIES
    Converges StableWhenReturned SnapshotIsContent ReadyIsOwn PagesCatchUp
CHECK_DEADLOCK FALSE
