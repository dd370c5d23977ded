SPECIFICATION Spec
CONSTANTS
    Parts = {"generator"}
    MaxHelpers = 2
    Callers = {p, q}
    MaxActive = 6
    Services = {server, worker}
    Errors <- MCErrors
    Recipients = 3
    Generators = {"g1", "g2"}
    Resources = {"post", "tag"}
    Wants <- MCWants
    Now = 5
    MaxTrouble = 2
    Capacity = 2
    Flushers = {f1, f2}
    MaxEvents = 4
INVARIANTS
    FailureLeavesNothing
CHECK_DEADLOCK FALSE
