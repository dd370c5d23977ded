SPECIFICATION Spec
CONSTANTS
    Parts = {"managed", "app", "dev", "smtp", "generator", "emitter"}
    MaxHelpers = 2
    Callers = {p, q}
    MaxActive = 6
    Services = {server, worker}
    Errors <- MCErrors
    Recipients = 3
    Generators = {"g1", "g2"}
    Resources = {"post", "tag"}
    Wants <- MCWants
    Now = 5
    MaxTrouble = 2
    Capacity = 2
    Flushers = {f1, f2}
    MaxEvents = 4
INVARIANTS
    RootEndedByItself AllOrNothing
PROPERTIES
    StopEndsTheTree RunReturns SendReturns EveryEventObserved
CHECK_DEADLOCK FALSE
