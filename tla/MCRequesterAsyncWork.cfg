SPECIFICATION Spec
CONSTANTS
    N = 2
    C = 2
    NConns = 1
    Async = TRUE
    ZStop = "wait"
    ResultsCap = 2
    Ticks <- ConstTicks
    Stoppers = {}
    MaxWorkers = 2
INVARIANTS
    AllWorkDone
