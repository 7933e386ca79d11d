SPECIFICATION Spec
CONSTANTS
    N = 2
    C = 2
    NConns = 1
    Async = FALSE
    ZStop = "close"
    ResultsCap = 2
    Ticks <- ConstTicks
    Stoppers = {"timeout"}
    MaxWorkers = 2
INVARIANTS
    EndReasonTold
