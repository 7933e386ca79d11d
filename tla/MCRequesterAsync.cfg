SPECIFICATION FairSpec
CONSTANTS
    N = 2
    C = 2
    NConns = 1
    Async = TRUE
    ZStop = "wait"
    ResultsCap = 1
    Ticks <- UpDownTicks
    Stoppers = {"timeout"}
    MaxWorkers = 2
INVARIANTS
    NoSpuriousRequest
PROPERTY StopEndsRun
