SPECIFICATION FairSpec
CONSTANTS
    N = 2
    C = 1
    NConns = 2
    Async = FALSE
    ZStop = "ignore"
    ResultsCap = 1
    Ticks <- DownUpTicks
    Stoppers = {"timeout"}
    MaxWorkers = 3
INVARIANTS
    TypeOK
    AllWorkDone
    StoppedInOrder
    ScheduleFollowed
    ReportComplete
    IssuesAllRequests
    NoConnectionLeft
PROPERTIES
    ImplementsLoadRun
    RunReturns
