SPECIFICATION Spec
CONSTANTS
    Configs <- MCConfigs
    Second = 12
    MaxLate = 5
    MaxTime = 60
    MaxHits = 20
    UintSize = 1048576
    InfiniteWait = 61
CHECK_DEADLOCK FALSE
INVARIANTS
    NeverAhead
    StopsAtEnd
PROPERTY WaitsWhenCaughtUp
