SPECIFICATION PrinterSpec
CONSTANTS
    Runs <- MCRuns
    CleanAt = 100
    MaxPrints = 2
INVARIANTS
    PercentileIsNearestRank
    BucketsCountTheirOwn
    LinesAlign
    OutputsAgree
CHECK_DEADLOCK FALSE
