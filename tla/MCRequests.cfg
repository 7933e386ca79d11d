SPECIFICATION RequestsSpec
CONSTANTS
    NumItems = 3
    Calls <- MCCalls
    Number <- MCNumber
    Setups <- MCPossible
    MaxCount = 7
INVARIANTS
    CallGetsItsData
    CallGetsItsMetadata
    CrashesAreKnown
PROPERTY StreamTakesInTurn
CHECK_DEADLOCK FALSE
