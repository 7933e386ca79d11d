SPECIFICATION SetupSpec
CONSTANTS
    Inputs <- MCInputs
    Params <- MCParams
    MaxLate = 1
    MaxTime = 12
    UintSize = 64
    Second = 2
INVARIANTS
    EndsAtStop
    AcceptedIsConsistent
    OrderOfSubjectsIsFree
    LastDataIsUsed
PROPERTIES
    DoneIsLast
    ScheduleEnds
CHECK_DEADLOCK FALSE
