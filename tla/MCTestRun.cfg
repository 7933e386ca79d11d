SPECIFICATION FairSpec
CONSTANTS
    Calls <- MCCalls
    TypeOf <- MCTypeOf
    Messages = 1
    Replies = 1
    NConns = 2
    TestLists <- MCTestLists
    ConnOf <- MCConnOf
INVARIANTS
    CountsExact
    PanicOnlyIfLate
    LookupsAgree
PROPERTIES
    ClosedOnce
    CloseReturns
