SPECIFICATION Spec
CONSTANTS
    Calls <- MCCalls
    MaxMsgs = 3
INVARIANTS
    SendsWithinLimits
    DrainsOnlyCancelled
    SendersCloseStream
PROPERTY CallReturns
