SPECIFICATION Spec
CONSTANTS
    Calls <- MCBoth
    MaxMsgs = 3
CHECK_DEADLOCK FALSE
PROPERTY CallReturns
