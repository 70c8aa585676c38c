SPECIFICATION Spec
CONSTANTS
    Accounts <- TheAccounts
    KindOf <- TheKindOf
    Windows = {w1}
    Setups <- OnlyBrightData
    MaxBatch = 2
    MaxPolls = 2
    MaxRetries = 1
    HidesAcceptance <- LostTriggers
    Bad <- NoneBad
INVARIANT
    FailoverBeforeAcceptance
CHECK_DEADLOCK FALSE
