SPECIFICATION FairSpec
CONSTANTS
    Accounts <- TheAccounts
    KindOf <- TheKindOf
    Windows = {w1}
    Setups <- TheSetups
    MaxBatch = 2
    MaxPolls = 2
    MaxRetries = 1
    HidesAcceptance <- LostApifyStarts
    Bad <- OneBad
INVARIANT
    ChargedOnce
PROPERTIES
    ClientsHonourContract
    RouteEnds
CHECK_DEADLOCK FALSE
