SPECIFICATION MCSpec
CONSTANTS
    Accounts <- TheAccounts
    KindOf <- TheKindOf
    Windows = {w1, w2}
    Setups <- TheSetups
    MaxBatch = 2
    Spellings <- TheSpellings
    Records <- TheRecords
    MaxRecords = 2
    LastRun = 2
INVARIANTS
    PaidOnce
    EveryAccountAnswered
    ExhaustedMeansRefused
    BatchSuitsInstance
    OrderDoesNotMatter
PROPERTIES
    DecisionsAreFinal
    PostsKeepTheirIdentity
CHECK_DEADLOCK FALSE
