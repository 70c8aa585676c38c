SPECIFICATION MCSpec
CONSTANTS
    Accounts <- TheAccounts
    Posts <- ThePosts
    AccountOf <- TheAccountOf
    PublishedOn <- ThePublishedOn
    Overrides <- TheOverrides
    OverlapDays = 2
    MaxLatency = 1
    MaxGap = 1
    LastDay = 3
    LastInstant = 2
    MaxExcused = 1
INVARIANTS
    NothingMissed
    WatermarksAreHonest
    EachInterruptionCostsOneInstant
    GroupEndsWithWorker
PROPERTIES
    NothingForgotten
    StatusIsHonest
    RunsEnd
