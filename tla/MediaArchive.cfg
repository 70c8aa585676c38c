SPECIFICATION MCSpec
CONSTANTS
    Slots = {k1, k2}
    NoSlot = NoSlot
    MaxFailedRuns = 3
    MaxUrl = 2
    Sources = {s1, s2}
    NoUrl = NoUrl
    EmptyUrl = EmptyUrl
    Feeds <- MCFeeds
SYMMETRY Symmetry
INVARIANTS
    BudgetIsFair
    NewestSource
    InputIsCurrent
    EverySlotSettled
    OwnedUrlsAreReused
    RefreshStaysValid
    FreshUrlsAreTaken
PROPERTIES
    FinishedIsKept
    WaitingSlotsStay
