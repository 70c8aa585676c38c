SPECIFICATION MCSpec
CONSTANTS
    Publishers = {p1, p2}
    Posts = {x1, x2}
    MaxCommits = 3
    Statuses <- TheStatuses
    Given <- TheGiven
    Answers <- TheAnswers
    NoTweet = NoTweet
    MaxConcurrent = 2
SYMMETRY Symmetry
INVARIANTS
    LeaseUsedOnce
    ReportedIsPublic
    ReferencesAreRight
PROPERTIES
    DistNeverForgets
    EnrichmentsAreKept
