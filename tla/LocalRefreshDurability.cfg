SPECIFICATION FairSpec
CONSTANTS
    Posts = {p1, p2}
    Workers = {w1}
    NoWorker = NoWorker
    NoPost = NoPost
    NoSnapshot = NoSnapshot
    Damaged = Damaged
    Interruptible <- ToleratedSteps
    Failing <- ToleratedErrors
    MaxFaults = 3
INVARIANT
    SavedPostsSurvive
PROPERTIES
    CandidateIsPublished
    SavedIsPublished
