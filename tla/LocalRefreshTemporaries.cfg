SPECIFICATION FairSpec
CONSTANTS
    Posts = {p1}
    Workers = {w1}
    NoWorker = NoWorker
    NoPost = NoPost
    NoSnapshot = NoSnapshot
    Damaged = Damaged
    Interruptible <- OnlyStaged
    Failing <- NoStep
    MaxFaults = 2
PROPERTY
    CandidateIsPublished
