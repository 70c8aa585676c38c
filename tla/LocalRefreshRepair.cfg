SPECIFICATION Spec
CONSTANTS
    Posts = {p1}
    Workers = {w1}
    NoWorker = NoWorker
    NoPost = NoPost
    NoSnapshot = NoSnapshot
    Damaged = Damaged
    Interruptible <- OnlyArchive
    Failing <- NoStep
    MaxFaults = 2
INVARIANT
    RepairsAreRetried
