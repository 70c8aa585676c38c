SPECIFICATION Spec
CONSTANTS
    Posts = {p1, p2}
    Workers = {w1, w2}
    NoWorker = NoWorker
    NoPost = NoPost
    NoSnapshot = NoSnapshot
    Damaged = Damaged
    Interruptible <- EveryStep
    Failing <- EveryStep
    MaxFaults = 2
INVARIANTS
    NoDanglingMedia
    IndexedPostsExist
    CommittedTreeIsWhole
    NoStaleResume
PROPERTIES
    PublicNeverRegresses
    ImplementsRollForward
