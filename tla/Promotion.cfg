SPECIFICATION Spec
CONSTANTS
    Files = {f1, f2}
    Failing = {"discard"}
CHECK_DEADLOCK FALSE
INVARIANT
    PriorKept
