SPECIFICATION Spec
CONSTANTS
    Wrap = 8
    Start = 1
    Complete = 3
    Sites = {"a", "b"}
    MaxTime = 12
INVARIANTS StrictExpires
CHECK_DEADLOCK FALSE
