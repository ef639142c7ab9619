SPECIFICATION MCSpec
CONSTANTS
    right = right
    other = other
    Secret <- MCSecret
    Policy <- MCPolicy
    MaxGeneration = 2
    MaxSeals = 3
    MaxFaults = 2
INVARIANTS HeaderAvailable GuessBound SessionBacked
PROPERTIES ResultTells LimitIsFinal LimitEnforced
