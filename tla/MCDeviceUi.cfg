SPECIFICATION UFairSpec
CONSTANTS
    Entries = 2
    Codes = 2
    WordSteps = 1
    MinLength = 2
    MaxLength = 2
    Algorithms = 2
    MaxStack = 2
    MaxAttempts = 2
    DefaultAttempts = 1
    Durations = 2
    EntryKeys = {"UP", "SELECT", "BACK"}
    MaxPrompts = 2
    Disks <- MCDisks
INVARIANTS JobsAccepted NoSecretLeft FreshInput
PROPERTIES WaitEnds
