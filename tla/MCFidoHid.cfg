SPECIFICATION Spec
CONSTANTS
    Clients = {a, b}
    a = a
    b = b
    Slots = 2
    MaxPieces = 3
    Reports = 2
    MaxSent = 6
    MaxResets = 1
INVARIANTS WholeRequests OwnReplies
PROPERTIES ComesToRest
CHECK_DEADLOCK FALSE
