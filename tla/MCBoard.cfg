SPECIFICATION MCSpec
CONSTANTS
    MaxTime = 5
    TicksPerSecond = 2
    Seconds = {0, 2}
    MaxGeneration = 3
    MaxPresses = 2
    Debounce = 2
    Delay = 2
    MaxPlugs = 4
    Cards = {"x", "y"}
    NoCard = "none"
    Chunks = 2
    MaxMoves = 4
INVARIANTS RenewedByOwnPresses SessionKeepsCard
PROPERTIES DeadlineEnforced EndsOnPreferred
