SPECIFICATION StoreSpec
CONSTANTS
    a = a
    b = b
    Values <- ClientValues
    Blank = Blank
    Policy = Policy
    None = None
    Sectors = 2
    RecordSlots = 3
    CacheSlots = 1
    MaxSequence = 5
    MaxCalls = 4
    MaxFaults = 2
SYMMETRY ValueSymmetry
CHECK_DEADLOCK FALSE
INVARIANTS Atomic ReadsOwnWrites
