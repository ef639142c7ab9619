SPECIFICATION Spec
CONSTANTS
    a = a
    b = b
    Values <- MCValues
    Unset = Unset
    Stale = Stale
    Junk = Junk
    Blocks = 3
    TagsPerBlock = 2
    BitsPerSector = 2
    MaxBatch = 2
    MaxEvents = 3
SYMMETRY MCSymmetry
INVARIANTS ReadsHonest NeighboursReadable
