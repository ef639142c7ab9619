SPECIFICATION Spec
CONSTANTS
    a = a
    b = b
    bad = bad
    Records = 2
    Values <- MCValues
    Encodable <- MCEncodable
    NoValue = NoValue
    MaxSequence = 5
SYMMETRY MCSymmetry
PROPERTIES RefinesDurableState OnlyEraseOrMarkerDenies
