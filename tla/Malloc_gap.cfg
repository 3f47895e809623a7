SPECIFICATION MallocSpec
CONSTANTS
    HEADER = 2
    PageUnits = 4
    Region = 12
    MaxRegions = 1
    Sizes = {1}
    AlignedSizes = {1, 2}
    Aligns = {1, 2}
INVARIANT GapReserved
CHECK_DEADLOCK FALSE
