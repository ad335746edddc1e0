SPECIFICATION Spec
CONSTANTS
    MAXPAGES = 3
    PAGESIZE = 128
    Pointer = 8
    Header = 16
    NoPage = NoPage
    Requests = {r1, r2, r3, r4}
    Sizes = {8, 16, 40, 100, 110, 118, 125}
SYMMETRY Symmetry
INVARIANTS TypeOK NothingLost ListComplete DamageIsBySize
PROPERTIES ImplementsAllocator CrashNeedsLowerPage
CHECK_DEADLOCK FALSE
